-------------------------------- MODULE Shell --------------------------------
(***************************************************************************)
(* The shell (userland/sh.c) and the programs of its pipelines (cat.c,     *)
(* ls.c), over the calls of module Calls, from the mounting of the file    *)
(* tree on.  A stage of a command line is the sequence of its tokens.      *)
(***************************************************************************)
EXTENDS Calls

CONSTANTS
    sh,              \* the process that spawn_initial_processes creates
    ShellScenes,     \* each an archive to boot from and the lines typed in
    MAX_STAGES, MAX_ARGS,
    CatBuf, LsBuf,   \* the buffers of cat and of ls
    Bin, CatName, LsName, ShName, ExitName

VARIABLES
    shellScene,
    at,         \* what each process is doing: the locals of its program
    screen,     \* auxiliary: what the line's programs have written on the console
    mishap      \* auxiliary: what failed while the line was run

shellVars == <<callVars, shellScene, at, screen, mishap>>

Idle == [pc |-> "none", i |-> 1, j |-> 1, line |-> <<>>, fds |-> <<>>, pids |-> <<>>, buf |-> <<>>, fd |-> 0]

NoMishap == [pipe |-> FALSE, fork |-> {}, exec |-> {}]
NoPid == "-1"

(* The kernel before mount_initramfs. *)
ShellInit ==
    /\ shellScene \in ShellScenes
    /\ vfs = <<>> /\ mishaps = shellScene.mishaps
    /\ fd_table = [p \in Procs |-> NoFds] /\ pipes = [k \in PipeIds |-> <<>>]
    /\ life = [p \in Procs |-> "none"] /\ parent = [p \in Procs |-> sh]
    /\ at = [p \in Procs |-> Idle]
    /\ screen = <<>> /\ mishap = NoMishap

mount_initramfs ==
    /\ vfs = <<>> /\ vfs' = initramfs_init(shellScene.archive)
    /\ UNCHANGED <<fd_table, pipes, life, parent, mishaps, at, screen, mishap>>

spawn_initial_processes ==
    /\ vfs # <<>> /\ at[sh].pc = "none" /\ IsFile(<<Bin, ShName>>)
    /\ life' = [life EXCEPT ![sh] = "live"]
    /\ at' = [at EXCEPT ![sh].pc = "prompt"]
    /\ UNCHANGED <<vfs, fd_table, pipes, parent, mishaps, screen, mishap>>
-----------------------------------------------------------------------------
(* A process goes on with the given locals. *)
Become(p, locals) == at' = [at EXCEPT ![p] = locals]
Goto(p, pc) == at' = [at EXCEPT ![p].pc = pc]

nstages(p) == Len(at[p].line)
Argv(p) == at[p].line[at[p].i]
PipeFds(p) == FlattenSeq(at[p].fds)

(* The line, split at "|" into at most MAX_STAGES stages of at most        *)
(* MAX_ARGS tokens.                                                        *)
Stages(typed) == [i \in 1 .. Min({Len(typed), MAX_STAGES}) |->
                     SubSeq(typed[i], 1, Min({Len(typed[i]), MAX_ARGS}))]

(* An empty line changes nothing, and neither does a blank stage, which is *)
(* a syntax error; "exit" is built in.                                     *)
sh_line(typed) ==
    LET line == Stages(typed)
        exits == Len(line) = 1 /\ line[1][1] = ExitName
    IN /\ at[sh].pc = "prompt"
       /\ line # <<>> /\ \A i \in DOMAIN line : line[i] # <<>>
       /\ \/ /\ ~exits /\ Become(sh, [Idle EXCEPT !.pc = "pipe", !.line = line])
             /\ screen' = <<>> /\ mishap' = NoMishap /\ UNCHANGED callVars
          \/ exits /\ SYS_exit(sh) /\ Goto(sh, "exited") /\ UNCHANGED <<screen, mishap>>

sh_pipe ==
    /\ at[sh].pc = "pipe" /\ Len(at[sh].fds) < nstages(sh) - 1
    /\ \/ /\ SYS_pipe(sh)
          /\ at' = [at EXCEPT ![sh].fds = Append(@, <<LowFd(sh), NextFd(sh)>>)]
          /\ UNCHANGED mishap
       \/ /\ SYS_pipe_fails(sh)
          /\ Goto(sh, "close") /\ mishap' = [mishap EXCEPT !.pipe = TRUE]
    /\ UNCHANGED screen

(* fork copies the shell's memory: the child knows the line, the           *)
(* descriptors of the pipes and its place in the pipeline.                 *)
sh_fork ==
    /\ at[sh].pc = "pipe" /\ Len(at[sh].fds) = nstages(sh) - 1
    /\ Len(at[sh].pids) < nstages(sh)
    /\ LET i == Len(at[sh].pids) + 1
       IN \/ \E c \in FreeProcs :
               /\ SYS_fork(sh, c)
               /\ at' = [at EXCEPT ![sh].pids = Append(@, c),
                                   ![c] = [at[sh] EXCEPT !.pc = "stdin", !.i = i]]
               /\ UNCHANGED mishap
          \/ /\ SYS_fork_fails
             /\ at' = [at EXCEPT ![sh].pids = Append(@, NoPid)]
             /\ mishap' = [mishap EXCEPT !.fork = @ \cup {i}]
    /\ UNCHANGED screen

Forked == at[sh].pc = "pipe" /\ Len(at[sh].pids) = nstages(sh)

(* The shell closes every descriptor of its pipes: when all stages are     *)
(* forked, or those made before pipe() failed.                             *)
sh_close ==
    /\ \/ Forked /\ Goto(sh, "close") /\ UNCHANGED callVars
       \/ /\ at[sh].pc = "close"
          /\ IF at[sh].j <= Len(PipeFds(sh))
             THEN SYS_close(sh, PipeFds(sh)[at[sh].j]) /\ at' = [at EXCEPT ![sh].j = @ + 1]
             ELSE /\ Goto(sh, IF mishap.pipe THEN "prompt" ELSE "wait")
                  /\ UNCHANGED callVars
    /\ UNCHANGED <<screen, mishap>>

sh_wait ==
    LET pid == at[sh].pids[at[sh].i]
    IN /\ at[sh].pc = "wait"
       /\ IF at[sh].i > Len(at[sh].pids) THEN Goto(sh, "prompt") /\ UNCHANGED callVars
          ELSE /\ at' = [at EXCEPT ![sh].i = @ + 1]
               /\ IF pid = NoPid THEN UNCHANGED callVars ELSE SYS_wait(sh, pid)
       /\ UNCHANGED <<screen, mishap>>
-----------------------------------------------------------------------------
(* run_stage: the neighbours' pipes become descriptors 0 and 1. *)
stage_stdin(p) ==
    /\ at[p].pc = "stdin" /\ Goto(p, "stdout")
    /\ IF at[p].i > 1 THEN SYS_dup2(p, at[p].fds[at[p].i - 1][1], 0) ELSE UNCHANGED callVars
    /\ UNCHANGED <<screen, mishap>>

stage_stdout(p) ==
    /\ at[p].pc = "stdout" /\ Goto(p, "drop")
    /\ IF at[p].i < nstages(p) THEN SYS_dup2(p, at[p].fds[at[p].i][2], 1) ELSE UNCHANGED callVars
    /\ UNCHANGED <<screen, mishap>>

(* Mutant: only the ends that the stage uses itself are closed. *)
stage_close_own(p) ==
    LET own == FlattenSeq(SubSeq(at[p].fds, Max({1, at[p].i - 1}), Min({at[p].i, nstages(p) - 1})))
    IN /\ at[p].pc = "drop"
       /\ IF at[p].j <= Len(own)
          THEN SYS_close(p, own[at[p].j]) /\ at' = [at EXCEPT ![p].j = @ + 1]
          ELSE Goto(p, "exec") /\ UNCHANGED callVars
       /\ UNCHANGED <<screen, mishap>>

(* Every descriptor of every pipe is closed. *)
stage_close(p) ==
    /\ at[p].pc = "drop"
    /\ IF at[p].j <= Len(PipeFds(p))
       THEN SYS_close(p, PipeFds(p)[at[p].j]) /\ at' = [at EXCEPT ![p].j = @ + 1]
       ELSE Goto(p, "exec") /\ UNCHANGED callVars
    /\ UNCHANGED <<screen, mishap>>

(* A program starts, or the stage prints that there is none and exits. *)
stage_exec(p) ==
    LET path == <<Bin, Argv(p)[1]>>
    IN /\ at[p].pc = "exec"
       /\ \/ SYS_execve(path) /\ Goto(p, "main") /\ UNCHANGED mishap
          \/ /\ SYS_execve_fails(path)
             /\ at' = [at EXCEPT ![p].pc = "last words", ![p].buf = <<"sh: not found">>]
             /\ mishap' = [mishap EXCEPT !.exec = @ \cup {at[p].i}]
       /\ UNCHANGED screen
-----------------------------------------------------------------------------
(* What ls prints. *)
Listing(argv) ==
    LET dir == vfs_find_node(vfs, Root, IF Len(argv) > 1 THEN <<argv[2]>> ELSE <<>>)
    IN IF dir # NoNode /\ vfs[dir].type = "VFS_DIRECTORY" THEN SYS_readdir(vfs, dir, LsBuf)
       ELSE <<"ls: no directory">>

(* ls, and cat up to its loop. *)
program_main(p) ==
    /\ at[p].pc = "main"
    /\ \/ /\ Argv(p)[1] = LsName
          /\ at' = [at EXCEPT ![p].pc = "last words", ![p].buf = Listing(Argv(p))]
          /\ UNCHANGED callVars
       \/ /\ Argv(p)[1] = CatName /\ Len(Argv(p)) = 1
          /\ Goto(p, "read") /\ UNCHANGED callVars
       \/ /\ Argv(p)[1] = CatName /\ Len(Argv(p)) > 1
          /\ \/ /\ SYS_open(p, <<Argv(p)[2]>>)
                /\ at' = [at EXCEPT ![p].pc = "read", ![p].fd = LowFd(p)]
             \/ /\ SYS_open_fails(p, <<Argv(p)[2]>>)
                /\ at' = [at EXCEPT ![p].pc = "last words", ![p].buf = <<"cat: no file">>]
    /\ UNCHANGED <<screen, mishap>>

(* read fills the buffer, or as much of it as there is before the end.     *)
(* The keyboard, which a first stage without a file reads from, has none.  *)
cat_read(p) ==
    LET entry == fd_table[p][at[p].fd]
        data == vfs[entry.obj].data
        n == Min({CatBuf, Len(data) - entry.offset})
    IN /\ at[p].pc = "read"
       /\ \/ /\ entry.type = "FD_VFS"
             /\ at' = [at EXCEPT ![p].pc = IF n = 0 THEN "finish" ELSE "write",
                                 ![p].buf = SubSeq(data, entry.offset + 1, entry.offset + n)]
             /\ SetFd(p, at[p].fd, [entry EXCEPT !.offset = @ + n])
             /\ UNCHANGED <<vfs, pipes, life, parent, mishaps>>
          \/ /\ entry.type = "FD_PIPE_READ"
             /\ IF Len(at[p].buf) < CatBuf /\ ~AtEof(entry.obj)
                THEN /\ TakeByte(entry.obj)
                     /\ at' = [at EXCEPT ![p].buf = Append(@, Head(pipes[entry.obj]))]
                ELSE /\ Goto(p, IF at[p].buf = <<>> THEN "finish" ELSE "write")
                     /\ UNCHANGED callVars
       /\ UNCHANGED <<screen, mishap>>

(* write to the console, or to the pipe on descriptor 1 until all bytes    *)
(* are in it or nobody is left to read them; what it returns is ignored.   *)
program_write(p) ==
    LET out == fd_table[p][1]
    IN /\ at[p].pc \in {"write", "last words"}
       /\ \/ /\ out.type # "FD_PIPE_WRITE" /\ at[p].buf # <<>>
             /\ screen' = screen \o at[p].buf
             /\ at' = [at EXCEPT ![p].buf = <<>>] /\ UNCHANGED callVars
          \/ /\ out.type = "FD_PIPE_WRITE" /\ at[p].buf # <<>>
             /\ IF Broken(out.obj) THEN at' = [at EXCEPT ![p].buf = <<>>] /\ UNCHANGED callVars
                ELSE PutByte(out.obj, Head(at[p].buf)) /\ at' = [at EXCEPT ![p].buf = Tail(@)]
             /\ UNCHANGED screen
          \/ /\ at[p].buf = <<>>
             /\ Goto(p, IF at[p].pc = "write" THEN "read" ELSE "exit")
             /\ UNCHANGED <<callVars, screen>>
       /\ UNCHANGED mishap

cat_finish(p) ==
    /\ at[p].pc = "finish" /\ Goto(p, "exit")
    /\ IF at[p].fd # 0 THEN SYS_close(p, at[p].fd) ELSE UNCHANGED callVars
    /\ UNCHANGED <<screen, mishap>>

program_exit(p) ==
    /\ at[p].pc = "exit" /\ SYS_exit(p)
    /\ Become(p, Idle) /\ UNCHANGED <<screen, mishap>>
-----------------------------------------------------------------------------
ShellStep == sh_pipe \/ sh_fork \/ sh_close \/ sh_wait

StageStep(p) ==
    \/ stage_stdin(p) \/ stage_stdout(p) \/ stage_close(p) \/ stage_exec(p)
    \/ program_main(p) \/ cat_read(p) \/ program_write(p) \/ cat_finish(p) \/ program_exit(p)

ShellNext ==
    /\ \/ mount_initramfs \/ spawn_initial_processes
       \/ \E typed \in shellScene.lines : sh_line(typed)
       \/ ShellStep
       \/ \E p \in Procs \ {sh} : StageStep(p)
    /\ UNCHANGED shellScene

(* The CPU does not idle while a process can run; nobody has to type. *)
ShellFairness == WF_shellVars(UNCHANGED shellScene /\ (ShellStep \/ \E p \in Procs \ {sh} : StageStep(p)))

-----------------------------------------------------------------------------
Programs == {"main", "read", "write", "finish", "exit"}

(* A pipeline's descriptors are where they belong.  A program of stage i   *)
(* holds the read end of pipe i - 1 as its input, the write end of pipe i  *)
(* as its output, and no other end; and once the shell prompts again no    *)
(* end of any pipe is left, nor any child, whichever call has failed.      *)
EndsSound ==
    /\ \A p \in Procs \ {sh} : at[p].pc \in Programs =>
         LET i == at[p].i
             held == {f \in DOMAIN fd_table[p] : fd_table[p][f].type \notin {"FD_NONE", "FD_VFS"}}
         IN /\ held = {f \in {0} : i > 1} \cup {f \in {1} : i < nstages(p)}
            /\ i > 1 => fd_table[p][0] = FD_PIPE_READ(i - 1)
            /\ i < nstages(p) => fd_table[p][1] = FD_PIPE_WRITE(i)
    /\ at[sh].pc = "prompt" => FreePipes = PipeIds /\ FreeProcs = Procs \ {sh}

(* What a stage adds to a pipeline, given what comes out of the ones       *)
(* before it: cat copies, the others do not look at their input.           *)
Meaning(argv, i, input) ==
    IF i \in mishap.fork THEN <<>>
    ELSE IF i \in mishap.exec THEN <<"sh: not found">>
    ELSE IF argv[1] = LsName THEN Listing(argv)
    ELSE IF Len(argv) = 1 THEN input
    ELSE IF IsFile(<<argv[2]>>) THEN vfs[vfs_find_node(vfs, Root, <<argv[2]>>)].data
    ELSE <<"cat: no file">>

PipelineMeaning(line) ==
    LET out[i \in 0 .. Len(line)] == IF i = 0 THEN <<>> ELSE Meaning(line[i], i, out[i - 1])
    IN out[Len(line)]

(* When the shell prompts again, the console shows the last stage's output *)
(* as if each stage had run to its end before the next began: no byte is   *)
(* lost, repeated or reordered, however the stages are interleaved and     *)
(* whichever of them were cut short, could not be forked or not be found.  *)
PipelineOutput ==
    at[sh].pc = "prompt" /\ at[sh].line # <<>> =>
        screen = IF mishap.pipe THEN <<>> ELSE PipelineMeaning(at[sh].line)

(* The shell comes back with its prompt from every line. *)
PromptReturns == at[sh].pc = "pipe" ~> at[sh].pc = "prompt"
=============================================================================
