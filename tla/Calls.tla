-------------------------------- MODULE Calls --------------------------------
(***************************************************************************)
(* The process and descriptor calls as programs see them: fd_table, pipes  *)
(* as bounded queues, fork, execve, exit and wait.  A call is one step;    *)
(* one that blocks is a step that is not enabled.  The wait queues,        *)
(* reference counts and preemptions behind it are the subject of Pipe and  *)
(* Scheduler: here the number of openers of a pipe's end is the number of  *)
(* descriptors that refer to it (Pipe's RefsExact), and a process that can *)
(* go on is woken (Pipe's NoLostWakeup).                                   *)
(***************************************************************************)
EXTENDS Vfs

CONSTANTS
    Procs,           \* process_t slots
    PipeIds,         \* pipe_t slots, as far as memory reaches
    MAX_FDS,
    PIPE_BUF_SIZE

ASSUME CallsAssumption ==
    /\ IsFiniteSet(Procs) /\ IsFiniteSet(PipeIds) /\ PipeIds \subseteq Nat
    /\ MAX_FDS \in Nat /\ MAX_FDS > 4 /\ PIPE_BUF_SIZE \in Nat \ {0}
    /\ NAME_MAX \in Nat \ {0}

VARIABLES
    vfs,        \* the file tree
    fd_table,   \* of each process
    pipes,      \* the bytes in each pipe
    life,       \* "none", "live" or "zombie" (PROCESS_DEAD, not yet reaped)
    parent,
    mishaps     \* calls that may still fail for want of memory

callVars == <<vfs, fd_table, pipes, life, parent, mishaps>>

FD_NONE == [type |-> "FD_NONE", obj |-> 0, offset |-> 0]
FD_PIPE_READ(k) == [type |-> "FD_PIPE_READ", obj |-> k, offset |-> 0]
FD_PIPE_WRITE(k) == [type |-> "FD_PIPE_WRITE", obj |-> k, offset |-> 0]
FD_VFS(node) == [type |-> "FD_VFS", obj |-> node, offset |-> 0]

NoFds == [f \in 0 .. MAX_FDS - 1 |-> FD_NONE]

Holders(end) == {p \in Procs : \E f \in DOMAIN fd_table[p] : fd_table[p][f] = end}
Openers(k) == Holders(FD_PIPE_READ(k)) \cup Holders(FD_PIPE_WRITE(k))

FreePipes == {k \in PipeIds : Openers(k) = {}}
FreeProcs == {p \in Procs : life[p] = "none"}

(* The descriptors that SYS_open, SYS_pipe and SYS_dup hand out: the       *)
(* lowest free one from 3 on, and the lowest above that.                   *)
FreeFds(p) == {f \in 3 .. MAX_FDS - 1 : fd_table[p][f] = FD_NONE}
LowFd(p) == Min(FreeFds(p))
NextFd(p) == Min(FreeFds(p) \ {LowFd(p)})

SetFd(p, f, entry) == fd_table' = [fd_table EXCEPT ![p][f] = entry]

(* A call that needs memory finds none. *)
Mishap == mishaps > 0 /\ mishaps' = mishaps - 1
-----------------------------------------------------------------------------
(* SYS_pipe puts the two ends of a new, empty pipe on the two lowest free  *)
(* descriptors.                                                            *)
CanPipe(p) == Cardinality(FreeFds(p)) >= 2 /\ FreePipes # {}

SYS_pipe(p) ==
    LET k == Min(FreePipes)
    IN /\ CanPipe(p)
       /\ fd_table' = [fd_table EXCEPT ![p][LowFd(p)] = FD_PIPE_READ(k),
                                       ![p][NextFd(p)] = FD_PIPE_WRITE(k)]
       /\ pipes' = [pipes EXCEPT ![k] = <<>>]
       /\ UNCHANGED <<vfs, life, parent, mishaps>>

SYS_pipe_fails(p) ==
    /\ \/ ~CanPipe(p) /\ UNCHANGED mishaps
       \/ Mishap
    /\ UNCHANGED <<vfs, fd_table, pipes, life, parent>>

IsFile(path) ==
    LET node == vfs_find_node(vfs, Root, path)
    IN node # NoNode /\ vfs[node].type = "VFS_FILE"

SYS_open(p, path) ==
    /\ IsFile(path) /\ FreeFds(p) # {}
    /\ SetFd(p, LowFd(p), FD_VFS(vfs_find_node(vfs, Root, path)))
    /\ UNCHANGED <<vfs, pipes, life, parent, mishaps>>

SYS_open_fails(p, path) == ~(IsFile(path) /\ FreeFds(p) # {}) /\ UNCHANGED callVars

(* Descriptors below 3 are not closed. *)
SYS_close(p, f) ==
    /\ IF f >= 3 THEN SetFd(p, f, FD_NONE) ELSE UNCHANGED fd_table
    /\ UNCHANGED <<vfs, pipes, life, parent, mishaps>>

SYS_dup2(p, oldfd, newfd) ==
    /\ IF fd_table[p][oldfd] = FD_NONE THEN UNCHANGED fd_table
       ELSE SetFd(p, newfd, fd_table[p][oldfd])
    /\ UNCHANGED <<vfs, pipes, life, parent, mishaps>>

SYS_fork(p, c) ==
    /\ FreeProcs # {} /\ c = CHOOSE x \in FreeProcs : TRUE
    /\ life' = [life EXCEPT ![c] = "live"]
    /\ parent' = [parent EXCEPT ![c] = p]
    /\ fd_table' = [fd_table EXCEPT ![c] = fd_table[p]]
    /\ UNCHANGED <<vfs, pipes, mishaps>>

SYS_fork_fails == Mishap /\ UNCHANGED <<vfs, fd_table, pipes, life, parent>>

(* load_elf_into_new_pagetable asks for a regular file (an ELF one: all    *)
(* files of /bin are); exec_process keeps the descriptors.                 *)
SYS_execve(path) == IsFile(path) /\ UNCHANGED callVars

SYS_execve_fails(path) ==
    /\ \/ ~IsFile(path) /\ UNCHANGED mishaps
       \/ Mishap
    /\ UNCHANGED <<vfs, fd_table, pipes, life, parent>>

(* process_release_fds closes what is open. *)
SYS_exit(p) ==
    /\ life' = [life EXCEPT ![p] = "zombie"]
    /\ fd_table' = [fd_table EXCEPT ![p] = NoFds]
    /\ UNCHANGED <<vfs, pipes, parent, mishaps>>

(* wait for a given child: it is reaped, or there is none of that name. *)
SYS_wait(p, c) ==
    /\ life[c] = "zombie" /\ parent[c] = p
    /\ life' = [life EXCEPT ![c] = "none"]
    /\ UNCHANGED <<vfs, fd_table, pipes, parent, mishaps>>
-----------------------------------------------------------------------------
(* Mutant: an empty pipe is taken for a finished one. *)
AtEof_when_empty(k) == pipes[k] = <<>>

(* Mutant: the end is seen only when the pipe has no reader either. *)
AtEof_when_unused(k) == pipes[k] = <<>> /\ Openers(k) = {}

(* pipe_read sees the end: the pipe is empty and nobody can fill it. *)
AtEof(k) == pipes[k] = <<>> /\ Holders(FD_PIPE_WRITE(k)) = {}

(* One byte read or written, with interrupts off; pipe_read and pipe_write *)
(* go on until all is transferred, or the other end is gone.               *)
TakeByte(k) ==
    /\ pipes[k] # <<>> /\ pipes' = [pipes EXCEPT ![k] = Tail(@)]
    /\ UNCHANGED <<vfs, fd_table, life, parent, mishaps>>

PutByte(k, byte) ==
    /\ Holders(FD_PIPE_READ(k)) # {} /\ Len(pipes[k]) < PIPE_BUF_SIZE
    /\ pipes' = [pipes EXCEPT ![k] = Append(@, byte)]
    /\ UNCHANGED <<vfs, fd_table, life, parent, mishaps>>

Broken(k) == Holders(FD_PIPE_READ(k)) = {}
=============================================================================
