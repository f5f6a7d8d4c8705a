------------------------------ MODULE Compositor ------------------------------
(***************************************************************************)
(* The compositor (crates/userland/compositor), the proxy it forks for     *)
(* each window, and the clients (crates/userland/testclient) that the      *)
(* proxies start, over the calls of module Calls.  Compositor and proxies  *)
(* share the window slots without a lock.  Pixels and the two fields of a  *)
(* WindowRequest are the words that travel through a pipe; a client's      *)
(* pixel remembers whose it is and which place of the frame it is for.     *)
(***************************************************************************)
EXTENDS Calls

CONSTANTS
    comp,                    \* the compositor's process
    Windows,                 \* 1 .. MAX_WINDOWS
    MAX_WIN_W, MAX_WIN_H,
    Width, Height,           \* of the screen
    Position,                \* where main puts each window: <<x, y>>
    CursorShape,             \* the pixels of CURSOR_BITMAP: <<col, row>>
    ClientPath,
    WindowScenes             \* what the clients ask for, what the mouse does, what
                             \* may fail, and whether the compositor gets to draw

VARIABLES
    windowScene,
    slots,      \* the shared window_slots
    fb,         \* the screen: <<x, y>> to a pixel
    cursor,     \* <<cx, cy>>
    task        \* what each process is doing: the locals of its program

winVars == <<callVars, windowScene, slots, fb, cursor, task>>

Pixel(s, k) == [of |-> "client", window |-> s, place |-> k]
Colour(name) == [of |-> name, window |-> 0, place |-> 0]
BG_COLOR == Colour("background")
CURSOR_COLOR == Colour("cursor")
Black == Colour("black")        \* what mmap's zeroed pages hold
Console == Colour("console")    \* what was on the screen before

Screen == (0 .. Width - 1) \X (0 .. Height - 1)
EmptySlot == [active |-> FALSE, x |-> 0, y |-> 0, w |-> 0, h |-> 0,
              pixels |-> [k \in 0 .. MAX_WIN_W * MAX_WIN_H - 1 |-> Black]]

NoTask == [pc |-> "none", s |-> 1, fds |-> <<>>, client |-> "-1", out |-> <<>>,
           req |-> <<>>, got |-> 0, w |-> 0, h |-> 0]

(* The compositor has been started, by the shell. *)
CompositorInit ==
    /\ windowScene \in WindowScenes
    /\ vfs = initramfs_init(windowScene.archive) /\ mishaps = windowScene.mishaps
    /\ fd_table = [p \in Procs |-> NoFds] /\ pipes = [k \in PipeIds |-> <<>>]
    /\ life = [p \in Procs |-> IF p = comp THEN "live" ELSE "none"]
    /\ parent = [p \in Procs |-> comp]
    /\ slots = [s \in Windows |-> EmptySlot]
    /\ fb = [xy \in Screen |-> Console]
    /\ cursor = <<Width \div 2, Height \div 2>>
    /\ task = [p \in Procs |-> [NoTask EXCEPT !.pc = IF p = comp THEN "map" ELSE "none"]]

Goto(p, pc) == task' = [task EXCEPT ![p].pc = pc]
-----------------------------------------------------------------------------
(* main: fbmap and mmap succeed, or the compositor exits. *)
comp_map ==
    /\ task[comp].pc = "map"
    /\ \/ Goto(comp, "pipe") /\ UNCHANGED callVars
       \/ /\ Mishap /\ Goto(comp, "none")
          /\ life' = [life EXCEPT ![comp] = "zombie"]
          /\ fd_table' = [fd_table EXCEPT ![comp] = NoFds]
          /\ UNCHANGED <<vfs, pipes, parent>>
    /\ UNCHANGED <<slots, fb, cursor>>

(* The next client, or, after the last, the loop. *)
NextClient(locals) ==
    IF locals.s + 1 \in Windows THEN [NoTask EXCEPT !.pc = "pipe", !.s = locals.s + 1]
    ELSE [NoTask EXCEPT !.pc = "paint"]

(* spawn_client.  When fork fails the pipe's two descriptors stay open. *)
spawn_pipe ==
    /\ task[comp].pc = "pipe"
    /\ \/ /\ SYS_pipe(comp)
          /\ task' = [task EXCEPT ![comp].pc = "fork",
                                  ![comp].fds = <<LowFd(comp), NextFd(comp)>>]
       \/ SYS_pipe_fails(comp) /\ task' = [task EXCEPT ![comp] = NextClient(@)]
    /\ UNCHANGED <<slots, fb, cursor>>

spawn_fork ==
    /\ task[comp].pc = "fork"
    /\ \/ \E c \in FreeProcs :
            /\ SYS_fork(comp, c)
            /\ task' = [task EXCEPT ![comp].pc = "close 0", ![c] = [task[comp] EXCEPT !.pc = "start"]]
       \/ SYS_fork_fails /\ task' = [task EXCEPT ![comp] = NextClient(@)]
    /\ UNCHANGED <<slots, fb, cursor>>

spawn_close ==
    /\ \/ /\ task[comp].pc = "close 0" /\ SYS_close(comp, task[comp].fds[1])
          /\ Goto(comp, "close 1")
       \/ /\ task[comp].pc = "close 1" /\ SYS_close(comp, task[comp].fds[2])
          /\ task' = [task EXCEPT ![comp] = NextClient(@)]
    /\ UNCHANGED <<slots, fb, cursor>>
-----------------------------------------------------------------------------
clamp(v, lo, hi) == IF v < lo THEN lo ELSE IF v > hi THEN hi ELSE v

(* One mouse packet is drained, without blocking. *)
comp_mouse(dx, dy) ==
    /\ task[comp].pc = "mouse"
    /\ cursor' = <<clamp(cursor[1] + dx, 0, Width - 1), clamp(cursor[2] - dy, 0, Height - 1)>>
    /\ UNCHANGED <<callVars, slots, fb, task>>

(* None is left: redraw, beginning with the background. *)
paint_background ==
    /\ task[comp].pc \in {"mouse", "paint"} /\ windowScene.draws
    /\ fb' = [xy \in Screen |-> BG_COLOR]
    /\ task' = [task EXCEPT ![comp] = [NoTask EXCEPT !.pc = "blit"]]
    /\ UNCHANGED <<callVars, slots, cursor>>

(* blit_window reads the size of an active slot once ...                   *)
blit_begin ==
    LET s == task[comp].s
    IN /\ task[comp].pc = "blit" /\ s \in Windows
       /\ task' = [task EXCEPT ![comp] =
                     IF slots[s].active
                     THEN [@ EXCEPT !.pc = "pixel", !.w = slots[s].w, !.h = slots[s].h, !.got = 0]
                     ELSE [@ EXCEPT !.s = s + 1]]
       /\ UNCHANGED <<callVars, slots, fb, cursor>>

(* ... and its pixels one by one, clipped to the screen. *)
OnScreen(x, y) == x >= 0 /\ y >= 0 /\ x < Width /\ y < Height

blit_pixel ==
    LET t == task[comp]
        px == slots[t.s].x + (t.got % t.w)
        py == slots[t.s].y + (t.got \div t.w)
    IN /\ t.pc = "pixel"
       /\ IF t.got < t.w * t.h
          THEN /\ fb' = IF OnScreen(px, py) THEN (<<px, py>> :> slots[t.s].pixels[t.got]) @@ fb ELSE fb
               /\ task' = [task EXCEPT ![comp].got = @ + 1]
          ELSE /\ task' = [task EXCEPT ![comp].pc = "blit", ![comp].s = @ + 1]
               /\ UNCHANGED fb
       /\ UNCHANGED <<callVars, slots, cursor>>

draw_cursor ==
    /\ task[comp].pc = "blit" /\ task[comp].s \notin Windows
    /\ LET drawn == {xy \in Screen : \E d \in CursorShape : xy = <<cursor[1] + d[1], cursor[2] + d[2]>>}
       IN fb' = [xy \in Screen |-> IF xy \in drawn THEN CURSOR_COLOR ELSE fb[xy]]
    /\ Goto(comp, "mouse")
    /\ UNCHANGED <<callVars, slots, cursor>>
-----------------------------------------------------------------------------
(* run_proxy forks the client before it touches the pipe. *)
proxy_fork(p) ==
    /\ task[p].pc = "start"
    /\ \/ \E c \in FreeProcs :
            /\ SYS_fork(p, c)
            /\ task' = [task EXCEPT ![p].pc = "handshake", ![p].client = c,
                                    ![c] = [task[p] EXCEPT !.pc = "client 0"]]
       \/ SYS_fork_fails /\ Goto(p, "handshake")
    /\ UNCHANGED <<slots, fb, cursor>>

(* The client's side: its end of the pipe becomes descriptor 3. *)
client_wire(c) ==
    LET fds == task[c].fds
    IN /\ \/ task[c].pc = "client 0" /\ SYS_close(c, fds[1]) /\ Goto(c, "client 1")
          \/ task[c].pc = "client 1" /\ SYS_dup2(c, fds[2], 3) /\ Goto(c, "client 2")
          \/ task[c].pc = "client 2" /\ SYS_close(c, fds[2]) /\ Goto(c, "client 3")
       /\ UNCHANGED <<slots, fb, cursor>>

(* The words testclient sends: its request, and one frame after another. *)
Asked(s) == windowScene.requests[s]
Frame(s) == [k \in 1 .. Asked(s)[1] * Asked(s)[2] |-> Pixel(s, k - 1)]
Sent(s) == Asked(s) \o FlattenSeq([n \in 1 .. windowScene.nframes |-> Frame(s)])

client_exec(c) ==
    /\ task[c].pc = "client 3"
    /\ \/ /\ SYS_execve(ClientPath)
          /\ task' = [task EXCEPT ![c].pc = "send", ![c].out = Sent(task[c].s)]
       \/ SYS_execve_fails(ClientPath) /\ Goto(c, "exit")
    /\ UNCHANGED <<slots, fb, cursor>>

(* testclient's main: a write that falls short ends it. *)
client_send(c) ==
    LET end == fd_table[c][3]
    IN /\ task[c].pc = "send"
       /\ IF task[c].out = <<>> \/ end.type # "FD_PIPE_WRITE" THEN Goto(c, "exit") /\ UNCHANGED callVars
          ELSE IF Broken(end.obj) THEN Goto(c, "exit") /\ UNCHANGED callVars
          ELSE /\ PutByte(end.obj, Head(task[c].out))
               /\ task' = [task EXCEPT ![c].out = Tail(@)]
       /\ UNCHANGED <<slots, fb, cursor>>

(* A client may also find no memory, or be killed at any time. *)
client_dies(c) ==
    /\ task[c].pc = "send" /\ Mishap /\ Goto(c, "exit")
    /\ UNCHANGED <<vfs, fd_table, pipes, life, parent, slots, fb, cursor>>

task_exit(p) ==
    /\ task[p].pc = "exit" /\ SYS_exit(p)
    /\ task' = [task EXCEPT ![p] = [NoTask EXCEPT !.req = task[p].req]]
    /\ UNCHANGED <<slots, fb, cursor>>
-----------------------------------------------------------------------------
(* The proxy closes the write end and reads the request: both words, or it *)
(* gives up.                                                               *)
proxy_handshake(p) ==
    LET k == fd_table[p][task[p].fds[1]].obj
        req == task[p].req
    IN /\ task[p].pc = "handshake"
       /\ IF fd_table[p][task[p].fds[2]] # FD_NONE THEN SYS_close(p, task[p].fds[2]) /\ UNCHANGED task
          ELSE IF Len(req) = 2 THEN Goto(p, "size") /\ UNCHANGED callVars
          ELSE IF AtEof(k) THEN Goto(p, "exit") /\ UNCHANGED callVars
          ELSE TakeByte(k) /\ task' = [task EXCEPT ![p].req = Append(@, Head(pipes[k]))]
       /\ UNCHANGED <<slots, fb, cursor>>

(* Mutant: the window is shown before its place and size are known. *)
proxy_open_early(p) ==
    LET s == task[p].s
        w == Min({task[p].req[1], MAX_WIN_W})
        h == Min({task[p].req[2], MAX_WIN_H})
    IN /\ \/ /\ task[p].pc = "size"
             /\ slots' = [slots EXCEPT ![s].active = TRUE, ![s].w = w, ![s].h = h]
             /\ task' = [task EXCEPT ![p].pc = "show", ![p].w = w, ![p].h = h]
          \/ /\ task[p].pc = "show" /\ Goto(p, "frame")
             /\ slots' = [slots EXCEPT ![s].x = Position[s][1], ![s].y = Position[s][2]]
       /\ UNCHANGED <<callVars, fb, cursor>>

(* The slot's place and size are stored, then its active flag. *)
proxy_open(p) ==
    LET s == task[p].s
        w == Min({task[p].req[1], MAX_WIN_W})
        h == Min({task[p].req[2], MAX_WIN_H})
    IN /\ \/ /\ task[p].pc = "size"
             /\ slots' = [slots EXCEPT ![s].x = Position[s][1], ![s].y = Position[s][2],
                                       ![s].w = w, ![s].h = h]
             /\ task' = [task EXCEPT ![p].pc = "show", ![p].w = w, ![p].h = h]
          \/ /\ task[p].pc = "show" /\ Goto(p, "frame")
             /\ slots' = [slots EXCEPT ![s].active = TRUE]
       /\ UNCHANGED <<callVars, fb, cursor>>

(* Mutant: a frame is as large as the slot, not as the window. *)
FrameWord_slot(got, w, h) == IF got + 1 = MAX_WIN_W * MAX_WIN_H THEN 0 ELSE got + 1

(* How far a frame is when one more word has been stored. *)
FrameWord(got, w, h) == IF got + 1 = w * h THEN 0 ELSE got + 1

(* The frame loop stores each word in its place, until the pipe ends.  A   *)
(* window without pixels reads nothing, not even the end.                  *)
proxy_frame(p) ==
    LET t == task[p]
        k == fd_table[p][t.fds[1]].obj
    IN /\ t.pc = "frame" /\ t.w * t.h > 0
       /\ IF AtEof(k) THEN Goto(p, "hide") /\ UNCHANGED <<callVars, slots>>
          ELSE /\ TakeByte(k)
               /\ slots' = [slots EXCEPT ![t.s].pixels[t.got] = Head(pipes[k])]
               /\ task' = [task EXCEPT ![p].got = FrameWord(t.got, t.w, t.h)]
       /\ UNCHANGED <<fb, cursor>>

(* Mutant: the window stays when its client has gone. *)
proxy_close_shown(p) ==
    /\ \/ task[p].pc = "hide" /\ Goto(p, "close") /\ UNCHANGED <<slots, callVars>>
       \/ /\ task[p].pc = "close" /\ SYS_close(p, task[p].fds[1]) /\ Goto(p, "wait")
          /\ UNCHANGED slots
       \/ task[p].pc = "wait" /\ SYS_wait(p, task[p].client) /\ Goto(p, "exit") /\ UNCHANGED slots
    /\ UNCHANGED <<fb, cursor>>

proxy_close(p) ==
    /\ \/ /\ task[p].pc = "hide" /\ Goto(p, "close")
          /\ slots' = [slots EXCEPT ![task[p].s].active = FALSE] /\ UNCHANGED callVars
       \/ /\ task[p].pc = "close" /\ SYS_close(p, task[p].fds[1]) /\ Goto(p, "wait")
          /\ UNCHANGED slots
       \/ task[p].pc = "wait" /\ SYS_wait(p, task[p].client) /\ Goto(p, "exit") /\ UNCHANGED slots
    /\ UNCHANGED <<fb, cursor>>
-----------------------------------------------------------------------------
StartStep == comp_map \/ spawn_pipe \/ spawn_fork \/ spawn_close

DrawStep ==
    \/ \E move \in windowScene.moves : comp_mouse(move[1], move[2])
    \/ paint_background \/ blit_begin \/ blit_pixel \/ draw_cursor

TaskStep(p) ==
    \/ proxy_fork(p) \/ proxy_handshake(p) \/ proxy_open(p) \/ proxy_frame(p) \/ proxy_close(p)
    \/ client_wire(p) \/ client_exec(p) \/ client_send(p) \/ task_exit(p)

Next ==
    /\ StartStep \/ DrawStep \/ \E p \in Procs \ {comp} : TaskStep(p) \/ client_dies(p)
    /\ UNCHANGED windowScene

(* The compositor gets its clients started, and proxies and clients do not *)
(* all stand still while one of them can run (Scheduler's QueuedRuns).     *)
Spec ==
    /\ CompositorInit /\ [][Next]_winVars
    /\ WF_winVars(UNCHANGED windowScene /\ (StartStep \/ \E p \in Procs \ {comp} : TaskStep(p)))
-----------------------------------------------------------------------------
(* A window's rectangle. *)
Covers(s, xy) ==
    /\ Position[s][1] <= xy[1] /\ xy[1] < Position[s][1] + Min({Asked(s)[1], MAX_WIN_W})
    /\ Position[s][2] <= xy[2] /\ xy[2] < Position[s][2] + Min({Asked(s)[2], MAX_WIN_H})

(* The screen shows what it should: every pixel drawn is on the screen and *)
(* is the background, the cursor, or a pixel of a window that covers it:   *)
(* the slots, which proxies change while they are drawn, never make the    *)
(* compositor draw a window's pixels elsewhere, or one in another's place. *)
(* The cursor does not leave the screen.                                   *)
ScreenSound ==
    /\ DOMAIN fb = Screen /\ cursor \in Screen
    /\ \A xy \in Screen :
         \/ fb[xy] \in {Console, BG_COLOR, CURSOR_COLOR}
         \/ \E s \in Windows : Covers(s, xy) /\ fb[xy] \in {Black} \cup Range(Frame(s))

Fits(s) == Asked(s)[1] <= MAX_WIN_W /\ Asked(s)[2] <= MAX_WIN_H

(* The stream stays in step: if what a client asks for fits, each pixel of *)
(* its frames is stored at its own place of the slot, whichever way the    *)
(* pipe cuts the frames up, until the client's last word.                  *)
FrameSync ==
    \A s \in Windows : Fits(s) => \A k \in DOMAIN slots[s].pixels :
        slots[s].pixels[k] \in {Black, Pixel(s, k)}

(* The windows are taken down in the end: every client is gone, its slot   *)
(* is inactive, its proxy has ended, and, unless the proxy got no request  *)
(* from it, has reaped it.                                                 *)
WindowsClose ==
    <>[](/\ \A s \in Windows : ~slots[s].active
         /\ \A p \in Procs \ {comp} : life[p] # "live"
         /\ \A c \in Procs : life[c] = "zombie" /\ parent[c] # comp => Len(task[parent[c]].req) < 2)
=============================================================================
