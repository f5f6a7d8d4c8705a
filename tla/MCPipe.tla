------------------------------- MODULE MCPipe -------------------------------
(* Small instances of PipeWaits: who holds which end, and what each program does. *)
EXTENDS PipeWaits, TLC

CONSTANTS p1, p2, p3, p4

Ends(r, w) == [e \in End |-> IF e = "read" THEN r ELSE w]

(* A process that has nothing to do with the pipe. *)
Bystander == [fds |-> NoFds, calls |-> {}]

Program(fd, call) == [fds |-> fd, calls |-> call]

Scene(a, b, c, d) ==
    [fds   |-> p1 :> a.fds @@ p2 :> b.fds @@ p3 :> c.fds @@ p4 :> d.fds,
     calls |-> p1 :> a.calls @@ p2 :> b.calls @@ p3 :> c.calls @@ p4 :> d.calls]

Reader == Program(Ends(1, 0), {"read"})
Writer == Program(Ends(0, 1), {"write"})

(* Two readers and two writers that never close. *)
Flow == Scene(Reader, Reader, Writer, Writer)

(* Two readers, and two writers that go away: their closes overlap each    *)
(* other, and the first one the writes of the other.                       *)
Eof == Scene(Reader, Reader, Program(Ends(0, 1), {"close"}), Program(Ends(0, 1), {"write", "close"}))

(* Two readers go away while two writers write. *)
Broken == Scene(Program(Ends(1, 0), {"exit"}), Program(Ends(1, 0), {"close"}), Writer, Writer)

(* One process makes the pipe, shares it and drops it; its children keep it. *)
Family == Scene(Program(Ends(1, 1), {"dup", "dup2", "close", "fork", "exit"}),
                Program(NULL, {"dup", "fork"}), Program(NULL, {}), Bystander)

AllScenes == {Flow, Eof, Broken, Family}

(* Behaviours are followed up to the first crossing. *)
Uncrossed == ~ crossed

(* Two readers, and two writers that do nothing but close. *)
CloserScenes == {Scene(Reader, Reader, Program(Ends(0, 1), {"close"}), Program(Ends(0, 1), {"close"}))}

(* A reader and a writer that both hang up. *)
HangupScenes == {Scene(Program(Ends(1, 0), {"read", "close"}),
                       Program(Ends(0, 1), {"write", "close"}), Bystander, Bystander)}
=============================================================================
