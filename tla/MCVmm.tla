-------------------------------- MODULE MCVmm --------------------------------
(* Instances of Vmm for TLC.  An address space is one page of image, one   *)
(* for the break and one or two for mmap.                                  *)
EXTENDS Vmm

Private == <<1, TRUE, FALSE>>
Shareable == <<1, TRUE, TRUE>>
Pair == <<2, TRUE, FALSE>>

Scene(calls, mmaps, stores, pids, top, frames) ==
    [calls |-> calls, mmaps |-> mmaps, stores |-> stores,
     pids |-> pids, top |-> top, frames |-> frames]

(* Three generations of processes that fork and store. *)
Generations == Scene({"fork"}, {}, {0, 1}, 3, 3, Frames)

(* Parent and child with a mapping of two pages: frames for both of them,  *)
(* and so few that a mapping can fail half way.                            *)
Mapping == Scene({"fork", "mmap", "munmap"}, {Pair}, {0}, 2, 4, 11)
Cramped == Scene({"fork", "mmap", "munmap"}, {Private, Pair}, {1}, 2, 4, 9)

(* Threads and children, with mappings that come and go. *)
Sharing == Scene({"fork", "clone", "mmap", "munmap"}, {Private, Shareable}, {1}, 2, 3, Frames)

(* New images and the framebuffer. *)
Images == Scene({"fork", "execve", "munmap", "fbmap"}, {}, {1}, 2, 3, Frames)

(* Seven frames for three processes. *)
Starved == Scene({"fork", "execve", "brk", "shrink"}, {}, {1}, 3, 3, 7)

(* And seven for three threads or children with mappings of two pages. *)
StarvedThreads == Scene({"fork", "clone", "mmap"}, {Pair}, {1}, 3, 4, 7)

AllScenes == {Generations, Mapping, Cramped, Sharing, Images, Starved, StarvedThreads}

ThreadExecScenes == {Scene({"clone", "execve"}, {}, {0}, 2, 3, Frames)}
=============================================================================
