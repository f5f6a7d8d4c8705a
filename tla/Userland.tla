------------------------------- MODULE Userland -------------------------------
(* User processes at the kernel's door: the shell's pipelines, from the    *)
(* mounting of the file tree on, and the traps by which any process enters *)
(* the kernel.  The two are independent views; a behaviour shows one.      *)
EXTENDS Shell, Traps

CONSTANT Words   \* the segments that paths are looked up with

VARIABLE view

userVars == <<view, shellVars, trapVars>>

Init ==
    /\ ShellInit /\ TrapsInit /\ view \in {"shell", "traps"}
    /\ view = "traps" => shellScene = CHOOSE s \in ShellScenes : TRUE

Next ==
    /\ \/ view = "shell" /\ ShellNext /\ UNCHANGED trapVars
       \/ view = "traps" /\ TrapsNext /\ UNCHANGED shellVars
    /\ UNCHANGED view

Spec == Init /\ [][Next]_userVars /\ ShellFairness
-----------------------------------------------------------------------------
(* The paths that an archive's entries have in the tree. *)
Entries == {[e EXCEPT !.path = Stripped(e.path)] : e \in Range(Readable(shellScene.archive))}

Paths == {<<>>} \cup UNION {[1 .. n -> Words] : n \in 1 .. 3}

FilesAt(path) == {e \in Entries : e.kind = "file" /\ e.path = path}
IsDirectory(path) ==
    \/ path = <<>>
    \/ \E e \in Entries : IsStrictPrefix(path, e.path) \/ (e.kind = "dir" /\ e.path = path)

(* The mounted tree is the archive's: whatever the order of its entries,   *)
(* and whether a directory has an entry of its own or only entries below   *)
(* it, every file is found under its path with its own data, every         *)
(* directory is found once, nothing else is found, and redundant slashes   *)
(* make no difference.                                                     *)
LookupExact ==
    vfs # <<>> /\ at[sh].pc = "none" => \A path \in Paths :
        LET node == vfs_find_node(vfs, Root, path)
        IN /\ node # NoNode <=> FilesAt(path) # {} \/ IsDirectory(path)
           /\ FilesAt(path) # {} =>
                vfs[node].type = "VFS_FILE" /\ \E e \in FilesAt(path) : vfs[node].data = e.data
           /\ IsDirectory(path) => vfs[node].type = "VFS_DIRECTORY"
           /\ vfs_find_node(vfs, Root, <<<<>>>> \o path \o <<<<>>, <<>>>>) = node
=============================================================================
