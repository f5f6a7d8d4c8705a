--------------------------------- MODULE Vfs ---------------------------------
(***************************************************************************)
(* The file tree (fs/vfs.c) and the cpio archive it is built from          *)
(* (fs/initramfs.c).                                                       *)
(*                                                                         *)
(* A path is the sequence of the segments between its slashes, so a double *)
(* or a trailing slash is an empty segment.  A segment is a sequence of    *)
(* letters: names are compared letter by letter up to a given length, and  *)
(* one may be a prefix of another.  A tree is the sequence of its nodes in *)
(* the order of their creation; the list of children of a node, to which   *)
(* vfs_add_child prepends, is its children in descending order.            *)
(***************************************************************************)
EXTENDS Integers, SequencesExt, FiniteSetsExt

CONSTANT NAME_MAX   \* the letters a vfs_node_t has room for: 127

NoNode == 0
Root == 1

vfs_create_node(name, type, data) ==
    [name |-> SubSeq(name, 1, Min({NAME_MAX, Len(name)})), type |-> type,
     parent |-> NoNode, data |-> data]

vfs_add_child(tree, parent, node) == Append(tree, [node EXCEPT !.parent = parent])

init_vfs == <<vfs_create_node(<<>>, "VFS_DIRECTORY", <<>>)>>

(* Mutant: the terminator behind the compared letters is not looked at. *)
Matches_prefix(name, segment) ==
    Len(name) >= Len(segment) /\ SubSeq(name, 1, Len(segment)) = segment

(* strncmp_path over the segment's length, and a NUL right behind it. *)
Matches(name, segment) ==
    /\ Len(name) >= Len(segment) /\ SubSeq(name, 1, Len(segment)) = segment
    /\ Len(name) = Len(segment)

(* The first of a node's children that has the name, if any; an empty      *)
(* segment stays where it is.                                              *)
Child(tree, node, segment) ==
    LET found == {i \in DOMAIN tree : tree[i].parent = node /\ Matches(tree[i].name, segment)}
    IN IF node = NoNode \/ segment = <<>> THEN node
       ELSE IF found = {} THEN NoNode ELSE Max(found)

vfs_find_node(tree, parent, path) ==
    FoldLeft(LAMBDA node, segment : Child(tree, node, segment), parent, path)

(* Walks all but the last segment, adding the directories that are absent. *)
create_directories(tree, path) ==
    FoldLeft(LAMBDA at, segment :
                 LET child == Child(at.tree, at.node, segment)
                 IN IF child # NoNode THEN [at EXCEPT !.node = child]
                    ELSE [tree |-> vfs_add_child(at.tree, at.node,
                                       vfs_create_node(segment, "VFS_DIRECTORY", <<>>)),
                          node |-> Len(at.tree) + 1],
             [tree |-> tree, node |-> Root], Front(path))

Dot == <<".">>

(* "./" in front of a name, as `find .` writes it, is stripped. *)
Stripped(path) == IF Len(path) >= 2 /\ Head(path) = Dot THEN Tail(path) ELSE path

(* An archive entry has a kind, a path and data; a kind other than "dir"   *)
(* and "file" (a device, a link) leaves no node of its own.                *)
AddEntry(tree, entry) ==
    LET path == Stripped(entry.path)
        dir  == create_directories(tree, path)
    IN CASE path = <<Dot>> -> tree
         [] path # <<Dot>> /\ entry.kind = "dir" ->
              IF Child(dir.tree, dir.node, Last(path)) # NoNode THEN dir.tree
              ELSE vfs_add_child(dir.tree, dir.node,
                                 vfs_create_node(Last(path), "VFS_DIRECTORY", <<>>))
         [] path # <<Dot>> /\ entry.kind = "file" ->
              vfs_add_child(dir.tree, dir.node,
                            vfs_create_node(Last(path), "VFS_FILE", entry.data))
         [] OTHER -> dir.tree

(* The entries in front of the trailer, of a bad magic or of the end. *)
Readable(archive) ==
    LET stops == {i \in DOMAIN archive : archive[i].kind \in {"trailer", "bad magic"}}
    IN SubSeq(archive, 1, Min(stops \cup {Len(archive) + 1}) - 1)

initramfs_init(archive) == FoldLeft(AddEntry, init_vfs, Readable(archive))

(* What SYS_readdir lists: the children, newest first, for as long as each *)
(* name, with its newline and a directory's slash, fits the buffer.        *)
SYS_readdir(tree, dir, bufsize) ==
    LET newest == [i \in DOMAIN tree |-> Len(tree) + 1 - i]
        children == SelectSeq(newest, LAMBDA i : tree[i].parent = dir)
        needed(i) == Len(tree[i].name) + IF tree[i].type = "VFS_DIRECTORY" THEN 2 ELSE 1
        written(k) == FoldLeft(LAMBDA sum, i : sum + needed(i), 0, SubSeq(children, 1, k))
        fits == {k \in 0 .. Len(children) : written(k) <= bufsize}
    IN [k \in 1 .. Max(fits) |-> tree[children[k]].name]
=============================================================================
