------------------------------ MODULE MCUserland ------------------------------
(* Instances of Userland for TLC.                                          *)
EXTENDS Userland

CONSTANTS p1, p2, p3, t1, t2

A == <<"a">>
AB == <<"a", "b">>
B == <<"b">>
S == <<"s">>
C == <<"c">>
L == <<"l">>
Exit == <<"x">>

File(path, data) == [kind |-> "file", path |-> path, data |-> data]
Dir(path) == [kind |-> "dir", path |-> path, data |-> <<>>]
Trailer == [kind |-> "trailer", path |-> <<>>, data |-> <<>>]
Device(path) == [kind |-> "device", path |-> path, data |-> <<>>]

(* Archives: entries in any order and number, one name a prefix of another *)
(* and one name in two directories.                                        *)
SomeEntries ==
    {Dir(<<Dot, B>>), File(<<Dot, B, A>>, <<1>>), File(<<B, AB>>, <<2>>),
     File(<<Dot, A>>, <<3>>), Device(<<Dot, AB, S, C>>)}

Booting ==
    {[archive |-> <<Dir(<<Dot>>)>> \o entries \o <<Trailer>>, lines |-> {}, mishaps |-> 0] :
        entries \in UNION {SetToSeqs(E) : E \in SUBSET SomeEntries}}

Tree ==
    <<File(<<Dot, B, S>>, <<>>), File(<<Dot, B, C>>, <<>>), File(<<Dot, B, L>>, <<>>),
      File(<<A>>, <<1, 2, 3>>), Trailer, File(<<AB>>, <<9>>)>>

(* Pipelines that copy, that end early, and that name what is not there. *)
Copying3 == <<<<C, A>>, <<C>>, <<C>>>>
Others == {<<<<C, A>>, <<C>>>>, <<<<C, A>>, <<L, B>>>>, <<<<L>>, <<AB>>, <<C>>>>, <<<<L, A>>>>, <<<<C, AB>>, <<C>>>>,
            <<<<Exit>>>>, <<<<C>>, <<>>>>, <<<<L>>, <<L>>, <<L>>, <<L>>, <<L>>>>}

Typing == {[archive |-> Tree, lines |-> {Copying3}, mishaps |-> 0],
           [archive |-> Tree, lines |-> Others, mishaps |-> 1]}

AllShellScenes == Booting \cup Typing
AllWords == {A, AB, B, S, C}
=============================================================================
