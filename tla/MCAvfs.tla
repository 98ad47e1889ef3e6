------------------------------- MODULE MCAvfs --------------------------------
(* AVFS with small path sets.                                              *)
EXTENDS Avfs

Abs(parts) == [abs |-> TRUE, parts |-> parts]
Rel(parts) == [abs |-> FALSE, parts |-> parts]

NoPaths == {}

\* Two files in the root.
FlatFiles == {Abs(<<"a">>), Abs(<<"b">>)}

\* A directory d with a subdirectory e: d/a, d/e/a and d/e/y, two of them also
\* reached from within d, which cd enters and leaves.
TreeFiles == {Abs(<<"d", "a">>), Abs(<<"d", "e", "a">>), Abs(<<"d", "e", "y">>),
              Rel(<<"..", "d", "a">>), Rel(<<"e", "a">>)}
TreeDirs == {Abs(<<"d">>), Abs(<<"d", "e">>)}
TreeChdirs == {Abs(<<"d">>), Rel(<<"..">>)}
TreeRm == {Abs(<<"d">>), Rel(<<"e">>)}

\* The same name used for a file and for a directory.
MixedFiles == {Abs(<<"d">>), Abs(<<"d", "a">>)}

\* rm -r . with the root as the current directory
DotRm == {Rel(<<".">>)}

\* For the statements the code does not keep.
KnownFiles == TreeFiles \cup MixedFiles
KnownRm == TreeRm \cup DotRm

\* Both: programs that write the two files in the root while there is no
\* directory, and a user who works in the tree, on files without bytes, beside
\* an empty file a in the root (and then himself in the root): rm -r d with a
\* subdirectory e, whose listing goes over that of d, then meets names that are
\* also outside d.
UserFiles == FlatFiles \cup (TreeFiles \ {Rel(<<"e", "a">>)})

TreeBesideFile ==
  (\E i \in Indices \ {0} : files[i].used /\ files[i].type = "dir")
    => /\ \A i \in Indices : files[i].used /\ files[i].type = "file"
                             => /\ files[i].size = 0
                                /\ files[i].parent = 0 => files[i].name = "a" /\ current_dir = <<>>
       /\ \A k \in DOMAIN data : data[k] = 0

NoBuffers == {}
ThreeBytes == {<<1>>, <<1, 0, 1>>}
==============================================================================
