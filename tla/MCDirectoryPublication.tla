----------------------- MODULE MCDirectoryPublication -----------------------
(* Two passes over two netuids: the second pass has lost a uid of the first *)
(* netuid and is the first one that sees the second netuid.                 *)
EXTENDS DirectoryPublication

MCMembers ==
    << [k \in Netuids |-> IF k = "n1" THEN Uids ELSE {}],
       [k \in Netuids |-> IF k = "n1" THEN {1} ELSE Uids] >>
=============================================================================
