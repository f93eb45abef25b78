------------------------------ MODULE MCHistory ------------------------------
(* A project of one file, one folder with a file in it and an ignored file. *)
EXTENDS History

CONSTANT v0, v1, v2, crlf

A == <<"a">>
B == <<"b">>
X == <<"x">>
D == <<"d">>
DA == <<"d", "a">>
E == <<"e">>
EA == <<"e", "a">>

MCPaths == {A, B, X, D, DA, E, EA}
MCTexts == {v0, v1, v2}
MCRaw == {crlf}
MCDecode == [t \in MCTexts \cup MCRaw |-> IF t = crlf THEN v1 ELSE t]
MCIgnored == {X}

MCInitTrees ==
    {[p \in MCPaths |-> CASE p = A -> crlf [] p = D -> Dir
                          [] p = DA -> v2 [] p = X -> v1 [] OTHER -> Absent]}

\* Writes, creations and moves that touch one another in every way: the same
\* file, a file and its folder, both ends of a move.
FileScripts == {
    <<Write(A, v2)>>,
    <<Write(DA, v0)>>,
    <<Move(A, B, FALSE)>>,
    <<Move(DA, EA, FALSE)>>,
    <<Create(E, TRUE)>>,
    <<Create(B, FALSE), Write(B, v2)>>,
    <<Write(X, v2)>> }

\* One of each kind, for the runs in which calls fail.
FaultScripts == {
    <<Write(X, v2)>>, <<Move(D, E, TRUE), Write(EA, v0)>>,
    <<Write(A, v1), Delete(A, FALSE)>> }

\* The same with a folder that is moved, and a set of two files.
RelatedScripts == FileScripts \cup {
    <<Move(D, E, TRUE)>>,
    <<Write(A, v0), Write(DA, v1)>>,
    <<Write(EA, v0)>> }

\* A history that holds the move of a folder is not saved, and once something
\* is saved no folder is moved.
MovesFolder(list) ==
    \E i \in DOMAIN list : \E c \in DOMAIN list[i].changes :
        list[i].changes[c].kind = "move" /\ list[i].changes[c].folder
Plain == ~MovesFolder(undo_list \o redo_list)

\* The last set a behaviour may build is the write of DA on top of a full undo
\* list, which drops its first set for it; what follows undoes, redoes and saves
\* the rest.
IsWriteOf(entry, p) == entry.changes[1].kind = "contents" /\ entry.changes[1].res = p
FillsUp ==
    built' = MaxDos => \/ built = MaxDos
                       \/ /\ Len(undo_list) = MaxUndos /\ saved = NoData
                          /\ IsWriteOf(LastOf(undo_list'), DA)

RestartSpec == Init /\ [][Next /\ FillsUp /\ (saved' # NoData => Plain')]_vars
=============================================================================
