----------------------------- MODULE MCChangeSet -----------------------------
(* Small project directories and the change sets of rope's refactorings.    *)
EXTENDS ChangeSet

CONSTANT v0, v1, v2, crlf

A == <<"a">>
B == <<"b">>
D == <<"d">>
DA == <<"d", "a">>
E == <<"e">>
EA == <<"e", "a">>

MCPaths == {A, B, D, DA, E, EA}
MCTexts == {v0, v1, v2}
MCRaw == {crlf}
MCDecode == [t \in MCTexts \cup MCRaw |-> IF t = crlf THEN v1 ELSE t]

Tree(present) ==
    [p \in MCPaths |-> IF p \in DOMAIN present THEN present[p] ELSE Absent]

MCInitTrees == {
    Tree([p \in {A, B, D, DA} |->
            CASE p = A -> v1 [] p = B -> crlf [] p = D -> Dir [] p = DA -> v2]),
    Tree([p \in {A, E} |-> IF p = A THEN crlf ELSE Dir]) }

\* Every kind of basic change, over every shape of resource: a file at the
\* root, a file in a folder, a folder, a file that is not there yet.
Pool == {Write(A, v2), Write(A, v0), Write(B, v1), Write(DA, v0), Write(EA, v2),
         Create(A, FALSE), Create(E, TRUE), Create(EA, FALSE),
         Move(A, EA, FALSE), Move(A, B, FALSE), Move(D, E, TRUE),
         Move(DA, A, FALSE), Delete(B, FALSE), Delete(D, TRUE)}

UpTo(n) == UNION {[1..i -> Pool] : i \in 1..n}

Undoable(script) == \A i \in DOMAIN script : script[i].kind # "remove"

\* Sets of changes to different files and folders, as most refactorings make
\* them, and sets whose changes build on one another, as rename and move make
\* them of a module (write, then move), module to package (write, create a
\* folder, move into it) and change stacks; a removal, which nothing takes
\* back, comes last.
AllScripts == {s \in UpTo(3) : Undoable(SubSeq(s, 1, Len(s) - 1))}

\* Renaming a package whose module is edited: rename.py adds the contents
\* first and the move of the folder last.
PackageRename == {<<Write(DA, v0), Move(D, E, TRUE)>>}
=============================================================================
