----------------------------- MODULE MCModuleCache -----------------------------
(* A module that imports a name, which may be a package or a module.        *)
EXTENDS ModuleCache

CONSTANTS v0, v1, bad, main, receiver

M == <<"m">>
P == <<"p">>
PI == <<"p", "__init__">>
N == <<"n">>

MCPaths == {M, P, PI, N}
MCWritten == {v0, bad}
MCTexts == {v0, v1, bad}
MCDecode == [t \in MCTexts |-> t]
MCThreads == {main, receiver}
MCInit0 == [p \in MCPaths |-> CASE p = P -> Dir [] p \in {M, PI} -> v1 [] p = N -> Absent]
MCCandidates == << FolderAt(P), FileAt(N) >>
MCImporter == FileAt(M)
MCMovePairs == {<<M, N>>, <<PI, N>>, <<P, N>>}

\* The hypothesis of the theorems ModulesStayFresh and ConclusionsStayFresh.
ASSUME InitHoldsNothing == \A p, q \in Paths : p[Len(p)] = "__init__" => ~Within(p, q)
=============================================================================
