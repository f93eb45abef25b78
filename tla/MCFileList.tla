------------------------------ MODULE MCFileList ------------------------------
(* A folder in a folder with a file in it, a file, and an ignored folder.   *)
EXTENDS FileList

CONSTANT v0, v1

D == <<"d">>
DS == <<"d", "s">>
DSX == <<"d", "s", "x">>
E == <<"e">>
ES == <<"e", "s">>
ESX == <<"e", "s", "x">>
F == <<"f">>
EF == <<"e", "f">>
I == <<"i">>
IX == <<"i", "x">>

MCPaths == {D, DS, DSX, E, ES, ESX, F, EF, I, IX}
MCTexts == {v0, v1}
MCRaw == {}
MCDecode == [t \in MCTexts |-> t]
MCIgnored == {I}

MCInitTrees ==
    {[p \in MCPaths |-> CASE p \in {D, DS, I} -> Dir
                          [] p \in {DSX, F, IX} -> v1
                          [] OTHER -> Absent]}

MCFilePaths == {DSX, ESX, EF}
MCFolderPaths == {D, DS, E}
MCMovePairs == {<<D, E>>, <<DS, E>>, <<F, EF>>}

\* Where nobody works during a notification, names tell folders from files.
ASSUME KindsAreToldOrRaced == "race" \in Features \/ NamesTellKinds

\* The same names for files and for folders.
MixedFilePaths == {F, D}
MixedFolderPaths == {F, D}
=============================================================================
