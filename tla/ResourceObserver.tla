--------------------------- MODULE ResourceObserver ---------------------------
(***************************************************************************)
(* FilteredResourceObserver of rope/base/resourceobserver.py: an observer   *)
(* that is interested in some resources only.  It keeps a table from these  *)
(* resources to the indicator (modification time and size) each had when it *)
(* was last looked at, None for one that was not there.  What happened in   *)
(* the project, or what validate finds, becomes a record of _Changes:       *)
(*                                                                         *)
(*   changed   the resources to report as changed                           *)
(*   moved     from the resources to report as gone to where they are now,  *)
(*             None when they were removed                                  *)
(*   created   the resources to report as created                           *)
(*                                                                         *)
(* The operators are pure; a client (module FileList) owns the table.       *)
(***************************************************************************)
EXTENDS Changes

Root == <<>>      \* the path '' of the project folder

Places == Paths \cup {Root}

NodeAt(tree, p) == IF p = Root THEN Dir ELSE tree[p]

There(tree, r) == NodeAt(tree, r.path) # Absent

FolderAt(p) == [path |-> p, folder |-> TRUE]
FileAt(p) == [path |-> p, folder |-> FALSE]

ParentFolder(r) == FolderAt(Parent(r.path))

-----------------------------------------------------------------------------
(* _Changes *)

NoMoves == [r \in {} |-> None]

NoChanges == [changed |-> {}, moved |-> NoMoves, created |-> {}]

\* _is_parent_changed
ChangedParent(table, r) == {ParentFolder(r)} \cap DOMAIN table

\* Mutant: the folder of the resource does not count as changed.
CausedByChanged_Alone(table, r) == [NoChanges EXCEPT !.changed = {r} \cap DOMAIN table]

\* _update_changes_caused_by_changed
CausedByChanged(table, r) ==
    [NoChanges EXCEPT !.changed = ({r} \cap DOMAIN table) \cup ChangedParent(table, r)]

\* _update_changes_caused_by_created
CausedByCreated(table, r) ==
    [NoChanges EXCEPT !.created = {r} \cap DOMAIN table,
                      !.changed = ChangedParent(table, r)]

\* The resources of the table that go with r.
Inside(table, r) == {s \in DOMAIN table : Covers(r, s)}

\* _calculate_new_resource, which asks the disk whether it is a folder.
NewResource(tree, r, new, s) ==
    LET p == Rebased(r.path, new.path, s.path)
    IN  [path |-> p, folder |-> NodeAt(tree, p) = Dir]

\* Project.get_resource raises for a resource that is not there: a resource
\* of the table inside the moved folder had vanished before the move.
CannotFollow(tree, table, r, new) ==
    \E s \in Inside(table, r) :
        LET p == Rebased(r.path, new.path, s.path)
        IN  p \in Paths => tree[p] = Absent

\* _update_changes_caused_by_moved of a resource that is at `new` now.
CausedByMoved(tree, table, r, new) ==
    [changed |-> ChangedParent(table, r) \cup ChangedParent(table, new),
     moved |-> [s \in ({r} \cap DOMAIN table) \cup Inside(table, r) |->
                    IF s = r THEN new ELSE NewResource(tree, r, new, s)],
     created |-> {new} \cap DOMAIN table]

\* The same for resources that are gone.
CausedByRemoved(table, gone) ==
    [changed |-> UNION {ChangedParent(table, r) : r \in gone},
     moved |-> [s \in (gone \cap DOMAIN table) \cup UNION {Inside(table, r) : r \in gone}
                    |-> None],
     created |-> {}]

-----------------------------------------------------------------------------
(* validate: what happened outside rope, by the indicators *)

\* The resources of the table that are the validated one or inside it.
InScope(table, folder) == ({folder} \cap DOMAIN table) \cup Inside(table, folder)

\* Mutant: what is inside a folder that is gone is told apart from it.
Vanished_All(tree, table, folder) == {r \in InScope(table, folder) : ~There(tree, r)}

\* _search_resource_moves: what is inside another one is not told apart.
Vanished(tree, table, folder) ==
    LET gone == {r \in InScope(table, folder) : ~There(tree, r)}
    IN  {r \in gone : \A s \in gone : ~Covers(s, r)}

\* _search_resource_changes
Altered(tree, mtime, table, folder) ==
    {r \in InScope(table, folder) :
        There(tree, r) /\ table[r] # None /\ table[r] # mtime[r.path]}

\* _is_changed of the validated resource itself asks for its time, also when
\* it is not there any more; those inside it are looked for first.
CannotCompare(tree, table, folder) ==
    ~There(tree, folder) /\ folder \in DOMAIN table /\ table[folder] # None

\* Mutant: what came back is not noticed.
Appeared_None(tree, table, folder) == {}

\* _search_resource_creations
Appeared(tree, table, folder) ==
    {r \in InScope(table, folder) : There(tree, r) /\ table[r] = None}

CausedByValidate(tree, mtime, table, folder) ==
    LET gone == CausedByRemoved(table, Vanished(tree, table, folder))
        altered == Altered(tree, mtime, table, folder)
    IN  [changed |-> gone.changed \cup altered
                        \cup UNION {ChangedParent(table, r) : r \in altered},
         moved |-> gone.moved,
         created |-> Appeared(tree, table, folder)]

-----------------------------------------------------------------------------
(* add_resource of several resources that are there *)

Watch(table, resources, mtime) ==
    [r \in DOMAIN table \cup resources |->
        IF r \in resources THEN mtime[r.path] ELSE table[r]]

\* remove_resource
Unwatch(table, resources) == [r \in DOMAIN table \ resources |-> table[r]]
=============================================================================
