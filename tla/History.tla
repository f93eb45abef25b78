------------------------------- MODULE History -------------------------------
(***************************************************************************)
(* rope/base/history.py: the undo and the redo list of a project, undoing   *)
(* and redoing a chosen change with the changes that depend on it, and the  *)
(* copy of both lists that Project.close saves for the next session.        *)
(*                                                                         *)
(* A call of ChangeSet.do or ChangeSet.undo is one step here, with one of   *)
(* the outcomes of Changes!Outcomes (module ChangeSet shows that it has no  *)
(* others).  undo and redo of several change sets take one step per set.    *)
(*                                                                         *)
(* An entry of a list is a ChangeSet object: its identity and its changes.  *)
(***************************************************************************)
EXTENDS Changes, FiniteSets

CONSTANTS
    Scripts,     \* the change sets a caller may build
    InitTrees,   \* the project directories to start from
    Ignored,     \* the paths that the project's ignored_resources match
    MaxUndos,    \* History.max_undos
    MaxDos,      \* bound: how many change sets are built in a behaviour
    Features     \* which of AllFeatures may happen

\* A task is stopped; undo is called with drop; a move replaces a file; the
\* project is closed and opened again; the process dies.
AllFeatures == {"interrupt", "drop", "overwrite", "restart", "crash"}

ASSUME HistoryAssumption ==
    /\ Scripts \subseteq Seq(Changes)
    /\ InitTrees \subseteq Trees
    /\ Ignored \subseteq Paths
    /\ MaxUndos \in Nat
    /\ MaxDos \in Nat
    /\ Features \subseteq AllFeatures

VARIABLES
    tree,        \* the project directory
    undo_list,
    redo_list,
    run,         \* the undo or redo call under way
    saved,       \* the data file 'history' of the rope folder
    built,       \* how many change sets were built so far
    base         \* the directory that undo_list starts from

vars == <<tree, undo_list, redo_list, run, saved, built, base>>

Entries == [id : Nat, changes : Seq(Changes)]

Idle == [op |-> "none", left |-> 0, drop |-> 0]

NoData == [undo |-> <<>>, redo |-> <<>>]

-----------------------------------------------------------------------------
(* _FindChangeDependencies *)

\* What the changes at the given positions of a list alter.
ResourcesAt(list, positions) ==
    UNION {ChangedResources(list[i].changes) : i \in positions}

\* _depends_on
DependsOn(list, i, positions) ==
    \E r \in ChangedResources(list[i].changes), s \in ResourcesAt(list, positions) :
        Related(r, s)

\* Mutant: only the changes that depend on the chosen one itself.
FindDependencies_Direct(list, chosen) ==
    {chosen} \cup {i \in (chosen + 1)..Len(list) : DependsOn(list, i, {chosen})}

\* The chosen change and, going through the list once from there, every
\* change that depends on the ones already in the result.
FindDependencies(list, chosen) ==
    LET InResult[i \in chosen..Len(list)] ==
            \/ i = chosen
            \/ DependsOn(list, i, {k \in chosen..(i - 1) : InResult[k]})
    IN  {i \in chosen..Len(list) : InResult[i]}

\* The k-th smallest of a set of positions.
Nth(positions, k) ==
    CHOOSE i \in positions : Cardinality({j \in positions : j <= i}) = k

At(list, positions) ==
    [k \in 1..Cardinality(positions) |-> list[Nth(positions, k)]]

\* Mutant: the dependencies end up at the end in reverse.
MoveFront_Reversed(list, positions) ==
    At(list, DOMAIN list \ positions) \o Seqs!Reverse(At(list, positions))

\* _move_front: the dependencies, in their order, end up at the end.
MoveFront(list, positions) ==
    At(list, DOMAIN list \ positions) \o At(list, positions)

-----------------------------------------------------------------------------
(* What the lists mean *)

AllChanges(entries) ==
    Seqs!FlattenSeq([i \in DOMAIN entries |-> entries[i].changes])

\* The tree after doing the entries in order.
Replay(t, entries) == RunAll("do", AllChanges(entries), t)

IsIgnored(p) == p \in Ignored

IsInteresting(changes) == \E r \in ChangedResources(changes) : ~IsIgnored(r.path)

\* Mutant: one item too many is kept.
Excess_Short(list) == IF Len(list) > MaxUndos THEN Len(list) - MaxUndos - 1 ELSE 0

\* _remove_extra_items
Excess(list) == IF Len(list) > MaxUndos THEN Len(list) - MaxUndos ELSE 0

Trimmed(list) == SubSeq(list, Excess(list) + 1, Len(list))

Forgotten(list) == SubSeq(list, 1, Excess(list))

-----------------------------------------------------------------------------
Init ==
    /\ tree \in InitTrees
    /\ undo_list = <<>> /\ redo_list = <<>>
    /\ run = Idle /\ saved = NoData /\ built = 0
    /\ base = tree

Ready == run = Idle

\* The ends of a call on a change set that this configuration looks at.
Ends(mode, changes) ==
    IF "interrupt" \in Features THEN Outcomes(mode, changes, tree)
                                ELSE {RunSet(mode, changes, tree)}

\* History.do of a change set built just now.
Do ==
    /\ Ready /\ built < MaxDos
    /\ \E script \in Scripts : LET changes == Built(script, tree) IN
         /\ \A i \in DOMAIN changes : changes[i].dest \in Paths
         /\ "overwrite" \in Features \/ ~Clobbers(changes, tree)
         /\ \E outcome \in Ends("do", changes) :
              LET grown == Append(undo_list, [id |-> built, changes |-> outcome.changes])
              IN  /\ tree' = outcome.tree
                  /\ redo_list' = IF outcome.ok THEN <<>> ELSE redo_list
                  /\ IF outcome.ok /\ IsInteresting(changes)
                     THEN /\ undo_list' = Trimmed(grown)
                          /\ base' = Replay(base, Forgotten(grown)).tree
                     ELSE UNCHANGED <<undo_list, base>>
    /\ built' = built + 1
    /\ UNCHANGED <<run, saved>>

\* History.undo: find the dependencies and bring them to the end.
Undo(chosen, drop) ==
    /\ Ready
    /\ LET found == FindDependencies(undo_list, chosen)
       IN  /\ undo_list' = MoveFront(undo_list, found)
           /\ run' = [op |-> "undo", left |-> Cardinality(found),
                      drop |-> IF drop THEN Cardinality(found) ELSE 0]
    /\ UNCHANGED <<tree, redo_list, saved, built, base>>

\* History.redo
Redo(chosen) ==
    /\ Ready
    /\ LET found == FindDependencies(redo_list, chosen)
       IN  /\ redo_list' = MoveFront(redo_list, found)
           /\ run' = [op |-> "redo", left |-> Cardinality(found), drop |-> 0]
    /\ UNCHANGED <<tree, undo_list, saved, built, base>>

StartUndo ==
    \E chosen \in DOMAIN undo_list, drop \in {FALSE} \cup {"drop" \in Features} :
        Undo(chosen, drop)

StartRedo == \E chosen \in DOMAIN redo_list : Redo(chosen)

\* Mutant: the round counts twice.
Continue_Twice == [run EXCEPT !.left = @ - 2]

\* The rest of the call once a set was undone or redone.
Continue == [run EXCEPT !.left = @ - 1]

LastOf(list) == list[Len(list)]

Popped(list) == SubSeq(list, 1, Len(list) - 1)

\* One round of _perform_undos.  An exception ends undo; the lists stay.
PerformUndo ==
    /\ run.op = "undo" /\ run.left > 0
    /\ LET entry == LastOf(undo_list)
       IN  \E outcome \in Ends("undo", entry.changes) :
             /\ tree' = outcome.tree
             /\ IF outcome.ok
                THEN /\ undo_list' = Popped(undo_list)
                     /\ redo_list' = Append(redo_list, entry)
                     /\ run' = Continue
                ELSE run' = Idle /\ UNCHANGED <<undo_list, redo_list>>
    /\ UNCHANGED <<saved, built, base>>

\* One round of _perform_redos.
PerformRedo ==
    /\ run.op = "redo" /\ run.left > 0
    /\ LET entry == LastOf(redo_list)
       IN  \E outcome \in Ends("do", entry.changes) :
             /\ tree' = outcome.tree
             /\ IF outcome.ok
                THEN /\ redo_list' = Popped(redo_list)
                     /\ undo_list' = Append(undo_list, entry)
                     /\ run' = Continue
                ELSE run' = Idle /\ UNCHANGED <<undo_list, redo_list>>
    /\ UNCHANGED <<saved, built, base>>

\* undo or redo returns; with drop, the undone sets are forgotten.
Finish ==
    /\ run # Idle /\ run.left = 0
    /\ redo_list' = SubSeq(redo_list, 1, Len(redo_list) - run.drop)
    /\ run' = Idle
    /\ UNCHANGED <<tree, undo_list, saved, built, base>>

Clear ==
    /\ Ready /\ (undo_list # <<>> \/ redo_list # <<>>)
    /\ undo_list' = <<>> /\ redo_list' = <<>>
    /\ base' = tree
    /\ UNCHANGED <<tree, run, saved, built>>

-----------------------------------------------------------------------------
(* The saved history *)

\* Mutant: the old contents are not saved.
LoadedEntry_NoOld(entry) ==
    [entry EXCEPT !.changes =
        [i \in DOMAIN entry.changes |-> [entry.changes[i] EXCEPT !.old = None]]]

LoadedEntry(entry) == [entry EXCEPT !.changes = ReloadedSet(@)]

Loaded(list) == [i \in DOMAIN list |-> LoadedEntry(list[i])]

\* Project.close, or sync: the write hook of the history.
Save ==
    /\ Features \cap {"restart", "crash"} # {}
    /\ Ready
    /\ undo_list' = Trimmed(undo_list)
    /\ saved' = [undo |-> undo_list', redo |-> redo_list]
    /\ base' = Replay(base, Forgotten(undo_list)).tree
    /\ UNCHANGED <<tree, redo_list, run, built>>

\* Mutant: the two lists are loaded the wrong way round.
Load_Swapped ==
    /\ undo_list' = Loaded(saved.redo)
    /\ redo_list' = Loaded(saved.undo)
    /\ run' = Idle

\* Mutant: the loaded changes are added to lists that are not empty.
Load_Added ==
    /\ undo_list' = undo_list \o Loaded(saved.undo)
    /\ redo_list' = redo_list \o Loaded(saved.redo)
    /\ run' = Idle

Load ==
    /\ undo_list' = Loaded(saved.undo)
    /\ redo_list' = Loaded(saved.redo)
    /\ run' = Idle

\* The project is opened again after it was closed.
Restart ==
    /\ "restart" \in Features
    /\ Ready /\ saved = [undo |-> undo_list, redo |-> redo_list]
    /\ Load
    /\ UNCHANGED <<tree, saved, built, base>>

\* The process ends without Project.close, in the middle of an undo or redo
\* or not; the next session has what was last saved.
Crash ==
    /\ "crash" \in Features
    /\ Load
    /\ base' = tree
    /\ UNCHANGED <<tree, saved, built>>

\* The process ends while write_data has only truncated the file: what
\* read_data then finds ends with EOFError, which counts as no data.
TornSave ==
    /\ "crash" \in Features
    /\ Ready /\ saved # NoData
    /\ saved' = NoData
    /\ undo_list' = <<>> /\ redo_list' = <<>>
    /\ base' = tree
    /\ UNCHANGED <<tree, run, built>>

Next == Do \/ StartUndo \/ StartRedo \/ PerformUndo \/ PerformRedo \/ Finish
        \/ Clear \/ Save \/ Restart \/ Crash \/ TornSave

Spec == Init /\ [][Next]_vars

-----------------------------------------------------------------------------
TypeOK ==
    /\ tree \in Trees /\ base \in Trees
    /\ undo_list \in Seq(Entries) /\ redo_list \in Seq(Entries)
    /\ run \in [op : {"none", "undo", "redo"}, left : Nat, drop : Nat]
    /\ saved \in [undo : Seq(Entries), redo : Seq(Entries)]
    /\ built \in 0..MaxDos

SameText(t, u, p) ==
    \/ t[p] = u[p]
    \/ t[p] \in Data /\ u[p] \in Data /\ Decode[t[p]] = Decode[u[p]]

Agree(t, u) == \A p \in Paths : IsIgnored(p) \/ SameText(t, u, p)

\* The directory is what the changes of the undo list, done in the order of
\* the list, make of the directory the list starts from: at every moment of
\* every undo and redo of chosen changes, whatever was reordered, dropped
\* from the front for max_undos, redone or left alone because it failed.
HistoryReplays ==
    LET replayed == Replay(base, undo_list)
    IN  replayed.ok /\ Agree(replayed.tree, tree)

\* The undone changes can all be redone from here, the last undone first.
RedoListReplays == Replay(tree, Seqs!Reverse(redo_list)).ok

\* The undo list can be undone to its start, the last done first.
UndoListUndoes ==
    LET undone == RunAll("undo", Seqs!Reverse(AllChanges(undo_list)), tree)
    IN  undone.ok /\ Agree(undone.tree, base)

\* undo and redo never raise when no task is stopped and nothing outside the
\* history touches the project: a round that was begun removes an entry.
RoundsSucceed ==
    [][run.op # "none" /\ run.left > 0 => run'.left = run.left - 1]_vars

\* Undo and redo together never hold more than max_undos changes, though
\* nothing trims either list when a change moves between them.
Bounded == Len(undo_list) + Len(redo_list) <= MaxUndos

Ids(list) == [i \in DOMAIN list |-> list[i].id]

\* A change object is in one list at one place: list.index in
\* _find_dependencies and list.remove in _move_front mean that one.
NoDuplicates ==
    LET ids == Ids(undo_list) \o Ids(redo_list)
    IN  \A i, j \in DOMAIN ids : ids[i] = ids[j] => i = j

RelatedSets(c, d) ==
    \E r \in ChangedResources(c), s \in ChangedResources(d) : Related(r, s)

\* The changes an undo of the chosen one must take with it: those that come
\* later and are related to it, directly or through others.
Dependents(list, chosen) ==
    LET closed(S) == \A i \in S, j \in DOMAIN list :
                        i < j /\ RelatedSets(list[i].changes, list[j].changes) => j \in S
    IN  CHOOSE S \in SUBSET DOMAIN list :
            /\ chosen \in S /\ closed(S)
            /\ \A T \in SUBSET S : chosen \in T /\ closed(T) => T = S

\* _FindChangeDependencies takes exactly the dependents: one that is left
\* behind could not be replayed, one too many loses work of the user.
FindsDependents ==
    \A i \in DOMAIN undo_list :
        FindDependencies(undo_list, i) = Dependents(undo_list, i)

\* Two related changes that stay in the undo list keep their order.
Before(list, x, y) ==
    \E i, j \in DOMAIN list : i < j /\ list[i].id = x.id /\ list[j].id = y.id

RelatedKeepOrder ==
    [][\A i, j \in DOMAIN undo_list :
         i < j /\ RelatedSets(undo_list[i].changes, undo_list[j].changes)
            => ~Before(undo_list', undo_list[j], undo_list[i])]_vars
=============================================================================
