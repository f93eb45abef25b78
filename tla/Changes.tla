------------------------------- MODULE Changes -------------------------------
(***************************************************************************)
(* The basic changes of rope/base/change.py and what doing and undoing one *)
(* of them does to the project tree.  A change is a record                  *)
(*                                                                         *)
(*   kind    "contents", "move", "create" or "remove"                       *)
(*   res     the path of Change.resource                                    *)
(*   folder  whether that resource is a Folder object (else a File object)  *)
(*   dest    the path of MoveResource.new_resource                          *)
(*   new     ChangeContents.new_contents                                    *)
(*   old     ChangeContents.old_contents, None until do captures it         *)
(*                                                                         *)
(* A ChangeSet is a sequence of such changes (sets nested in sets, which    *)
(* rope's refactorings do not build, are left out).                         *)
(***************************************************************************)
EXTENDS FileTree

CONSTANT None     \* Python's None

Resources == [path : Paths, folder : BOOLEAN]

Changes == [kind : {"contents", "move", "create", "remove"}, res : Paths,
            folder : BOOLEAN, dest : Paths,
            new : Texts, old : Texts \cup {None}]

\* Constructors, with the fields a kind does not use held at fixed values.
Write(p, text) == [kind |-> "contents", res |-> p, folder |-> FALSE,
                   dest |-> p, new |-> text, old |-> None]
Move(p, q, isFolder) == [kind |-> "move", res |-> p, folder |-> isFolder,
                         dest |-> q, new |-> Empty, old |-> None]
Create(p, isFolder) == [kind |-> "create", res |-> p, folder |-> isFolder,
                        dest |-> p, new |-> Empty, old |-> None]
Delete(p, isFolder) == [kind |-> "remove", res |-> p, folder |-> isFolder,
                        dest |-> p, new |-> Empty, old |-> None]

\* MoveResource.__init__: a destination that is a folder when the change is
\* built stands for a path inside it.
BuiltOne(c, tree) ==
    IF c.kind = "move" /\ tree[c.dest] = Dir
    THEN [c EXCEPT !.dest = Append(c.dest, c.res[Len(c.res)])]
    ELSE c

\* The change set a caller builds with the project in this state.
Built(changes, tree) == [i \in DOMAIN changes |-> BuiltOne(changes[i], tree)]

-----------------------------------------------------------------------------
(* Change.do and Change.undo *)

\* ChangeContents.do reads the old contents the first time only.
Captured(c, tree) ==
    IF c.kind = "contents" /\ c.old = None /\ CanRead(tree, c.res)
    THEN [c EXCEPT !.old = Decode[tree[c.res]]]
    ELSE c

DoChange(c, tree) ==
    CASE c.kind = "contents" ->
            IF Captured(c, tree).old = None THEN Raises(tree)
            ELSE WriteFile(tree, c.res, c.new)
      [] c.kind = "move" -> MovePath(tree, c.res, c.dest)
      [] c.kind = "create" ->
            CreateNode(tree, c.res, IF c.folder THEN Dir ELSE Empty)
      [] c.kind = "remove" -> RemoveNode(tree, c.res)

\* RemoveResource.undo raises NotImplementedError.
UndoChange(c, tree) ==
    CASE c.kind = "contents" ->
            IF c.old = None THEN Raises(tree) ELSE WriteFile(tree, c.res, c.old)
      [] c.kind = "move" -> MovePath(tree, c.dest, c.res)
      [] c.kind = "create" -> RemoveNode(tree, c.res)
      [] c.kind = "remove" -> Raises(tree)

Opposite(mode) == IF mode = "do" THEN "undo" ELSE "do"

Perform(mode, c, tree) ==
    IF mode = "do" THEN DoChange(c, tree) ELSE UndoChange(c, tree)

-----------------------------------------------------------------------------
(* get_changed_resources *)

ChangedByOne(c) ==
    {[path |-> c.res, folder |-> c.folder]} \cup
    (IF c.kind = "move" THEN {[path |-> c.dest, folder |-> c.folder]} ELSE {})

ChangedResources(changes) == UNION {ChangedByOne(changes[i]) : i \in DOMAIN changes}

\* Folder.contains, which a File does not have.
Covers(r, s) == r.folder /\ Within(r.path, s.path)

\* Mutant: a folder and what is inside it are taken to be unrelated.
Related_Same(r, s) == r = s

Related(r, s) == r = s \/ Covers(r, s) \/ Covers(s, r)

\* The basic change can alter what is at path p.
Touches(c, p) == \E r \in ChangedByOne(c) : r.path = p \/ Within(r.path, p)

-----------------------------------------------------------------------------
(* ChangeSet.do and ChangeSet.undo, each as one step *)

\* One more change of a ChangeSet in turn; after a failure the rest is left.
Extend(mode, run, c) ==
    IF ~run.ok THEN run
    ELSE LET kept == IF mode = "do" THEN Captured(c, run.tree) ELSE c
             result == Perform(mode, c, run.tree)
         IN  [ok |-> result.ok, tree |-> result.tree,
              done |-> IF result.ok THEN Append(run.done, kept) ELSE run.done]

RunAll(mode, changes, tree) ==
    LET run[n \in 0..Len(changes)] ==
            IF n = 0 THEN [ok |-> TRUE, tree |-> tree, done |-> <<>>]
                     ELSE Extend(mode, run[n - 1], changes[n])
    IN  run[Len(changes)]

\* The changes of a set in the order do, or undo, performs them.
InOrder(mode, changes) == IF mode = "do" THEN changes ELSE Seqs!Reverse(changes)

\* The except branch: what is done is taken back, in the order it was done.
TakenBack(mode, run) == RunAll(Opposite(mode), run.done, run.tree).tree

RunSet(mode, changes, tree) ==
    LET run == RunAll(mode, InOrder(mode, changes), tree)
    IN  IF run.ok
        THEN [ok |-> TRUE, tree |-> run.tree, changes |-> InOrder(mode, run.done)]
        ELSE [ok |-> FALSE, tree |-> TakenBack(mode, run), changes |-> changes]

\* FileSystemCommands.write has truncated the file when it raises.
Truncated(c, tree) == [tree EXCEPT ![c.res] = Empty]

\* What is done, and the tree, when an exception stops the set at its n-th job:
\* before it (InterruptedTaskError at started_job), in the middle of a write,
\* or after the change landed (at finished_job, or from an observer), when the
\* change is performed but not among the ones that are taken back.
Halted(mode, changes, n, how, tree) ==
    LET plan == InOrder(mode, changes)
        before == RunAll(mode, SubSeq(plan, 1, n - 1), tree)
    IN  [before EXCEPT !.tree =
            CASE how = "before" -> before.tree
              [] how = "torn" -> Truncated(plan[n], before.tree)
              [] how = "landed" -> Perform(mode, plan[n], before.tree).tree]

\* The jobs the set comes to: all of them, or up to the one that fails.
JobsReached(mode, changes, tree) ==
    LET run == RunAll(mode, InOrder(mode, changes), tree)
    IN  Len(run.done)

\* How a method enters its except branch.
Halts(mode, changes, tree) ==
    LET run == RunAll(mode, InOrder(mode, changes), tree)
        jobs == 1..JobsReached(mode, changes, tree)
    IN  (IF run.ok THEN {} ELSE {run}) \cup
        {Halted(mode, changes, n, how, tree) : n \in jobs, how \in {"before", "landed"}} \cup
        {Halted(mode, changes, n, "torn", tree) :
            n \in {k \in jobs : InOrder(mode, changes)[k].kind = "contents"}}

\* The k-th change is the last the except branch comes to: an observer raises
\* when it was taken back, or a write breaks in the middle of that.
CutAfter(mode, run, k) ==
    RunAll(Opposite(mode), SubSeq(run.done, 1, k), run.tree).tree

CutWithin(mode, run, k) ==
    LET back == RunAll(Opposite(mode), SubSeq(run.done, 1, k - 1), run.tree)
    IN  IF back.ok /\ CanWrite(back.tree, run.done[k].res)
        THEN Truncated(run.done[k], back.tree) ELSE back.tree

\* The trees the except branch can leave.
RolledBack(mode, run) ==
    {TakenBack(mode, run)} \cup
    {CutAfter(mode, run, k) : k \in DOMAIN run.done} \cup
    {CutWithin(mode, run, k) : k \in {j \in DOMAIN run.done : run.done[j].kind = "contents"}}

\* Every way ChangeSet.do or ChangeSet.undo can end.
Outcomes(mode, changes, tree) ==
    {RunSet(mode, changes, tree)} \cup
    {[ok |-> FALSE, tree |-> left, changes |-> changes] :
        left \in UNION {RolledBack(mode, run) : run \in Halts(mode, changes, tree)}}

\* Doing the set replaces a file that was there: nothing remembers it.
Clobbers(changes, tree) ==
    \E i \in DOMAIN changes :
        LET run == RunAll("do", SubSeq(changes, 1, i - 1), tree)
        IN  /\ run.ok /\ changes[i].kind = "move"
            /\ Overwrites(run.tree, changes[i].res, changes[i].dest)

-----------------------------------------------------------------------------
(* ChangeToData then DataToChange: the change as a reopened project has it. *)
(* makeMoveResource calls get_file, so a move of a folder comes back as a   *)
(* move of a file.                                                          *)
Reloaded(c) == IF c.kind = "move" THEN [c EXCEPT !.folder = FALSE] ELSE c

ReloadedSet(changes) == [i \in DOMAIN changes |-> Reloaded(changes[i])]
=============================================================================
