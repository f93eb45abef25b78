------------------------------ MODULE ChangeSet ------------------------------
(***************************************************************************)
(* One ChangeSet object at work: ChangeSet.do and ChangeSet.undo            *)
(* (rope/base/change.py) with the job set of a task handle                  *)
(* (rope/base/taskhandle.py), one action per step that another thread, the  *)
(* disk or a failing call can come between.                                 *)
(*                                                                         *)
(* The thread that runs the set goes through                                *)
(*    "start"   job_set.started_job checks the handle, then                 *)
(*    "perform" the change does its work, then                              *)
(*    "finish"  job_set.finished_job checks the handle again                *)
(* for every change, and "rollback" is the except branch.  Another thread   *)
(* may call TaskHandle.stop at any time.                                    *)
(***************************************************************************)
EXTENDS Changes

CONSTANTS
    Scripts,     \* the change sets a caller may build
    InitTrees,   \* the project directories to start from
    Faults       \* which of "stop", "disk" and "observer" may happen

ASSUME ChangeSetAssumption ==
    /\ Scripts \subseteq Seq(Changes)
    /\ InitTrees \subseteq Trees
    /\ Faults \subseteq {"stop", "disk", "observer"}

VARIABLES
    tree,       \* the project directory
    changes,    \* ChangeSet.changes
    mode,       \* "do" or "undo": which method runs, or ran last
    pc,         \* where the running thread is
    done,       \* the length of the local list `done`
    taken,      \* how many of `done` the except branch has taken back
    inflight,   \* a change may have altered the tree without being in `done`
    struck,     \* the disk or an observer raised in the except branch
    cause,      \* what made the method enter its except branch
    stopped,    \* TaskHandle.stopped
    entry,      \* the changes when the running call began
    before,     \* the tree when the running call began
    origin      \* the tree before the set was done for the first time

vars == <<tree, changes, mode, pc, done, taken, inflight, cause, stopped, struck, entry, before, origin>>

\* "raised": the cause reached the caller; "failed": the except branch
\* itself raised, which hides the cause and leaves the rest not taken back.
PCs == {"idle", "start", "perform", "finish", "rollback",
        "returned", "raised", "failed"}
Causes == {"none", "interrupt", "failure"}

\* Mutant: undo goes through the changes in the order do does.
Position_Forward(n) == n

\* Mutant: do goes through the changes from the last to the first.
Position_Backward(n) == Len(changes) - n + 1

\* The position in `changes` of the n-th change the running method performs.
Position(n) == IF mode = "do" THEN n ELSE Len(changes) - n + 1

Current == changes[Position(done + 1)]

Pending == done < Len(changes)

\* Entering the except branch.
Except(reason) == pc' = "rollback" /\ cause' = reason

Running == pc \in {"start", "perform", "finish", "rollback"}

Init ==
    /\ tree \in InitTrees
    /\ changes = <<>> /\ mode = "do" /\ pc = "idle"
    /\ done = 0 /\ taken = 0 /\ inflight = FALSE /\ cause = "none" /\ stopped = FALSE
    /\ struck = FALSE
    /\ entry = <<>> /\ before = tree /\ origin = tree

\* A new call, each with a task handle of its own.
Begin(method) ==
    /\ mode' = method /\ pc' = "start"
    /\ done' = 0 /\ taken' = 0 /\ inflight' = FALSE /\ cause' = "none"
    /\ stopped' = FALSE /\ struck' = FALSE
    /\ before' = tree
    /\ UNCHANGED tree

\* Project.do(changes) for a set that was just built.
CallDo ==
    /\ pc = "idle"
    /\ \E script \in Scripts :
         /\ \A i \in DOMAIN script : Built(script, tree)[i].dest \in Paths
         /\ changes' = Built(script, tree)
    /\ entry' = changes' /\ origin' = tree
    /\ Begin("do")

\* History.undo of the set that was done, History.redo of the one undone.
CallAgain ==
    /\ pc = "returned"
    /\ Begin(Opposite(mode))
    /\ entry' = changes
    /\ UNCHANGED <<changes, origin>>

\* TaskHandle.stop from the thread that watches the task.
Stop ==
    /\ "stop" \in Faults
    /\ Running /\ ~stopped
    /\ stopped' = TRUE
    /\ UNCHANGED <<tree, changes, mode, pc, done, taken, inflight, cause, struck, entry, before, origin>>

\* Mutant: the loop over the changes runs one too far.
StartJob_Past ==
    /\ pc = "start"
    /\ IF stopped THEN Except("interrupt")
                  ELSE pc' = "perform" /\ UNCHANGED cause
    /\ UNCHANGED <<tree, changes, mode, done, taken, inflight, stopped, struck, entry, before, origin>>

\* JobSet.started_job
StartJob ==
    /\ pc = "start" /\ Pending
    /\ IF stopped THEN Except("interrupt")
                  ELSE pc' = "perform" /\ UNCHANGED cause
    /\ UNCHANGED <<tree, changes, mode, done, taken, inflight, stopped, struck, entry, before, origin>>

\* The operation, the capture of old_contents and the notified observers.
PerformJob ==
    /\ pc = "perform"
    /\ LET result == Perform(mode, Current, tree)
       IN  /\ tree' = result.tree
           /\ inflight' = result.ok
           /\ IF result.ok THEN pc' = "finish" /\ UNCHANGED cause
                           ELSE Except("failure")
    /\ changes' = IF mode = "do"
                  THEN [changes EXCEPT ![Position(done + 1)] = Captured(Current, tree)]
                  ELSE changes
    /\ UNCHANGED <<mode, done, taken, stopped, struck, entry, before, origin>>

\* FileSystemCommands.write has truncated the file when write raises.
DiskFails ==
    /\ "disk" \in Faults
    /\ pc = "perform" /\ Current.kind = "contents"
    /\ LET c == IF mode = "do" THEN Captured(Current, tree) ELSE Current
       IN  /\ c.old # None
           /\ changes' = [changes EXCEPT ![Position(done + 1)] = c]
    /\ CanWrite(tree, Current.res)
    /\ tree' = Truncated(Current, tree)
    /\ inflight' = TRUE
    /\ Except("failure")
    /\ UNCHANGED <<mode, done, taken, stopped, struck, entry, before, origin>>

\* An observer raises after the operation was made.
ObserverRaises ==
    /\ "observer" \in Faults
    /\ pc = "finish"
    /\ Except("failure")
    /\ UNCHANGED <<tree, changes, mode, done, taken, inflight, stopped, struck, entry, before, origin>>

\* Mutant: finished_job does not check the handle.
FinishJob_Deaf ==
    /\ pc = "finish"
    /\ pc' = "start" /\ done' = done + 1 /\ inflight' = FALSE
    /\ UNCHANGED <<tree, changes, mode, taken, cause, stopped, struck, entry, before, origin>>

\* Mutant: the change is appended to `done` before finished_job checks.
FinishJob_AppendFirst ==
    /\ pc = "finish"
    /\ IF stopped THEN Except("interrupt")
                  ELSE pc' = "start" /\ UNCHANGED cause
    /\ done' = done + 1 /\ inflight' = FALSE
    /\ UNCHANGED <<tree, changes, mode, taken, stopped, struck, entry, before, origin>>

\* JobSet.finished_job, then done.append(change)
FinishJob ==
    /\ pc = "finish"
    /\ IF stopped
       THEN Except("interrupt") /\ UNCHANGED <<done, inflight>>
       ELSE /\ pc' = "start" /\ done' = done + 1 /\ inflight' = FALSE
            /\ UNCHANGED cause
    /\ UNCHANGED <<tree, changes, mode, taken, stopped, struck, entry, before, origin>>

Return ==
    /\ pc = "start" /\ ~Pending
    /\ pc' = "returned"
    /\ UNCHANGED <<tree, changes, mode, done, taken, inflight, cause, stopped, struck, entry, before, origin>>

\* The change the except branch comes to next.
TakingBack == changes[Position(taken + 1)]

\* Mutant: the except branch does not move on to the next change.
TakeBack_Same ==
    /\ pc = "rollback" /\ taken < done
    /\ LET result == Perform(Opposite(mode), TakingBack, tree)
       IN  /\ tree' = result.tree
           /\ pc' = IF result.ok THEN "rollback" ELSE "failed"
    /\ UNCHANGED <<changes, mode, done, taken, inflight, cause, stopped, struck, entry, before, origin>>

\* for change in done: change.undo()   (or .do() in ChangeSet.undo)
TakeBack ==
    /\ pc = "rollback" /\ taken < done
    /\ LET result == Perform(Opposite(mode), TakingBack, tree)
       IN  /\ tree' = result.tree
           /\ pc' = IF result.ok THEN "rollback" ELSE "failed"
           /\ taken' = IF result.ok THEN taken + 1 ELSE taken
    /\ UNCHANGED <<changes, mode, done, inflight, cause, stopped, struck, entry, before, origin>>

\* The write that takes a change back raises and leaves the file truncated.
DiskFailsBack ==
    /\ "disk" \in Faults
    /\ pc = "rollback" /\ taken < done /\ TakingBack.kind = "contents"
    /\ Perform(Opposite(mode), TakingBack, tree).ok
    /\ tree' = Truncated(TakingBack, tree)
    /\ pc' = "failed" /\ struck' = TRUE
    /\ UNCHANGED <<changes, mode, done, taken, inflight, cause, stopped, entry, before, origin>>

\* The change is taken back, then an observer that is told of it raises.
ObserverRaisesBack ==
    /\ "observer" \in Faults
    /\ pc = "rollback" /\ taken < done
    /\ LET result == Perform(Opposite(mode), TakingBack, tree)
       IN  result.ok /\ tree' = result.tree
    /\ taken' = taken + 1
    /\ pc' = "failed" /\ struck' = TRUE
    /\ UNCHANGED <<changes, mode, done, inflight, cause, stopped, entry, before, origin>>

\* Mutant: the except branch leaves out the last change of `done`.
Reraise_Early ==
    /\ pc = "rollback" /\ taken >= done - 1
    /\ pc' = "raised"
    /\ UNCHANGED <<tree, changes, mode, done, taken, inflight, cause, stopped, struck, entry, before, origin>>

\* Mutant: the except branch waits for one change more than `done` has.
Reraise_Late ==
    /\ pc = "rollback" /\ taken > done
    /\ pc' = "raised"
    /\ UNCHANGED <<tree, changes, mode, done, taken, inflight, cause, stopped, struck, entry, before, origin>>

\* raise
Reraise ==
    /\ pc = "rollback" /\ taken = done
    /\ pc' = "raised"
    /\ UNCHANGED <<tree, changes, mode, done, taken, inflight, cause, stopped, struck, entry, before, origin>>

Step == \/ StartJob \/ PerformJob \/ DiskFails \/ ObserverRaises \/ FinishJob
        \/ Return \/ TakeBack \/ DiskFailsBack \/ ObserverRaisesBack \/ Reraise

Next == CallDo \/ CallAgain \/ Stop \/ Step

Spec == Init /\ [][Next]_vars

\* The thread inside do or undo keeps running; nobody has to call or stop it.
FairSpec == Spec /\ WF_vars(Step)

-----------------------------------------------------------------------------
TypeOK ==
    /\ tree \in Trees /\ before \in Trees /\ origin \in Trees
    /\ changes \in Seq(Changes) /\ entry \in Seq(Changes)
    /\ mode \in {"do", "undo"}
    /\ pc \in PCs
    /\ done \in 0..Len(changes)
    /\ taken \in 0..done
    /\ cause \in Causes /\ inflight \in BOOLEAN /\ stopped \in BOOLEAN
    /\ struck \in BOOLEAN
    /\ pc \in {"perform", "finish"} => Pending

\* The n-th change has altered the tree: it is in `done`, or in flight.
Made(n) == n \in 1..done \/ (inflight /\ n = done + 1)

Alters(n, p) == Touches(changes[Position(n)], p)

\* The n-th change builds on another one that was made: one of the two alters
\* what the other does.
Entangled(n) ==
    \E m \in DOMAIN changes :
        m # n /\ Made(m) /\ \E p \in Paths : Alters(m, p) /\ Alters(n, p)

\* The except branch raised itself before it had taken the n-th change back.
CutShort(n) == pc = "failed" /\ n > taken

\* What the except branch is excused for: a change it does not know of, one it
\* was cut short before, and one that builds on another, because the changes
\* are taken back in the order they were made.
LeftBehind(p) ==
    \E n \in DOMAIN changes :
        Made(n) /\ Alters(n, p) /\ (n > done \/ CutShort(n) \/ Entangled(n))

\* Texts are compared as File.read gives them: undoing a write puts back the
\* text it read, not the line ends.
SameText(t, u, p) ==
    \/ t[p] = u[p]
    \/ t[p] \in Data /\ u[p] \in Data /\ Decode[t[p]] = Decode[u[p]]

Returned == pc = "returned"
Raised == pc \in {"raised", "failed"}

\* When do or undo raises, whatever raised and when, in the loop or in the
\* except branch: a path has what it had before the call, unless the change
\* that altered it was in flight, was not taken back because the except branch
\* was cut short, or builds on another change of the set.
RollbackRestores ==
    Raised /\ ~Clobbers(changes, origin)
        => \A p \in Paths : LeftBehind(p) \/ SameText(tree, before, p)

\* The exception that stopped the set reaches its caller: the except branch
\* raises another one only when the disk or an observer does, or when it comes
\* to a change that builds on another one.
CauseReachesCaller == pc = "failed" => struck \/ Entangled(taken + 1)

\* The thread of a stopped task is interrupted by InterruptedTaskError
\* (docs/library.txt): the except branch raises nothing in its place.
InterruptReachesCaller == cause = "interrupt" => pc # "failed"

\* Undoing a set that was done, however often it was undone and redone
\* before, gives the tree from before the set, when no move of the set
\* replaced a file.
UndoRestores ==
    Returned /\ mode = "undo" /\ ~Clobbers(changes, origin)
        => \A p \in Paths : SameText(tree, origin, p)

\* Redoing gives the tree that doing gave: what a returned call leaves is
\* what the changes, with the contents they captured, make of the original.
RedoRepeats ==
    Returned /\ mode = "do" /\ ~Clobbers(changes, origin)
        => \A p \in Paths : SameText(tree, RunAll("do", changes, origin).tree, p)

\* A stop that comes while a job is still pending makes the call raise; it
\* cannot be lost between the two checks of a job.
StopIsHeard ==
    stopped /\ pc \in {"start", "perform", "finish"} /\ Pending ~> Raised

\* Every call of do or undo comes back, by return or by raise.
CallsEnd == Running ~> Returned \/ Raised

-----------------------------------------------------------------------------
(* Sets of writes to different files, which is what a rename refactoring    *)
(* builds: the inductive invariant behind RollbackRestores for them.        *)

OnlyWrites(set) ==
    \A i \in DOMAIN set :
        /\ set[i].kind = "contents"
        /\ \A j \in DOMAIN set : i # j => set[i].res # set[j].res

WriteScripts ==
    \A s \in Scripts : OnlyWrites(s) /\ \A i \in DOMAIN s : s[i].old = None

\* The change at position i is made and, unless taken back, in the tree.
Performed(i) == Position(i) <= done \/ (pc = "finish" /\ Position(i) = done + 1)

\* What the running method finds in, and leaves in, the file of a change.
From(i) == IF mode = "do" THEN changes[i].old ELSE changes[i].new
To(i) == IF mode = "do" THEN changes[i].new ELSE changes[i].old

CapturedBefore ==
    \A i \in DOMAIN changes :
        /\ mode = "undo" => changes[i].old # None
        /\ changes[i].old # None =>
               /\ before[changes[i].res] \in Data
               /\ Decode[before[changes[i].res]] = From(i)
        /\ Performed(i) => /\ changes[i].old # None
                           /\ HasParent(before, changes[i].res)

\* Only the contents of files change.
SameShape ==
    \A p \in Paths : tree[p] = before[p] \/ (tree[p] \in Data /\ before[p] \in Data)

GoingForward ==
    pc \in {"start", "perform", "finish", "returned"} =>
        /\ \A i \in DOMAIN changes : Performed(i) => tree[changes[i].res] = To(i)
        /\ \A p \in Paths :
             (\A i \in DOMAIN changes : Performed(i) => changes[i].res # p)
                => tree[p] = before[p]
        /\ inflight = (pc = "finish")
        /\ pc = "returned" => done = Len(changes)

GoingBack ==
    pc \in {"rollback", "raised", "failed"} =>
        /\ \A i \in DOMAIN changes :
             Position(i) <= taken =>
                Decode[tree[changes[i].res]] = Decode[before[changes[i].res]]
        /\ \A p \in Paths :
             /\ \A i \in DOMAIN changes : Position(i) <= done => changes[i].res # p
             /\ inflight => Current.res # p
             => tree[p] = before[p]
        /\ inflight => Pending
        /\ pc = "raised" => taken = done
        /\ pc = "failed" => struck

\* A call on a set of writes goes forward with every file as `before` or as
\* the change leaves it, then back with the old contents of all that is done
\* at hand; the except branch raises only when the disk or an observer does.
WritesInv ==
    /\ OnlyWrites(changes)
    /\ CapturedBefore /\ SameShape /\ GoingForward /\ GoingBack
    /\ pc \in {"idle", "start", "perform", "finish"} => taken = 0

-----------------------------------------------------------------------------
(* The same call seen from outside: one step from its beginning to its end. *)

Atomic == INSTANCE AtomicChangeSet WITH
    tree <- IF Running THEN before ELSE tree,
    changes <- IF Running \/ Raised THEN entry ELSE changes,
    status <- IF Running THEN "running" ELSE IF Raised THEN "raised" ELSE pc

\* Every call of do or undo, however its steps are interleaved with a stop, and
\* wherever the disk fails or an observer raises, has one of the outcomes Changes!Outcomes lists:
\* what the history may rely on when it calls a change set.
ImplementsAtomic == Atomic!Spec
=============================================================================
