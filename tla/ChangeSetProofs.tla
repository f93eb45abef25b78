--------------------------- MODULE ChangeSetProofs ---------------------------
(***************************************************************************)
(* Theorems about ChangeSet, for every set of paths, texts and change sets: *)
(* its type invariant; that a call implements the abstract one of           *)
(* AtomicChangeSet; and, for sets of writes to different files, that a call *)
(* that raises puts back every file but the one in flight and those that    *)
(* its except branch was kept from, which only the disk or an observer can  *)
(* do; that undoing gives the tree from before the set and redoing the one  *)
(* from after it.                                                           *)
(***************************************************************************)
EXTENDS ChangeSet, ChangesProofs

-----------------------------------------------------------------------------
(* Type correctness *)

\* The change a method works on is one of the set.
LEMMA CurrentType ==
    ASSUME TypeOK, Pending
    PROVE  /\ Position(done + 1) \in 1..Len(changes)
           /\ Current \in Changes
           /\ done + 1 \in 1..Len(changes)
<1>1. done \in Nat /\ Len(changes) \in Nat /\ done < Len(changes)
  BY LenProperties DEF TypeOK, Pending
<1>2. Position(done + 1) \in 1..Len(changes)
  BY <1>1 DEF Position, TypeOK
<1> QED BY <1>1, <1>2, ElementOfSeq DEF Current, TypeOK

\* Replacing a change by another leaves a change set of the same length.
LEMMA ReplaceType ==
    ASSUME TypeOK, Pending, NEW c \in Changes
    PROVE  /\ [changes EXCEPT ![Position(done + 1)] = c] \in Seq(Changes)
           /\ Len([changes EXCEPT ![Position(done + 1)] = c]) = Len(changes)
BY CurrentType, ExceptSeq DEF TypeOK

\* The initial states have the right types.
LEMMA InitType == Init => TypeOK
<1> SUFFICES ASSUME Init PROVE TypeOK
  OBVIOUS
<1>1. <<>> \in Seq(Changes) /\ Len(<<>>) = 0
  BY EmptySeq
<1>2. changes \in Seq(Changes) /\ entry \in Seq(Changes) /\ Len(changes) = 0
  BY <1>1 DEF Init
<1>3. done = 0 /\ taken = 0 /\ pc = "idle" /\ mode = "do" /\ cause = "none"
  BY DEF Init
<1>4. inflight \in BOOLEAN /\ stopped \in BOOLEAN /\ struck \in BOOLEAN
  BY DEF Init
<1>5. tree \in Trees /\ before \in Trees /\ origin \in Trees
  BY ChangeSetAssumption DEF Init
<1> QED BY <1>2, <1>3, <1>4, <1>5 DEF TypeOK, PCs, Causes

\* Every step preserves the types.
LEMMA NextType == TypeOK /\ [Next]_vars => TypeOK'
<1> SUFFICES ASSUME TypeOK, [Next]_vars PROVE TypeOK'
  OBVIOUS
<1> USE DEF PCs, Causes, Except
<1>0. Len(changes) \in Nat /\ done \in Nat /\ taken \in Nat
  BY LenProperties DEF TypeOK
<1>1. CASE CallDo
  <2>1. changes' \in Seq(Changes)
    <3>1. PICK script \in Scripts :
             /\ \A i \in DOMAIN script : Built(script, tree)[i].dest \in Paths
             /\ changes' = Built(script, tree)
      BY <1>1 DEF CallDo
    <3> QED BY <3>1, BuiltType, ChangeSetAssumption DEF TypeOK
  <2>2. Len(changes') \in Nat
    BY <2>1, LenProperties
  <2>3. /\ entry' = changes' /\ origin' = tree /\ before' = tree /\ tree' = tree
        /\ mode' = "do" /\ pc' = "start" /\ done' = 0 /\ taken' = 0
        /\ inflight' = FALSE /\ cause' = "none" /\ stopped' = FALSE /\ struck' = FALSE
    BY <1>1 DEF CallDo, Begin
  <2>4. done' \in 0..Len(changes') /\ taken' \in 0..done'
    BY <2>2, <2>3
  <2> QED BY <2>1, <2>3, <2>4 DEF TypeOK
<1>2. CASE CallAgain
  <2>1. /\ entry' = changes /\ UNCHANGED <<changes, origin, tree>> /\ before' = tree
        /\ mode' = Opposite(mode) /\ pc' = "start" /\ done' = 0 /\ taken' = 0
        /\ inflight' = FALSE /\ cause' = "none" /\ stopped' = FALSE /\ struck' = FALSE
    BY <1>2 DEF CallAgain, Begin
  <2>2. mode' \in {"do", "undo"}
    BY <2>1 DEF Opposite
  <2>3. done' \in 0..Len(changes') /\ taken' \in 0..done'
    BY <1>0, <2>1
  <2> QED BY <2>1, <2>2, <2>3 DEF TypeOK
<1>3. CASE Stop
  BY <1>3 DEF Stop, TypeOK, Pending
<1>4. CASE StartJob
  BY <1>4 DEF StartJob, TypeOK, Pending
<1>5. CASE PerformJob
  <2>1. Pending
    BY <1>5 DEF PerformJob, TypeOK
  <2>2. Captured(Current, tree) \in Changes
    BY <2>1, CurrentType, CapturedType DEF TypeOK
  <2>3. changes' \in Seq(Changes) /\ Len(changes') = Len(changes)
    BY <1>5, <2>1, <2>2, ReplaceType DEF PerformJob, TypeOK
  <2>4. /\ Perform(mode, Current, tree).tree \in Trees
        /\ Perform(mode, Current, tree).ok \in BOOLEAN
    BY <2>1, CurrentType, PerformType DEF TypeOK
  <2>5. tree' \in Trees /\ inflight' \in BOOLEAN
    BY <1>5, <2>4 DEF PerformJob
  <2> QED BY <1>5, <2>1, <2>3, <2>5 DEF PerformJob, TypeOK, Pending
<1>6. CASE DiskFails
  <2>1. Pending
    BY <1>6 DEF DiskFails, TypeOK
  <2>2. Captured(Current, tree) \in Changes /\ Current \in Changes
    BY <2>1, CurrentType, CapturedType DEF TypeOK
  <2>3. changes' \in Seq(Changes) /\ Len(changes') = Len(changes)
    BY <1>6, <2>1, <2>2, ReplaceType DEF DiskFails
  <2>4. tree' \in Trees
    BY <1>6, <2>2, TruncatedType DEF DiskFails, TypeOK
  <2> QED BY <1>6, <2>1, <2>3, <2>4 DEF DiskFails, TypeOK, Pending
<1>7. CASE ObserverRaises
  BY <1>7 DEF ObserverRaises, TypeOK, Pending
<1>8. CASE FinishJob
  <2>1. /\ pc = "finish" /\ Pending
        /\ UNCHANGED <<tree, changes, mode, taken, stopped, struck, entry, before, origin>>
    BY <1>8 DEF FinishJob, TypeOK
  <2>2. CASE stopped
    BY <1>8, <2>1, <2>2 DEF FinishJob, TypeOK, Pending
  <2>3. CASE ~stopped
    <3>1. done' = done + 1 /\ pc' = "start" /\ inflight' = FALSE /\ cause' = cause
      BY <1>8, <2>3 DEF FinishJob
    <3>2. done' \in 0..Len(changes) /\ taken \in 0..done'
      BY <1>0, <2>1, <3>1 DEF TypeOK, Pending
    <3> QED BY <2>1, <3>1, <3>2 DEF TypeOK
  <2> QED BY <2>2, <2>3
<1>9. CASE Return
  BY <1>9 DEF Return, TypeOK, Pending
<1>10. CASE TakeBack \/ DiskFailsBack \/ ObserverRaisesBack
  <2>1. Position(taken + 1) \in 1..Len(changes) /\ taken + 1 \in 0..done
    BY <1>0, <1>10 DEF TakeBack, DiskFailsBack, ObserverRaisesBack, Position, TypeOK
  <2>2. TakingBack \in Changes /\ tree \in Trees /\ Opposite(mode) \in {"do", "undo"}
    BY <2>1, ElementOfSeq DEF TakingBack, Opposite, TypeOK
  <2>3. tree' \in Trees
    BY <1>10, <2>2, PerformType, TruncatedType DEF TakeBack, DiskFailsBack, ObserverRaisesBack
  <2>4. /\ pc' \in {"rollback", "failed"} /\ taken' \in 0..done /\ struck' \in BOOLEAN
        /\ UNCHANGED <<changes, mode, done, inflight, cause, stopped, entry, before, origin>>
    BY <1>0, <1>10, <2>1 DEF TakeBack, DiskFailsBack, ObserverRaisesBack, TypeOK
  <2> QED BY <2>3, <2>4 DEF TypeOK
<1>11. CASE Reraise
  BY <1>11 DEF Reraise, TypeOK, Pending
<1>12. CASE UNCHANGED vars
  BY <1>12 DEF vars, TypeOK, Pending
<1> QED BY <1>1, <1>2, <1>3, <1>4, <1>5, <1>6, <1>7, <1>8, <1>9, <1>10,
           <1>11, <1>12 DEF Next, Step

\* The variables of ChangeSet keep their types through every call, stop and
\* failure, for all paths, texts and change sets.
THEOREM TypeCorrect == Spec => []TypeOK
<1>1. Init => TypeOK
  BY InitType
<1>2. TypeOK /\ [Next]_vars => TypeOK'
  BY NextType
<1> QED BY <1>1, <1>2, PTL DEF Spec

-----------------------------------------------------------------------------
(* Sets of writes to different files *)

\* Going through a set backwards twice is going forwards.
LEMMA Positions ==
    ASSUME TypeOK
    PROVE  /\ Len(changes) \in Nat /\ DOMAIN changes = 1..Len(changes)
           /\ done \in Nat /\ taken \in Nat /\ taken <= done /\ done <= Len(changes)
           /\ \A i \in 1..Len(changes) :
                 Position(i) \in 1..Len(changes) /\ Position(Position(i)) = i
BY LenProperties DEF TypeOK, Position

\* Where only the contents of files differ, the same files can be written.
LEMMA SameFolders ==
    ASSUME SameShape, NEW p \in Paths
    PROVE  /\ tree[p] = Dir <=> before[p] = Dir
           /\ HasParent(tree, p) <=> HasParent(before, p)
<1>1. \A q \in Paths : tree[q] = Dir <=> before[q] = Dir
  BY FileTreeAssumption DEF SameShape
<1> QED BY <1>1 DEF HasParent

\* Before a change is made its file is as the call found it.
LEMMA CurrentUntouched ==
    ASSUME TypeOK, WritesInv, pc = "perform"
    PROVE  /\ Pending /\ Current \in Changes /\ Current.kind = "contents"
           /\ Position(done + 1) \in DOMAIN changes
           /\ \A i \in DOMAIN changes :
                 Performed(i) => i # Position(done + 1) /\ changes[i].res # Current.res
           /\ tree[Current.res] = before[Current.res]
           /\ Current.res \in Paths
<1>1. Pending
  BY DEF TypeOK
<1>2. /\ Position(done + 1) \in DOMAIN changes /\ Current \in Changes
      /\ Position(Position(done + 1)) = done + 1
  BY <1>1, CurrentType, Positions
<1>3. Current.kind = "contents"
  BY <1>2 DEF WritesInv, OnlyWrites, Current
<1>4. ASSUME NEW i \in DOMAIN changes, Performed(i)
      PROVE  i # Position(done + 1) /\ changes[i].res # Current.res
  <2>1. Position(i) <= done
    BY <1>4 DEF Performed
  <2>2. i # Position(done + 1)
    BY <1>2, <2>1, Positions
  <2> QED BY <1>2, <2>2 DEF WritesInv, OnlyWrites, Current
<1>5. Current.res \in Paths
  BY <1>2 DEF Changes
<1>6. tree[Current.res] = before[Current.res]
  BY <1>4, <1>5 DEF WritesInv, GoingForward
<1> QED BY <1>1, <1>2, <1>3, <1>4, <1>5, <1>6

\* What the capture of the old contents does to the set.
LEMMA AfterCapture ==
    ASSUME TypeOK, WritesInv, pc = "perform",
           changes' = IF mode = "do"
                      THEN [changes EXCEPT ![Position(done + 1)] = Captured(Current, tree)]
                      ELSE changes,
           UNCHANGED <<mode, done, before>>
    PROVE  /\ Len(changes') = Len(changes) /\ DOMAIN changes' = DOMAIN changes
           /\ OnlyWrites(changes)'
           /\ \A i \in DOMAIN changes :
                 /\ Position(i)' = Position(i)
                 /\ changes'[i].res = changes[i].res
                 /\ changes'[i].new = changes[i].new
                 /\ Performed(i) => changes'[i] = changes[i]
                 /\ mode = "undo" => changes'[i].old # None
                 /\ changes'[i].old # None =>
                       /\ before[changes'[i].res] \in Data
                       /\ Decode[before[changes'[i].res]] = From(i)'
<1> DEFINE idx == Position(done + 1)
<1>1. /\ Pending /\ Current \in Changes /\ idx \in DOMAIN changes
      /\ Current = changes[idx] /\ tree[Current.res] = before[Current.res]
      /\ \A i \in DOMAIN changes : Performed(i) => i # idx
  BY CurrentUntouched DEF Current
<1>2. /\ Captured(Current, tree) \in Changes
      /\ Captured(Current, tree).kind = Current.kind
      /\ Captured(Current, tree).res = Current.res
      /\ Captured(Current, tree).new = Current.new
      /\ Current.old # None => Captured(Current, tree) = Current
      /\ Current.old = None /\ Captured(Current, tree).old # None =>
            /\ tree[Current.res] \in Data
            /\ Captured(Current, tree).old = Decode[tree[Current.res]]
  BY <1>1, CapturedType, CapturedFields, SMTT(30) DEF TypeOK, CanRead, IsFile
<1>3. /\ Len(changes') = Len(changes) /\ DOMAIN changes' = DOMAIN changes
      /\ \A i \in DOMAIN changes :
            changes'[i] = IF mode = "do" /\ i = idx THEN Captured(Current, tree)
                                                    ELSE changes[i]
  BY <1>1, <1>2, Positions, ExceptSeq DEF TypeOK
<1>4. \A i \in DOMAIN changes :
         /\ changes'[i].res = changes[i].res /\ changes'[i].kind = changes[i].kind
         /\ changes'[i].new = changes[i].new
         /\ changes[i].old # None => changes'[i] = changes[i]
  BY <1>1, <1>2, <1>3
<1>5. OnlyWrites(changes)'
  BY <1>3, <1>4 DEF OnlyWrites, WritesInv
<1>6. \A i \in DOMAIN changes :
         Position(i)' = Position(i) /\ (Performed(i) => changes'[i] = changes[i])
  BY <1>1, <1>3 DEF Position
<1>7. ASSUME NEW i \in DOMAIN changes
      PROVE  /\ mode = "undo" => changes'[i].old # None
             /\ changes'[i].old # None =>
                   /\ before[changes'[i].res] \in Data
                   /\ Decode[before[changes'[i].res]] = From(i)'
  <2>1. CASE changes[i].old # None
    <3>1. changes'[i] = changes[i] /\ From(i)' = From(i)
      BY <1>4, <2>1 DEF From
    <3> QED BY <2>1, <3>1 DEF WritesInv, CapturedBefore
  <2>2. CASE changes[i].old = None
    <3>1. mode = "do"
      BY <2>2 DEF WritesInv, CapturedBefore, TypeOK
    <3>2. CASE i = idx
      <4>1. changes'[i] = Captured(Current, tree)
        BY <1>3, <3>1, <3>2
      <4>2. From(i)' = changes'[i].old
        BY <3>1 DEF From
      <4>3. Current.old = None
        BY <1>1, <2>2, <3>2
      <4>4. ASSUME changes'[i].old # None
            PROVE  /\ before[Current.res] \in Data
                   /\ Decode[before[Current.res]] = changes'[i].old
        BY <1>1, <1>2, <4>1, <4>3, <4>4
      <4> QED BY <1>2, <3>1, <4>1, <4>2, <4>4
    <3>3. CASE i # idx
      BY <1>3, <2>2, <3>1, <3>3
    <3> QED BY <3>2, <3>3
  <2> QED BY <2>1, <2>2
<1> QED BY <1>3, <1>4, <1>5, <1>6, <1>7

\* A change that is made, or fails, keeps the invariant.
LEMMA PerformKeeps == TypeOK /\ WritesInv /\ PerformJob => WritesInv'
<1> SUFFICES ASSUME TypeOK, WritesInv, PerformJob PROVE WritesInv'
  OBVIOUS
<1> DEFINE result == Perform(mode, Current, tree)
           path == Current.res
<1>1. /\ pc = "perform" /\ tree' = result.tree /\ inflight' = result.ok
      /\ UNCHANGED <<mode, done, taken, stopped, entry, before, origin>>
      /\ result.ok => pc' = "finish"
      /\ ~result.ok => pc' = "rollback"
  BY DEF PerformJob, Except
<1>0. PICK idx \in DOMAIN changes : idx = Position(done + 1)
  BY <1>1, CurrentUntouched
<1>2. /\ Pending /\ Current \in Changes /\ Current.kind = "contents"
      /\ idx \in DOMAIN changes /\ Current = changes[idx]
      /\ \A i \in DOMAIN changes : Performed(i) => i # idx /\ changes[i].res # path
      /\ tree[path] = before[path] /\ path \in Paths
  BY <1>0, <1>1, CurrentUntouched DEF Current
<1>3. /\ Len(changes') = Len(changes) /\ DOMAIN changes' = DOMAIN changes
      /\ OnlyWrites(changes)'
      /\ \A i \in DOMAIN changes :
            /\ Position(i)' = Position(i)
            /\ changes'[i].res = changes[i].res
            /\ changes'[i].new = changes[i].new
            /\ Performed(i) => changes'[i] = changes[i]
            /\ mode = "undo" => changes'[i].old # None
            /\ changes'[i].old # None =>
                  /\ before[changes'[i].res] \in Data
                  /\ Decode[before[changes'[i].res]] = From(i)'
  BY <1>1, AfterCapture DEF PerformJob
<1>4. \A i \in DOMAIN changes : Performed(i) <=> Position(i) <= done
  BY <1>1 DEF Performed
<1>5. taken = 0 /\ inflight = FALSE /\ result.ok \in BOOLEAN
  BY <1>1, <1>2, PerformType DEF WritesInv, GoingForward, TypeOK
<1>6. CASE result.ok
  <2>1. /\ HasParent(tree, path) /\ Captured(Current, tree).old # None
        /\ mode = "undo" => Current.old # None
        /\ tree' = [tree EXCEPT ![path] = IF mode = "do" THEN Current.new ELSE Current.old]
    <3>1. mode \in {"do", "undo"} /\ tree \in Trees
      BY DEF TypeOK
    <3>2. Perform(mode, Current, tree).ok /\ tree' = Perform(mode, Current, tree).tree
      BY <1>1, <1>6
    <3>3. /\ HasParent(tree, Current.res) /\ Captured(Current, tree).old # None
          /\ mode = "undo" => Current.old # None
          /\ Perform(mode, Current, tree).tree =
               [tree EXCEPT ![Current.res] = IF mode = "do" THEN Current.new ELSE Current.old]
      <4>1. Current \in Changes /\ Current.kind = "contents"
        BY <1>2
      <4> HIDE DEF result, path
      <4> QED BY ONLY <4>1, <3>1, <3>2, WriteSucceeds, Zenon
    <3> QED BY <3>2, <3>3
  <2>2. \A i \in DOMAIN changes : Performed(i)' <=> Performed(i) \/ i = idx
    BY <1>1, <1>2, <1>3, <1>0, <1>4, <1>6, Positions DEF Performed
  <2>3. /\ changes'[idx].old # None
        /\ To(idx)' = IF mode = "do" THEN Current.new ELSE Current.old
        /\ mode = "undo" => changes'[idx] = changes[idx]
    <3>1. CASE mode = "do"
      <4>1. changes'[idx] = Captured(Current, tree)
        BY <1>0, <1>2, <3>1 DEF PerformJob, TypeOK
      <4> QED BY <1>1, <1>2, <1>3, <2>1, <3>1, <4>1 DEF To
    <3>2. CASE mode # "do"
      <4>1. changes' = changes /\ mode = "undo"
        BY <3>2 DEF PerformJob, TypeOK
      <4> QED BY <1>1, <1>2, <2>1, <3>2, <4>1 DEF To
    <3> QED BY <3>1, <3>2
  <2>4. CapturedBefore'
    <3>1. HasParent(before, path)
      BY <1>2, <2>1, SameFolders DEF WritesInv
    <3>2. ASSUME NEW i \in DOMAIN changes, Performed(i)'
          PROVE  changes'[i].old # None /\ HasParent(before, changes'[i].res)
      <4>1. CASE i = idx
        BY <1>2, <1>3, <2>3, <3>1, <4>1
      <4>2. CASE Performed(i)
        BY <1>3, <4>2 DEF WritesInv, CapturedBefore
      <4> QED BY <2>2, <3>2, <4>1, <4>2
    <3> QED BY <1>1, <1>3, <3>2 DEF CapturedBefore
  <2>5. To(idx)' \in Texts
    BY <1>2, <2>1, <2>3 DEF Changes, TypeOK
  <2>6. SameShape'
    <3>1. before[path] \in Data
      BY <1>2, <1>3, <2>3
    <3>2. ASSUME NEW p \in Paths
          PROVE  tree'[p] = before[p] \/ (tree'[p] \in Data /\ before[p] \in Data)
      <4>1. CASE p = path
        BY <1>2, <2>1, <2>3, <2>5, <3>1, <4>1 DEF Data, TypeOK, Trees
      <4>2. CASE p # path
        BY <2>1, <4>2 DEF WritesInv, SameShape, TypeOK, Trees
      <4> QED BY <4>1, <4>2
    <3> QED BY <1>1, <3>2 DEF SameShape
  <2>7. GoingForward'
    <3>1. ASSUME NEW i \in DOMAIN changes, Performed(i)'
          PROVE  tree'[changes'[i].res] = To(i)'
      <4>1. CASE i = idx
        BY <1>2, <1>3, <2>1, <2>3, <4>1 DEF TypeOK, Trees
      <4>2. CASE Performed(i)
        <5>1. changes'[i] = changes[i] /\ changes[i].res # path /\ changes[i] \in Changes
          BY <1>2, <1>3, <4>2, ElementOfSeq DEF TypeOK
        <5>2. To(i)' = To(i) /\ tree[changes[i].res] = To(i)
          BY <1>1, <4>2, <5>1 DEF To, WritesInv, GoingForward
        <5> QED BY <2>1, <5>1, <5>2 DEF TypeOK, Trees, Changes
      <4> QED BY <2>2, <3>1, <4>1, <4>2
    <3>2. ASSUME NEW p \in Paths,
                 \A i \in DOMAIN changes : Performed(i)' => changes'[i].res # p
          PROVE  tree'[p] = before[p]
      <4>1. p # path
        BY <1>2, <1>3, <2>2, <3>2
      <4>2. \A i \in DOMAIN changes : Performed(i) => changes[i].res # p
        BY <1>3, <2>2, <3>2
      <4> QED BY <1>1, <2>1, <4>1, <4>2 DEF WritesInv, GoingForward, TypeOK, Trees
    <3> QED BY <1>1, <1>3, <1>6, <3>1, <3>2 DEF GoingForward
  <2>8. GoingBack'
    BY <1>1, <1>6 DEF GoingBack
  <2> QED BY <1>1, <1>3, <1>5, <1>6, <2>4, <2>6, <2>7, <2>8 DEF WritesInv
<1>7. CASE ~result.ok
  <2>1. tree' = tree
    BY <1>1, <1>2, <1>7, WriteFails DEF TypeOK
  <2>2. \A i \in DOMAIN changes : Performed(i)' <=> Performed(i)
    BY <1>1, <1>3, <1>4, <1>7 DEF Performed
  <2>3. CapturedBefore'
    BY <1>1, <1>3, <2>2 DEF CapturedBefore, WritesInv
  <2>4. SameShape' /\ GoingForward'
    BY <1>1, <1>7, <2>1 DEF WritesInv, SameShape, GoingForward
  <2>5. GoingBack'
    <3>1. \A i \in DOMAIN changes : ~(Position(i)' <= taken')
      BY <1>1, <1>3, <1>5, Positions
    <3>2. ASSUME NEW p \in Paths,
                 \A i \in DOMAIN changes : Position(i)' <= done' => changes'[i].res # p
          PROVE  tree'[p] = before'[p]
      BY <1>1, <1>3, <1>4, <2>1, <3>2 DEF WritesInv, GoingForward
    <3> QED BY <1>1, <1>3, <1>7, <3>1, <3>2 DEF GoingBack
  <2> QED BY <1>1, <1>3, <1>5, <1>7, <2>3, <2>4, <2>5 DEF WritesInv
<1> QED BY <1>5, <1>6, <1>7

\* The step at hand leaves the changes, the method and `before` as they are.
SameCall == UNCHANGED <<changes, mode, before>>

\* What follows from that for every change of the set.
LEMMA SameCallFacts ==
    ASSUME TypeOK, WritesInv, SameCall
    PROVE  /\ OnlyWrites(changes)'
           /\ DOMAIN changes' = DOMAIN changes
           /\ \A i \in DOMAIN changes :
                 /\ Position(i)' = Position(i) /\ From(i)' = From(i) /\ To(i)' = To(i)
                 /\ changes'[i] = changes[i]
           /\ (\A i \in DOMAIN changes : Performed(i)' => Performed(i)) => CapturedBefore'
           /\ tree' = tree => SameShape'
<1>1. /\ changes' = changes /\ mode' = mode /\ before' = before
  BY DEF SameCall
<1>2. OnlyWrites(changes)'
  BY <1>1 DEF OnlyWrites, WritesInv
<1>3. \A i \in DOMAIN changes :
         Position(i)' = Position(i) /\ From(i)' = From(i) /\ To(i)' = To(i)
  BY <1>1 DEF Position, From, To
<1>4. (\A i \in DOMAIN changes : Performed(i)' => Performed(i)) => CapturedBefore'
  BY <1>1, <1>3 DEF CapturedBefore, WritesInv
<1>5. tree' = tree => SameShape'
  BY <1>1 DEF SameShape, WritesInv
<1> QED BY <1>1, <1>2, <1>3, <1>4, <1>5

\* The check of the task handle before a job keeps the invariant.
LEMMA StartJobKeeps == TypeOK /\ WritesInv /\ StartJob => WritesInv'
<1> SUFFICES ASSUME TypeOK, WritesInv, StartJob PROVE WritesInv'
  OBVIOUS
<1>1. /\ pc = "start" /\ pc' \in {"perform", "rollback"}
      /\ UNCHANGED <<tree, changes, mode, done, taken, inflight, before>>
      /\ SameCall
  BY DEF StartJob, Except, SameCall
<1>2. taken = 0 /\ inflight = FALSE
  BY <1>1 DEF WritesInv, GoingForward
<1>3. \A i \in DOMAIN changes : (Performed(i)' <=> Performed(i)) /\ ~(Position(i) <= taken)
  BY <1>1, <1>2, SameCallFacts, Positions DEF Performed
<1>4. \A i \in DOMAIN changes : Performed(i) <=> Position(i) <= done
  BY <1>1 DEF Performed
<1>5. GoingForward'
  BY <1>1, <1>2, <1>3, SameCallFacts DEF GoingForward, WritesInv
<1>6. GoingBack'
  BY <1>1, <1>2, <1>3, <1>4, SameCallFacts DEF GoingForward, GoingBack, WritesInv
<1> QED BY <1>1, <1>2, <1>3, <1>5, <1>6, SameCallFacts DEF WritesInv

\* Entering the except branch after the change in flight was made.
LEMMA LandedKeeps ==
    ASSUME TypeOK, WritesInv, pc = "finish", pc' = "rollback",
           UNCHANGED <<tree, changes, mode, done, taken, inflight, before>>
    PROVE  WritesInv'
<1>1. SameCall
  BY DEF SameCall
<1>2. taken = 0 /\ inflight = TRUE /\ Pending
  BY DEF WritesInv, GoingForward, TypeOK
<1>3. \A i \in DOMAIN changes : (Performed(i)' => Performed(i)) /\ ~(Position(i) <= taken)
  BY <1>1, <1>2, SameCallFacts, Positions DEF Performed
<1>4. \A i \in DOMAIN changes :
         Performed(i) => Position(i) <= done \/ changes[i] = Current
  BY Positions DEF Performed, Current
<1>5. Current' = Current /\ Pending'
  BY <1>2 DEF Current, Position, Pending
<1>6. GoingForward'
  BY DEF GoingForward
<1>7. GoingBack'
  <2>1. ASSUME NEW p \in Paths, Current.res # p,
               \A i \in DOMAIN changes : Position(i) <= done => changes[i].res # p
        PROVE  tree[p] = before[p]
    <3>1. \A i \in DOMAIN changes : Performed(i) => changes[i].res # p
      BY <1>4, <2>1
    <3> QED BY <3>1 DEF GoingForward, WritesInv
  <2> QED BY <1>1, <1>2, <1>3, <1>5, <2>1, SameCallFacts DEF GoingBack
<1> QED BY <1>1, <1>2, <1>3, <1>6, <1>7, SameCallFacts DEF WritesInv

\* A change that joins `done`, or is interrupted, keeps the invariant.
LEMMA FinishJobKeeps == TypeOK /\ WritesInv /\ FinishJob => WritesInv'
<1> SUFFICES ASSUME TypeOK, WritesInv, FinishJob PROVE WritesInv'
  OBVIOUS
<1>1. pc = "finish" /\ UNCHANGED <<tree, changes, mode, taken, before>> /\ SameCall
  BY DEF FinishJob, SameCall
<1>2. CASE stopped
  <2>1. pc' = "rollback" /\ UNCHANGED <<done, inflight>>
    BY <1>2 DEF FinishJob, Except
  <2> QED BY <1>1, <2>1, LandedKeeps
<1>3. CASE ~stopped
  <2>1. pc' = "start" /\ done' = done + 1 /\ inflight' = FALSE
    BY <1>3 DEF FinishJob
  <2>2. \A i \in DOMAIN changes : Performed(i)' <=> Performed(i)
    BY <1>1, <2>1, SameCallFacts, Positions DEF Performed
  <2>3. GoingForward' /\ GoingBack'
    BY <1>1, <2>1, <2>2, SameCallFacts, ZenonT(60) DEF GoingForward, GoingBack, WritesInv
  <2>4. taken' = 0
    BY <1>1 DEF WritesInv
  <2> QED BY <1>1, <2>1, <2>2, <2>3, <2>4, SameCallFacts DEF WritesInv
<1> QED BY <1>2, <1>3

\* The return of a call that made all its changes keeps the invariant.
LEMMA ReturnKeeps == TypeOK /\ WritesInv /\ Return => WritesInv'
<1> SUFFICES ASSUME TypeOK, WritesInv, Return PROVE WritesInv'
  OBVIOUS
<1>1. /\ pc = "start" /\ pc' = "returned" /\ done = Len(changes)
      /\ UNCHANGED <<tree, changes, mode, done, taken, inflight, before>>
      /\ SameCall
  BY Positions DEF Return, SameCall, Pending
<1>2. \A i \in DOMAIN changes : Performed(i)' <=> Performed(i)
  BY <1>1, SameCallFacts DEF Performed
<1>3. GoingForward' /\ GoingBack'
  BY <1>1, <1>2, SameCallFacts DEF GoingForward, GoingBack, WritesInv
<1> QED BY <1>1, <1>2, <1>3, SameCallFacts DEF WritesInv

\* The end of the except branch keeps the invariant.
LEMMA ReraiseKeeps == TypeOK /\ WritesInv /\ Reraise => WritesInv'
<1> SUFFICES ASSUME TypeOK, WritesInv, Reraise PROVE WritesInv'
  OBVIOUS
<1>1. /\ pc = "rollback" /\ pc' = "raised" /\ taken = done
      /\ UNCHANGED <<tree, changes, mode, done, taken, inflight, before>>
      /\ SameCall
  BY DEF Reraise, SameCall
<1>2. \A i \in DOMAIN changes : Performed(i)' <=> Performed(i)
  BY <1>1, SameCallFacts DEF Performed
<1>3. Current' = Current /\ Pending' = Pending
  BY <1>1 DEF Current, Position, Pending
<1>4. GoingForward' /\ GoingBack'
  BY <1>1, <1>3, SameCallFacts DEF GoingForward, GoingBack, WritesInv
<1> QED BY <1>1, <1>2, <1>4, SameCallFacts DEF WritesInv

\* Taking a write back cannot fail by itself, and gives the file the text that
\* the call found in it.
LEMMA TakingBackWrites ==
    ASSUME TypeOK, WritesInv, pc = "rollback", taken < done
    PROVE  \E k \in DOMAIN changes :
             /\ k = Position(taken + 1) /\ Position(k) = taken + 1
             /\ TakingBack = changes[k] /\ changes[k].res \in Paths
             /\ \A i \in DOMAIN changes : i # k => changes[i].res # changes[k].res
             /\ before[changes[k].res] \in Data /\ Decode[before[changes[k].res]] = From(k)
             /\ From(k) \in Data /\ Decode[From(k)] = From(k)
             /\ Perform(Opposite(mode), changes[k], tree).ok
             /\ Perform(Opposite(mode), changes[k], tree).tree
                    = [tree EXCEPT ![changes[k].res] = From(k)]
<1>1. PICK k \in DOMAIN changes : k = Position(taken + 1) /\ Position(k) = taken + 1
  BY Positions
<1> DEFINE c == changes[k]
<1>3. /\ c \in Changes /\ c.kind = "contents" /\ c.res \in Paths
      /\ \A i \in DOMAIN changes : i # k => changes[i].res # c.res
  <2>1. c \in Changes
    BY <1>1, ElementOfSeq, Positions DEF TypeOK
  <2> QED BY <1>1, <2>1 DEF Changes, WritesInv, OnlyWrites
<1>4. /\ c.old # None /\ HasParent(before, c.res)
      /\ before[c.res] \in Data /\ Decode[before[c.res]] = From(k)
  <2>1. Performed(k)
    BY <1>1, Positions DEF Performed
  <2> QED BY <2>1 DEF WritesInv, CapturedBefore
<1>5. CanWrite(tree, c.res)
  <2>1. before[c.res] # Dir
    BY <1>4, FileTreeAssumption
  <2> QED BY <1>3, <1>4, <2>1, SameFolders DEF CanWrite, WritesInv
<1>6. /\ Perform(Opposite(mode), c, tree).ok
      /\ Perform(Opposite(mode), c, tree).tree = [tree EXCEPT ![c.res] = From(k)]
  <2>1. mode \in {"do", "undo"} /\ tree \in Trees
    BY DEF TypeOK
  <2>2. Opposite(mode) \in {"do", "undo"}
        /\ (Opposite(mode) = "do" <=> mode = "undo")
    BY <2>1 DEF Opposite
  <2>3. /\ Perform(Opposite(mode), c, tree).ok
        /\ Perform(Opposite(mode), c, tree).tree =
             [tree EXCEPT ![c.res] = IF Opposite(mode) = "do" THEN c.new ELSE c.old]
    <3> HIDE DEF c
    <3> QED BY <1>3, <1>4, <1>5, <2>1, <2>2, WriteCan, ZenonT(60)
  <2>4. From(k) = IF Opposite(mode) = "do" THEN c.new ELSE c.old
    BY <2>1, <2>2 DEF From
  <2> QED BY <2>3, <2>4
<1>7. From(k) \in Texts /\ From(k) \in Data /\ Decode[From(k)] = From(k)
  BY <1>3, <1>4, FileTreeAssumption DEF From, Changes, Data
<1> QED BY <1>1, <1>3, <1>4, <1>6, <1>7 DEF TakingBack

\* A step of the except branch keeps the invariant: it gives the file of the
\* change it comes to back, or fails there and leaves it with some contents.
LEMMA BackKeeps ==
    ASSUME TypeOK, WritesInv, pc = "rollback", taken < done, SameCall,
           UNCHANGED <<done, inflight>>, NEW text \in Data,
           tree' = [tree EXCEPT ![TakingBack.res] = text],
           \/ taken' = taken
           \/ taken' = taken + 1 /\ text = From(Position(taken + 1)),
           pc' \in {"rollback", "failed"}, pc' = "failed" => struck'
    PROVE  WritesInv'
<1>1. PICK k \in DOMAIN changes :
         /\ k = Position(taken + 1) /\ Position(k) = taken + 1
         /\ TakingBack = changes[k] /\ changes[k].res \in Paths
         /\ \A i \in DOMAIN changes : i # k => changes[i].res # changes[k].res
         /\ before[changes[k].res] \in Data /\ Decode[before[changes[k].res]] = From(k)
         /\ Decode[From(k)] = From(k)
  BY TakingBackWrites
<1> DEFINE c == changes[k]
<1>2. /\ tree'[c.res] = text
      /\ \A p \in Paths : p # c.res => tree'[p] = tree[p]
  BY <1>1 DEF TypeOK, Trees
<1>3. /\ changes' = changes /\ mode' = mode /\ before' = before
      /\ \A i \in DOMAIN changes : Performed(i)' <=> Performed(i)
  BY SameCallFacts DEF Performed, SameCall
<1>4. SameShape'
  BY <1>1, <1>2, <1>3 DEF SameShape, WritesInv
<1>5. Current' = Current /\ Pending' = Pending
  BY <1>3 DEF Current, Position, Pending
<1>6. GoingForward'
  BY DEF GoingForward
<1>7. \A i \in DOMAIN changes : changes[i].res \in Paths
  <2>1. \A i \in DOMAIN changes : changes[i] \in Changes
    BY ElementOfSeq, Positions DEF TypeOK
  <2> QED BY <2>1 DEF Changes
<1>8. GoingBack'
  <2>1. ASSUME NEW i \in DOMAIN changes, Position(i) <= taken'
        PROVE  Decode[tree'[changes[i].res]] = Decode[before[changes[i].res]]
    <3>1. CASE i = k
      <4>1. text = From(k)
        BY <1>1, <2>1, <3>1, Positions
      <4> QED BY <1>1, <1>2, <3>1, <4>1
    <3>2. CASE i # k
      <4>1. Position(i) <= taken
        BY <1>1, <2>1, <3>2, Positions
      <4> QED BY <1>1, <1>2, <1>7, <3>2, <4>1 DEF GoingBack, WritesInv
    <3> QED BY <3>1, <3>2
  <2>2. ASSUME NEW p \in Paths, inflight => Current.res # p,
               \A i \in DOMAIN changes : Position(i) <= done => changes[i].res # p
        PROVE  tree'[p] = before[p]
    <3>1. p # c.res
      BY <1>1, <2>2, Positions
    <3> QED BY <1>2, <2>2, <3>1 DEF GoingBack, WritesInv
  <2>3. inflight => Pending
    BY DEF GoingBack, WritesInv
  <2> QED BY <1>3, <1>5, <2>1, <2>2, <2>3, SameCallFacts DEF GoingBack
<1> QED BY <1>3, <1>4, <1>6, <1>8, SameCallFacts DEF WritesInv

\* The except branch takes a write back.
LEMMA TakeBackKeeps == TypeOK /\ WritesInv /\ TakeBack => WritesInv'
<1> SUFFICES ASSUME TypeOK, WritesInv, TakeBack PROVE WritesInv'
  OBVIOUS
<1>1. /\ pc = "rollback" /\ taken < done /\ SameCall /\ UNCHANGED <<done, inflight>>
  BY DEF TakeBack, SameCall
<1>2. PICK k \in DOMAIN changes :
         /\ k = Position(taken + 1) /\ TakingBack = changes[k] /\ From(k) \in Data
         /\ Perform(Opposite(mode), changes[k], tree).ok
         /\ Perform(Opposite(mode), changes[k], tree).tree
                = [tree EXCEPT ![changes[k].res] = From(k)]
  BY <1>1, TakingBackWrites
<1>3. /\ pc' = "rollback" /\ taken' = taken + 1
      /\ tree' = [tree EXCEPT ![TakingBack.res] = From(Position(taken + 1))]
  BY <1>2 DEF TakeBack
<1> QED BY <1>1, <1>2, <1>3, BackKeeps

\* The write that takes a change back breaks, or an observer raises after it.
LEMMA StruckKeeps ==
    TypeOK /\ WritesInv /\ (DiskFailsBack \/ ObserverRaisesBack) => WritesInv'
<1> SUFFICES ASSUME TypeOK, WritesInv, DiskFailsBack \/ ObserverRaisesBack PROVE WritesInv'
  OBVIOUS
<1>1. /\ pc = "rollback" /\ taken < done /\ SameCall /\ UNCHANGED <<done, inflight>>
      /\ pc' = "failed" /\ struck'
  BY DEF DiskFailsBack, ObserverRaisesBack, SameCall
<1>2. CASE DiskFailsBack
  <2>1. Empty \in Data /\ tree' = [tree EXCEPT ![TakingBack.res] = Empty] /\ taken' = taken
    BY <1>2, FileTreeAssumption DEF DiskFailsBack, Truncated, Data
  <2> QED BY <1>1, <2>1, BackKeeps
<1>3. CASE ObserverRaisesBack
  <2>1. PICK k \in DOMAIN changes :
           /\ k = Position(taken + 1) /\ TakingBack = changes[k] /\ From(k) \in Data
           /\ Perform(Opposite(mode), changes[k], tree).tree
                  = [tree EXCEPT ![changes[k].res] = From(k)]
    BY <1>1, TakingBackWrites
  <2>2. /\ taken' = taken + 1
        /\ tree' = [tree EXCEPT ![TakingBack.res] = From(Position(taken + 1))]
    BY <1>3, <2>1 DEF ObserverRaisesBack
  <2> QED BY <1>1, <2>1, <2>2, BackKeeps
<1> QED BY <1>2, <1>3

\* A write that leaves its file empty keeps the invariant.
LEMMA DiskFailsKeeps == TypeOK /\ WritesInv /\ DiskFails => WritesInv'
<1> SUFFICES ASSUME TypeOK, WritesInv, DiskFails PROVE WritesInv'
  OBVIOUS
<1>1. /\ pc = "perform" /\ pc' = "rollback" /\ inflight' = TRUE
      /\ tree' = [tree EXCEPT ![Current.res] = Empty]
      /\ UNCHANGED <<mode, done, taken, before>>
  BY DEF DiskFails, Except, Truncated
<1>2. PICK k \in DOMAIN changes : k = Position(done + 1)
  BY <1>1, CurrentUntouched
<1>3. /\ Pending /\ Current = changes[k] /\ Current.res \in Paths
      /\ \A i \in DOMAIN changes : Performed(i) => i # k
      /\ tree[Current.res] = before[Current.res]
  BY <1>1, <1>2, CurrentUntouched DEF Current
<1>4. /\ changes' = IF mode = "do"
                    THEN [changes EXCEPT ![Position(done + 1)] = Captured(Current, tree)]
                    ELSE changes
      /\ changes'[k].old # None
  <2>1. CASE mode = "do"
    BY <1>2, <2>1 DEF DiskFails
  <2>2. CASE mode # "do"
    <3>1. Current.old # None /\ changes' = [changes EXCEPT ![k] = changes[k]]
      BY <1>2, <1>3, <2>2 DEF DiskFails
    <3>2. changes' = changes
      <4>1. changes \in [1..Len(changes) -> Changes]
        BY LenProperties DEF TypeOK
      <4> QED BY <3>1, <4>1
    <3> QED BY <1>3, <2>2, <3>1, <3>2
  <2> QED BY <2>1, <2>2
<1>5. /\ Len(changes') = Len(changes) /\ DOMAIN changes' = DOMAIN changes
      /\ OnlyWrites(changes)'
      /\ \A i \in DOMAIN changes :
            /\ Position(i)' = Position(i)
            /\ changes'[i].res = changes[i].res
            /\ Performed(i) => changes'[i] = changes[i]
            /\ mode = "undo" => changes'[i].old # None
            /\ changes'[i].old # None =>
                  /\ before[changes'[i].res] \in Data
                  /\ Decode[before[changes'[i].res]] = From(i)'
  BY <1>1, <1>4, AfterCapture
<1>6. \A i \in DOMAIN changes :
         (Performed(i)' <=> Performed(i)) /\ (Performed(i) <=> Position(i) <= done)
  BY <1>1, <1>5 DEF Performed
<1>7. taken = 0
  BY <1>1 DEF WritesInv
<1>8. CapturedBefore'
  BY <1>1, <1>5, <1>6 DEF CapturedBefore, WritesInv
<1>9. Empty \in Data /\ before[Current.res] \in Data
  BY <1>3, <1>4, <1>5, FileTreeAssumption DEF Data
<1>10. \A p \in Paths : tree'[p] = IF p = Current.res THEN Empty ELSE tree[p]
  BY <1>1 DEF TypeOK, Trees
<1>11. SameShape'
  BY <1>1, <1>9, <1>10 DEF SameShape, WritesInv
<1>12. GoingForward'
  BY <1>1 DEF GoingForward
<1>13. GoingBack'
  <2>1. Current'.res = Current.res /\ Pending'
    <3>1. Current' = changes'[k]
      BY <1>1, <1>2, <1>5 DEF Current, Position
    <3> QED BY <1>1, <1>3, <1>5, <3>1 DEF Pending
  <2>2. \A i \in DOMAIN changes : ~(Position(i) <= taken)
    BY <1>7, Positions
  <2>3. ASSUME NEW p \in Paths, Current.res # p,
               \A i \in DOMAIN changes : Position(i) <= done => changes[i].res # p
        PROVE  tree'[p] = before[p]
    BY <1>1, <1>6, <1>10, <2>3 DEF GoingForward, WritesInv
  <2> QED BY <1>1, <1>5, <2>1, <2>2, <2>3 DEF GoingBack
<1> QED BY <1>1, <1>5, <1>7, <1>8, <1>11, <1>12, <1>13 DEF WritesInv

\* Undoing a set that was done, or redoing one that was undone, begins with
\* the contents that the last call left.
LEMMA CallAgainKeeps == TypeOK /\ WritesInv /\ CallAgain => WritesInv'
<1> SUFFICES ASSUME TypeOK, WritesInv, CallAgain PROVE WritesInv'
  OBVIOUS
<1>1. /\ pc = "returned" /\ pc' = "start" /\ mode' = Opposite(mode)
      /\ done' = 0 /\ taken' = 0 /\ inflight' = FALSE
      /\ before' = tree /\ tree' = tree /\ changes' = changes
  BY DEF CallAgain, Begin
<1>2. \A i \in DOMAIN changes : Performed(i)
  <2>1. done = Len(changes)
    BY <1>1 DEF GoingForward, WritesInv
  <2> QED BY <2>1, Positions DEF Performed
<1>3. \A i \in DOMAIN changes : ~Performed(i)'
  <2>1. ASSUME NEW i \in DOMAIN changes PROVE Position(i)' > 0
    BY <1>1, Positions DEF Position
  <2> QED BY <1>1, <2>1, Positions DEF Performed, Position
<1>4. ASSUME NEW i \in DOMAIN changes
      PROVE  /\ changes[i].old # None
             /\ tree[changes[i].res] = From(i)'
             /\ From(i)' \in Texts
  <2>1. changes[i] \in Changes
    BY ElementOfSeq, Positions DEF TypeOK
  <2>2. changes[i].old # None /\ tree[changes[i].res] = To(i)
    BY <1>1, <1>2 DEF WritesInv, CapturedBefore, GoingForward
  <2>3. From(i)' = To(i)
    BY <1>1 DEF From, To, Opposite, TypeOK
  <2> QED BY <2>1, <2>2, <2>3 DEF To, Changes
<1>5. \A t \in Texts : t \in Data /\ Decode[t] = t
  BY FileTreeAssumption DEF Data
<1>6. OnlyWrites(changes)'
  BY <1>1 DEF OnlyWrites, WritesInv
<1>7. CapturedBefore'
  BY <1>1, <1>3, <1>4, <1>5 DEF CapturedBefore
<1>8. SameShape'
  BY <1>1 DEF SameShape
<1>9. GoingForward' /\ GoingBack'
  BY <1>1, <1>3 DEF GoingForward, GoingBack
<1> QED BY <1>1, <1>6, <1>7, <1>8, <1>9 DEF WritesInv

\* A set of writes begins with nothing captured.
LEMMA CallDoKeeps ==
    ASSUME WriteScripts
    PROVE  TypeOK /\ WritesInv /\ CallDo => WritesInv'
<1> SUFFICES ASSUME TypeOK, WritesInv, CallDo PROVE WritesInv'
  OBVIOUS
<1>1. /\ pc' = "start" /\ mode' = "do"
      /\ done' = 0 /\ taken' = 0 /\ inflight' = FALSE
      /\ before' = tree /\ tree' = tree
  BY DEF CallDo, Begin
<1>2. PICK script \in Scripts : changes' = Built(script, tree)
  BY DEF CallDo
<1>3. /\ DOMAIN changes' = DOMAIN script
      /\ \A i \in DOMAIN script : changes'[i] = script[i]
  BY <1>2 DEF Built, BuiltOne, WriteScripts, OnlyWrites
<1>4. \A i \in DOMAIN script : i \in Nat /\ i > 0
  <2>1. script \in Seq(Changes)
    BY ChangeSetAssumption
  <2> QED BY <2>1, LenProperties
<1>5. /\ OnlyWrites(changes)'
      /\ \A i \in DOMAIN changes' : changes'[i].old = None
  BY <1>3 DEF WriteScripts, OnlyWrites
<1>6. \A i \in DOMAIN changes' : ~Performed(i)'
  BY <1>1, <1>3, <1>4 DEF Performed, Position
<1>7. CapturedBefore'
  BY <1>1, <1>5, <1>6 DEF CapturedBefore
<1>8. SameShape'
  BY <1>1 DEF SameShape
<1>9. GoingForward' /\ GoingBack'
  BY <1>1, <1>6 DEF GoingForward, GoingBack
<1> QED BY <1>1, <1>5, <1>7, <1>8, <1>9 DEF WritesInv

\* A step of another thread, or none, keeps the invariant.
LEMMA OthersKeep ==
    ASSUME TypeOK, WritesInv,
           UNCHANGED <<tree, changes, mode, pc, done, taken, inflight, struck, before>>
    PROVE  WritesInv'
<1>1. SameCall
  BY DEF SameCall
<1>2. \A i \in DOMAIN changes : Performed(i)' <=> Performed(i)
  BY <1>1, SameCallFacts DEF Performed
<1>3. Current' = Current /\ Pending' = Pending
  BY DEF Current, Position, Pending
<1>4. GoingForward'
  BY <1>1, <1>2, SameCallFacts DEF GoingForward, WritesInv
<1>5. GoingBack'
  BY <1>1, <1>3, SameCallFacts DEF GoingBack, WritesInv
<1> QED BY <1>1, <1>2, <1>4, <1>5, SameCallFacts DEF WritesInv

\* For sets of writes to different files, whatever the texts, the trees and
\* the faults: the invariant of a call that goes forward and comes back.
THEOREM WritesCorrect ==
    ASSUME WriteScripts
    PROVE  Spec => []WritesInv
<1>1. Init => WritesInv
  <2> SUFFICES ASSUME Init PROVE WritesInv
    OBVIOUS
  <2>1. changes = <<>> /\ pc = "idle" /\ taken = 0 /\ before = tree /\ mode = "do"
    BY DEF Init
  <2>2. DOMAIN changes = {}
    BY <2>1
  <2> QED BY <2>1, <2>2 DEF WritesInv, OnlyWrites, CapturedBefore, SameShape,
                            GoingForward, GoingBack
<1>2. TypeOK /\ WritesInv /\ [Next]_vars => WritesInv'
  <2> SUFFICES ASSUME TypeOK, WritesInv, [Next]_vars PROVE WritesInv'
    OBVIOUS
  <2>1. CASE CallDo
    BY <2>1, CallDoKeeps
  <2>2. CASE CallAgain
    BY <2>2, CallAgainKeeps
  <2>3. CASE Stop \/ UNCHANGED vars
    BY <2>3, OthersKeep DEF Stop, vars
  <2>4. CASE StartJob
    BY <2>4, StartJobKeeps
  <2>5. CASE PerformJob
    BY <2>5, PerformKeeps
  <2>6. CASE DiskFails
    BY <2>6, DiskFailsKeeps
  <2>7. CASE ObserverRaises
    BY <2>7, LandedKeeps DEF ObserverRaises, Except
  <2>8. CASE FinishJob
    BY <2>8, FinishJobKeeps
  <2>9. CASE Return
    BY <2>9, ReturnKeeps
  <2>10. CASE TakeBack
    BY <2>10, TakeBackKeeps
  <2>11. CASE Reraise
    BY <2>11, ReraiseKeeps
  <2>12. CASE DiskFailsBack \/ ObserverRaisesBack
    BY <2>12, StruckKeeps
  <2> QED BY <2>1, <2>2, <2>3, <2>4, <2>5, <2>6, <2>7, <2>8, <2>9, <2>10,
             <2>11, <2>12 DEF Next, Step
<1> QED BY <1>1, <1>2, TypeCorrect, PTL DEF Spec

\* A change that was made and not taken back is the one in flight, or one that
\* the except branch did not come to.
LEMMA NotTakenBack ==
    ASSUME TypeOK, WritesInv, pc \in {"raised", "failed"},
           NEW p \in Paths, ~LeftBehind(p), NEW i \in DOMAIN changes,
           changes[i].res = p,
           Position(i) <= done \/ (inflight /\ Position(i) = done + 1)
    PROVE  Position(i) <= taken
<1>1. Position(i) \in DOMAIN changes /\ Position(Position(i)) = i /\ Made(Position(i))
  BY Positions DEF Made
<1>2. Alters(Position(i), p)
  <2>1. [path |-> p, folder |-> changes[i].folder] \in ChangedByOne(changes[i])
    BY DEF ChangedByOne
  <2> QED BY <1>1, <2>1 DEF Alters, Touches
<1>3. Position(i) <= done /\ ~CutShort(Position(i))
  BY <1>1, <1>2, Positions DEF LeftBehind
<1>4. pc = "raised" => taken = done
  BY DEF WritesInv, GoingBack
<1> QED BY <1>1, <1>3, <1>4, Positions DEF CutShort

\* Whenever a call on a set of writes to different files raises, whatever
\* raised and when, in the loop or in the except branch: ChangeSet has restored
\* every file but the one in flight and the ones a broken write or an observer
\* kept the except branch from.
THEOREM WritesRollBack ==
    ASSUME WriteScripts
    PROVE  Spec => []RollbackRestores
<1>1. TypeOK /\ WritesInv => RollbackRestores
  <2> SUFFICES ASSUME TypeOK, WritesInv, pc \in {"raised", "failed"}, NEW p \in Paths,
                      ~LeftBehind(p)
               PROVE  SameText(tree, before, p)
    BY DEF RollbackRestores, Raised, WritesInv
  <2>1. inflight => Pending
    BY DEF WritesInv, GoingBack
  <2>2. inflight => Current.res # p
    <3> SUFFICES ASSUME inflight, Current.res = p PROVE FALSE
      OBVIOUS
    <3>1. /\ Position(done + 1) \in DOMAIN changes
          /\ Position(Position(done + 1)) = done + 1
      BY <2>1, CurrentType, Positions
    <3>2. Position(Position(done + 1)) <= taken
      BY <3>1, NotTakenBack DEF Current
    <3> QED BY <3>1, <3>2, Positions
  <2>3. CASE \E i \in DOMAIN changes : Position(i) <= done /\ changes[i].res = p
    <3>1. Decode[tree[p]] = Decode[before[p]]
      BY <2>3, NotTakenBack DEF WritesInv, GoingBack
    <3>2. tree[p] = before[p] \/ (tree[p] \in Data /\ before[p] \in Data)
      BY DEF WritesInv, SameShape
    <3> QED BY <3>1, <3>2 DEF SameText
  <2>4. CASE \A i \in DOMAIN changes : Position(i) <= done => changes[i].res # p
    BY <2>2, <2>4 DEF WritesInv, GoingBack, SameText
  <2> QED BY <2>3, <2>4
<1> QED BY <1>1, TypeCorrect, WritesCorrect, PTL

\* The exception that stopped a call on such a set reaches the caller: another
\* one takes its place only when a write breaks, or an observer raises, in the
\* except branch.
THEOREM WritesKeepCause ==
    ASSUME WriteScripts
    PROVE  Spec => []CauseReachesCaller
<1>1. WritesInv => CauseReachesCaller
  BY DEF WritesInv, GoingBack, CauseReachesCaller
<1> QED BY <1>1, WritesCorrect, PTL

-----------------------------------------------------------------------------
(* The abstract module's own operators on changes are those of Changes *)

\* The disk operations of the two modules are the same.
LEMMA SameDisk ==
    /\ \A t, p : /\ Atomic!CanRead(t, p) <=> CanRead(t, p)
                 /\ Atomic!CanWrite(t, p) <=> CanWrite(t, p)
                 /\ Atomic!RemoveNode(t, p) = RemoveNode(t, p)
    /\ \A t, p, v : /\ Atomic!WriteFile(t, p, v) = WriteFile(t, p, v)
                    /\ Atomic!CreateNode(t, p, v) = CreateNode(t, p, v)
                    /\ Atomic!MovePath(t, p, v) = MovePath(t, p, v)
<1>1. \A p, q : Atomic!Within(p, q) <=> Within(p, q)
  BY DEF Atomic!Within, Within, Atomic!Seqs!IsStrictPrefix, Seqs!IsStrictPrefix,
         Atomic!Seqs!IsPrefix, Seqs!IsPrefix
<1>2. /\ \A t, p : /\ Atomic!HasParent(t, p) <=> HasParent(t, p)
                   /\ Atomic!Exists(t, p) <=> Exists(t, p)
                   /\ Atomic!IsFile(t, p) <=> IsFile(t, p)
      /\ \A t : Atomic!Raises(t) = Raises(t) /\ Atomic!Leaves(t) = Leaves(t)
  BY DEF Atomic!HasParent, HasParent, Atomic!Parent, Parent, Atomic!Exists, Exists,
         Atomic!IsFile, IsFile, Atomic!Data, Data, Atomic!Raises, Raises,
         Atomic!Leaves, Leaves
<1>3. \A t, p : Atomic!CanRead(t, p) <=> CanRead(t, p)
  BY <1>2 DEF Atomic!CanRead, CanRead
<1>4. /\ \A t, p : Atomic!CanWrite(t, p) <=> CanWrite(t, p)
      /\ \A t, p, v : Atomic!WriteFile(t, p, v) = WriteFile(t, p, v)
  BY <1>2 DEF Atomic!WriteFile, WriteFile, Atomic!CanWrite, CanWrite
<1>5. \A t, p, v : Atomic!CreateNode(t, p, v) = CreateNode(t, p, v)
  BY <1>2 DEF Atomic!CreateNode, CreateNode
<1>6. \A t, p : Atomic!RemoveNode(t, p) = RemoveNode(t, p)
  BY <1>1, <1>2 DEF Atomic!RemoveNode, RemoveNode
<1>7. \A p, q, r : Atomic!Rebased(p, q, r) = Rebased(p, q, r) /\ Atomic!Target(p, q, r) = Target(p, q, r)
  BY DEF Atomic!Rebased, Rebased, Atomic!Target, Target
<1>8. \A t, p, q : Atomic!CanMove(t, p, q) <=> CanMove(t, p, q)
  BY <1>1, <1>2, <1>7 DEF Atomic!CanMove, CanMove, Atomic!FitsIn, FitsIn
<1>9. \A t, p, q : Atomic!Renamed(t, p, q) = Renamed(t, p, q)
  BY <1>1, <1>7 DEF Atomic!Renamed, Renamed, Atomic!Arrived, Arrived
<1>10. \A t, p, v : Atomic!MovePath(t, p, v) = MovePath(t, p, v)
  BY <1>2, <1>7, <1>8, <1>9 DEF Atomic!MovePath, MovePath
<1> QED BY <1>3, <1>4, <1>5, <1>6, <1>10

\* Performing a change is the same in the two modules.
LEMMA SamePerform ==
    /\ \A c, t : Atomic!Captured(c, t) = Captured(c, t) /\ Atomic!BuiltOne(c, t) = BuiltOne(c, t)
    /\ \A m, c, t : Atomic!Perform(m, c, t) = Perform(m, c, t)
<1>1. \A c, t : Atomic!Captured(c, t) = Captured(c, t) /\ Atomic!BuiltOne(c, t) = BuiltOne(c, t)
  BY SameDisk DEF Atomic!Captured, Captured, Atomic!BuiltOne, BuiltOne
<1>2. \A t : Atomic!Raises(t) = Raises(t)
  BY DEF Atomic!Raises, Raises
<1>3. \A c, t : Atomic!DoChange(c, t) = DoChange(c, t)
  BY <1>1, <1>2, SameDisk DEF Atomic!DoChange, DoChange
<1>4. \A c, t : Atomic!UndoChange(c, t) = UndoChange(c, t)
  BY <1>2, SameDisk DEF Atomic!UndoChange, UndoChange
<1> QED BY <1>1, <1>3, <1>4 DEF Atomic!Perform, Perform

\* Performing a set is the same in the two modules.
LEMMA SameRun == \A m, s, t : Atomic!RunAll(m, s, t) = RunAll(m, s, t)
<1>1. \A m, r, c : Atomic!Extend(m, r, c) = Extend(m, r, c)
  BY SamePerform DEF Atomic!Extend, Extend
<1> QED BY <1>1, ZenonT(60) DEF Atomic!RunAll, RunAll

\* The outcomes of a call are the same in the two modules.
LEMMA SameOutcomes ==
    /\ \A m, s, t : Atomic!Outcomes(m, s, t) = Outcomes(m, s, t)
    /\ \A s, t : Atomic!Built(s, t) = Built(s, t)
    /\ \A m : Atomic!Opposite(m) = Opposite(m)
<1>1. \A m : Atomic!Opposite(m) = Opposite(m)
  BY DEF Atomic!Opposite, Opposite
<1>2. \A m, s : Atomic!InOrder(m, s) = InOrder(m, s)
  BY DEF Atomic!InOrder, InOrder, Atomic!Seqs!Reverse, Seqs!Reverse
<1>3. \A m, r : Atomic!TakenBack(m, r) = TakenBack(m, r)
  BY <1>1, SameRun DEF Atomic!TakenBack, TakenBack
<1>4. \A m, s, t : Atomic!RunSet(m, s, t) = RunSet(m, s, t)
  BY <1>2, <1>3, SameRun, ZenonT(60) DEF Atomic!RunSet, RunSet
<1>5. \A c, t : Atomic!Truncated(c, t) = Truncated(c, t)
  BY DEF Atomic!Truncated, Truncated
<1>6. \A m, s, n, h, t : Atomic!Halted(m, s, n, h, t) = Halted(m, s, n, h, t)
  <2> SUFFICES ASSUME NEW m, NEW s, NEW n, NEW h, NEW t
               PROVE  Atomic!Halted(m, s, n, h, t) = Halted(m, s, n, h, t)
    OBVIOUS
  <2> DEFINE plan == InOrder(m, s)
             r == RunAll(m, SubSeq(plan, 1, n - 1), t)
             torn == Truncated(plan[n], r.tree)
             landed == Perform(m, plan[n], r.tree).tree
             same(a, b) == [r EXCEPT !.tree = CASE h = "before" -> r.tree
                                                [] h = "torn" -> a
                                                [] h = "landed" -> b]
  <2>1. Atomic!InOrder(m, s) = plan /\ Atomic!RunAll(m, SubSeq(plan, 1, n - 1), t) = r
    BY <1>2, SameRun
  <2>2. Atomic!Truncated(plan[n], r.tree) = torn /\ Atomic!Perform(m, plan[n], r.tree).tree = landed
    BY <1>5, SamePerform
  <2>3. Halted(m, s, n, h, t) = same(torn, landed)
    BY DEF Halted
  <2>4. Atomic!Halted(m, s, n, h, t)
            = same(Atomic!Truncated(plan[n], r.tree), Atomic!Perform(m, plan[n], r.tree).tree)
    <3> HIDE DEF plan, r
    <3> QED BY <2>1 DEF Atomic!Halted, r
  <2> HIDE DEF same, torn, landed
  <2> QED BY <2>2, <2>3, <2>4
<1>7. \A m, s, t : Atomic!Halts(m, s, t) = Halts(m, s, t)
  BY <1>2, <1>6, SameRun DEF Atomic!JobsReached, JobsReached, Atomic!Halts, Halts
<1>8. \A m, r : Atomic!RolledBack(m, r) = RolledBack(m, r)
  <2>1. \A m, r, k : Atomic!CutAfter(m, r, k) = CutAfter(m, r, k)
    BY <1>1, SameRun DEF Atomic!CutAfter, CutAfter
  <2>2. \A m, r, k : Atomic!CutWithin(m, r, k) = CutWithin(m, r, k)
    BY <1>1, <1>5, SameRun, SameDisk DEF Atomic!CutWithin, CutWithin
  <2> QED BY <1>3, <2>1, <2>2 DEF Atomic!RolledBack, RolledBack
<1>9. \A m, s, t : Atomic!Outcomes(m, s, t) = Outcomes(m, s, t)
  BY <1>4, <1>7, <1>8 DEF Atomic!Outcomes, Outcomes
<1>10. \A s, t : Atomic!Built(s, t) = Built(s, t)
  BY SamePerform DEF Atomic!Built, Built
<1> QED BY <1>1, <1>9, <1>10

-----------------------------------------------------------------------------
(* A call up to its n-th change, and back *)

\* Where the first n changes of a call have brought it.
RunTo(m, s, t, n) == RunAll(m, SubSeq(InOrder(m, s), 1, n), t)

\* The n-th change is made.
Landed(m, s, t, n) == Perform(m, InOrder(m, s)[n], RunTo(m, s, t, n - 1).tree)

\* How the next change stands when a call stops: not begun or undone by its own
\* failure, made, or broken in the middle of its write.
Hows == {"before", "landed", "torn"}

CanStop(m, s, t, n, how) ==
    /\ how # "before" => Landed(m, s, t, n + 1).ok
    /\ how = "torn" => InOrder(m, s)[n + 1].kind = "contents"

\* The directory when the call stops so after n changes.
StoppedAt(m, s, t, n, how) ==
    CASE how = "before" -> RunTo(m, s, t, n).tree
      [] how = "landed" -> Landed(m, s, t, n + 1).tree
      [] how = "torn" -> Truncated(InOrder(m, s)[n + 1], RunTo(m, s, t, n).tree)

\* The except branch after k of the n changes.
BackTo(m, s, t, n, how, k) ==
    RunAll(Opposite(m), SubSeq(RunTo(m, s, t, n).done, 1, k), StoppedAt(m, s, t, n, how))

\* A call goes on by one change at a time.
LEMMA RunToSteps ==
    ASSUME NEW m \in {"do", "undo"}, NEW s \in Seq(Changes), NEW t \in Trees
    PROVE  /\ RunTo(m, s, t, 0) = NotBegun(t)
           /\ RunTo(m, s, t, Len(s)) = RunAll(m, InOrder(m, s), t)
           /\ \A n \in 0..Len(s) :
                /\ RunTo(m, s, t, n) \in [ok : BOOLEAN, tree : Trees, done : Seq(Changes)]
                /\ RunTo(m, s, t, n).ok => Len(RunTo(m, s, t, n).done) = n
           /\ \A n \in 1..Len(s) :
                RunTo(m, s, t, n) = Extend(m, RunTo(m, s, t, n - 1), InOrder(m, s)[n])
<1> DEFINE plan == InOrder(m, s)
<1>1. plan \in Seq(Changes) /\ Len(plan) = Len(s)
  BY InOrderType
<1> HIDE DEF plan
<1>2. /\ RunAll(m, SubSeq(plan, 1, 0), t) = NotBegun(t)
      /\ RunAll(m, SubSeq(plan, 1, Len(s)), t) = RunAll(m, plan, t)
      /\ \A n \in 1..Len(s) :
            RunAll(m, SubSeq(plan, 1, n), t) = Extend(m, RunAll(m, SubSeq(plan, 1, n - 1), t), plan[n])
  <2>1. /\ RunAll(m, SubSeq(plan, 1, 0), t) = NotBegun(t)
        /\ RunAll(m, SubSeq(plan, 1, Len(plan)), t) = RunAll(m, plan, t)
        /\ \A n \in 1..Len(plan) :
              RunAll(m, SubSeq(plan, 1, n), t)
                  = Extend(m, RunAll(m, SubSeq(plan, 1, n - 1), t), plan[n])
    <3>1. RunAll(m, SubSeq(plan, 1, 0), t) = NotBegun(t)
      BY <1>1, RunSteps
    <3>2. RunAll(m, SubSeq(plan, 1, Len(plan)), t) = RunAll(m, plan, t)
      BY <1>1, RunSteps
    <3>3. ASSUME NEW u \in Seq(Changes), NEW n \in 1..Len(u)
          PROVE  RunAll(m, SubSeq(u, 1, n), t)
                    = Extend(m, RunAll(m, SubSeq(u, 1, n - 1), t), u[n])
      BY RunStep
    <3> QED BY <1>1, <3>1, <3>2, <3>3
  <2> QED BY <1>1, <2>1
<1>3. ASSUME NEW n \in 0..Len(s)
      PROVE  /\ RunAll(m, SubSeq(plan, 1, n), t) \in [ok : BOOLEAN, tree : Trees, done : Seq(Changes)]
             /\ RunAll(m, SubSeq(plan, 1, n), t).ok
                    => Len(RunAll(m, SubSeq(plan, 1, n), t).done) = n
  <2>1. SubSeq(plan, 1, n) \in Seq(Changes) /\ Len(SubSeq(plan, 1, n)) = n
    BY <1>1, Beginning
  <2>2. RunWith(RunAll(m, SubSeq(plan, 1, n), t), m, SubSeq(plan, 1, n), n)
    BY <2>1, RunAllType
  <2> QED BY <2>2 DEF RunWith
<1>4. \A n : RunTo(m, s, t, n) = RunAll(m, SubSeq(plan, 1, n), t)
  BY DEF RunTo, plan
<1> HIDE DEF NotBegun
<1> QED BY <1>2, <1>3, <1>4 DEF plan

\* One change more.
LEMMA RunToStep ==
    ASSUME NEW m \in {"do", "undo"}, NEW s \in Seq(Changes), NEW t \in Trees, NEW n \in 1..Len(s)
    PROVE  RunTo(m, s, t, n) = Extend(m, RunTo(m, s, t, n - 1), InOrder(m, s)[n])
<1>1. \A k \in 1..Len(s) :
         RunTo(m, s, t, k) = Extend(m, RunTo(m, s, t, k - 1), InOrder(m, s)[k])
  BY RunToSteps, ZenonT(60)
<1> QED BY <1>1

\* A call that gets to its end has the outcome that nothing failed.
LEMMA OutcomeAtEnd ==
    ASSUME NEW m \in {"do", "undo"}, NEW s \in Seq(Changes), NEW t \in Trees,
           RunTo(m, s, t, Len(s)).ok
    PROVE  [ok |-> TRUE, tree |-> RunTo(m, s, t, Len(s)).tree,
            changes |-> InOrder(m, RunTo(m, s, t, Len(s)).done)] \in Outcomes(m, s, t)
<1>1. RunTo(m, s, t, Len(s)) = RunAll(m, InOrder(m, s), t)
  BY RunToSteps
<1> QED BY <1>1 DEF Outcomes, RunSet

\* A call that is stopped before, in the middle of or after its next change, or
\* whose next change fails, is one of the halts, with all before it done.
LEMMA StoppedHalts ==
    ASSUME NEW m \in {"do", "undo"}, NEW s \in Seq(Changes), NEW t \in Trees,
           NEW n \in 0..Len(s), n # Len(s), RunTo(m, s, t, n).ok,
           NEW how \in Hows, CanStop(m, s, t, n, how)
    PROVE  \E run \in Halts(m, s, t) :
              run.done = RunTo(m, s, t, n).done /\ run.tree = StoppedAt(m, s, t, n, how)
<1> DEFINE plan == InOrder(m, s)
           R == RunTo(m, s, t, n)
           next == RunTo(m, s, t, n + 1)
           result == Landed(m, s, t, n + 1)
<1>1. /\ Len(s) \in Nat /\ n \in Nat /\ n + 1 \in 1..Len(s) /\ n + 1 \in 0..Len(s)
      /\ (n + 1) - 1 = n
  BY LenProperties
<1>2. plan \in Seq(Changes) /\ Len(plan) = Len(s) /\ plan[n + 1] \in Changes
  BY <1>1, InOrderType, ElementOfSeq
<1>3. /\ next = Extend(m, R, plan[n + 1])
      /\ R \in [ok : BOOLEAN, tree : Trees, done : Seq(Changes)]
      /\ next \in [ok : BOOLEAN, tree : Trees, done : Seq(Changes)]
  <2>1. \A k \in 0..Len(s) : RunTo(m, s, t, k) \in [ok : BOOLEAN, tree : Trees, done : Seq(Changes)]
    BY RunToSteps
  <2>2. \A k \in 1..Len(s) : RunTo(m, s, t, k) = Extend(m, RunTo(m, s, t, k - 1), plan[k])
    BY RunToSteps
  <2> QED BY <1>1, <2>1, <2>2
<1>4. result = Perform(m, plan[n + 1], R.tree)
  BY <1>1 DEF Landed
<1>5. CASE result.ok
  <2>1. next.ok
    BY <1>3, <1>4, <1>5 DEF Extend
  <2>2. n + 1 <= Len(RunAll(m, plan, t).done)
    BY <1>1, <1>2, <2>1, RunReaches DEF RunTo
  <2>3. n + 1 \in 1..JobsReached(m, s, t)
    <3>1. RunAll(m, plan, t) = RunTo(m, s, t, Len(s))
      BY RunToSteps
    <3>2. RunAll(m, plan, t).done \in Seq(Changes)
      <4>1. \A k \in 0..Len(s) :
               RunTo(m, s, t, k) \in [ok : BOOLEAN, tree : Trees, done : Seq(Changes)]
        BY RunToSteps
      <4>2. Len(s) \in 0..Len(s)
        BY <1>1
      <4> QED BY <3>1, <4>1, <4>2
    <3>3. Len(RunAll(m, plan, t).done) \in Nat
      BY <3>2, LenProperties
    <3> QED BY <1>1, <2>2, <3>3 DEF JobsReached
  <2> DEFINE run == Halted(m, s, n + 1, how, t)
  <2>4. run.done = R.done /\ run.tree = StoppedAt(m, s, t, n, how)
    <3> DEFINE after == CASE how = "before" -> R.tree
                          [] how = "torn" -> Truncated(plan[n + 1], R.tree)
                          [] how = "landed" -> Perform(m, plan[n + 1], R.tree).tree
    <3>1. run = [R EXCEPT !.tree = after]
      BY <1>1 DEF Halted, RunTo
    <3>2. after = StoppedAt(m, s, t, n, how)
      BY <1>4 DEF StoppedAt, Hows
    <3> HIDE DEF after, run, R
    <3>3. [R EXCEPT !.tree = after].done = R.done /\ [R EXCEPT !.tree = after].tree = after
      BY <1>3
    <3> QED BY <3>1, <3>2, <3>3
  <2>5. run \in Halts(m, s, t)
    <3> DEFINE H(k, h) == Halted(m, s, k, h, t)
               jobs == 1..JobsReached(m, s, t)
               writes == {k \in jobs : plan[k].kind = "contents"}
               first == IF RunAll(m, plan, t).ok THEN {} ELSE {RunAll(m, plan, t)}
    <3>1. Halts(m, s, t) = first \cup {H(k, h) : k \in jobs, h \in {"before", "landed"}}
                                 \cup {H(k, "torn") : k \in writes}
      BY DEF Halts
    <3>2. how = "torn" => n + 1 \in writes
      BY <2>3 DEF CanStop
    <3> HIDE DEF H, jobs, writes, first
    <3>3. n + 1 \in jobs
      BY <2>3 DEF jobs
    <3>4. H(n + 1, how) \in Halts(m, s, t)
      BY <3>1, <3>2, <3>3 DEF Hows
    <3> QED BY <3>4 DEF H
  <2> HIDE DEF run
  <2> QED BY <2>4, <2>5
<1>6. CASE ~result.ok
  <2>1. result.tree = R.tree
    BY <1>2, <1>4, <1>6, FailureLeaves
  <2>2. ~next.ok /\ next.tree = R.tree /\ next.done = R.done
    BY <1>3, <1>4, <1>6, <2>1 DEF Extend
  <2>3. RunAll(m, plan, t) = next
    BY <1>1, <1>2, <2>2, RunStops DEF RunTo
  <2>4. next \in Halts(m, s, t)
    BY <2>2, <2>3 DEF Halts
  <2>5. StoppedAt(m, s, t, n, how) = R.tree
    BY <1>6 DEF StoppedAt, CanStop, Hows
  <2> QED BY <2>2, <2>4, <2>5
<1> QED BY <1>5, <1>6

\* Whatever the except branch leaves of a halt is the end of an outcome.
LEMMA OutcomeLeft ==
    ASSUME NEW m, NEW s, NEW t, NEW run \in Halts(m, s, t), NEW left \in RolledBack(m, run)
    PROVE  [ok |-> FALSE, tree |-> left, changes |-> s] \in Outcomes(m, s, t)
<1> DEFINE lefts == UNION {RolledBack(m, r) : r \in Halts(m, s, t)}
           o(l) == [ok |-> FALSE, tree |-> l, changes |-> s]
<1>1. left \in lefts
  OBVIOUS
<1>2. Outcomes(m, s, t) = {RunSet(m, s, t)} \cup {o(l) : l \in lefts}
  BY DEF Outcomes
<1> HIDE DEF lefts, o
<1>3. o(left) \in Outcomes(m, s, t)
  BY <1>1, <1>2
<1> QED BY <1>3 DEF o

\* The except branch goes on by one change at a time, to the last one or to
\* the first that cannot be taken back.
LEMMA BackToSteps ==
    ASSUME NEW m \in {"do", "undo"}, NEW s \in Seq(Changes), NEW t \in Trees,
           NEW n \in 0..Len(s), RunTo(m, s, t, n).ok, NEW how
    PROVE  /\ BackTo(m, s, t, n, how, 0) = NotBegun(StoppedAt(m, s, t, n, how))
           /\ BackTo(m, s, t, n, how, n)
                = RunAll(Opposite(m), RunTo(m, s, t, n).done, StoppedAt(m, s, t, n, how))
<1> DEFINE d == RunTo(m, s, t, n).done
           stop == StoppedAt(m, s, t, n, how)
<1>1. d \in Seq(Changes) /\ Len(d) = n
  BY RunToSteps
<1>2. \A k : BackTo(m, s, t, n, how, k) = RunAll(Opposite(m), SubSeq(d, 1, k), stop)
  BY DEF BackTo
<1> HIDE DEF d, stop
<1>3. RunAll(Opposite(m), SubSeq(d, 1, 0), stop) = NotBegun(stop)
  BY <1>1, RunSteps
<1>4. RunAll(Opposite(m), SubSeq(d, 1, Len(d)), stop) = RunAll(Opposite(m), d, stop)
  BY <1>1, RunSteps
<1> QED BY <1>1, <1>2, <1>3, <1>4 DEF d, stop

LEMMA BackToStep ==
    ASSUME NEW m \in {"do", "undo"}, NEW s \in Seq(Changes), NEW t \in Trees,
           NEW n \in 0..Len(s), RunTo(m, s, t, n).ok, NEW how, NEW k \in 1..n
    PROVE  /\ BackTo(m, s, t, n, how, k)
                = Extend(Opposite(m), BackTo(m, s, t, n, how, k - 1), RunTo(m, s, t, n).done[k])
           /\ ~BackTo(m, s, t, n, how, k).ok
                => RunAll(Opposite(m), RunTo(m, s, t, n).done, StoppedAt(m, s, t, n, how))
                    = BackTo(m, s, t, n, how, k)
<1> DEFINE d == RunTo(m, s, t, n).done
           stop == StoppedAt(m, s, t, n, how)
<1>1. d \in Seq(Changes) /\ Len(d) = n
  BY RunToSteps
<1>2. \A i : BackTo(m, s, t, n, how, i) = RunAll(Opposite(m), SubSeq(d, 1, i), stop)
  BY DEF BackTo
<1> HIDE DEF d, stop
<1>3. k \in 1..Len(d) /\ k \in 0..Len(d)
  BY <1>1
<1>4. RunAll(Opposite(m), SubSeq(d, 1, k), stop)
        = Extend(Opposite(m), RunAll(Opposite(m), SubSeq(d, 1, k - 1), stop), d[k])
  BY <1>1, <1>3, RunStep
<1>5. ~RunAll(Opposite(m), SubSeq(d, 1, k), stop).ok
        => RunAll(Opposite(m), d, stop) = RunAll(Opposite(m), SubSeq(d, 1, k), stop)
  BY <1>1, <1>3, RunStops
<1> QED BY <1>2, <1>4, <1>5 DEF d, stop

\* The except branch, when it comes to its end, fails, or is cut short after or
\* in the middle of its k-th change, ends as one of the outcomes.
LEMMA OutcomeStopped ==
    ASSUME NEW m \in {"do", "undo"}, NEW s \in Seq(Changes), NEW t \in Trees,
           NEW n \in 0..Len(s), n # Len(s), RunTo(m, s, t, n).ok,
           NEW how \in Hows, CanStop(m, s, t, n, how), NEW left,
           LET made == RunTo(m, s, t, n).done
               back(k) == BackTo(m, s, t, n, how, k)
           IN  \/ left = RunAll(Opposite(m), made, StoppedAt(m, s, t, n, how)).tree
               \/ \E k \in 1..n : left = back(k).tree
               \/ \E k \in 1..n :
                     /\ made[k].kind = "contents"
                     /\ back(k - 1).ok /\ CanWrite(back(k - 1).tree, made[k].res)
                     /\ left = Truncated(made[k], back(k - 1).tree)
    PROVE  [ok |-> FALSE, tree |-> left, changes |-> s] \in Outcomes(m, s, t)
<1> DEFINE d == RunTo(m, s, t, n).done
           stop == StoppedAt(m, s, t, n, how)
           back(k) == BackTo(m, s, t, n, how, k)
<1>1. PICK run \in Halts(m, s, t) : run.done = d /\ run.tree = stop
  BY StoppedHalts
<1>2. d \in Seq(Changes) /\ DOMAIN d = 1..n
  <2>1. d \in Seq(Changes) /\ Len(d) = n
    BY RunToSteps
  <2> HIDE DEF d
  <2> QED BY <2>1, LenProperties
<1>3. \A k : back(k) = RunAll(Opposite(m), SubSeq(d, 1, k), stop)
  BY DEF BackTo
<1> HIDE DEF d, stop, back
<1>4. left \in RolledBack(m, run)
  <2> DEFINE after == {CutAfter(m, run, k) : k \in DOMAIN run.done}
             writes == {j \in DOMAIN run.done : run.done[j].kind = "contents"}
             within == {CutWithin(m, run, k) : k \in writes}
  <2>1. RolledBack(m, run) = {TakenBack(m, run)} \cup after \cup within
    BY DEF RolledBack
  <2>2. TakenBack(m, run) = RunAll(Opposite(m), d, stop).tree
    BY <1>1 DEF TakenBack
  <2>3. ASSUME NEW k \in 1..n PROVE back(k).tree \in after
    <3>1. CutAfter(m, run, k) = back(k).tree
      BY <1>1, <1>3 DEF CutAfter
    <3> QED BY <1>1, <1>2, <3>1
  <2>4. ASSUME NEW k \in 1..n, d[k].kind = "contents", back(k - 1).ok,
               CanWrite(back(k - 1).tree, d[k].res)
        PROVE  Truncated(d[k], back(k - 1).tree) \in within
    <3>1. CutWithin(m, run, k) = Truncated(d[k], back(k - 1).tree)
      BY <1>1, <1>3, <2>4 DEF CutWithin
    <3>2. k \in writes
      BY <1>1, <1>2, <2>4
    <3> QED BY <3>1, <3>2
  <2> HIDE DEF after, within, writes
  <2> QED BY <2>1, <2>2, <2>3, <2>4 DEF d, stop, back
<1> QED BY <1>4, OutcomeLeft

-----------------------------------------------------------------------------
(* What the running call is, in terms of the runs *)

Plan == InOrder(mode, entry)

\* The changes from the n-th on are as they were when the call began.
Planned(n) == \A k \in n..Len(changes) : changes[Position(k)] = Plan[k]

\* What the change is when it is performed: its old contents are captured.
KeptBy(m, c, t) == IF m = "do" THEN Captured(c, t) ELSE c

\* Everything in `done` went well, and `changes` has what was captured.
DoneWell ==
    pc \in {"start", "perform", "finish", "rollback", "returned"} =>
        /\ RunTo(mode, entry, before, done).ok
        /\ \A k \in 1..done : changes[Position(k)] = RunTo(mode, entry, before, done).done[k]

GoesAhead ==
    /\ pc \in {"start", "perform", "returned"} => tree = RunTo(mode, entry, before, done).tree
    /\ pc \in {"start", "perform"} => ~inflight /\ Planned(done + 1)
    /\ pc \in {"start", "perform", "finish"} => taken = 0
    /\ pc = "returned" => done = Len(changes)

JustMade ==
    pc = "finish" =>
        /\ inflight /\ Planned(done + 2)
        /\ Landed(mode, entry, before, done + 1).ok
        /\ tree = Landed(mode, entry, before, done + 1).tree
        /\ changes[Position(done + 1)]
            = KeptBy(mode, Plan[done + 1], RunTo(mode, entry, before, done).tree)

GoesBack ==
    pc = "rollback" =>
        /\ Pending
        /\ \E how \in Hows :
              /\ CanStop(mode, entry, before, done, how)
              /\ BackTo(mode, entry, before, done, how, taken).ok
              /\ tree = BackTo(mode, entry, before, done, how, taken).tree

AtomicInv ==
    /\ TypeOK /\ Len(entry) = Len(changes)
    /\ DoneWell /\ GoesAhead /\ JustMade /\ GoesBack

\* The n-th change a call performs is at the n-th position, or at the n-th
\* from the end.
LEMMA OrderAt ==
    ASSUME NEW m \in {"do", "undo"}, NEW s \in Seq(Changes), NEW k \in 1..Len(s)
    PROVE  InOrder(m, s)[k] = s[IF m = "do" THEN k ELSE Len(s) - k + 1]
BY ReverseType DEF InOrder

\* The plan is the changes in the order of their positions.
LEMMA PlanType ==
    ASSUME TypeOK, Len(entry) = Len(changes)
    PROVE  /\ Plan \in Seq(Changes) /\ Len(Plan) = Len(changes)
           /\ \A k \in 1..Len(changes) : Plan[k] \in Changes /\ Plan[k] = entry[Position(k)]
<1>1. entry \in Seq(Changes) /\ mode \in {"do", "undo"} /\ Len(changes) \in Nat
  BY LenProperties DEF TypeOK
<1>2. Plan \in Seq(Changes) /\ Len(Plan) = Len(changes)
  BY <1>1, InOrderType DEF Plan
<1>3. \A k \in 1..Len(changes) : Plan[k] = entry[Position(k)]
  BY <1>1, OrderAt DEF Plan, Position
<1>4. \A k \in 1..Len(changes) : Plan[k] \in Changes
  BY <1>2, ElementOfSeq
<1> QED BY <1>2, <1>3, <1>4

\* A call begins with everything as it was.
LEMMA BeginsAtomic ==
    ASSUME TypeOK', entry' = changes', done' = 0, taken' = 0, pc' = "start", inflight' = FALSE,
           before' = tree', mode' \in {"do", "undo"}
    PROVE  AtomicInv'
<1>1. entry' \in Seq(Changes) /\ before' \in Trees
  BY DEF TypeOK
<1>2. RunTo(mode', entry', before', 0) = NotBegun(before')
  BY <1>1, RunToSteps
<1>3. DoneWell'
  BY <1>2 DEF DoneWell, NotBegun
<1>4. Planned(1)'
  BY <1>1, OrderAt DEF Planned, Plan, Position
<1> QED BY <1>2, <1>3, <1>4 DEF AtomicInv, GoesAhead, JustMade, GoesBack, NotBegun

\* Positions of different changes of the plan differ.
LEMMA PositionsDiffer ==
    ASSUME TypeOK, NEW j \in 1..Len(changes), NEW k \in 1..Len(changes), j # k
    PROVE  Position(j) # Position(k) /\ Position(j) \in DOMAIN changes
BY LenProperties DEF TypeOK, Position

\* Entering the except branch, with the next change as `how` says.
LEMMA EntersBack ==
    ASSUME TypeOK, Len(entry) = Len(changes), Pending, taken = 0,
           RunTo(mode, entry, before, done).ok,
           NEW how \in Hows, CanStop(mode, entry, before, done, how),
           tree' = StoppedAt(mode, entry, before, done, how), Pending',
           UNCHANGED <<mode, entry, before, done, taken>>
    PROVE  GoesBack'
<1>1. /\ mode \in {"do", "undo"} /\ entry \in Seq(Changes) /\ before \in Trees
      /\ done \in 0..Len(entry)
  BY DEF TypeOK
<1>2. BackTo(mode, entry, before, done, how, 0)
          = NotBegun(StoppedAt(mode, entry, before, done, how))
  BY <1>1, BackToSteps
<1>3. /\ BackTo(mode, entry, before, done, how, 0).ok
      /\ BackTo(mode, entry, before, done, how, 0).tree = tree'
  BY <1>2 DEF NotBegun
<1> QED BY <1>3 DEF GoesBack

\* started_job: nothing is done yet.
LEMMA StartJobAtomic == AtomicInv /\ StartJob => AtomicInv'
<1> SUFFICES ASSUME AtomicInv, StartJob PROVE AtomicInv'
  OBVIOUS
<1>1. /\ pc = "start" /\ Pending /\ ~inflight /\ taken = 0 /\ TypeOK
      /\ UNCHANGED <<tree, changes, mode, done, taken, inflight, entry, before>>
      /\ pc' \in {"perform", "rollback"}
  BY DEF StartJob, Except, AtomicInv, GoesAhead
<1>2. TypeOK'
  BY <1>1, NextType DEF Next, Step
<1>3. DoneWell' /\ GoesAhead' /\ JustMade'
  BY <1>1 DEF AtomicInv, DoneWell, GoesAhead, JustMade, Planned, Plan, Position, Pending
<1>4. GoesBack'
  <2>1. /\ Len(entry) = Len(changes) /\ RunTo(mode, entry, before, done).ok
        /\ tree' = StoppedAt(mode, entry, before, done, "before")
    BY <1>1 DEF AtomicInv, DoneWell, GoesAhead, StoppedAt
  <2>2. "before" \in Hows /\ CanStop(mode, entry, before, done, "before") /\ Pending'
    BY <1>1 DEF Hows, CanStop, Pending
  <2> QED BY <1>1, <2>1, <2>2, EntersBack
<1> QED BY <1>1, <1>2, <1>3, <1>4 DEF AtomicInv

\* The change is made, and its old contents captured, or it fails.
LEMMA PerformJobAtomic == AtomicInv /\ PerformJob => AtomicInv'
<1> SUFFICES ASSUME AtomicInv, PerformJob PROVE AtomicInv'
  OBVIOUS
<1> DEFINE n == done + 1
           c == Plan[n]
           R == RunTo(mode, entry, before, done)
           result == Perform(mode, c, R.tree)
<1>1. /\ pc = "perform" /\ Pending /\ ~inflight /\ taken = 0 /\ TypeOK
      /\ Len(entry) = Len(changes) /\ mode \in {"do", "undo"}
      /\ entry \in Seq(Changes) /\ before \in Trees
      /\ UNCHANGED <<mode, done, taken, entry, before>>
  BY DEF PerformJob, AtomicInv, GoesAhead, TypeOK
<1>2. TypeOK'
  BY <1>1, NextType DEF Next, Step
<1>3. /\ done \in Nat /\ Len(changes) \in Nat /\ n \in 1..Len(changes) /\ done \in 0..Len(entry)
      /\ n - 1 = done /\ \A k \in 1..done : k \in 1..Len(changes) /\ k # n
      /\ \A k \in (done + 2)..Len(changes) :
            k \in 1..Len(changes) /\ k # n /\ k \in n..Len(changes)
  BY <1>1, LenProperties DEF TypeOK, Pending
<1>4. Current = c /\ c \in Changes /\ tree = R.tree /\ R.ok
  <2>1. Planned(n) /\ tree = R.tree /\ R.ok
    BY <1>1 DEF AtomicInv, GoesAhead, DoneWell
  <2>2. Current = changes[Position(n)]
    BY DEF Current
  <2>3. n \in n..Len(changes)
    BY <1>3
  <2> QED BY <1>1, <1>3, <2>1, <2>2, <2>3, PlanType DEF Planned
<1>5. result = Landed(mode, entry, before, n)
  BY <1>3 DEF Landed, Plan
<1>6. /\ tree' = result.tree /\ inflight' = result.ok
      /\ IF result.ok THEN pc' = "finish" ELSE pc' = "rollback"
      /\ changes' = IF mode = "do" THEN [changes EXCEPT ![Position(n)] = Captured(c, R.tree)]
                    ELSE changes
  BY <1>4 DEF PerformJob, Except
<1>7. /\ Len(changes') = Len(changes)
      /\ changes'[Position(n)] = KeptBy(mode, c, R.tree)
      /\ \A k \in 1..Len(changes) : k # n => changes'[Position(k)] = changes[Position(k)]
  <2>1. changes \in Seq(Changes) /\ Position(n) \in 1..Len(changes)
    BY <1>1, <1>3, CurrentType DEF TypeOK
  <2>2. \A k \in 1..Len(changes) : k # n => Position(k) # Position(n) /\ Position(k) \in 1..Len(changes)
    BY <1>1, <1>3, Positions, PositionsDiffer
  <2>3. CASE mode = "undo"
    <3>1. changes' = changes /\ changes[Position(n)] = c
      BY <1>4, <1>6, <2>3 DEF Current
    <3> QED BY <2>3, <3>1 DEF KeptBy
  <2>4. CASE mode = "do"
    <3>1. Captured(c, R.tree) \in Changes
      BY <1>1, <1>4, CapturedType DEF TypeOK
    <3>2. changes' = [changes EXCEPT ![Position(n)] = Captured(c, R.tree)]
      BY <1>6, <2>4
    <3> HIDE DEF c, R, n
    <3>3. /\ Len(changes') = Len(changes) /\ changes'[Position(n)] = Captured(c, R.tree)
          /\ \A i \in 1..Len(changes) : i # Position(n) => changes'[i] = changes[i]
      BY <2>1, <3>1, <3>2, ExceptSeq
    <3> QED BY <2>2, <2>4, <3>3 DEF KeptBy
  <2> QED BY <1>1, <2>3, <2>4
<1> HIDE DEF c, R, n, result
<1>8. Position(n)' = Position(n) /\ \A k : Position(k)' = Position(k)
  BY <1>1, <1>7 DEF Position, n
<1>9. Plan' = Plan
  BY <1>1 DEF Plan
<1>10. DoneWell'
  <2>1. \A k \in 1..done : changes'[Position(k)'] = R.done[k]
    <3>1. \A k \in 1..done : changes[Position(k)] = R.done[k]
      BY <1>1 DEF AtomicInv, DoneWell, R
    <3> QED BY <1>3, <1>7, <1>8, <3>1
  <2> QED BY <1>1, <1>4, <2>1 DEF DoneWell, R
<1>11. GoesAhead'
  BY <1>1, <1>6 DEF GoesAhead
<1>12. JustMade'
  <2> SUFFICES ASSUME result.ok PROVE JustMade'
    BY <1>6 DEF JustMade
  <2>1. \A k \in (done + 2)..Len(changes) : changes'[Position(k)'] = Plan[k]
    <3>1. \A k \in n..Len(changes) : changes[Position(k)] = Plan[k]
      BY <1>1 DEF AtomicInv, GoesAhead, Planned, n
    <3> QED BY <1>3, <1>7, <1>8, <3>1
  <2>2. Planned(done + 2)'
    BY <1>1, <1>7, <1>9, <2>1 DEF Planned
  <2> QED BY <1>1, <1>5, <1>6, <1>7, <1>8, <1>9, <2>2 DEF JustMade, n, c, R
<1>13. GoesBack'
  <2> SUFFICES ASSUME ~result.ok PROVE GoesBack'
    BY <1>6 DEF GoesBack
  <2>1. tree' = R.tree
    BY <1>1, <1>4, <1>6, FailureLeaves DEF result
  <2>2. tree' = StoppedAt(mode, entry, before, done, "before") /\ R.ok
    BY <1>4, <2>1 DEF StoppedAt, R
  <2>3. "before" \in Hows /\ CanStop(mode, entry, before, done, "before") /\ Pending'
    BY <1>1, <1>7 DEF Hows, CanStop, Pending
  <2> QED BY <1>1, <2>2, <2>3, EntersBack DEF R
<1> QED BY <1>1, <1>2, <1>7, <1>10, <1>11, <1>12, <1>13 DEF AtomicInv

\* The write of the change breaks, and leaves its file empty.
LEMMA DiskFailsAtomic == AtomicInv /\ DiskFails => AtomicInv'
<1> SUFFICES ASSUME AtomicInv, DiskFails PROVE AtomicInv'
  OBVIOUS
<1> DEFINE n == done + 1
           c == Plan[n]
           R == RunTo(mode, entry, before, done)
<1>1. /\ pc = "perform" /\ pc' = "rollback" /\ Pending /\ taken = 0 /\ TypeOK
      /\ Len(entry) = Len(changes) /\ mode \in {"do", "undo"}
      /\ UNCHANGED <<mode, done, taken, entry, before>>
  BY DEF DiskFails, Except, AtomicInv, GoesAhead, TypeOK
<1>2. TypeOK'
  BY <1>1, NextType DEF Next, Step
<1>3. /\ done \in Nat /\ Len(changes) \in Nat /\ n \in 1..Len(changes) /\ n - 1 = done
      /\ n \in n..Len(changes) /\ \A k \in 1..done : k \in 1..Len(changes) /\ k # n
  BY <1>1, LenProperties DEF TypeOK, Pending
<1>4. Current = c /\ c \in Changes /\ tree = R.tree /\ R.ok
  <2>1. Planned(n) /\ tree = R.tree /\ R.ok
    BY <1>1 DEF AtomicInv, GoesAhead, DoneWell
  <2>2. Current = changes[Position(n)]
    BY DEF Current
  <2> QED BY <1>1, <1>3, <2>1, <2>2, PlanType DEF Planned
<1>5. /\ c.kind = "contents" /\ CanWrite(R.tree, c.res)
      /\ (IF mode = "do" THEN Captured(c, R.tree) ELSE c).old # None
      /\ tree' = Truncated(c, R.tree)
      /\ changes' = [changes EXCEPT ![Position(n)] =
                        IF mode = "do" THEN Captured(c, R.tree) ELSE c]
  BY <1>1, <1>4 DEF DiskFails
<1>6. /\ Len(changes') = Len(changes)
      /\ \A k \in 1..Len(changes) : k # n => changes'[Position(k)] = changes[Position(k)]
  <2> DEFINE d == IF mode = "do" THEN Captured(c, R.tree) ELSE c
  <2>1. changes \in Seq(Changes) /\ Position(n) \in 1..Len(changes)
    BY <1>1, <1>3, CurrentType DEF TypeOK
  <2>2. \A k \in 1..Len(changes) : k # n => Position(k) # Position(n) /\ Position(k) \in 1..Len(changes)
    BY <1>1, <1>3, Positions, PositionsDiffer
  <2>3. d \in Changes /\ changes' = [changes EXCEPT ![Position(n)] = d]
    BY <1>1, <1>4, <1>5, CapturedType DEF TypeOK
  <2> HIDE DEF c, R, n, d
  <2>4. /\ Len(changes') = Len(changes)
        /\ \A i \in 1..Len(changes) : i # Position(n) => changes'[i] = changes[i]
    BY <2>1, <2>3, ExceptSeq
  <2> QED BY <2>2, <2>4
<1>7. Perform(mode, c, R.tree).ok
  BY <1>1, <1>5 DEF Perform, DoChange, UndoChange, WriteFile, Leaves
<1>8. DoneWell'
  <2>1. \A k : Position(k)' = Position(k)
    BY <1>1, <1>6 DEF Position
  <2>2. \A k \in 1..done : changes'[Position(k)'] = R.done[k]
    <3>1. \A k \in 1..done : changes[Position(k)] = R.done[k]
      BY <1>1 DEF AtomicInv, DoneWell
    <3> QED BY <1>3, <1>6, <2>1, <3>1
  <2> QED BY <1>1, <1>4, <2>2 DEF DoneWell
<1>9. GoesBack'
  <2>1. "torn" \in Hows /\ CanStop(mode, entry, before, done, "torn")
    BY <1>3, <1>5, <1>7 DEF Hows, CanStop, Landed, Plan
  <2>2. tree' = StoppedAt(mode, entry, before, done, "torn") /\ Pending'
    BY <1>1, <1>5, <1>6 DEF StoppedAt, Pending, Plan
  <2> HIDE DEF c, n
  <2> QED BY <1>1, <1>4, <2>1, <2>2, EntersBack
<1>10. GoesAhead' /\ JustMade'
  BY <1>1 DEF GoesAhead, JustMade
<1> QED BY <1>1, <1>2, <1>6, <1>8, <1>9, <1>10 DEF AtomicInv

\* finished_job and done.append, or a stop or an observer that raises.
LEMMA FinishJobAtomic == AtomicInv /\ (FinishJob \/ ObserverRaises) => AtomicInv'
<1> SUFFICES ASSUME AtomicInv, FinishJob \/ ObserverRaises PROVE AtomicInv'
  OBVIOUS
<1> DEFINE n == done + 1
           R == RunTo(mode, entry, before, done)
           next == RunTo(mode, entry, before, n)
           kept == KeptBy(mode, Plan[n], R.tree)
<1>1. /\ pc = "finish" /\ inflight /\ taken = 0 /\ TypeOK /\ Pending
      /\ Len(entry) = Len(changes) /\ mode \in {"do", "undo"}
      /\ entry \in Seq(Changes) /\ before \in Trees
      /\ UNCHANGED <<tree, changes, mode, taken, entry, before>>
      /\ R.ok /\ Landed(mode, entry, before, n).ok /\ tree = Landed(mode, entry, before, n).tree
      /\ changes[Position(n)] = kept /\ Planned(done + 2)
      /\ \A k \in 1..done : changes[Position(k)] = R.done[k]
  BY DEF FinishJob, ObserverRaises, AtomicInv, GoesAhead, JustMade, DoneWell, TypeOK
<1>2. TypeOK'
  BY <1>1, NextType DEF Next, Step
<1>3. /\ done \in Nat /\ Len(changes) \in Nat /\ n \in 1..Len(changes) /\ done \in 0..Len(entry)
      /\ n - 1 = done /\ n + 1 = done + 2
  BY <1>1, LenProperties DEF TypeOK, Pending
<1>4. CASE pc' = "rollback" /\ UNCHANGED <<done, inflight>>
  <2>1. DoneWell' /\ GoesAhead' /\ JustMade'
    BY <1>1, <1>4 DEF AtomicInv, DoneWell, GoesAhead, JustMade, Position
  <2>2. GoesBack'
    <3>1. "landed" \in Hows /\ CanStop(mode, entry, before, done, "landed")
      BY <1>1 DEF Hows, CanStop
    <3>2. tree' = StoppedAt(mode, entry, before, done, "landed") /\ Pending'
      BY <1>1, <1>4 DEF StoppedAt, Pending
    <3> QED BY <1>1, <1>4, <3>1, <3>2, EntersBack
  <2> QED BY <1>1, <1>2, <2>1, <2>2 DEF AtomicInv
<1>5. CASE pc' = "start" /\ done' = n /\ inflight' = FALSE
  <2>1. next = Extend(mode, R, Plan[n])
    BY <1>1, <1>3, RunToStep DEF Plan
  <2>2. Landed(mode, entry, before, n) = Perform(mode, Plan[n], R.tree)
    BY <1>3 DEF Landed, Plan
  <2>3. next.ok /\ next.tree = tree /\ next.done = Append(R.done, kept)
    BY <1>1, <2>1, <2>2 DEF Extend, KeptBy
  <2>4. R.done \in Seq(Changes) /\ Len(R.done) = done
    BY <1>1, <1>3, RunToSteps
  <2> HIDE DEF next, R, kept
  <2>5. Append(R.done, kept)[n] = kept /\ \A k \in 1..done : Append(R.done, kept)[k] = R.done[k]
    BY <2>4, <1>3 DEF n
  <2>6. \A k \in 1..n : changes[Position(k)] = next.done[k]
    <3>1. \A k \in 1..n : k \in 1..done \/ k = n
      BY <1>3
    <3> QED BY <1>1, <2>3, <2>5, <3>1
  <2>7. DoneWell'
    BY <1>1, <1>5, <2>3, <2>6 DEF DoneWell, Position, next
  <2>8. GoesAhead'
    <3>1. Plan' = Plan /\ \A k : Position(k)' = Position(k)
      BY <1>1 DEF Plan, Position
    <3>2. Planned(done + 2) /\ UNCHANGED changes
      BY <1>1
    <3>3. Planned(done + 1)'
      <4>1. done' + 1 = done + 2
        BY <1>3, <1>5
      <4> QED BY <3>1, <3>2, <4>1 DEF Planned
    <3>4. tree' = next.tree /\ ~inflight' /\ taken' = 0 /\ pc' = "start" /\ done' = n
      BY <1>1, <1>5, <2>3
    <3>5. UNCHANGED <<mode, entry, before>>
      BY <1>1
    <3> QED BY <3>3, <3>4, <3>5 DEF GoesAhead, next
  <2>9. JustMade' /\ GoesBack'
    BY <1>5 DEF JustMade, GoesBack
  <2> QED BY <1>1, <1>2, <2>7, <2>8, <2>9 DEF AtomicInv
<1> QED BY <1>4, <1>5 DEF FinishJob, ObserverRaises, Except

\* One change more is taken back, or cannot be.
LEMMA TakeBackAtomic == AtomicInv /\ TakeBack => AtomicInv'
<1> SUFFICES ASSUME AtomicInv, TakeBack PROVE AtomicInv'
  OBVIOUS
<1> DEFINE R == RunTo(mode, entry, before, done)
           result == Perform(Opposite(mode), R.done[taken + 1], tree)
<1>1. /\ pc = "rollback" /\ TypeOK /\ Pending /\ taken < done
      /\ Len(entry) = Len(changes) /\ mode \in {"do", "undo"}
      /\ entry \in Seq(Changes) /\ before \in Trees
      /\ UNCHANGED <<changes, mode, done, inflight, entry, before>>
      /\ R.ok /\ \A k \in 1..done : changes[Position(k)] = R.done[k]
  BY DEF TakeBack, AtomicInv, GoesBack, DoneWell, TypeOK
<1>2. PICK how \in Hows :
         /\ CanStop(mode, entry, before, done, how)
         /\ BackTo(mode, entry, before, done, how, taken).ok
         /\ tree = BackTo(mode, entry, before, done, how, taken).tree
  BY <1>1 DEF AtomicInv, GoesBack
<1>3. TypeOK'
  BY <1>1, NextType DEF Next, Step
<1>4. /\ taken + 1 \in 1..done /\ (taken + 1) - 1 = taken /\ done \in 0..Len(entry)
  BY <1>1, LenProperties DEF TypeOK
<1>5. /\ tree' = result.tree
      /\ pc' = IF result.ok THEN "rollback" ELSE "failed"
      /\ taken' = IF result.ok THEN taken + 1 ELSE taken
  BY <1>1, <1>4 DEF TakeBack, TakingBack
<1>6. BackTo(mode, entry, before, done, how, taken + 1)
        = Extend(Opposite(mode), BackTo(mode, entry, before, done, how, taken), R.done[taken + 1])
  BY <1>1, <1>4, BackToStep
<1>7. DoneWell' /\ GoesAhead' /\ JustMade'
  BY <1>1, <1>5 DEF DoneWell, GoesAhead, JustMade, Position
<1>8. GoesBack'
  <2> SUFFICES ASSUME result.ok PROVE GoesBack'
    BY <1>5 DEF GoesBack
  <2>1. /\ BackTo(mode, entry, before, done, how, taken + 1).ok
        /\ BackTo(mode, entry, before, done, how, taken + 1).tree = result.tree
    BY <1>2, <1>6 DEF Extend
  <2> QED BY <1>1, <1>2, <1>5, <2>1 DEF GoesBack, Pending
<1> QED BY <1>1, <1>3, <1>7, <1>8 DEF AtomicInv

\* The other steps: the calls, a stop, and the ends of a call.
LEMMA OthersAtomic ==
    AtomicInv /\ (\/ CallDo \/ CallAgain \/ Stop \/ Return \/ Reraise
                  \/ DiskFailsBack \/ ObserverRaisesBack \/ UNCHANGED vars)
        => AtomicInv'
<1> SUFFICES ASSUME AtomicInv,
                    \/ CallDo \/ CallAgain \/ Stop \/ Return \/ Reraise
                    \/ DiskFailsBack \/ ObserverRaisesBack \/ UNCHANGED vars
             PROVE  AtomicInv'
  OBVIOUS
<1>1. TypeOK'
  BY NextType DEF AtomicInv, Next, Step
<1>2. CASE CallDo \/ CallAgain
  <2>1. /\ entry' = changes' /\ done' = 0 /\ taken' = 0 /\ pc' = "start" /\ inflight' = FALSE
        /\ before' = tree'
    BY <1>2 DEF CallDo, CallAgain, Begin
  <2> QED BY <1>1, <2>1, BeginsAtomic DEF TypeOK
<1>3. CASE Stop \/ UNCHANGED vars
  <2>1. UNCHANGED <<tree, changes, mode, pc, done, taken, inflight, entry, before>>
    BY <1>3 DEF Stop, vars
  <2> QED BY <1>1, <2>1
          DEF AtomicInv, DoneWell, GoesAhead, JustMade, GoesBack, Planned, Plan, Position, Pending
<1>4. CASE Return
  <2>1. /\ UNCHANGED <<tree, changes, mode, done, taken, inflight, entry, before>>
        /\ pc = "start" /\ pc' = "returned" /\ ~Pending
    BY <1>4 DEF Return
  <2>2. done = Len(changes)
    BY <2>1, LenProperties DEF AtomicInv, TypeOK, Pending
  <2> QED BY <1>1, <2>1, <2>2
          DEF AtomicInv, DoneWell, GoesAhead, JustMade, GoesBack, Position
<1>5. CASE Reraise \/ DiskFailsBack \/ ObserverRaisesBack
  <2>1. UNCHANGED <<changes, entry>> /\ pc' \in {"raised", "failed"}
    BY <1>5 DEF Reraise, DiskFailsBack, ObserverRaisesBack
  <2> QED BY <1>1, <2>1 DEF AtomicInv, DoneWell, GoesAhead, JustMade, GoesBack
<1> QED BY <1>2, <1>3, <1>4, <1>5

-----------------------------------------------------------------------------
(* Every step of a call is a step of AtomicChangeSet, or is not seen there *)

\* The way a call ends is one of the outcomes.
LEMMA EndsAtomic ==
    ASSUME AtomicInv, mode \in {"do", "undo"}
    PROVE  /\ pc = "start" /\ ~Pending =>
                [ok |-> TRUE, tree |-> tree, changes |-> changes] \in Outcomes(mode, entry, before)
           /\ pc = "rollback" /\ taken = done =>
                [ok |-> FALSE, tree |-> tree, changes |-> entry] \in Outcomes(mode, entry, before)
           /\ pc = "rollback" /\ taken < done =>
                LET result == Perform(Opposite(mode), TakingBack, tree)
                    left(t) == [ok |-> FALSE, tree |-> t, changes |-> entry]
                IN  /\ left(result.tree) \in Outcomes(mode, entry, before)
                    /\ TakingBack.kind = "contents" /\ result.ok =>
                          left(Truncated(TakingBack, tree)) \in Outcomes(mode, entry, before)
<1> DEFINE R == RunTo(mode, entry, before, done)
           left(t) == [ok |-> FALSE, tree |-> t, changes |-> entry]
<1>1. /\ TypeOK /\ entry \in Seq(Changes) /\ before \in Trees /\ inflight \in BOOLEAN
      /\ Len(entry) = Len(changes) /\ Len(changes) \in Nat /\ done \in 0..Len(entry)
      /\ changes \in Seq(Changes) /\ taken \in 0..done /\ done \in Nat
  BY LenProperties DEF AtomicInv, TypeOK
<1>2. ASSUME pc = "start", ~Pending
      PROVE  [ok |-> TRUE, tree |-> tree, changes |-> changes] \in Outcomes(mode, entry, before)
  <2>1. done = Len(entry) /\ R.ok /\ tree = R.tree
        /\ \A k \in 1..done : changes[Position(k)] = R.done[k]
    BY <1>1, <1>2 DEF Pending, AtomicInv, DoneWell, GoesAhead
  <2>2. R.done \in Seq(Changes) /\ Len(R.done) = Len(changes)
    BY <1>1, <2>1, RunToSteps
  <2> HIDE DEF R
  <2>3. InOrder(mode, R.done) \in Seq(Changes) /\ Len(InOrder(mode, R.done)) = Len(changes)
    BY <2>2, InOrderType
  <2>4. ASSUME NEW k \in 1..Len(changes)
        PROVE  InOrder(mode, R.done)[k] = changes[k]
    <3>1. Position(k) \in 1..Len(changes) /\ Position(Position(k)) = k
      BY <1>1, Positions
    <3>2. InOrder(mode, R.done)[k] = R.done[Position(k)]
      BY <2>2, OrderAt DEF Position
    <3>3. R.done[Position(k)] = changes[Position(Position(k))]
      BY <1>1, <2>1, <3>1
    <3> QED BY <3>1, <3>2, <3>3
  <2>5. InOrder(mode, R.done) = changes
    BY <1>1, <2>3, <2>4, SeqEqual
  <2> QED BY <1>1, <2>1, <2>5, OutcomeAtEnd DEF R
<1>3. ASSUME pc = "rollback"
      PROVE  /\ taken = done => left(tree) \in Outcomes(mode, entry, before)
             /\ taken < done =>
                  LET result == Perform(Opposite(mode), TakingBack, tree)
                  IN  /\ left(result.tree) \in Outcomes(mode, entry, before)
                      /\ TakingBack.kind = "contents" /\ result.ok =>
                            left(Truncated(TakingBack, tree)) \in Outcomes(mode, entry, before)
  <2>1. R.ok /\ done # Len(entry)
    BY <1>1, <1>3 DEF AtomicInv, DoneWell, GoesBack, Pending
  <2>2. PICK how \in Hows :
           /\ CanStop(mode, entry, before, done, how)
           /\ BackTo(mode, entry, before, done, how, taken).ok
           /\ tree = BackTo(mode, entry, before, done, how, taken).tree
    BY <1>3 DEF AtomicInv, GoesBack
  <2> DEFINE stop == StoppedAt(mode, entry, before, done, how)
             back(k) == BackTo(mode, entry, before, done, how, k)
  <2>3. CASE taken = done
    <3>1. tree = RunAll(Opposite(mode), R.done, stop).tree
      BY <1>1, <2>1, <2>2, <2>3, BackToSteps
    <3>2. left(tree) \in Outcomes(mode, entry, before)
      BY <1>1, <2>1, <2>2, <3>1, OutcomeStopped
    <3> QED BY <1>1, <2>3, <3>2
  <2>4. CASE taken < done
    <3> DEFINE k == taken + 1
               c == R.done[k]
               result == Perform(Opposite(mode), c, tree)
    <3>1. k \in 1..done /\ k - 1 = taken /\ taken # done
      BY <1>1, <2>4
    <3>2. TakingBack = c
      BY <1>3, <3>1 DEF TakingBack, AtomicInv, DoneWell
    <3>3. back(k) = Extend(Opposite(mode), back(taken), c)
      BY <1>1, <2>1, <3>1, BackToStep
    <3>4. result.tree = back(k).tree
      BY <2>2, <3>3 DEF Extend
    <3>5. left(result.tree) \in Outcomes(mode, entry, before)
      <4> HIDE DEF result
      <4> QED BY <1>1, <2>1, <2>2, <3>1, <3>4, OutcomeStopped
    <3>6. ASSUME c.kind = "contents", result.ok
          PROVE  left(Truncated(c, tree)) \in Outcomes(mode, entry, before)
      <4>1. CanWrite(tree, c.res)
        BY <3>6 DEF Perform, DoChange, UndoChange, WriteFile, Raises
      <4>2. back(k - 1).ok /\ back(k - 1).tree = tree
        BY <2>2, <3>1
      <4>3. \E i \in 1..done :
               /\ R.done[i].kind = "contents"
               /\ back(i - 1).ok /\ CanWrite(back(i - 1).tree, R.done[i].res)
               /\ Truncated(c, tree) = Truncated(R.done[i], back(i - 1).tree)
        BY <3>1, <3>6, <4>1, <4>2
      <4> QED BY <1>1, <2>1, <2>2, <4>3, OutcomeStopped
    <3> QED BY <3>1, <3>2, <3>5, <3>6
  <2> QED BY <1>1, <2>3, <2>4
<1> QED BY <1>2, <1>3

\* Each step as AtomicChangeSet sees it.
LEMMA StepIsAtomic ==
    ASSUME AtomicInv, [Next]_vars
    PROVE  [Atomic!Next]_(Atomic!vars)
<1> USE DEF Running, Raised
<1>1. mode \in {"do", "undo"}
  BY DEF AtomicInv, TypeOK
<1>2. CASE CallDo
  <2>1. /\ pc = "idle" /\ pc' = "start" /\ mode' = "do" /\ tree' = tree /\ before' = tree
        /\ entry' = changes' /\ \E script \in Scripts : changes' = Built(script, tree)
    BY <1>2 DEF CallDo, Begin
  <2>2. Atomic!CallDo
    BY <2>1, SameOutcomes DEF Atomic!CallDo
  <2> QED BY <2>2 DEF Atomic!Next
<1>3. CASE CallAgain
  <2>1. /\ pc = "returned" /\ pc' = "start" /\ mode' = Opposite(mode) /\ before' = tree
        /\ entry' = changes
    BY <1>3 DEF CallAgain, Begin
  <2>2. Atomic!CallAgain
    BY <2>1, SameOutcomes DEF Atomic!CallAgain
  <2> QED BY <2>2 DEF Atomic!Next
<1>4. ASSUME Running, Running', UNCHANGED <<before, entry, mode>>
      PROVE  UNCHANGED Atomic!vars
  BY <1>4 DEF Atomic!vars
<1>5. CASE Stop \/ StartJob \/ ObserverRaises \/ FinishJob
  <2>1. Running /\ Running' /\ UNCHANGED <<before, entry, mode>>
    BY <1>5 DEF Stop, StartJob, ObserverRaises, FinishJob, Except
  <2> QED BY <1>4, <2>1
<1>6. CASE PerformJob
  <2>1. Running /\ Running' /\ UNCHANGED <<before, entry, mode>>
    BY <1>6 DEF PerformJob, Except
  <2> QED BY <1>4, <2>1
<1>7. CASE DiskFails
  <2>1. Running /\ Running' /\ UNCHANGED <<before, entry, mode>>
    BY <1>7 DEF DiskFails, Except
  <2> QED BY <1>4, <2>1
<1>8. CASE Return
  <2>1. /\ pc = "start" /\ ~Pending /\ pc' = "returned"
        /\ UNCHANGED <<tree, changes, mode, entry, before>>
    BY <1>8 DEF Return
  <2> DEFINE o == [ok |-> TRUE, tree |-> tree, changes |-> changes]
  <2>2. o \in Outcomes(mode, entry, before)
    BY <1>1, <2>1, EndsAtomic
  <2>3. o.ok /\ o.tree = tree /\ o.changes = changes
    OBVIOUS
  <2> HIDE DEF o
  <2>4. Atomic!End
    BY <2>1, <2>2, <2>3, SameOutcomes DEF Atomic!End
  <2> QED BY <2>4 DEF Atomic!Next
<1>9. ASSUME pc = "rollback", pc' \in {"raised", "failed"},
             [ok |-> FALSE, tree |-> tree', changes |-> entry] \in Outcomes(mode, entry, before),
             UNCHANGED <<mode, entry>>
      PROVE  Atomic!Next
  <2> DEFINE o == [ok |-> FALSE, tree |-> tree', changes |-> entry]
  <2>1. o \in Outcomes(mode, entry, before)
    BY <1>9
  <2>2. ~o.ok /\ o.tree = tree' /\ o.changes = entry
    OBVIOUS
  <2> HIDE DEF o
  <2>3. Atomic!End
    BY <1>9, <2>1, <2>2, SameOutcomes DEF Atomic!End
  <2> QED BY <2>3 DEF Atomic!Next
<1>10. CASE TakeBack
  <2> DEFINE result == Perform(Opposite(mode), TakingBack, tree)
  <2>1. /\ pc = "rollback" /\ taken < done /\ tree' = result.tree
        /\ pc' = IF result.ok THEN "rollback" ELSE "failed"
        /\ UNCHANGED <<mode, entry, before>>
    BY <1>10 DEF TakeBack
  <2>2. CASE result.ok
    BY <1>4, <2>1, <2>2
  <2>3. CASE ~result.ok
    <3>1. [ok |-> FALSE, tree |-> result.tree, changes |-> entry] \in Outcomes(mode, entry, before)
      BY <1>1, <2>1, <2>3, EndsAtomic
    <3> QED BY <1>9, <2>1, <2>3, <3>1
  <2> QED BY <2>2, <2>3
<1>13. CASE DiskFailsBack \/ ObserverRaisesBack
  <2>1. /\ pc = "rollback" /\ taken < done /\ pc' = "failed" /\ UNCHANGED <<mode, entry>>
        /\ \/ tree' = Perform(Opposite(mode), TakingBack, tree).tree
           \/ /\ TakingBack.kind = "contents" /\ Perform(Opposite(mode), TakingBack, tree).ok
              /\ tree' = Truncated(TakingBack, tree)
    BY <1>13 DEF DiskFailsBack, ObserverRaisesBack
  <2>2. [ok |-> FALSE, tree |-> tree', changes |-> entry] \in Outcomes(mode, entry, before)
    BY <1>1, <2>1, EndsAtomic
  <2> QED BY <1>9, <2>1, <2>2
<1>11. CASE Reraise
  <2>1. /\ pc = "rollback" /\ taken = done /\ pc' = "raised" /\ UNCHANGED <<tree, mode, entry>>
    BY <1>11 DEF Reraise
  <2> QED BY <1>1, <1>9, <2>1, EndsAtomic
<1>12. CASE UNCHANGED vars
  BY <1>12 DEF vars, Atomic!vars
<1> QED BY <1>2, <1>3, <1>5, <1>6, <1>7, <1>8, <1>10, <1>11, <1>12, <1>13 DEF Next, Step

\* Whatever stops a call, whichever write breaks or observer raises, in the loop
\* or in the except branch, and whatever the changes are: seen from outside,
\* ChangeSet.do and ChangeSet.undo take one step, to one of the outcomes that
\* History relies on.
THEOREM CallsAreAtomic == Spec => ImplementsAtomic
<1>1. Init => AtomicInv
  <2> SUFFICES ASSUME Init PROVE AtomicInv
    OBVIOUS
  <2>1. TypeOK
    BY InitType
  <2> QED BY <2>1 DEF Init, AtomicInv, DoneWell, GoesAhead, JustMade, GoesBack
<1>2. AtomicInv /\ [Next]_vars => AtomicInv'
  BY StartJobAtomic, PerformJobAtomic, DiskFailsAtomic, FinishJobAtomic, TakeBackAtomic,
     OthersAtomic DEF Next, Step
<1>3. Init => Atomic!Init
  BY DEF Init, Atomic!Init, Running, Raised
<1>4. AtomicInv /\ [Next]_vars => [Atomic!Next]_(Atomic!vars)
  BY StepIsAtomic
<1> QED BY <1>1, <1>2, <1>3, <1>4, PTL DEF Spec, ImplementsAtomic, Atomic!Spec

-----------------------------------------------------------------------------
(* Undoing and redoing sets of writes *)

\* Texts are the same to File.read: an equivalence of the trees at a path.
LEMMA SameTextIs ==
    ASSUME NEW p
    PROVE  /\ \A t : SameText(t, t, p)
           /\ \A t, u : SameText(t, u, p) => SameText(u, t, p)
           /\ \A t, u, v : SameText(t, u, p) /\ SameText(u, v, p) => SameText(t, v, p)
BY DEF SameText

\* What a set of writes to different files, each of which can be made, makes of
\* a directory after the first n: their texts, and the rest as it was.
WrittenUpTo(r, s, t, n) ==
    /\ r.ok
    /\ \A i \in 1..Len(s) : i <= n => r.tree[s[i].res] = s[i].new
    /\ \A p \in Paths : (\A i \in 1..Len(s) : i <= n => s[i].res # p) => r.tree[p] = t[p]
    /\ r.tree \in Trees
    /\ \A p \in Paths : r.tree[p] = Dir <=> t[p] = Dir

LEMMA WritesRun ==
    ASSUME NEW s \in Seq(Changes), OnlyWrites(s), NEW t \in Trees,
           \A i \in 1..Len(s) : s[i].old # None /\ CanWrite(t, s[i].res)
    PROVE  WrittenUpTo(RunAll("do", s, t), s, t, Len(s))
<1> DEFINE R(n) == RunAll("do", SubSeq(s, 1, n), t)
           Bad == {n \in 0..Len(s) : ~WrittenUpTo(R(n), s, t, n)}
<1>1. /\ Len(s) \in Nat /\ DOMAIN s = 1..Len(s)
      /\ \A i \in 1..Len(s) : s[i] \in Changes /\ s[i].res \in Paths /\ s[i].new \in Texts
  <2>1. Len(s) \in Nat /\ DOMAIN s = 1..Len(s) /\ \A i \in 1..Len(s) : s[i] \in Changes
    BY LenProperties, ElementOfSeq
  <2>2. \A c \in Changes : c.res \in Paths /\ c.new \in Texts
    BY DEF Changes
  <2> QED BY <2>1, <2>2
<1>2. Bad = {}
  <2> SUFFICES ASSUME Bad # {} PROVE FALSE
    OBVIOUS
  <2>1. PICK n \in Bad : \A l \in Bad : n <= l
    <3>1. Bad \in SUBSET Nat
      BY <1>1
    <3> HIDE DEF Bad
    <3> QED BY <3>1, LeastNatural
  <2>2. n \in 0..Len(s) /\ ~WrittenUpTo(R(n), s, t, n) /\ n \in Nat
    BY <1>1
  <2>3. CASE n = 0
    <3>1. R(0) = NotBegun(t)
      BY RunSteps
    <3> HIDE DEF R
    <3>2. WrittenUpTo(R(0), s, t, 0)
      BY <3>1 DEF WrittenUpTo, NotBegun
    <3> QED BY <2>2, <2>3, <3>2
  <2>4. CASE n # 0
    <3> DEFINE r == R(n - 1)
               c == s[n]
    <3>1. /\ n - 1 \in 0..Len(s) /\ ~(n <= n - 1) /\ n \in 1..Len(s)
          /\ \A i \in 1..Len(s) : i <= n <=> (i = n \/ i <= n - 1)
      BY <1>1, <2>2, <2>4
    <3>2. WrittenUpTo(r, s, t, n - 1)
      BY <2>1, <3>1
    <3>3. R(n) = Extend("do", r, c)
      BY <3>1, RunStep
    <3> HIDE DEF R, r
    <3>4. /\ c \in Changes /\ c.kind = "contents" /\ c.old # None /\ CanWrite(t, c.res)
          /\ c.res \in Paths /\ c.new \in Texts
      BY <1>1, <3>1 DEF OnlyWrites
    <3>5. r.ok /\ r.tree \in Trees /\ \A p \in Paths : r.tree[p] = Dir <=> t[p] = Dir
      BY <3>2 DEF WrittenUpTo
    <3>6. CanWrite(r.tree, c.res)
      BY <3>4, <3>5 DEF CanWrite, HasParent
    <3>7. Captured(c, r.tree) = c
      BY <3>4 DEF Captured
    <3>8. DoChange(c, r.tree) = Leaves([r.tree EXCEPT ![c.res] = c.new])
      BY <3>4, <3>6, <3>7 DEF DoChange, WriteFile
    <3>9. R(n).ok /\ R(n).tree = [r.tree EXCEPT ![c.res] = c.new]
      BY <3>3, <3>5, <3>8 DEF Extend, Perform, Leaves
    <3>10. /\ R(n).tree[c.res] = c.new
           /\ \A p \in Paths : p # c.res => R(n).tree[p] = r.tree[p]
           /\ R(n).tree \in Trees
      BY <3>4, <3>5, <3>9 DEF Trees, Nodes, Data
    <3>11. ASSUME NEW i \in 1..Len(s), i <= n PROVE R(n).tree[s[i].res] = s[i].new
      <4>1. CASE i = n
        BY <3>10, <4>1
      <4>2. CASE i # n
        <5>1. s[i].res # c.res /\ s[i].res \in Paths
          BY <1>1, <3>1, <4>2 DEF OnlyWrites
        <5>2. r.tree[s[i].res] = s[i].new
          BY <3>1, <3>2, <3>11, <4>2 DEF WrittenUpTo
        <5> QED BY <3>10, <5>1, <5>2
      <4> QED BY <4>1, <4>2
    <3>12. ASSUME NEW p \in Paths, \A i \in 1..Len(s) : i <= n => s[i].res # p
           PROVE  R(n).tree[p] = t[p]
      <4>1. n <= n /\ p # c.res
        BY <2>2, <3>1, <3>12
      <4>2. r.tree[p] = t[p]
        BY <3>1, <3>2, <3>12 DEF WrittenUpTo
      <4> QED BY <3>10, <4>1, <4>2
    <3>13. \A p \in Paths : R(n).tree[p] = Dir <=> t[p] = Dir
      <4>1. c.new # Dir /\ t[c.res] # Dir
        BY <3>4, FileTreeAssumption DEF CanWrite, Data
      <4> QED BY <3>5, <3>10, <4>1
    <3> QED BY <2>2, <3>9, <3>10, <3>11, <3>12, <3>13 DEF WrittenUpTo
  <2> QED BY <2>3, <2>4
<1> HIDE DEF Bad
<1>3. WrittenUpTo(R(Len(s)), s, t, Len(s))
  <2>1. Len(s) \in 0..Len(s)
    BY <1>1
  <2> QED BY <1>2, <2>1 DEF Bad
<1>4. R(Len(s)) = RunAll("do", s, t)
  BY RunSteps
<1> HIDE DEF R
<1> QED BY <1>3, <1>4

-----------------------------------------------------------------------------
\* Between the calls: what the running call began with, in terms of the
\* directory from before the set was done for the first time.
SinceFirst ==
    /\ mode = "do" => \A p \in Paths : SameText(before, origin, p)
    /\ mode = "undo" =>
          /\ \A i \in DOMAIN changes :
                /\ origin[changes[i].res] \in Data
                /\ Decode[origin[changes[i].res]] = changes[i].old
          /\ \A p \in Paths :
                (\A i \in DOMAIN changes : changes[i].res # p) => SameText(before, origin, p)

\* When the call has returned every change is made.
LEMMA ReturnedWrites ==
    ASSUME TypeOK, WritesInv, pc = "returned"
    PROVE  /\ \A i \in DOMAIN changes :
                /\ changes[i] \in Changes /\ changes[i].res \in Paths
                /\ changes[i].old # None /\ To(i) \in Texts
                /\ tree[changes[i].res] = To(i)
                /\ before[changes[i].res] \in Data
                /\ Decode[before[changes[i].res]] = From(i)
                /\ HasParent(before, changes[i].res)
           /\ \A p \in Paths : (\A i \in DOMAIN changes : changes[i].res # p) => tree[p] = before[p]
<1>1. done = Len(changes)
  BY DEF WritesInv, GoingForward
<1>2. \A i \in DOMAIN changes : Performed(i)
  BY <1>1, Positions DEF Performed
<1>3. \A i \in DOMAIN changes : changes[i] \in Changes /\ changes[i].res \in Paths
  <2>1. \A i \in DOMAIN changes : changes[i] \in Changes
    BY Positions, ElementOfSeq DEF TypeOK
  <2>2. \A c \in Changes : c.res \in Paths
    BY DEF Changes
  <2> QED BY <2>1, <2>2
<1>4. \A i \in DOMAIN changes : changes[i].old # None /\ changes[i].old \in Texts /\ changes[i].new \in Texts
  BY <1>2, <1>3 DEF WritesInv, CapturedBefore, Changes
<1>5. \A i \in DOMAIN changes : To(i) \in Texts
  BY <1>4 DEF To
<1> QED BY <1>2, <1>3, <1>4, <1>5 DEF WritesInv, CapturedBefore, GoingForward

\* Undoing the set has put everything back.
LEMMA UndoneIsOrigin ==
    ASSUME TypeOK, WritesInv, SinceFirst, pc = "returned", mode = "undo", NEW p \in Paths
    PROVE  SameText(tree, origin, p)
<1>1. CASE \A i \in DOMAIN changes : changes[i].res # p
  BY <1>1, ReturnedWrites DEF SinceFirst, SameText
<1>2. CASE \E i \in DOMAIN changes : changes[i].res = p
  <2>1. PICK i \in DOMAIN changes : changes[i].res = p
    BY <1>2
  <2>2. tree[p] = changes[i].old /\ changes[i].old \in Texts
    BY <2>1, ReturnedWrites DEF To
  <2>3. origin[p] \in Data /\ Decode[origin[p]] = changes[i].old
    BY <2>1 DEF SinceFirst
  <2>4. tree[p] \in Data /\ Decode[tree[p]] = changes[i].old
    BY <2>2, FileTreeAssumption DEF Data
  <2> QED BY <2>3, <2>4 DEF SameText
<1> QED BY <1>1, <1>2

\* Doing the set again gives what its changes make of the first directory.
LEMMA DoneIsRun ==
    ASSUME TypeOK, WritesInv, SinceFirst, pc = "returned", mode = "do", NEW p \in Paths
    PROVE  SameText(tree, RunAll("do", changes, origin).tree, p)
<1>1. /\ changes \in Seq(Changes) /\ OnlyWrites(changes) /\ origin \in Trees
      /\ DOMAIN changes = 1..Len(changes)
  BY Positions DEF TypeOK, WritesInv
<1>2. \A q \in Paths : before[q] = Dir <=> origin[q] = Dir
  BY FileTreeAssumption DEF SinceFirst, SameText
<1>3. ASSUME NEW i \in 1..Len(changes)
      PROVE  changes[i].old # None /\ CanWrite(origin, changes[i].res)
  <2>1. /\ changes[i].old # None /\ changes[i].res \in Paths
        /\ HasParent(before, changes[i].res) /\ before[changes[i].res] \in Data
    BY <1>1, ReturnedWrites
  <2> QED BY <1>2, <2>1, FileTreeAssumption DEF CanWrite, HasParent
<1> DEFINE run == RunAll("do", changes, origin)
<1>4. WrittenUpTo(run, changes, origin, Len(changes))
  BY <1>1, <1>3, WritesRun
<1> HIDE DEF run
<1>5. \A i \in 1..Len(changes) : i <= Len(changes)
  BY <1>1, LenProperties
<1>6. CASE \A i \in DOMAIN changes : changes[i].res # p
  <2>1. tree[p] = before[p] /\ run.tree[p] = origin[p]
    BY <1>1, <1>4, <1>6, ReturnedWrites DEF WrittenUpTo
  <2> QED BY <2>1 DEF SinceFirst, SameText, run
<1>7. CASE \E i \in DOMAIN changes : changes[i].res = p
  <2>1. PICK i \in DOMAIN changes : changes[i].res = p
    BY <1>7
  <2>2. tree[p] = changes[i].new
    BY <2>1, ReturnedWrites DEF To
  <2>3. run.tree[p] = changes[i].new
    BY <1>1, <1>4, <1>5, <2>1 DEF WrittenUpTo
  <2> QED BY <2>2, <2>3 DEF SameText, run
<1> QED BY <1>6, <1>7

\* The relation to the first directory is kept from one call to the next.
LEMMA SinceFirstKept ==
    ASSUME TypeOK, WritesInv, SinceFirst, [Next]_vars
    PROVE  SinceFirst'
<1>1. CASE CallDo
  <2>1. origin' = tree /\ before' = tree /\ mode' = "do"
    BY <1>1 DEF CallDo, Begin
  <2> QED BY <2>1 DEF SinceFirst, SameText
<1>2. CASE CallAgain
  <2>1. /\ pc = "returned" /\ mode' = Opposite(mode) /\ before' = tree
        /\ changes' = changes /\ origin' = origin /\ mode \in {"do", "undo"}
    BY <1>2 DEF CallAgain, Begin, TypeOK
  <2>2. CASE mode = "undo"
    BY <2>1, <2>2, UndoneIsOrigin DEF SinceFirst, Opposite
  <2>3. CASE mode = "do"
    <3>1. ASSUME NEW i \in DOMAIN changes
          PROVE  /\ origin[changes[i].res] \in Data
                 /\ Decode[origin[changes[i].res]] = changes[i].old
      <4>1. /\ before[changes[i].res] \in Data /\ changes[i].res \in Paths
            /\ Decode[before[changes[i].res]] = changes[i].old
        BY <2>1, <2>3, ReturnedWrites DEF From
      <4> QED BY <2>3, <4>1 DEF SinceFirst, SameText
    <3>2. ASSUME NEW p \in Paths, \A i \in DOMAIN changes : changes[i].res # p
          PROVE  SameText(tree, origin, p)
      <4>1. tree[p] = before[p]
        BY <2>1, <3>2, ReturnedWrites
      <4> QED BY <2>3, <4>1 DEF SinceFirst, SameText
    <3> QED BY <2>1, <2>3, <3>1, <3>2 DEF SinceFirst, Opposite
  <2> QED BY <2>1, <2>2, <2>3
<1>3. CASE PerformJob \/ DiskFails
  <2>1. UNCHANGED <<mode, before, origin>> /\ pc = "perform"
    BY <1>3 DEF PerformJob, DiskFails
  <2>2. mode = "undo" => changes' = changes
    <3>1. /\ changes \in Seq(Changes) /\ Position(done + 1) \in 1..Len(changes)
          /\ Current = changes[Position(done + 1)]
      BY <2>1, CurrentType DEF TypeOK, Current
    <3>2. [changes EXCEPT ![Position(done + 1)] = changes[Position(done + 1)]] = changes
      BY <3>1
    <3> QED BY <1>3, <3>1, <3>2 DEF PerformJob, DiskFails
  <2> QED BY <2>1, <2>2 DEF SinceFirst
<1>4. CASE \/ Stop \/ StartJob \/ ObserverRaises \/ FinishJob \/ Return \/ TakeBack
           \/ DiskFailsBack \/ ObserverRaisesBack \/ Reraise \/ UNCHANGED vars
  <2>1. UNCHANGED <<mode, before, origin, changes>>
    BY <1>4 DEF Stop, StartJob, ObserverRaises, FinishJob, Return, TakeBack, DiskFailsBack,
                ObserverRaisesBack, Reraise, vars
  <2> QED BY <2>1 DEF SinceFirst
<1> QED BY <1>1, <1>2, <1>3, <1>4 DEF Next, Step

\* The relation to the first directory, for every behaviour.
LEMMA SinceFirstHolds == Spec /\ WriteScripts => []SinceFirst
<1>1. Init => SinceFirst
  BY DEF Init, SinceFirst, SameText
<1>2. TypeOK /\ WritesInv /\ SinceFirst /\ [Next]_vars => SinceFirst'
  BY SinceFirstKept
<1> SUFFICES ASSUME WriteScripts PROVE Spec => []SinceFirst
  OBVIOUS
<1> QED BY <1>1, <1>2, TypeCorrect, WritesCorrect, PTL DEF Spec

\* However often a set of writes to different files was undone and redone
\* before: after ChangeSet.undo every text is the one from before the set.
THEOREM WritesUndo == ASSUME WriteScripts PROVE Spec => []UndoRestores
<1>1. TypeOK /\ WritesInv /\ SinceFirst => UndoRestores
  BY UndoneIsOrigin DEF UndoRestores, Returned
<1> QED BY <1>1, TypeCorrect, WritesCorrect, SinceFirstHolds, PTL

\* After do, and after every redo, every text of such a set's files is the one
\* that doing the set once to the first directory gives.
THEOREM WritesRedo == ASSUME WriteScripts PROVE Spec => []RedoRepeats
<1>1. TypeOK /\ WritesInv /\ SinceFirst => RedoRepeats
  BY DoneIsRun DEF RedoRepeats, Returned
<1> QED BY <1>1, TypeCorrect, WritesCorrect, SinceFirstHolds, PTL
=============================================================================
