---------------------------- MODULE HistoryProofs ----------------------------
(***************************************************************************)
(* Theorems about History: its type invariant; that a change set is in the  *)
(* lists once; that undo takes the changes that depend on the chosen one;   *)
(* that related changes keep their order; that undo and redo keep at most   *)
(* max_undos change sets between them; and what the lists mean when all     *)
(* sets are writes to files.                                                *)
(*                                                                         *)
(* History trims the undo list only, and only in do and in write; redo      *)
(* appends to it without a look at max_undos.  The bound holds because a    *)
(* change that moves between the lists leaves the other one, because        *)
(* _move_front only reorders, and because what is loaded was within the     *)
(* bound when it was saved.                                                 *)
(*                                                                         *)
(* A set of writes gives each of its files the text it captured or the new  *)
(* one.  Along a list the writes to one file are a chain, each capturing    *)
(* what the one before wrote (Leads, Starts); _move_front keeps the chain,  *)
(* for sets that write one file are related and keep their order.           *)
(***************************************************************************)
EXTENDS History, ChangesProofs, FiniteSetTheorems

\* A sequence, whatever its elements are.
IsList(list) == list \in Seq({list[i] : i \in DOMAIN list})

\* A sequence over a set is a list.
LEMMA SeqIsList ==
    ASSUME NEW S, NEW list \in Seq(S)
    PROVE  IsList(list) /\ Len(list) \in Nat /\ DOMAIN list = 1..Len(list)
<1>1. list \in [1..Len(list) -> S] /\ Len(list) \in Nat
  BY LenProperties
<1> DEFINE R == {list[i] : i \in DOMAIN list}
<1>2. list \in [1..Len(list) -> R]
  BY <1>1
<1>3. list \in Seq(R)
  <2> HIDE DEF R
  <2> QED BY <1>1, <1>2, SeqDef
<1> QED BY <1>1, <1>3 DEF IsList

\* A function on 1..n is a list of length n.
LEMMA FunctionIsList ==
    ASSUME NEW S, NEW n \in Nat, NEW list \in [1..n -> S]
    PROVE  IsList(list) /\ Len(list) = n
<1>1. list \in Seq(S)
  BY SeqDef
<1>2. IsList(list) /\ Len(list) \in Nat /\ DOMAIN list = 1..Len(list)
  BY <1>1, SeqIsList
<1> QED BY <1>2

\* The length and the positions of a list.
LEMMA ListLen ==
    ASSUME NEW list, IsList(list)
    PROVE  /\ Len(list) \in Nat /\ DOMAIN list = 1..Len(list)
           /\ IsFiniteSet(DOMAIN list) /\ Cardinality(DOMAIN list) = Len(list)
<1>1. Len(list) \in Nat /\ DOMAIN list = 1..Len(list)
  BY LenProperties DEF IsList
<1>2. IsFiniteSet(DOMAIN list) /\ Cardinality(DOMAIN list) = Len(list)
  <2>1. 1 \in Int /\ Len(list) \in Int
    BY <1>1
  <2>2. /\ IsFiniteSet(1..Len(list))
        /\ Cardinality(1..Len(list)) = IF 1 > Len(list) THEN 0 ELSE Len(list) - 1 + 1
    BY <2>1, FS_Interval, Zenon
  <2> QED BY <1>1, <2>2
<1> QED BY <1>1, <1>2

\* list.append makes a list longer by one.
LEMMA AppendedList ==
    ASSUME NEW list, IsList(list), NEW x
    PROVE  IsList(Append(list, x)) /\ Len(Append(list, x)) = Len(list) + 1
<1> DEFINE S == {list[i] : i \in DOMAIN list} \cup {x}
<1>1. list \in Seq(S)
  BY SeqMonotonic DEF IsList
<1>2. Append(list, x) \in Seq(S) /\ Len(Append(list, x)) = Len(list) + 1
  BY <1>1, AppendProperties
<1> QED BY <1>2, SeqIsList

\* A part of a list is a list.
LEMMA PartOfList ==
    ASSUME NEW list, IsList(list), NEW m \in 1..(Len(list) + 1), NEW n \in 0..Len(list)
    PROVE  /\ IsList(SubSeq(list, m, n))
           /\ Len(SubSeq(list, m, n)) = IF m <= n THEN n - m + 1 ELSE 0
<1> DEFINE S == {list[i] : i \in DOMAIN list}
<1>1. list \in Seq(S)
  BY DEF IsList
<1>2. /\ SubSeq(list, m, n) \in Seq(S)
      /\ Len(SubSeq(list, m, n)) = IF m <= n THEN n - m + 1 ELSE 0
  BY <1>1, SubSeqProperties
<1> QED BY <1>2, SeqIsList

\* The list of what is at some of the positions of a list.
LEMMA AtIsList ==
    ASSUME NEW list, NEW positions, IsFiniteSet(positions)
    PROVE  IsList(At(list, positions)) /\ Len(At(list, positions)) = Cardinality(positions)
<1> DEFINE n == Cardinality(positions)
           S == {list[Nth(positions, k)] : k \in 1..n}
<1>1. n \in Nat
  BY FS_CardinalityType
<1>2. At(list, positions) \in [1..n -> S]
  BY DEF At
<1> HIDE DEF S
<1> QED BY <1>1, <1>2, FunctionIsList

\* _FindChangeDependencies takes its changes from the list, the chosen one
\* among them.
LEMMA FoundInList ==
    ASSUME NEW list, IsList(list), NEW chosen \in DOMAIN list
    PROVE  /\ FindDependencies(list, chosen) \in SUBSET DOMAIN list
           /\ IsFiniteSet(FindDependencies(list, chosen))
           /\ Cardinality(FindDependencies(list, chosen)) \in 0..Len(list)
<1>1. Len(list) \in Nat /\ DOMAIN list = 1..Len(list)
  BY ListLen
<1>2. FindDependencies(list, chosen) \in SUBSET DOMAIN list
  BY <1>1 DEF FindDependencies
<1>3. IsFiniteSet(DOMAIN list) /\ Cardinality(DOMAIN list) = Len(list)
  BY ListLen
<1>4. /\ IsFiniteSet(FindDependencies(list, chosen))
      /\ Cardinality(FindDependencies(list, chosen)) <= Len(list)
  BY <1>2, <1>3, FS_Subset
<1> QED BY <1>1, <1>2, <1>4, FS_CardinalityType

\* _move_front reorders a list and neither adds to it nor takes from it.
LEMMA MovedList ==
    ASSUME NEW list, IsList(list), NEW positions \in SUBSET DOMAIN list
    PROVE  IsList(MoveFront(list, positions)) /\ Len(MoveFront(list, positions)) = Len(list)
<1> DEFINE rest == DOMAIN list \ positions
           s == At(list, rest)
           t == At(list, positions)
           S == {s[i] : i \in DOMAIN s} \cup {t[i] : i \in DOMAIN t}
<1>1. Len(list) \in Nat /\ DOMAIN list = 1..Len(list)
  BY ListLen
<1>2. IsFiniteSet(DOMAIN list) /\ Cardinality(DOMAIN list) = Len(list)
  BY ListLen
<1>3. IsFiniteSet(positions) /\ IsFiniteSet(rest)
  BY <1>2, FS_Subset, FS_Difference
<1>4. Cardinality(rest) = Len(list) - Cardinality(positions)
  <2>1. DOMAIN list \cap positions = positions
    OBVIOUS
  <2>2. Cardinality(rest) = Cardinality(DOMAIN list) - Cardinality(DOMAIN list \cap positions)
    BY <1>2, FS_Difference
  <2> QED BY <1>2, <2>1, <2>2
<1>5. /\ IsList(s) /\ Len(s) = Cardinality(rest)
      /\ IsList(t) /\ Len(t) = Cardinality(positions)
  BY <1>3, AtIsList
<1>6. s \in Seq(S) /\ t \in Seq(S)
  <2> HIDE DEF s, t
  <2> QED BY <1>5, SeqMonotonic DEF IsList
<1>7. s \o t \in Seq(S) /\ Len(s \o t) = Len(s) + Len(t)
  <2> HIDE DEF s, t, S
  <2> QED BY <1>6, ConcatProperties
<1>8. IsList(s \o t)
  <2> HIDE DEF s, t, S
  <2> QED BY <1>7, SeqIsList
<1>9. Cardinality(positions) \in Nat /\ Len(list) \in Nat
  BY <1>1, <1>3, FS_CardinalityType
<1> QED BY <1>4, <1>5, <1>7, <1>8, <1>9 DEF MoveFront

\* _remove_extra_items leaves max_undos at most.
LEMMA TrimmedList ==
    ASSUME NEW list, IsList(list)
    PROVE  /\ IsList(Trimmed(list))
           /\ Len(Trimmed(list)) <= MaxUndos /\ Len(Trimmed(list)) <= Len(list)
<1>1. Len(list) \in Nat /\ MaxUndos \in Nat
  BY ListLen, HistoryAssumption
<1>2. Excess(list) + 1 \in 1..(Len(list) + 1) /\ Len(list) \in 0..Len(list)
  BY <1>1 DEF Excess
<1>3. /\ IsList(Trimmed(list))
      /\ Len(Trimmed(list)) = IF Excess(list) + 1 <= Len(list)
                              THEN Len(list) - (Excess(list) + 1) + 1 ELSE 0
  BY <1>2, PartOfList DEF Trimmed
<1> QED BY <1>1, <1>3 DEF Excess

\* What is loaded is as long as what was saved.
LEMMA LoadedList ==
    ASSUME NEW list, IsList(list)
    PROVE  IsList(Loaded(list)) /\ Len(Loaded(list)) = Len(list)
<1> DEFINE S == {LoadedEntry(list[i]) : i \in DOMAIN list}
<1>1. Len(list) \in Nat /\ DOMAIN list = 1..Len(list)
  BY ListLen
<1>2. Loaded(list) \in [1..Len(list) -> S]
  BY <1>1 DEF Loaded
<1> HIDE DEF S
<1> QED BY <1>1, <1>2, FunctionIsList

-----------------------------------------------------------------------------
(* The inductive invariant *)

Lists == /\ IsList(undo_list) /\ IsList(redo_list)
         /\ IsList(saved.undo) /\ IsList(saved.redo)

SavedBounded == Len(saved.undo) + Len(saved.redo) <= MaxUndos

\* The rounds that are left have their change sets at the end of the list,
\* and what drop forgets will be in the redo list by then.
RoundsLeft ==
    /\ run.op = "undo" => /\ run.left <= Len(undo_list)
                          /\ run.drop <= Len(redo_list) + run.left
    /\ run.op # "undo" => run.drop = 0
    /\ run.op = "redo" => run.left <= Len(redo_list)

RunType == run \in [op : {"none", "undo", "redo"}, left : Nat, drop : Nat]

BoundedInv == RunType /\ Lists /\ Bounded /\ SavedBounded /\ RoundsLeft

\* A change set that was just done keeps the lists within the bound.
LEMMA DoKeeps == BoundedInv /\ Do => BoundedInv'
<1> SUFFICES ASSUME BoundedInv, Do PROVE BoundedInv'
  OBVIOUS
<1>1. run' = run /\ saved' = saved /\ Ready
  BY DEF Do
<1>2. run = [op |-> "none", left |-> 0, drop |-> 0]
  BY <1>1 DEF Ready, Idle
<1>3. IsList(<<>>) /\ Len(<<>>) = 0
  BY EmptySeq, SeqIsList
<1>4. PICK entry :
        \/ undo_list' = undo_list /\ redo_list' \in {<<>>, redo_list}
        \/ undo_list' = Trimmed(Append(undo_list, entry)) /\ redo_list' = <<>>
  BY DEF Do
<1>5. /\ IsList(undo_list') /\ IsList(redo_list')
      /\ Len(undo_list') + Len(redo_list') <= MaxUndos
  <2>1. CASE undo_list' = undo_list /\ redo_list' \in {<<>>, redo_list}
    BY <1>3, <2>1, ListLen, HistoryAssumption DEF BoundedInv, Lists, Bounded
  <2>2. CASE undo_list' = Trimmed(Append(undo_list, entry)) /\ redo_list' = <<>>
    <3>1. IsList(Append(undo_list, entry))
      BY AppendedList DEF BoundedInv, Lists
    <3>2. IsList(undo_list') /\ Len(undo_list') <= MaxUndos
      BY <2>2, <3>1, TrimmedList
    <3> QED BY <1>3, <2>2, <3>2, ListLen
  <2> QED BY <1>4, <2>1, <2>2
<1>6. RoundsLeft'
  BY <1>1, <1>2 DEF RoundsLeft
<1> QED BY <1>1, <1>5, <1>6 DEF BoundedInv, Lists, Bounded, SavedBounded, RunType

\* The beginning of undo reorders the undo list.
LEMMA UndoKeeps ==
    ASSUME NEW chosen \in DOMAIN undo_list, NEW drop
    PROVE  BoundedInv /\ Undo(chosen, drop) => BoundedInv'
<1> SUFFICES ASSUME BoundedInv, Undo(chosen, drop) PROVE BoundedInv'
  OBVIOUS
<1> DEFINE found == FindDependencies(undo_list, chosen)
<1>1. /\ undo_list' = MoveFront(undo_list, found)
      /\ redo_list' = redo_list /\ saved' = saved
      /\ run' = [op |-> "undo", left |-> Cardinality(found),
                 drop |-> IF drop THEN Cardinality(found) ELSE 0]
  BY DEF Undo
<1>2. IsList(undo_list) /\ IsList(redo_list)
  BY DEF BoundedInv, Lists
<1>3. found \in SUBSET DOMAIN undo_list /\ Cardinality(found) \in 0..Len(undo_list)
  BY <1>2, FoundInList
<1> HIDE DEF found
<1>4. IsList(undo_list') /\ Len(undo_list') = Len(undo_list)
  BY <1>1, <1>2, <1>3, MovedList
<1>5. Len(undo_list) \in Nat /\ Len(redo_list) \in Nat
  BY <1>2, ListLen
<1>6. RoundsLeft'
  BY <1>1, <1>3, <1>4, <1>5 DEF RoundsLeft
<1>7. RunType'
  BY <1>1, <1>3, <1>5 DEF RunType
<1> QED BY <1>1, <1>4, <1>6, <1>7 DEF BoundedInv, Lists, Bounded, SavedBounded

\* The beginning of redo reorders the redo list.
LEMMA RedoKeeps ==
    ASSUME NEW chosen \in DOMAIN redo_list
    PROVE  BoundedInv /\ Redo(chosen) => BoundedInv'
<1> SUFFICES ASSUME BoundedInv, Redo(chosen) PROVE BoundedInv'
  OBVIOUS
<1> DEFINE found == FindDependencies(redo_list, chosen)
<1>1. /\ redo_list' = MoveFront(redo_list, found)
      /\ undo_list' = undo_list /\ saved' = saved
      /\ run' = [op |-> "redo", left |-> Cardinality(found), drop |-> 0]
  BY DEF Redo
<1>2. IsList(undo_list) /\ IsList(redo_list)
  BY DEF BoundedInv, Lists
<1>3. found \in SUBSET DOMAIN redo_list /\ Cardinality(found) \in 0..Len(redo_list)
  BY <1>2, FoundInList
<1> HIDE DEF found
<1>4. IsList(redo_list') /\ Len(redo_list') = Len(redo_list)
  BY <1>1, <1>2, <1>3, MovedList
<1>5. Len(undo_list) \in Nat /\ Len(redo_list) \in Nat
  BY <1>2, ListLen
<1>6. RoundsLeft'
  BY <1>1, <1>3, <1>4, <1>5 DEF RoundsLeft
<1>7. RunType'
  BY <1>1, <1>3, <1>5 DEF RunType
<1> QED BY <1>1, <1>4, <1>6, <1>7 DEF BoundedInv, Lists, Bounded, SavedBounded

\* list.pop leaves a list shorter by one.
LEMMA PoppedList ==
    ASSUME NEW list, IsList(list), Len(list) > 0
    PROVE  IsList(Popped(list)) /\ Len(Popped(list)) = Len(list) - 1
<1>1. Len(list) \in Nat
  BY ListLen
<1>2. 1 \in 1..(Len(list) + 1) /\ Len(list) - 1 \in 0..Len(list)
  BY <1>1
<1>3. /\ IsList(SubSeq(list, 1, Len(list) - 1))
      /\ Len(SubSeq(list, 1, Len(list) - 1)) =
           IF 1 <= Len(list) - 1 THEN Len(list) - 1 - 1 + 1 ELSE 0
  BY <1>2, PartOfList
<1> QED BY <1>1, <1>3 DEF Popped

\* A round of undo moves one change set to the redo list, or ends the call.
LEMMA PerformUndoKeeps == BoundedInv /\ PerformUndo => BoundedInv'
<1> SUFFICES ASSUME BoundedInv, PerformUndo PROVE BoundedInv'
  OBVIOUS
<1>1. run.op = "undo" /\ run.left > 0 /\ saved' = saved
  BY DEF PerformUndo
<1>2. /\ IsList(undo_list) /\ Len(undo_list) \in Nat
      /\ IsList(redo_list) /\ Len(redo_list) \in Nat
      /\ run.left \in Nat /\ run.left <= Len(undo_list)
      /\ run.drop \in Nat /\ run.drop <= Len(redo_list) + run.left
  BY <1>1, ListLen DEF BoundedInv, Lists, RoundsLeft, RunType
<1>3. PICK entry :
        \/ /\ undo_list' = Popped(undo_list) /\ redo_list' = Append(redo_list, entry)
           /\ run' = [run EXCEPT !.left = @ - 1]
        \/ run' = Idle /\ UNCHANGED <<undo_list, redo_list>>
  BY DEF PerformUndo, Continue
<1>4. CASE run' = Idle /\ UNCHANGED <<undo_list, redo_list>>
  <2>1. RoundsLeft'
    BY <1>4 DEF RoundsLeft, Idle
  <2> QED BY <1>1, <1>4, <2>1 DEF BoundedInv, Lists, Bounded, SavedBounded, RunType, Idle
<1>5. CASE /\ undo_list' = Popped(undo_list) /\ redo_list' = Append(redo_list, entry)
           /\ run' = [run EXCEPT !.left = @ - 1]
  <2>1. IsList(undo_list') /\ Len(undo_list') = Len(undo_list) - 1
    BY <1>1, <1>2, <1>5, PoppedList
  <2>2. IsList(redo_list') /\ Len(redo_list') = Len(redo_list) + 1
    BY <1>2, <1>5, AppendedList
  <2>3. RunType'
    BY <1>1, <1>2, <1>5 DEF RunType, BoundedInv, Lists
  <2>4. run'.op = "undo" /\ run'.left = run.left - 1 /\ run'.drop = run.drop
    BY <1>1, <1>5 DEF BoundedInv, Lists, RunType
  <2>5. RoundsLeft'
    BY <1>1, <1>2, <2>1, <2>2, <2>4 DEF RoundsLeft
  <2>6. Lists' /\ SavedBounded'
    BY <1>1, <2>1, <2>2 DEF BoundedInv, Lists, SavedBounded
  <2>7. Bounded'
    BY <1>2, <2>1, <2>2 DEF BoundedInv, Bounded
  <2> QED BY <2>3, <2>5, <2>6, <2>7 DEF BoundedInv
<1> QED BY <1>3, <1>4, <1>5

\* A round of redo moves one change set to the undo list, or ends the call.
LEMMA PerformRedoKeeps == BoundedInv /\ PerformRedo => BoundedInv'
<1> SUFFICES ASSUME BoundedInv, PerformRedo PROVE BoundedInv'
  OBVIOUS
<1>1. run.op = "redo" /\ run.left > 0 /\ saved' = saved
  BY DEF PerformRedo
<1>2. /\ IsList(undo_list) /\ Len(undo_list) \in Nat
      /\ IsList(redo_list) /\ Len(redo_list) \in Nat
      /\ run.left \in Nat /\ run.left <= Len(redo_list) /\ run.drop = 0
  BY <1>1, ListLen DEF BoundedInv, Lists, RoundsLeft, RunType
<1>3. PICK entry :
        \/ /\ redo_list' = Popped(redo_list) /\ undo_list' = Append(undo_list, entry)
           /\ run' = [run EXCEPT !.left = @ - 1]
        \/ run' = Idle /\ UNCHANGED <<undo_list, redo_list>>
  BY DEF PerformRedo, Continue
<1>4. CASE run' = Idle /\ UNCHANGED <<undo_list, redo_list>>
  <2>1. RoundsLeft'
    BY <1>4 DEF RoundsLeft, Idle
  <2> QED BY <1>1, <1>4, <2>1 DEF BoundedInv, Lists, Bounded, SavedBounded, RunType, Idle
<1>5. CASE /\ redo_list' = Popped(redo_list) /\ undo_list' = Append(undo_list, entry)
           /\ run' = [run EXCEPT !.left = @ - 1]
  <2>1. IsList(redo_list') /\ Len(redo_list') = Len(redo_list) - 1
    BY <1>1, <1>2, <1>5, PoppedList
  <2>2. IsList(undo_list') /\ Len(undo_list') = Len(undo_list) + 1
    BY <1>2, <1>5, AppendedList
  <2>3. RunType'
    BY <1>1, <1>2, <1>5 DEF RunType, BoundedInv, Lists
  <2>4. run'.op = "redo" /\ run'.left = run.left - 1 /\ run'.drop = run.drop
    BY <1>1, <1>5 DEF BoundedInv, Lists, RunType
  <2>5. RoundsLeft'
    BY <1>1, <1>2, <2>1, <2>2, <2>4 DEF RoundsLeft
  <2>6. Lists' /\ SavedBounded'
    BY <1>1, <2>1, <2>2 DEF BoundedInv, Lists, SavedBounded
  <2>7. Bounded'
    BY <1>2, <2>1, <2>2 DEF BoundedInv, Bounded
  <2> QED BY <2>3, <2>5, <2>6, <2>7 DEF BoundedInv
<1> QED BY <1>3, <1>4, <1>5

\* What drop forgets at the end of a call is in the redo list.
LEMMA FinishKeeps == BoundedInv /\ Finish => BoundedInv'
<1> SUFFICES ASSUME BoundedInv, Finish PROVE BoundedInv'
  OBVIOUS
<1>1. /\ run.left = 0 /\ run' = Idle /\ saved' = saved /\ undo_list' = undo_list
      /\ redo_list' = SubSeq(redo_list, 1, Len(redo_list) - run.drop)
  BY DEF Finish
<1>2. /\ IsList(redo_list) /\ Len(redo_list) \in Nat /\ Len(undo_list) \in Nat
      /\ run.drop \in 0..Len(redo_list)
  BY <1>1, ListLen DEF BoundedInv, Lists, RoundsLeft, RunType
<1>3. 1 \in 1..(Len(redo_list) + 1) /\ Len(redo_list) - run.drop \in 0..Len(redo_list)
  BY <1>2
<1>4. /\ IsList(redo_list')
      /\ Len(redo_list') = IF 1 <= Len(redo_list) - run.drop
                           THEN (Len(redo_list) - run.drop) - 1 + 1 ELSE 0
  BY <1>1, <1>2, <1>3, PartOfList
<1>5. RoundsLeft'
  BY <1>1 DEF RoundsLeft, Idle
<1>6. Lists' /\ SavedBounded' /\ RunType'
  BY <1>1, <1>4 DEF BoundedInv, Lists, SavedBounded, RunType, Idle
<1>7. Bounded'
  <2>1. Len(redo_list') <= Len(redo_list) /\ Len(redo_list') \in Nat
    BY <1>2, <1>4, ListLen
  <2>2. undo_list' = undo_list /\ MaxUndos \in Nat
        /\ Len(undo_list) + Len(redo_list) <= MaxUndos
    BY <1>1, HistoryAssumption DEF BoundedInv, Bounded
  <2>3. Len(undo_list') + Len(redo_list') <= MaxUndos
    BY ONLY <1>2, <2>1, <2>2
  <2> QED BY <2>3 DEF Bounded
<1> QED BY <1>5, <1>6, <1>7 DEF BoundedInv

\* What is saved and loaded is within the bound.
LEMMA SessionKeeps ==
    BoundedInv /\ (Clear \/ Save \/ Restart \/ Crash \/ TornSave) => BoundedInv'
<1> SUFFICES ASSUME BoundedInv, Clear \/ Save \/ Restart \/ Crash \/ TornSave
             PROVE  BoundedInv'
  OBVIOUS
<1>0. IsList(<<>>) /\ Len(<<>>) = 0 /\ MaxUndos \in Nat
  BY EmptySeq, SeqIsList, HistoryAssumption
<1>1. CASE Clear
  <2>1. undo_list' = <<>> /\ redo_list' = <<>> /\ run' = run /\ saved' = saved /\ run = Idle
    BY <1>1 DEF Clear, Ready
  <2>2. RoundsLeft'
    BY <2>1 DEF RoundsLeft, Idle
  <2>3. Lists' /\ SavedBounded' /\ RunType'
    BY <1>0, <2>1 DEF BoundedInv, Lists, SavedBounded, RunType
  <2>4. Bounded'
    BY <1>0, <2>1 DEF Bounded
  <2> QED BY <2>2, <2>3, <2>4 DEF BoundedInv
<1>2. CASE Save
  <2>1. /\ undo_list' = Trimmed(undo_list) /\ redo_list' = redo_list
        /\ run' = run /\ run = Idle
        /\ saved' = [undo |-> undo_list', redo |-> redo_list]
    BY <1>2 DEF Save, Ready
  <2>2. IsList(undo_list') /\ Len(undo_list') <= Len(undo_list)
    BY <2>1, TrimmedList DEF BoundedInv, Lists
  <2>3. RoundsLeft'
    BY <2>1 DEF RoundsLeft, Idle
  <2>4. /\ Len(undo_list) \in Nat /\ Len(undo_list') \in Nat /\ Len(redo_list) \in Nat
        /\ Len(undo_list) + Len(redo_list) <= MaxUndos
    BY <2>2, ListLen DEF BoundedInv, Lists, Bounded
  <2>5. Bounded' /\ SavedBounded'
    BY <1>0, <2>1, <2>2, <2>4 DEF Bounded, SavedBounded
  <2> QED BY <2>1, <2>2, <2>3, <2>5 DEF BoundedInv, Lists, RunType
<1>3. CASE Restart \/ Crash
  <2>1. /\ undo_list' = Loaded(saved.undo) /\ redo_list' = Loaded(saved.redo)
        /\ run' = Idle /\ saved' = saved
    BY <1>3 DEF Restart, Crash, Load
  <2>2. /\ IsList(undo_list') /\ Len(undo_list') = Len(saved.undo)
        /\ IsList(redo_list') /\ Len(redo_list') = Len(saved.redo)
    BY <2>1, LoadedList DEF BoundedInv, Lists
  <2>3. RoundsLeft'
    BY <2>1 DEF RoundsLeft, Idle
  <2> QED BY <2>1, <2>2, <2>3 DEF BoundedInv, Lists, Bounded, SavedBounded, RunType, Idle
<1>4. CASE TornSave
  <2>1. /\ undo_list' = <<>> /\ redo_list' = <<>> /\ run' = run /\ run = Idle
        /\ saved' = [undo |-> <<>>, redo |-> <<>>]
    BY <1>4 DEF TornSave, Ready, NoData
  <2>2. RoundsLeft'
    BY <2>1 DEF RoundsLeft, Idle
  <2> QED BY <1>0, <2>1, <2>2 DEF BoundedInv, Lists, Bounded, SavedBounded, RunType
<1> QED BY <1>1, <1>2, <1>3, <1>4

\* Every state has the lists, the saved lists and the rounds that are left
\* within the bound.
LEMMA BoundedInductive == Spec => []BoundedInv
<1>1. Init => BoundedInv
  <2> SUFFICES ASSUME Init PROVE BoundedInv
    OBVIOUS
  <2>1. undo_list = <<>> /\ redo_list = <<>> /\ run = Idle
        /\ saved = [undo |-> <<>>, redo |-> <<>>]
    BY DEF Init, NoData
  <2>2. IsList(<<>>) /\ Len(<<>>) = 0 /\ MaxUndos \in Nat
    BY EmptySeq, SeqIsList, HistoryAssumption
  <2>3. RoundsLeft
    BY <2>1 DEF RoundsLeft, Idle
  <2> QED BY <2>1, <2>2, <2>3 DEF BoundedInv, Lists, Bounded, SavedBounded, RunType, Idle
<1>2. BoundedInv /\ [Next]_vars => BoundedInv'
  <2> SUFFICES ASSUME BoundedInv, [Next]_vars PROVE BoundedInv'
    OBVIOUS
  <2>1. CASE Do
    BY <2>1, DoKeeps
  <2>2. CASE StartUndo
    <3>1. PICK chosen \in DOMAIN undo_list, drop \in {FALSE} \cup {"drop" \in Features} :
             Undo(chosen, drop)
      BY <2>2 DEF StartUndo
    <3> QED BY <3>1, UndoKeeps
  <2>3. CASE StartRedo
    <3>1. PICK chosen \in DOMAIN redo_list : Redo(chosen)
      BY <2>3 DEF StartRedo
    <3> QED BY <3>1, RedoKeeps
  <2>4. CASE PerformUndo
    BY <2>4, PerformUndoKeeps
  <2>5. CASE PerformRedo
    BY <2>5, PerformRedoKeeps
  <2>6. CASE Finish
    BY <2>6, FinishKeeps
  <2>7. CASE Clear \/ Save \/ Restart \/ Crash \/ TornSave
    BY <2>7, SessionKeeps
  <2>8. CASE UNCHANGED vars
    BY <2>8 DEF vars, BoundedInv, Lists, Bounded, SavedBounded, RoundsLeft, RunType
  <2> QED BY <2>1, <2>2, <2>3, <2>4, <2>5, <2>6, <2>7, <2>8 DEF Next
<1> QED BY <1>1, <1>2, PTL DEF Spec

\* However changes are done, undone, redone, dropped, interrupted, saved and
\* loaded, History keeps max_undos change sets at most in its two lists.
THEOREM BoundedLists == Spec => []Bounded
<1>1. BoundedInv => Bounded
  BY DEF BoundedInv
<1> QED BY <1>1, BoundedInductive, PTL


-----------------------------------------------------------------------------
(* The positions of a list in order: Nth, At and MoveFront *)

UpTo(positions, i) == {j \in positions : j <= i}

\* One position more makes the positions up to it one more, or leaves them.
LEMMA UpToNext ==
    ASSUME NEW P \in SUBSET Nat, IsFiniteSet(P), NEW i \in Nat
    PROVE  /\ IsFiniteSet(UpTo(P, i)) /\ Cardinality(UpTo(P, i)) \in Nat
           /\ i + 1 \in P => Cardinality(UpTo(P, i + 1)) = Cardinality(UpTo(P, i)) + 1
           /\ i + 1 \notin P => UpTo(P, i + 1) = UpTo(P, i)
<1>0. /\ \A j \in P : j <= i + 1 <=> j <= i \/ j = i + 1
      /\ ~(i + 1 <= i)
  <2>1. \A j \in P : j \in Nat
    OBVIOUS
  <2> QED BY <2>1
<1>1. UpTo(P, i) \in SUBSET P
  BY DEF UpTo
<1>2. IsFiniteSet(UpTo(P, i)) /\ Cardinality(UpTo(P, i)) \in Nat
  BY <1>1, FS_Subset, FS_CardinalityType
<1>3. ASSUME i + 1 \in P
      PROVE  Cardinality(UpTo(P, i + 1)) = Cardinality(UpTo(P, i)) + 1
  <2>1. UpTo(P, i + 1) = UpTo(P, i) \cup {i + 1} /\ i + 1 \notin UpTo(P, i)
    BY <1>0, <1>3 DEF UpTo
  <2> QED BY <1>2, <2>1, FS_AddElement
<1>4. i + 1 \notin P => UpTo(P, i + 1) = UpTo(P, i)
  BY <1>0 DEF UpTo
<1> QED BY <1>2, <1>3, <1>4

\* A finite set of positive numbers has a k-th smallest element for every k
\* up to its cardinality: Nth is it.
LEMMA NthPosition ==
    ASSUME NEW n \in Nat, NEW P \in SUBSET (1..n), NEW k \in 1..Cardinality(P)
    PROVE  Nth(P, k) \in P /\ Cardinality(UpTo(P, Nth(P, k))) = k
<1>1. IsFiniteSet(1..n)
  <2>1. 1 \in Int /\ n \in Int
    OBVIOUS
  <2> QED BY <2>1, FS_Interval, Zenon
<1>2. IsFiniteSet(P) /\ P \in SUBSET Nat /\ Cardinality(P) \in Nat
  <2>1. IsFiniteSet(P)
    BY <1>1, FS_Subset
  <2>2. \A j \in P : j \in 1..n
    OBVIOUS
  <2>3. \A j \in P : j \in Nat
    BY <2>2
  <2> QED BY <2>1, <2>3, FS_CardinalityType
<1>0. \A j \in P : j <= n /\ ~(j <= 0)
  <2>1. \A j \in P : j \in 1..n
    OBVIOUS
  <2> QED BY <2>1
<1> DEFINE Many == {i \in Nat : k <= Cardinality(UpTo(P, i))}
<1>3. n \in Many
  <2>1. UpTo(P, n) = P
    BY <1>0 DEF UpTo
  <2> QED BY <1>2, <2>1
<1>4. PICK least \in Many : \A i \in Many : least <= i
  <2>1. Many \in SUBSET Nat /\ Many # {}
    BY <1>3
  <2> HIDE DEF Many
  <2> QED BY <2>1, LeastNatural
<1>5. least # 0
  <2>1. UpTo(P, 0) = {}
    BY <1>0 DEF UpTo
  <2> QED BY <2>1, FS_EmptySet, <1>2, <1>4
<1> DEFINE i == least - 1
<1>6. i \in Nat /\ least = i + 1 /\ k \in Nat /\ least \in Nat
  BY <1>4, <1>5
<1>7. ~(k <= Cardinality(UpTo(P, i)))
  BY <1>4, <1>6
<1>8. k <= Cardinality(UpTo(P, i + 1))
  BY <1>4, <1>6
<1> HIDE DEF i, Many
<1>9. i + 1 \in P /\ Cardinality(UpTo(P, i + 1)) = k
  BY <1>2, <1>6, <1>7, <1>8, UpToNext
<1>10. \E j \in P : Cardinality({m \in P : m <= j}) = k
  BY <1>9 DEF UpTo
<1> QED BY <1>10 DEF Nth, UpTo

\* Nth counts upwards.
LEMMA NthIncreases ==
    ASSUME NEW n \in Nat, NEW P \in SUBSET (1..n),
           NEW k \in 1..Cardinality(P), NEW l \in 1..Cardinality(P), k < l
    PROVE  Nth(P, k) < Nth(P, l)
<1>1. IsFiniteSet(1..n)
  <2>1. 1 \in Int /\ n \in Int
    OBVIOUS
  <2> QED BY <2>1, FS_Interval, Zenon
<1>2. /\ Nth(P, k) \in P /\ Cardinality(UpTo(P, Nth(P, k))) = k
      /\ Nth(P, l) \in P /\ Cardinality(UpTo(P, Nth(P, l))) = l
  BY NthPosition
<1>3. IsFiniteSet(P)
  BY <1>1, FS_Subset
<1>4. ASSUME Nth(P, l) <= Nth(P, k) PROVE FALSE
  <2>0. \A j \in P : j \in 1..n
    OBVIOUS
  <2>5. \A j \in P : j <= Nth(P, l) => j <= Nth(P, k)
    <3>1. Nth(P, k) \in 1..n /\ Nth(P, l) \in 1..n
      BY <1>2, <2>0
    <3> HIDE <1>2
    <3> QED BY <1>4, <2>0, <3>1
  <2>1. UpTo(P, Nth(P, l)) \in SUBSET UpTo(P, Nth(P, k))
    BY <2>5 DEF UpTo
  <2>2. UpTo(P, Nth(P, k)) \in SUBSET P
    BY DEF UpTo
  <2>3. IsFiniteSet(UpTo(P, Nth(P, k)))
    BY <1>3, <2>2, FS_Subset
  <2>4. Cardinality(UpTo(P, Nth(P, l))) <= Cardinality(UpTo(P, Nth(P, k)))
    BY <2>1, <2>3, FS_Subset
  <2>6. k \in Nat /\ l \in Nat
    BY <1>3, FS_CardinalityType
  <2> QED BY <1>2, <2>4, <2>6
<1>5. Nth(P, k) \in 1..n /\ Nth(P, l) \in 1..n
  BY <1>2
<1> QED BY <1>4, <1>5

\* Position k of the reordered list holds what was at position q[k]; what was
\* behind only gets before what is moved to the end, and is not moved itself.
MoveOf(list, positions, q) ==
    /\ q \in [1..Len(list) -> 1..Len(list)]
    /\ \A k \in 1..Len(list) : MoveFront(list, positions)[k] = list[q[k]]
    /\ \A k, l \in 1..Len(list) :
          k < l => q[k] < q[l] \/ (q[l] < q[k] /\ q[l] \in positions /\ q[k] \notin positions)

\* _move_front keeps every change set of the list, once, and the order but for
\* the ones it moves to the end.
LEMMA MoveFrontReorders ==
    ASSUME NEW list, IsList(list), NEW positions \in SUBSET DOMAIN list
    PROVE  \E q : MoveOf(list, positions, q)
<1> DEFINE n == Len(list)
           rest == DOMAIN list \ positions
           a == Cardinality(rest)
           b == Cardinality(positions)
           q == [k \in 1..n |-> IF k <= a THEN Nth(rest, k) ELSE Nth(positions, k - a)]
<1>1. n \in Nat /\ DOMAIN list = 1..n
  BY ListLen
<1>2. IsFiniteSet(DOMAIN list) /\ Cardinality(DOMAIN list) = n
  BY ListLen
<1>3. IsFiniteSet(rest) /\ IsFiniteSet(positions) /\ a \in Nat /\ b \in Nat
  BY <1>2, FS_Subset, FS_CardinalityType
<1>4. a + b = n
  <2>1. DOMAIN list \cap positions = positions
    OBVIOUS
  <2>2. a = Cardinality(DOMAIN list) - Cardinality(DOMAIN list \cap positions)
    BY <1>2, FS_Difference
  <2>3. a = n - b
    BY <1>2, <2>1, <2>2
  <2> HIDE DEF a, b
  <2> QED BY <1>1, <1>3, <2>3
<1>5. rest \in SUBSET (1..n) /\ positions \in SUBSET (1..n)
  BY <1>1
<1>6. /\ IsList(At(list, rest)) /\ Len(At(list, rest)) = a
      /\ IsList(At(list, positions)) /\ Len(At(list, positions)) = b
  BY <1>3, AtIsList
<1>7. ASSUME NEW k \in 1..n PROVE MoveFront(list, positions)[k] = list[q[k]]
  <2>1. MoveFront(list, positions) = At(list, rest) \o At(list, positions)
    BY DEF MoveFront
  <2>2. MoveFront(list, positions)[k] =
           IF k <= a THEN At(list, rest)[k] ELSE At(list, positions)[k - a]
    BY <1>1, <1>3, <1>4, <1>6, <2>1
  <2>3. CASE k <= a
    <3>1. At(list, rest)[k] = list[Nth(rest, k)]
      BY <1>3, <2>3 DEF At
    <3> QED BY <2>2, <2>3, <3>1
  <2>4. CASE ~(k <= a)
    <3>1. k - a \in 1..b
      BY <1>1, <1>3, <1>4, <2>4
    <3>2. At(list, positions)[k - a] = list[Nth(positions, k - a)]
      BY <3>1 DEF At
    <3> QED BY <2>2, <2>4, <3>2
  <2> QED BY <2>3, <2>4
<1>8. ASSUME NEW k \in 1..n
      PROVE  /\ k <= a => k \in 1..a /\ q[k] = Nth(rest, k) /\ q[k] \in rest
             /\ ~(k <= a) => /\ k - a \in 1..b /\ q[k] = Nth(positions, k - a)
                             /\ q[k] \in positions
  <2>1. k <= a => k \in 1..a
    BY <1>3
  <2>2. ~(k <= a) => k - a \in 1..b
    BY <1>1, <1>3, <1>4
  <2>3. k <= a => Nth(rest, k) \in rest
    BY <1>1, <1>5, <2>1, NthPosition
  <2>4. ~(k <= a) => Nth(positions, k - a) \in positions
    BY <1>1, <1>5, <2>2, NthPosition
  <2> QED BY <2>1, <2>2, <2>3, <2>4
<1>9. q \in [1..n -> 1..n]
  <2>1. \A k \in 1..n : q[k] \in 1..n
    BY <1>5, <1>8
  <2> QED BY <2>1
<1>10. ASSUME NEW k \in 1..n, NEW l \in 1..n, k < l
       PROVE  \/ q[k] < q[l]
              \/ q[l] < q[k] /\ q[l] \in positions /\ q[k] \notin positions
  <2>1. CASE l <= a
    <3>1. k <= a /\ k \in 1..a /\ l \in 1..a
      BY <1>3, <1>10, <2>1
    <3>2. Nth(rest, k) < Nth(rest, l)
      BY <1>1, <1>5, <1>10, <3>1, NthIncreases
    <3> QED BY <1>8, <2>1, <3>1, <3>2
  <2>2. CASE ~(k <= a)
    <3>1. ~(l <= a) /\ k - a \in 1..b /\ l - a \in 1..b /\ k - a < l - a
      BY <1>1, <1>3, <1>4, <1>10, <2>2
    <3>2. Nth(positions, k - a) < Nth(positions, l - a)
      BY <1>1, <1>5, <3>1, NthIncreases
    <3> QED BY <1>8, <2>2, <3>1, <3>2
  <2>3. CASE k <= a /\ ~(l <= a)
    <3>1. q[k] \in rest /\ q[l] \in positions
      BY <1>8, <2>3
    <3>2. q[k] # q[l] /\ q[k] \in Nat /\ q[l] \in Nat
      BY <1>5, <3>1
    <3> HIDE DEF q
    <3> QED BY <3>1, <3>2
  <2> QED BY <2>1, <2>2, <2>3
<1> HIDE DEF q
<1> QED BY <1>7, <1>9, <1>10 DEF MoveOf

-----------------------------------------------------------------------------
(* What FindDependencies finds *)

\* What the loop of _FindChangeDependencies has found up to position m.
FoundUpTo(list, chosen, m, S) ==
    /\ S \in SUBSET (chosen..m)
    /\ \A i \in chosen..m :
          i \in S <=> i = chosen \/ DependsOn(list, i, {k \in S : k < i})

\* The loop finds something at every position it comes to.
LEMMA FoundExists ==
    ASSUME NEW list, NEW chosen \in Nat, NEW m \in Nat
    PROVE  \E S : FoundUpTo(list, chosen, m, S)
<1> DEFINE Bad == {n \in Nat : ~ \E S : FoundUpTo(list, chosen, n, S)}
<1> SUFFICES ASSUME Bad # {} PROVE FALSE
  OBVIOUS
<1>1. PICK n \in Bad : \A k \in Bad : n <= k
  <2>1. Bad \in SUBSET Nat
    OBVIOUS
  <2> HIDE DEF Bad
  <2> QED BY <2>1, LeastNatural
<1>2. n \in Nat /\ ~ \E S : FoundUpTo(list, chosen, n, S)
  OBVIOUS
<1>3. CASE n < chosen
  <2>1. chosen..n = {}
    BY <1>2, <1>3
  <2>2. FoundUpTo(list, chosen, n, {})
    BY <2>1 DEF FoundUpTo
  <2> QED BY <1>2, <2>2
<1>4. CASE n = chosen
  <2>1. chosen..n = {chosen}
    BY <1>2, <1>4
  <2>2. FoundUpTo(list, chosen, n, {chosen})
    BY <2>1 DEF FoundUpTo
  <2> QED BY <1>2, <2>2
<1>5. CASE chosen < n
  <2>1. n - 1 \in Nat /\ ~(n <= n - 1)
    BY <1>2, <1>5
  <2>2. PICK T : FoundUpTo(list, chosen, n - 1, T)
    BY <1>1, <2>1
  <2>3. T \in SUBSET (chosen..(n - 1))
    BY <2>2 DEF FoundUpTo
  <2> DEFINE S == T \cup (IF DependsOn(list, n, T) THEN {n} ELSE {})
  <2>4. chosen..n = chosen..(n - 1) \cup {n} /\ n \notin chosen..(n - 1)
    BY <1>2, <1>5
  <2>5. \A i \in chosen..(n - 1) : {k \in S : k < i} = {k \in T : k < i}
    BY <1>2
  <2>12. ~(n < n) /\ \A k \in T : k < n
    <3>1. \A k \in T : k \in chosen..(n - 1)
      BY <2>3
    <3> QED BY <1>2, <3>1
  <2>6. {k \in S : k < n} = T
    BY <2>12
  <2>7. \A i \in chosen..(n - 1) : i \in S <=> i \in T
    BY <2>4
  <2>8. n \in S <=> DependsOn(list, n, T)
    BY <2>3, <2>4
  <2>9. S \in SUBSET (chosen..n)
    BY <2>3, <2>4
  <2> HIDE DEF S
  <2>10. ASSUME NEW i \in chosen..n
         PROVE  i \in S <=> i = chosen \/ DependsOn(list, i, {k \in S : k < i})
    <3>1. CASE i = n
      BY <1>5, <2>6, <2>8, <3>1
    <3>2. CASE i # n
      <4>1. i \in chosen..(n - 1)
        BY <2>4, <3>2
      <4>2. i \in T <=> i = chosen \/ DependsOn(list, i, {k \in T : k < i})
        BY <2>2, <4>1 DEF FoundUpTo
      <4> QED BY <2>5, <2>7, <4>1, <4>2
    <3> QED BY <3>1, <3>2
  <2>11. FoundUpTo(list, chosen, n, S)
    BY <2>9, <2>10 DEF FoundUpTo
  <2> QED BY <1>2, <2>11
<1> QED BY <1>2, <1>3, <1>4, <1>5

\* What _FindChangeDependencies returns is what its loop comes to.
LEMMA FoundIsLoop ==
    ASSUME NEW list, IsList(list), NEW chosen \in DOMAIN list
    PROVE  FoundUpTo(list, chosen, Len(list), FindDependencies(list, chosen))
<1>1. Len(list) \in Nat /\ DOMAIN list = 1..Len(list)
  BY ListLen
<1> DEFINE n == Len(list)
           Body(f) == [i \in chosen..n |->
                         i = chosen \/ DependsOn(list, i, {k \in chosen..(i - 1) : f[k]})]
           F == CHOOSE f : f = Body(f)
<1>2. PICK S : FoundUpTo(list, chosen, n, S)
  <2>1. n \in Nat /\ chosen \in Nat
    BY <1>1
  <2> QED BY <2>1, FoundExists
<1> DEFINE g == [i \in chosen..n |-> i \in S]
<1>3. ASSUME NEW i \in chosen..n
      PROVE  {k \in chosen..(i - 1) : g[k]} = {k \in S : k < i}
  <2>1. \A k \in S : k \in chosen..n
    BY <1>2 DEF FoundUpTo
  <2>2. \A k \in chosen..(i - 1) : k \in chosen..n /\ k < i
    BY <1>1
  <2>3. \A k \in chosen..n : k < i => k \in chosen..(i - 1)
    BY <1>1
  <2>4. \A k \in chosen..n : g[k] <=> k \in S
    OBVIOUS
  <2> HIDE DEF g
  <2> QED BY <2>1, <2>2, <2>3, <2>4
<1>4. g = Body(g)
  <2>1. ASSUME NEW i \in chosen..n
        PROVE  g[i] = (i = chosen \/ DependsOn(list, i, {k \in chosen..(i - 1) : g[k]}))
    <3>1. {k \in chosen..(i - 1) : g[k]} = {k \in S : k < i}
      BY <1>3
    <3>2. g[i] = (i \in S)
      OBVIOUS
    <3> HIDE DEF g
    <3>3. i \in S <=> i = chosen \/ DependsOn(list, i, {k \in S : k < i})
      BY <1>2 DEF FoundUpTo
    <3>4. (i \in S) = (i = chosen \/ DependsOn(list, i, {k \in S : k < i}))
      BY <3>3
    <3> QED BY <3>1, <3>2, <3>4
  <2> HIDE DEF g
  <2>2. g = [i \in chosen..n |-> g[i]]
    BY DEF g
  <2> QED BY <2>1, <2>2, Zenon
<1>5. F = Body(F)
  <2> HIDE DEF g
  <2> QED BY <1>4
<1>6. FindDependencies(list, chosen) = {i \in chosen..n : F[i]}
  BY DEF FindDependencies
<1> HIDE DEF F, g
<1> DEFINE T == {i \in chosen..n : F[i]}
<1>7. \A i \in chosen..n : {k \in chosen..(i - 1) : F[k]} = {k \in T : k < i}
  BY <1>1
<1>8. ASSUME NEW i \in chosen..n
      PROVE  F[i] = (i = chosen \/ DependsOn(list, i, {k \in chosen..(i - 1) : F[k]}))
  BY <1>5
<1>9. FoundUpTo(list, chosen, n, T)
  BY <1>7, <1>8 DEF FoundUpTo
<1> QED BY <1>6, <1>9

\* A change set depends on what is in the result when it is related to one of
\* the sets in it.
LEMMA DependsOnRelated ==
    ASSUME NEW list, NEW j, NEW positions
    PROVE  DependsOn(list, j, positions) <=>
              \E i \in positions : RelatedSets(list[i].changes, list[j].changes)
<1>1. \A r, s : Related(r, s) <=> Related(s, r)
  BY DEF Related
<1> QED BY <1>1, Zenon DEF DependsOn, ResourcesAt, RelatedSets

Closed(list, S) ==
    \A i \in S, j \in DOMAIN list :
        i < j /\ RelatedSets(list[i].changes, list[j].changes) => j \in S

\* One pass over the list is enough: what is found holds the chosen change and
\* every later one that is related to something found.
LEMMA FoundClosed ==
    ASSUME NEW list, IsList(list), NEW chosen \in DOMAIN list
    PROVE  /\ chosen \in FindDependencies(list, chosen)
           /\ Closed(list, FindDependencies(list, chosen))
<1> DEFINE F == FindDependencies(list, chosen)
<1>1. Len(list) \in Nat /\ DOMAIN list = 1..Len(list)
  BY ListLen
<1>2. /\ F \in SUBSET (chosen..Len(list))
      /\ \A i \in chosen..Len(list) :
            i \in F <=> i = chosen \/ DependsOn(list, i, {k \in F : k < i})
  BY FoundIsLoop DEF FoundUpTo
<1> HIDE DEF F
<1>3. chosen \in F
  <2>1. chosen \in chosen..Len(list)
    BY <1>1
  <2> QED BY <1>2, <2>1
<1>4. ASSUME NEW i \in F, NEW j \in DOMAIN list, i < j,
             RelatedSets(list[i].changes, list[j].changes)
      PROVE  j \in F
  <2>1. i \in chosen..Len(list)
    BY <1>2
  <2>2. j \in chosen..Len(list)
    BY <1>1, <1>4, <2>1
  <2>3. i \in {k \in F : k < j}
    BY <1>4
  <2>4. DependsOn(list, j, {k \in F : k < j})
    BY <1>4, <2>3, DependsOnRelated
  <2> QED BY <1>2, <2>2, <2>4
<1> QED BY <1>3, <1>4 DEF Closed, F

\* Nothing is found that need not be: any set of positions with the chosen one
\* that leaves out no dependent holds all that is found.
LEMMA FoundLeast ==
    ASSUME NEW list, IsList(list), NEW chosen \in DOMAIN list,
           NEW S \in SUBSET DOMAIN list, chosen \in S, Closed(list, S)
    PROVE  FindDependencies(list, chosen) \in SUBSET S
<1> DEFINE F == FindDependencies(list, chosen)
           Extra == F \ S
<1>1. Len(list) \in Nat /\ DOMAIN list = 1..Len(list)
  BY ListLen
<1>2. /\ F \in SUBSET (chosen..Len(list))
      /\ \A i \in chosen..Len(list) :
            i \in F <=> i = chosen \/ DependsOn(list, i, {k \in F : k < i})
  BY FoundIsLoop DEF FoundUpTo
<1> HIDE DEF F
<1> SUFFICES ASSUME Extra # {} PROVE FALSE
  BY DEF F
<1>3. \A i \in chosen..Len(list) : i \in Nat /\ i \in DOMAIN list
  BY <1>1
<1>4. PICK i \in Extra : \A k \in Extra : i <= k
  <2>1. Extra \in SUBSET Nat
    BY <1>2, <1>3
  <2> HIDE DEF Extra
  <2> QED BY <2>1, LeastNatural
<1>5. i \in F /\ i \notin S /\ i \in chosen..Len(list) /\ i # chosen
  BY <1>2
<1>6. PICK k \in {m \in F : m < i} : RelatedSets(list[k].changes, list[i].changes)
  BY <1>2, <1>5, DependsOnRelated
<1>7. k \in F /\ k < i /\ k \in Nat /\ i \in Nat /\ i \in DOMAIN list
  BY <1>2, <1>3, <1>5
<1>8. k \notin Extra
  BY <1>4, <1>7
<1>9. k \in S
  BY <1>7, <1>8
<1> QED BY <1>5, <1>6, <1>7, <1>9 DEF Closed

\* What _FindChangeDependencies finds is the least set of positions with the
\* chosen one that leaves out no later change related to one in it.
LEMMA FoundIsDependents ==
    ASSUME NEW list, IsList(list), NEW chosen \in DOMAIN list
    PROVE  FindDependencies(list, chosen) = Dependents(list, chosen)
<1> DEFINE F == FindDependencies(list, chosen)
           Least(S) == /\ chosen \in S /\ Closed(list, S)
                       /\ \A T \in SUBSET S : chosen \in T /\ Closed(list, T) => T = S
<1>1. F \in SUBSET DOMAIN list /\ chosen \in F /\ Closed(list, F)
  BY FoundInList, FoundClosed
<1>2. \A S \in SUBSET DOMAIN list : chosen \in S /\ Closed(list, S) => F \in SUBSET S
  BY FoundLeast
<1> HIDE DEF F
<1>3. Least(F)
  BY <1>1, <1>2
<1>4. \A S \in SUBSET DOMAIN list : Least(S) => S = F
  BY <1>1, <1>2
<1>5. Dependents(list, chosen) = CHOOSE S \in SUBSET DOMAIN list : Least(S)
  BY DEF Dependents, Closed
<1> HIDE DEF Least
<1>6. (CHOOSE S \in SUBSET DOMAIN list : Least(S)) = F
  BY <1>1, <1>3, <1>4
<1> QED BY <1>5, <1>6 DEF F

\* undo takes with the chosen change exactly the ones that depend on it,
\* directly or through others, whatever is in the undo list.
THEOREM DependentsFound == Spec => []FindsDependents
<1>1. BoundedInv => FindsDependents
  BY FoundIsDependents DEF BoundedInv, Lists, FindsDependents
<1> QED BY <1>1, BoundedInductive, PTL

-----------------------------------------------------------------------------
(* A change set is in one list at one place *)

Distinct(list) == \A i, j \in DOMAIN list : list[i].id = list[j].id => i = j

Apart(list, other) ==
    \A i \in DOMAIN list, j \in DOMAIN other : list[i].id # other[j].id

Older(list, n) == \A i \in DOMAIN list : list[i].id \in 0..(n - 1)

\* The two lists of a history hold change sets built so far, each one once.
Once(undo, redo, n) ==
    /\ IsList(undo) /\ Distinct(undo) /\ Older(undo, n)
    /\ IsList(redo) /\ Distinct(redo) /\ Older(redo, n)
    /\ Apart(undo, redo)

\* What is loaded after a crash was saved before it, and fulfils the same.
OnceInv ==
    /\ built \in Nat
    /\ Once(undo_list, redo_list, built)
    /\ Once(saved.undo, saved.redo, built)

\* The change sets of a list are change sets of another, no place used twice.
Drawn(list, from) ==
    \E q \in [DOMAIN list -> DOMAIN from] :
        /\ \A k \in DOMAIN list : list[k].id = from[q[k]].id
        /\ \A k, l \in DOMAIN list : q[k] = q[l] => k = l

\* Every list is drawn from itself, and the empty list from any.
LEMMA DrawnTrivially ==
    ASSUME NEW list, IsList(list)
    PROVE  Drawn(list, list) /\ Drawn(<<>>, list)
<1>1. Drawn(list, list)
  <2> DEFINE q == [k \in DOMAIN list |-> k]
  <2>1. /\ q \in [DOMAIN list -> DOMAIN list]
        /\ \A k \in DOMAIN list : list[k].id = list[q[k]].id
        /\ \A k, l \in DOMAIN list : q[k] = q[l] => k = l
    OBVIOUS
  <2> HIDE DEF q
  <2> QED BY <2>1 DEF Drawn
<1>2. Drawn(<<>>, list)
  <2> DEFINE q == [k \in {} |-> k]
  <2>1. DOMAIN <<>> = {}
    OBVIOUS
  <2>2. q \in [DOMAIN <<>> -> DOMAIN list]
    BY <2>1
  <2> HIDE DEF q
  <2> QED BY <2>1, <2>2 DEF Drawn
<1> QED BY <1>1, <1>2

\* A part of a list is drawn from it: popping, trimming and dropping.
LEMMA PartDrawn ==
    ASSUME NEW list, IsList(list), NEW m \in 1..(Len(list) + 1), NEW n \in 0..Len(list)
    PROVE  /\ IsList(SubSeq(list, m, n)) /\ Drawn(SubSeq(list, m, n), list)
           /\ \A k \in DOMAIN SubSeq(list, m, n) :
                 /\ k \in Nat /\ k + m - 1 \in m..n /\ k + m - 1 \in DOMAIN list
                 /\ SubSeq(list, m, n)[k] = list[k + m - 1]
<1> DEFINE part == SubSeq(list, m, n)
           q == [k \in DOMAIN part |-> k + m - 1]
<1>1. Len(list) \in Nat /\ DOMAIN list = 1..Len(list)
  BY ListLen
<1>2. IsList(part) /\ Len(part) = IF m <= n THEN n - m + 1 ELSE 0
  BY PartOfList
<1>3. DOMAIN part = 1..(IF m <= n THEN n - m + 1 ELSE 0)
  BY <1>2, ListLen
<1>4. ASSUME NEW k \in DOMAIN part
      PROVE  k \in Nat /\ k + m - 1 \in m..n /\ k + m - 1 \in DOMAIN list
  <2>1. m \in Nat /\ n \in Nat /\ 1 <= m /\ n <= Len(list)
    BY <1>1
  <2>2. k \in 1..(IF m <= n THEN n - m + 1 ELSE 0)
    BY <1>3
  <2> QED BY <1>1, <2>1, <2>2
<1>5. \A k \in DOMAIN part : part[k] = list[k + m - 1]
  <2> DEFINE S == {list[i] : i \in DOMAIN list}
  <2>1. list \in Seq(S)
    BY DEF IsList
  <2>2. \A k \in 1..(n - m + 1) : SubSeq(list, m, n)[k] = list[m + k - 1]
    <3> HIDE DEF S
    <3> QED BY <2>1, SubSeqProperties
  <2>3. ASSUME NEW k \in DOMAIN part PROVE part[k] = list[k + m - 1]
    <3>1. k \in 1..(n - m + 1) /\ m + k - 1 = k + m - 1
      BY <1>3, <1>4
    <3> QED BY <2>2, <3>1
  <2> QED BY <2>3
<1> HIDE DEF part
<1>6. q \in [DOMAIN part -> DOMAIN list]
  BY <1>4
<1>7. \A k, l \in DOMAIN part : q[k] = q[l] => k = l
  BY <1>4
<1>8. \A k \in DOMAIN part : part[k].id = list[q[k]].id
  BY <1>5
<1> HIDE DEF q
<1>9. Drawn(part, list)
  BY <1>6, <1>7, <1>8 DEF Drawn
<1> QED BY <1>2, <1>4, <1>5, <1>9 DEF part

\* What _move_front reorders is drawn from the list.
LEMMA MovedDrawn ==
    ASSUME NEW list, IsList(list), NEW positions \in SUBSET DOMAIN list
    PROVE  Drawn(MoveFront(list, positions), list)
<1>1. Len(list) \in Nat /\ DOMAIN list = 1..Len(list)
  BY ListLen
<1>2. IsList(MoveFront(list, positions)) /\ Len(MoveFront(list, positions)) = Len(list)
  BY MovedList
<1>3. DOMAIN MoveFront(list, positions) = 1..Len(list)
  BY <1>2, ListLen
<1>4. PICK q : MoveOf(list, positions, q)
  BY MoveFrontReorders
<1>5. \A k \in 1..Len(list) : q[k] \in Nat
  BY <1>1, <1>4 DEF MoveOf
<1>6. \A k, l \in 1..Len(list) : k < l => q[k] # q[l]
  BY <1>4, <1>5 DEF MoveOf
<1>7. \A k, l \in 1..Len(list) : q[k] = q[l] => k = l
  BY <1>1, <1>6
<1> QED BY <1>1, <1>3, <1>4, <1>7 DEF Drawn, MoveOf

-----------------------------------------------------------------------------
(* The changes of all entries of a list, one after the other *)

FlatUpTo(f, ss, n) == f = [i \in 1..n |-> IF i = 1 THEN ss[i] ELSE f[i - 1] \o ss[i]]

\* The changes of the entries can be put one after the other.
LEMMA FlatExists ==
    ASSUME NEW ss, NEW n \in Nat
    PROVE  \E f : FlatUpTo(f, ss, n)
<1> DEFINE Bad == {k \in Nat : ~ \E f : FlatUpTo(f, ss, k)}
<1> SUFFICES ASSUME Bad # {} PROVE FALSE
  OBVIOUS
<1>1. PICK k \in Bad : \A l \in Bad : k <= l
  <2>1. Bad \in SUBSET Nat
    OBVIOUS
  <2> HIDE DEF Bad
  <2> QED BY <2>1, LeastNatural
<1>2. k \in Nat /\ ~ \E f : FlatUpTo(f, ss, k)
  OBVIOUS
<1>3. CASE k = 0
  <2> DEFINE f == [i \in 1..0 |-> ss]
  <2>1. f = [i \in 1..0 |-> IF i = 1 THEN ss[i] ELSE f[i - 1] \o ss[i]]
    OBVIOUS
  <2> HIDE DEF f
  <2>2. FlatUpTo(f, ss, 0)
    BY <2>1 DEF FlatUpTo
  <2> QED BY <1>2, <1>3, <2>2
<1>4. CASE k # 0
  <2>1. k - 1 \in Nat /\ ~(k <= k - 1)
    BY <1>2, <1>4
  <2>2. PICK f : FlatUpTo(f, ss, k - 1)
    BY <1>1, <2>1
  <2> DEFINE last == IF k = 1 THEN ss[k] ELSE f[k - 1] \o ss[k]
             g == [i \in 1..k |-> IF i = k THEN last ELSE f[i]]
  <2>3. ASSUME NEW i \in 1..k
        PROVE  g[i] = IF i = 1 THEN ss[i] ELSE g[i - 1] \o ss[i]
    <3>1. CASE i = k
      <4>1. i = 1 \/ (i - 1 \in 1..k /\ i - 1 # k)
        BY <1>2, <1>4, <3>1
      <4> QED BY <3>1, <4>1
    <3>2. CASE i # k
      <4>1. i \in 1..(k - 1) /\ (i = 1 \/ (i - 1 \in 1..k /\ i - 1 # k))
        BY <1>2, <3>2
      <4>2. f[i] = IF i = 1 THEN ss[i] ELSE f[i - 1] \o ss[i]
        BY <2>2, <4>1 DEF FlatUpTo
      <4> QED BY <3>2, <4>1, <4>2
    <3> QED BY <3>1, <3>2
  <2>4. g = [i \in 1..k |-> g[i]]
    OBVIOUS
  <2> HIDE DEF g
  <2>5. FlatUpTo(g, ss, k)
    BY <2>3, <2>4 DEF FlatUpTo
  <2> QED BY <1>2, <2>5
<1> QED BY <1>3, <1>4

\* FlattenSeq puts them one after the other.
LEMMA FlattenIsFlat ==
    ASSUME NEW ss, Len(ss) \in Nat, Len(ss) # 0
    PROVE  \E f : FlatUpTo(f, ss, Len(ss)) /\ Seqs!FlattenSeq(ss) = f[Len(ss)]
<1> DEFINE F == CHOOSE f : FlatUpTo(f, ss, Len(ss))
<1>1. FlatUpTo(F, ss, Len(ss))
  BY FlatExists
<1>2. Seqs!FlattenSeq(ss) = F[Len(ss)]
  BY DEF Seqs!FlattenSeq, FlatUpTo
<1> QED BY <1>1, <1>2

\* Sequences put one after the other are a sequence.
LEMMA FlattenType ==
    ASSUME NEW S, NEW ss \in Seq(Seq(S))
    PROVE  Seqs!FlattenSeq(ss) \in Seq(S)
<1>1. Len(ss) \in Nat /\ \A i \in 1..Len(ss) : ss[i] \in Seq(S)
  BY LenProperties, ElementOfSeq
<1>2. CASE Len(ss) = 0
  <2>1. ss = <<>>
    BY <1>2, EmptySeq
  <2>2. Seqs!FlattenSeq(ss) = ss
    BY <1>2 DEF Seqs!FlattenSeq
  <2> QED BY <2>1, <2>2, EmptySeq
<1>3. CASE Len(ss) # 0
  <2>1. PICK f : FlatUpTo(f, ss, Len(ss)) /\ Seqs!FlattenSeq(ss) = f[Len(ss)]
    BY <1>1, <1>3, FlattenIsFlat
  <2> DEFINE Bad == {k \in 1..Len(ss) : f[k] \notin Seq(S)}
  <2>2. Bad = {}
    <3> SUFFICES ASSUME Bad # {} PROVE FALSE
      OBVIOUS
    <3>1. PICK k \in Bad : \A l \in Bad : k <= l
      <4>1. Bad \in SUBSET Nat
        OBVIOUS
      <4> HIDE DEF Bad
      <4> QED BY <4>1, LeastNatural
    <3>2. k \in 1..Len(ss) /\ f[k] \notin Seq(S)
      OBVIOUS
    <3>3. f[k] = IF k = 1 THEN ss[k] ELSE f[k - 1] \o ss[k]
      BY <2>1, <3>2 DEF FlatUpTo
    <3>4. CASE k = 1
      BY <1>1, <3>2, <3>3, <3>4
    <3>5. CASE k # 1
      <4>1. k - 1 \in 1..Len(ss) /\ ~(k <= k - 1)
        BY <1>1, <3>2, <3>5
      <4>2. f[k - 1] \in Seq(S) /\ ss[k] \in Seq(S)
        BY <1>1, <3>1, <3>2, <4>1
      <4>3. f[k - 1] \o ss[k] \in Seq(S)
        BY <4>2, ConcatProperties
      <4> QED BY <3>2, <3>3, <3>5, <4>3
    <3> QED BY <3>4, <3>5
  <2>3. Len(ss) \in 1..Len(ss)
    BY <1>1, <1>3
  <2> QED BY <2>1, <2>2, <2>3
<1> QED BY <1>2, <1>3

-----------------------------------------------------------------------------
(* The type invariant of History *)

\* A list of entries is a list, and its entries have an identity and changes.
LEMMA EntriesAreList ==
    ASSUME NEW list \in Seq(Entries)
    PROVE  /\ IsList(list) /\ Len(list) \in Nat /\ DOMAIN list = 1..Len(list)
           /\ \A i \in DOMAIN list : list[i] \in Entries
BY SeqIsList, ElementOfSeq

\* Popping, trimming and dropping leave entries.
LEMMA PartType ==
    ASSUME NEW list \in Seq(Entries), NEW m \in 1..(Len(list) + 1), NEW n \in 0..Len(list)
    PROVE  SubSeq(list, m, n) \in Seq(Entries)
BY SubSeqProperties

\* _remove_extra_items leaves entries, and what it removes are entries.
LEMMA TrimmedType ==
    ASSUME NEW list \in Seq(Entries)
    PROVE  Trimmed(list) \in Seq(Entries) /\ Forgotten(list) \in Seq(Entries)
<1>1. Len(list) \in Nat /\ MaxUndos \in Nat
  BY LenProperties, HistoryAssumption
<1>2. /\ Excess(list) + 1 \in 1..(Len(list) + 1) /\ Len(list) \in 0..Len(list)
      /\ 1 \in 1..(Len(list) + 1) /\ Excess(list) \in 0..Len(list)
  BY <1>1 DEF Excess
<1> QED BY <1>2, PartType DEF Trimmed, Forgotten

\* _move_front leaves entries.
LEMMA MovedType ==
    ASSUME NEW list \in Seq(Entries), NEW positions \in SUBSET DOMAIN list
    PROVE  MoveFront(list, positions) \in Seq(Entries)
<1>1. IsList(list) /\ Len(list) \in Nat /\ \A i \in 1..Len(list) : list[i] \in Entries
  BY EntriesAreList
<1> DEFINE moved == MoveFront(list, positions)
<1>2. IsList(moved) /\ Len(moved) = Len(list)
  BY <1>1, MovedList
<1>3. PICK q : MoveOf(list, positions, q)
  BY <1>1, MoveFrontReorders
<1>4. \A k \in 1..Len(list) : moved[k] \in Entries
  BY <1>1, <1>3 DEF MoveOf
<1> HIDE DEF moved
<1>5. moved \in [1..Len(list) -> Entries]
  <2> DEFINE S == {moved[i] : i \in DOMAIN moved}
  <2>1. moved \in Seq(S)
    BY <1>2 DEF IsList
  <2>2. moved \in [1..Len(moved) -> S]
    <3> HIDE DEF S
    <3> QED BY <2>1, LenProperties
  <2> HIDE DEF S
  <2> QED BY <1>2, <1>4, <2>2
<1>6. moved \in Seq(Entries)
  BY <1>1, <1>5, SeqDef
<1> QED BY <1>6 DEF moved

\* DataToChange of what ChangeToData wrote is a change of the same resources,
\* and the identity of an entry stays.
LEMMA LoadedType ==
    ASSUME NEW list \in Seq(Entries)
    PROVE  /\ Loaded(list) \in Seq(Entries) /\ DOMAIN Loaded(list) = DOMAIN list
           /\ \A k \in DOMAIN list : Loaded(list)[k].id = list[k].id
<1>1. Len(list) \in Nat /\ DOMAIN list = 1..Len(list) /\ \A i \in DOMAIN list : list[i] \in Entries
  BY EntriesAreList
<1>2. ASSUME NEW c \in Changes PROVE Reloaded(c) \in Changes
  BY DEF Reloaded, Changes
<1>3. ASSUME NEW s \in Seq(Changes) PROVE ReloadedSet(s) \in Seq(Changes)
  <2>1. Len(s) \in Nat /\ DOMAIN s = 1..Len(s) /\ \A i \in 1..Len(s) : s[i] \in Changes
    BY LenProperties, ElementOfSeq
  <2>2. ReloadedSet(s) \in [1..Len(s) -> Changes]
    BY <1>2, <2>1 DEF ReloadedSet
  <2> QED BY <2>1, <2>2, SeqDef
<1>4. \A i \in DOMAIN list : LoadedEntry(list[i]) \in Entries /\ LoadedEntry(list[i]).id = list[i].id
  BY <1>1, <1>3 DEF LoadedEntry, Entries
<1>5. Loaded(list) \in [1..Len(list) -> Entries]
  BY <1>1, <1>4 DEF Loaded
<1> QED BY <1>1, <1>4, <1>5, SeqDef DEF Loaded

\* Replaying entries on a project tree leaves a project tree.
LEMMA ReplayType ==
    ASSUME NEW t \in Trees, NEW list \in Seq(Entries)
    PROVE  AllChanges(list) \in Seq(Changes) /\ Replay(t, list).tree \in Trees
<1>1. Len(list) \in Nat /\ DOMAIN list = 1..Len(list) /\ \A i \in DOMAIN list : list[i] \in Entries
  BY EntriesAreList
<1>2. [i \in DOMAIN list |-> list[i].changes] \in [1..Len(list) -> Seq(Changes)]
  BY <1>1 DEF Entries
<1>3. [i \in DOMAIN list |-> list[i].changes] \in Seq(Seq(Changes))
  BY <1>1, <1>2, SeqDef
<1>4. AllChanges(list) \in Seq(Changes)
  BY <1>3, FlattenType DEF AllChanges
<1>5. RunWith(RunAll("do", AllChanges(list), t), "do", AllChanges(list), Len(AllChanges(list)))
  BY <1>4, RunAllType
<1> QED BY <1>4, <1>5 DEF Replay, RunWith

\* The ends of a call that a configuration looks at are ends of the call.
LEMMA EndsType ==
    ASSUME NEW m \in {"do", "undo"}, NEW s \in Seq(Changes), tree \in Trees, NEW o \in Ends(m, s)
    PROVE  o.ok \in BOOLEAN /\ o.tree \in Trees /\ o.changes \in Seq(Changes)
<1>1. o \in Outcomes(m, s, tree)
  BY DEF Ends, Outcomes
<1> QED BY <1>1, OutcomesType

\* A change set that is done.
LEMMA DoTyped == TypeOK /\ Do => TypeOK'
<1> SUFFICES ASSUME TypeOK, Do PROVE TypeOK'
  OBVIOUS
<1>1. PICK script \in Scripts :
         LET changes == Built(script, tree) IN
         /\ \A i \in DOMAIN changes : changes[i].dest \in Paths
         /\ \E outcome \in Ends("do", changes) :
              LET grown == Append(undo_list, [id |-> built, changes |-> outcome.changes])
              IN  /\ tree' = outcome.tree
                  /\ redo_list' \in {<<>>, redo_list}
                  /\ \/ undo_list' = Trimmed(grown) /\ base' = Replay(base, Forgotten(grown)).tree
                     \/ UNCHANGED <<undo_list, base>>
  BY DEF Do
<1> DEFINE changes == Built(script, tree)
<1>2. /\ built < MaxDos /\ built' = built + 1 /\ UNCHANGED <<run, saved>>
      /\ built \in Nat /\ MaxDos \in Nat
  BY HistoryAssumption DEF Do, TypeOK
<1>3. changes \in Seq(Changes)
  <2>1. script \in Seq(Changes) /\ tree \in Trees
    BY HistoryAssumption DEF TypeOK
  <2>2. DOMAIN changes = DOMAIN script
    BY DEF Built
  <2> QED BY <1>1, <2>1, <2>2, BuiltType
<1> HIDE DEF changes
<1>4. PICK outcome \in Ends("do", changes) :
         LET grown == Append(undo_list, [id |-> built, changes |-> outcome.changes])
         IN  /\ tree' = outcome.tree
             /\ redo_list' \in {<<>>, redo_list}
             /\ \/ undo_list' = Trimmed(grown) /\ base' = Replay(base, Forgotten(grown)).tree
                \/ UNCHANGED <<undo_list, base>>
  BY <1>1 DEF changes
<1>5. outcome.tree \in Trees /\ outcome.changes \in Seq(Changes)
  BY <1>3, EndsType DEF TypeOK
<1> DEFINE grown == Append(undo_list, [id |-> built, changes |-> outcome.changes])
<1>6. grown \in Seq(Entries)
  <2>1. [id |-> built, changes |-> outcome.changes] \in Entries
    BY <1>2, <1>5 DEF Entries
  <2> QED BY <2>1, AppendProperties DEF TypeOK
<1> HIDE DEF grown
<1>7. Trimmed(grown) \in Seq(Entries) /\ Forgotten(grown) \in Seq(Entries)
  BY <1>6, TrimmedType
<1>8. Replay(base, Forgotten(grown)).tree \in Trees
  BY <1>7, ReplayType DEF TypeOK
<1>9. /\ tree' = outcome.tree
      /\ redo_list' \in {<<>>, redo_list}
      /\ \/ undo_list' = Trimmed(grown) /\ base' = Replay(base, Forgotten(grown)).tree
         \/ UNCHANGED <<undo_list, base>>
  BY <1>4 DEF grown
<1>10. <<>> \in Seq(Entries)
  BY EmptySeq
<1>11. tree' \in Trees /\ base' \in Trees /\ undo_list' \in Seq(Entries) /\ redo_list' \in Seq(Entries)
  BY <1>5, <1>7, <1>8, <1>9, <1>10 DEF TypeOK
<1>12. built' \in 0..MaxDos
  BY <1>2
<1> QED BY <1>2, <1>11, <1>12 DEF TypeOK

\* The beginning of undo and of redo.
LEMMA StartTyped == TypeOK /\ (StartUndo \/ StartRedo) => TypeOK'
<1> SUFFICES ASSUME TypeOK, StartUndo \/ StartRedo PROVE TypeOK'
  OBVIOUS
<1>1. IsList(undo_list) /\ IsList(redo_list)
  BY EntriesAreList DEF TypeOK
<1>2. CASE StartUndo
  <2>1. PICK chosen \in DOMAIN undo_list, drop \in {FALSE} \cup {"drop" \in Features} :
           Undo(chosen, drop)
    BY <1>2 DEF StartUndo
  <2> DEFINE found == FindDependencies(undo_list, chosen)
  <2>2. found \in SUBSET DOMAIN undo_list /\ Cardinality(found) \in Nat
    BY <1>1, FoundInList, FS_CardinalityType
  <2>3. /\ undo_list' = MoveFront(undo_list, found)
        /\ run' = [op |-> "undo", left |-> Cardinality(found),
                   drop |-> IF drop THEN Cardinality(found) ELSE 0]
        /\ UNCHANGED <<tree, redo_list, saved, built, base>>
    BY <2>1 DEF Undo
  <2> HIDE DEF found
  <2>4. undo_list' \in Seq(Entries)
    BY <2>2, <2>3, MovedType DEF TypeOK
  <2> QED BY <2>2, <2>3, <2>4 DEF TypeOK
<1>3. CASE StartRedo
  <2>1. PICK chosen \in DOMAIN redo_list : Redo(chosen)
    BY <1>3 DEF StartRedo
  <2> DEFINE found == FindDependencies(redo_list, chosen)
  <2>2. found \in SUBSET DOMAIN redo_list /\ Cardinality(found) \in Nat
    BY <1>1, FoundInList, FS_CardinalityType
  <2>3. /\ redo_list' = MoveFront(redo_list, found)
        /\ run' = [op |-> "redo", left |-> Cardinality(found), drop |-> 0]
        /\ UNCHANGED <<tree, undo_list, saved, built, base>>
    BY <2>1 DEF Redo
  <2> HIDE DEF found
  <2>4. redo_list' \in Seq(Entries)
    BY <2>2, <2>3, MovedType DEF TypeOK
  <2> QED BY <2>2, <2>3, <2>4 DEF TypeOK
<1> QED BY <1>2, <1>3

\* Taking the last entry off one list and putting it on the other.
LEMMA PoppedType ==
    ASSUME NEW list \in Seq(Entries), NEW other \in Seq(Entries), Len(list) > 0
    PROVE  /\ Popped(list) \in Seq(Entries) /\ LastOf(list) \in Entries
           /\ Append(other, LastOf(list)) \in Seq(Entries)
<1>1. Len(list) \in Nat
  BY LenProperties
<1>2. 1 \in 1..(Len(list) + 1) /\ Len(list) - 1 \in 0..Len(list) /\ Len(list) \in 1..Len(list)
  BY <1>1
<1>3. LastOf(list) \in Entries
  BY <1>2, ElementOfSeq DEF LastOf
<1> QED BY <1>2, <1>3, PartType, AppendProperties DEF Popped

\* A round of undo and of redo.
LEMMA PerformTyped == TypeOK /\ BoundedInv /\ (PerformUndo \/ PerformRedo) => TypeOK'
<1> SUFFICES ASSUME TypeOK, BoundedInv, PerformUndo \/ PerformRedo PROVE TypeOK'
  OBVIOUS
<1>1. ASSUME run.left > 0
      PROVE  /\ run.left \in Nat
             /\ Continue \in [op : {"none", "undo", "redo"}, left : Nat, drop : Nat]
  <2>1. run \in [op : {"none", "undo", "redo"}, left : Nat, drop : Nat]
    BY DEF TypeOK
  <2>2. run.left \in Nat
    BY <2>1
  <2>3. run.left - 1 \in Nat
    BY <1>1, <2>2
  <2> QED BY <2>1, <2>2, <2>3 DEF Continue
<1>2. Idle \in [op : {"none", "undo", "redo"}, left : Nat, drop : Nat]
  BY DEF Idle
<1>3. Len(undo_list) \in Nat /\ Len(redo_list) \in Nat
  BY LenProperties DEF TypeOK
<1>4. CASE PerformUndo
  <2>1. run.op = "undo" /\ run.left > 0 /\ UNCHANGED <<saved, built, base>>
    BY <1>4 DEF PerformUndo
  <2>2. Len(undo_list) > 0
    BY <1>1, <1>3, <2>1 DEF BoundedInv, RoundsLeft
  <2>3. /\ Popped(undo_list) \in Seq(Entries) /\ LastOf(undo_list) \in Entries
        /\ Append(redo_list, LastOf(undo_list)) \in Seq(Entries)
    BY <2>2, PoppedType DEF TypeOK
  <2>4. LastOf(undo_list).changes \in Seq(Changes)
    BY <2>3 DEF Entries
  <2>5. PICK outcome \in Ends("undo", LastOf(undo_list).changes) :
           /\ tree' = outcome.tree
           /\ \/ /\ undo_list' = Popped(undo_list)
                 /\ redo_list' = Append(redo_list, LastOf(undo_list))
                 /\ run' = Continue
              \/ run' = Idle /\ UNCHANGED <<undo_list, redo_list>>
    BY <1>4 DEF PerformUndo
  <2>6. outcome.tree \in Trees
    BY <2>4, EndsType DEF TypeOK
  <2> QED BY <1>1, <1>2, <2>1, <2>3, <2>5, <2>6 DEF TypeOK
<1>5. CASE PerformRedo
  <2>1. run.op = "redo" /\ run.left > 0 /\ UNCHANGED <<saved, built, base>>
    BY <1>5 DEF PerformRedo
  <2>2. Len(redo_list) > 0
    BY <1>1, <1>3, <2>1 DEF BoundedInv, RoundsLeft
  <2>3. /\ Popped(redo_list) \in Seq(Entries) /\ LastOf(redo_list) \in Entries
        /\ Append(undo_list, LastOf(redo_list)) \in Seq(Entries)
    BY <2>2, PoppedType DEF TypeOK
  <2>4. LastOf(redo_list).changes \in Seq(Changes)
    BY <2>3 DEF Entries
  <2>5. PICK outcome \in Ends("do", LastOf(redo_list).changes) :
           /\ tree' = outcome.tree
           /\ \/ /\ redo_list' = Popped(redo_list)
                 /\ undo_list' = Append(undo_list, LastOf(redo_list))
                 /\ run' = Continue
              \/ run' = Idle /\ UNCHANGED <<undo_list, redo_list>>
    BY <1>5 DEF PerformRedo
  <2>6. outcome.tree \in Trees
    BY <2>4, EndsType DEF TypeOK
  <2> QED BY <1>1, <1>2, <2>1, <2>3, <2>5, <2>6 DEF TypeOK
<1> QED BY <1>4, <1>5

\* The end of a call, clear, close, and what a session begins with.
LEMMA SessionTyped ==
    TypeOK /\ BoundedInv /\ (Finish \/ Clear \/ Save \/ Restart \/ Crash \/ TornSave) => TypeOK'
<1> SUFFICES ASSUME TypeOK, BoundedInv,
                    Finish \/ Clear \/ Save \/ Restart \/ Crash \/ TornSave
             PROVE  TypeOK'
  OBVIOUS
<1>1. <<>> \in Seq(Entries) /\ NoData \in [undo : Seq(Entries), redo : Seq(Entries)]
      /\ Idle \in [op : {"none", "undo", "redo"}, left : Nat, drop : Nat]
  BY EmptySeq DEF NoData, Idle
<1>2. CASE Finish
  <2>1. Len(redo_list) \in Nat /\ run.drop \in Nat /\ run.drop <= Len(redo_list) /\ run.left = 0
    BY <1>2, LenProperties DEF Finish, TypeOK, BoundedInv, RoundsLeft
  <2>2. 1 \in 1..(Len(redo_list) + 1) /\ Len(redo_list) - run.drop \in 0..Len(redo_list)
    BY <2>1
  <2>3. SubSeq(redo_list, 1, Len(redo_list) - run.drop) \in Seq(Entries)
    BY <2>2, PartType DEF TypeOK
  <2> QED BY <1>1, <1>2, <2>3 DEF Finish, TypeOK
<1>3. CASE Clear
  BY <1>1, <1>3 DEF Clear, TypeOK
<1>4. CASE Save
  <2>1. Trimmed(undo_list) \in Seq(Entries) /\ Forgotten(undo_list) \in Seq(Entries)
    BY TrimmedType DEF TypeOK
  <2>2. Replay(base, Forgotten(undo_list)).tree \in Trees
    BY <2>1, ReplayType DEF TypeOK
  <2> QED BY <1>4, <2>1, <2>2 DEF Save, TypeOK
<1>5. Loaded(saved.undo) \in Seq(Entries) /\ Loaded(saved.redo) \in Seq(Entries)
  BY LoadedType DEF TypeOK
<1>6. CASE Restart
  BY <1>1, <1>5, <1>6 DEF Restart, Load, TypeOK
<1>7. CASE Crash
  BY <1>1, <1>5, <1>7 DEF Crash, Load, TypeOK
<1>8. CASE TornSave
  BY <1>1, <1>8 DEF TornSave, TypeOK
<1> QED BY <1>2, <1>3, <1>4, <1>6, <1>7, <1>8

\* Whatever is done, undone, redone, stopped, saved and loaded, the project is
\* a directory tree and the lists hold change sets.
THEOREM TypeCorrect == Spec => []TypeOK
<1>1. Init => TypeOK
  <2>1. <<>> \in Seq(Entries)
    BY EmptySeq
  <2> QED BY <2>1, HistoryAssumption DEF Init, TypeOK, NoData, Idle
<1>2. TypeOK /\ BoundedInv /\ [Next]_vars => TypeOK'
  <2> SUFFICES ASSUME TypeOK, BoundedInv, [Next]_vars PROVE TypeOK'
    OBVIOUS
  <2>1. CASE Next
    BY <2>1, DoTyped, StartTyped, PerformTyped, SessionTyped DEF Next
  <2>2. CASE UNCHANGED vars
    BY <2>2 DEF vars, TypeOK
  <2> QED BY <2>1, <2>2
<1> QED BY <1>1, <1>2, BoundedInductive, PTL DEF Spec

-----------------------------------------------------------------------------
(* A change set is in one list at one place: the inductive invariant *)

\* Loading keeps the identity of every change set.
LEMMA LoadedDrawn ==
    ASSUME NEW list \in Seq(Entries)
    PROVE  IsList(Loaded(list)) /\ Drawn(Loaded(list), list)
<1> DEFINE q == [k \in DOMAIN list |-> k]
<1>1. /\ Loaded(list) \in Seq(Entries) /\ DOMAIN Loaded(list) = DOMAIN list
      /\ \A k \in DOMAIN list : Loaded(list)[k].id = list[k].id
  BY LoadedType
<1>2. /\ q \in [DOMAIN Loaded(list) -> DOMAIN list]
      /\ \A k \in DOMAIN list : q[k] = k
  BY <1>1
<1> HIDE DEF q
<1>3. Drawn(Loaded(list), list)
  BY <1>1, <1>2 DEF Drawn
<1> QED BY <1>1, <1>3, EntriesAreList

\* Lists drawn from the lists of a history hold each change set once too.
LEMMA OnceDrawn ==
    ASSUME NEW u, NEW r, NEW n \in Nat, Once(u, r, n),
           NEW v, IsList(v), Drawn(v, u), NEW w, IsList(w), Drawn(w, r)
    PROVE  Once(v, w, n)
<1>1. PICK f \in [DOMAIN v -> DOMAIN u] :
         /\ \A k \in DOMAIN v : v[k].id = u[f[k]].id
         /\ \A k, l \in DOMAIN v : f[k] = f[l] => k = l
  BY DEF Drawn
<1>2. PICK g \in [DOMAIN w -> DOMAIN r] :
         /\ \A k \in DOMAIN w : w[k].id = r[g[k]].id
         /\ \A k, l \in DOMAIN w : g[k] = g[l] => k = l
  BY DEF Drawn
<1>3. Distinct(v) /\ Older(v, n)
  BY <1>1 DEF Once, Distinct, Older
<1>4. Distinct(w) /\ Older(w, n)
  BY <1>2 DEF Once, Distinct, Older
<1>5. Apart(v, w)
  BY <1>1, <1>2 DEF Once, Apart
<1> QED BY <1>3, <1>4, <1>5 DEF Once

\* Which of the two lists is the undo list does not matter, and what was built
\* before n was built before n + 1.
LEMMA OnceSwapped ==
    ASSUME NEW u, NEW r, NEW n \in Nat, Once(u, r, n)
    PROVE  Once(r, u, n) /\ Once(u, r, n + 1)
<1>1. \A k \in 0..(n - 1) : k \in 0..((n + 1) - 1)
  OBVIOUS
<1> QED BY <1>1 DEF Once, Apart, Older

\* A change set built just now is in neither list yet.
LEMMA OnceAppended ==
    ASSUME NEW u, NEW r, NEW n \in Nat, Once(u, r, n), NEW e, e.id = n
    PROVE  Once(Append(u, e), <<>>, n + 1)
<1> DEFINE v == Append(u, e)
<1>1. IsList(u) /\ Len(u) \in Nat /\ DOMAIN u = 1..Len(u)
  BY ListLen DEF Once
<1>2. IsList(v) /\ Len(v) = Len(u) + 1 /\ DOMAIN v = 1..(Len(u) + 1)
  BY <1>1, AppendedList, ListLen
<1>3. v[Len(u) + 1] = e /\ \A k \in 1..Len(u) : v[k] = u[k]
  <2> DEFINE S == {u[i] : i \in DOMAIN u} \cup {e}
  <2>1. u \in Seq(S)
    BY <1>1, SeqMonotonic DEF IsList
  <2>2. e \in S
    OBVIOUS
  <2> HIDE DEF S
  <2> QED BY <2>1, <2>2, AppendProperties
<1> HIDE DEF v
<1>4. \A k \in DOMAIN v : k = Len(u) + 1 \/ k \in DOMAIN u
  BY <1>1, <1>2
<1>5. \A k \in DOMAIN u : v[k] = u[k] /\ u[k].id \in 0..(n - 1)
  BY <1>1, <1>3 DEF Once, Older
<1>6. n \notin 0..(n - 1) /\ n \in 0..((n + 1) - 1) /\ \A k \in 0..(n - 1) : k \in 0..((n + 1) - 1)
  OBVIOUS
<1>7. Older(v, n + 1)
  BY <1>3, <1>4, <1>5, <1>6 DEF Older
<1>8. Distinct(v)
  <2> SUFFICES ASSUME NEW i \in DOMAIN v, NEW j \in DOMAIN v, v[i].id = v[j].id PROVE i = j
    BY DEF Distinct
  <2>1. i \in DOMAIN u /\ j \in DOMAIN u => i = j
    BY <1>5 DEF Once, Distinct
  <2> QED BY <1>3, <1>4, <1>5, <1>6, <2>1
<1>9. IsList(<<>>) /\ DOMAIN <<>> = {}
  <2>1. IsList(<<>>)
    BY EmptySeq, SeqIsList
  <2> QED BY <2>1
<1> QED BY <1>2, <1>7, <1>8, <1>9 DEF Once, Distinct, Older, Apart, v

\* A change set that goes from one list to the other is in the other only.
LEMMA OnceMoved ==
    ASSUME NEW u, NEW r, NEW n \in Nat, Once(u, r, n), Len(u) > 0
    PROVE  Once(Popped(u), Append(r, LastOf(u)), n)
<1> DEFINE e == LastOf(u)
           v == Popped(u)
           w == Append(r, e)
<1>1. /\ IsList(u) /\ Len(u) \in Nat /\ DOMAIN u = 1..Len(u)
      /\ IsList(r) /\ Len(r) \in Nat /\ DOMAIN r = 1..Len(r)
  BY ListLen DEF Once
<1>2. 1 \in 1..(Len(u) + 1) /\ Len(u) - 1 \in 0..Len(u) /\ Len(u) \in DOMAIN u
  BY <1>1
<1>3. /\ IsList(v) /\ Drawn(v, u)
      /\ \A k \in DOMAIN v : k + 1 - 1 \in 1..(Len(u) - 1) /\ k \in Nat /\ v[k] = u[k + 1 - 1]
  BY <1>1, <1>2, PartDrawn DEF Popped
<1>4. \A k \in DOMAIN v : k \in DOMAIN u /\ k # Len(u) /\ v[k] = u[k]
  BY <1>1, <1>3
<1>5. IsList(w) /\ Len(w) = Len(r) + 1 /\ DOMAIN w = 1..(Len(r) + 1)
  BY <1>1, AppendedList, ListLen
<1>6. w[Len(r) + 1] = e /\ \A k \in 1..Len(r) : w[k] = r[k]
  <2> DEFINE S == {r[i] : i \in DOMAIN r} \cup {e}
  <2>1. r \in Seq(S)
    BY <1>1, SeqMonotonic DEF IsList
  <2>2. e \in S
    OBVIOUS
  <2> HIDE DEF S
  <2> QED BY <2>1, <2>2, AppendProperties
<1>7. e = u[Len(u)]
  BY DEF LastOf
<1> HIDE DEF v, w, e
<1>8. \A k \in DOMAIN w : k = Len(r) + 1 \/ k \in DOMAIN r
  BY <1>1, <1>5
<1>9. Distinct(v) /\ Older(v, n)
  BY <1>4 DEF Once, Distinct, Older
<1>10. \A k \in DOMAIN r : w[k] = r[k] /\ r[k].id # e.id
  BY <1>1, <1>2, <1>6, <1>7 DEF Once, Apart
<1>11. Distinct(w)
  <2> SUFFICES ASSUME NEW i \in DOMAIN w, NEW j \in DOMAIN w, w[i].id = w[j].id PROVE i = j
    BY DEF Distinct
  <2>1. i \in DOMAIN r /\ j \in DOMAIN r => i = j
    BY <1>10 DEF Once, Distinct
  <2> QED BY <1>6, <1>8, <1>10, <2>1
<1>12. Older(w, n)
  BY <1>2, <1>6, <1>7, <1>8, <1>10 DEF Once, Older
<1>13. Apart(v, w)
  <2> SUFFICES ASSUME NEW i \in DOMAIN v, NEW j \in DOMAIN w PROVE v[i].id # w[j].id
    BY DEF Apart
  <2>1. CASE j \in DOMAIN r
    BY <1>4, <1>10, <2>1 DEF Once, Apart
  <2>2. CASE j = Len(r) + 1
    BY <1>2, <1>4, <1>6, <1>7, <2>2 DEF Once, Distinct
  <2> QED BY <1>8, <2>1, <2>2
<1> QED BY <1>3, <1>5, <1>9, <1>11, <1>12, <1>13 DEF Once, v, w, e

\* The identity of a change set that is done is new.
LEMMA DoOnce == TypeOK /\ OnceInv /\ Do => OnceInv'
<1> SUFFICES ASSUME TypeOK, OnceInv, Do PROVE OnceInv'
  OBVIOUS
<1>1. built \in Nat /\ built' = built + 1 /\ saved' = saved
  BY DEF Do, OnceInv
<1>2. PICK changes :
         \/ undo_list' = undo_list /\ redo_list' \in {<<>>, redo_list}
         \/ /\ undo_list' = Trimmed(Append(undo_list, [id |-> built, changes |-> changes]))
            /\ redo_list' = <<>>
  BY DEF Do
<1>3. Once(undo_list, redo_list, built + 1) /\ Once(saved.undo, saved.redo, built + 1)
  BY <1>1, OnceSwapped DEF OnceInv
<1>4. IsList(undo_list) /\ IsList(redo_list) /\ IsList(<<>>)
  BY EmptySeq, SeqIsList DEF OnceInv, Once
<1>5. CASE undo_list' = undo_list /\ redo_list' \in {<<>>, redo_list}
  <2>1. Drawn(undo_list', undo_list) /\ Drawn(redo_list', redo_list) /\ IsList(redo_list')
    BY <1>4, <1>5, DrawnTrivially
  <2>2. built + 1 \in Nat
    BY <1>1
  <2>3. Once(undo_list', redo_list', built + 1)
    BY <1>3, <1>4, <1>5, <2>1, <2>2, OnceDrawn
  <2> QED BY <1>1, <1>3, <2>2, <2>3 DEF OnceInv
<1>6. CASE /\ undo_list' = Trimmed(Append(undo_list, [id |-> built, changes |-> changes]))
           /\ redo_list' = <<>>
  <2> DEFINE grown == Append(undo_list, [id |-> built, changes |-> changes])
  <2>1. Once(grown, <<>>, built + 1)
    BY <1>1, OnceAppended DEF OnceInv
  <2> HIDE DEF grown
  <2>2. IsList(grown) /\ Len(grown) \in Nat /\ MaxUndos \in Nat
    BY <2>1, ListLen, HistoryAssumption DEF Once
  <2>3. Excess(grown) + 1 \in 1..(Len(grown) + 1) /\ Len(grown) \in 0..Len(grown)
    BY <2>2 DEF Excess
  <2>4. IsList(Trimmed(grown)) /\ Drawn(Trimmed(grown), grown)
    BY <2>2, <2>3, PartDrawn DEF Trimmed
  <2>5. Drawn(<<>>, <<>>) /\ built + 1 \in Nat
    BY <1>1, <1>4, DrawnTrivially
  <2>6. Once(Trimmed(grown), <<>>, built + 1)
    BY <1>4, <2>1, <2>4, <2>5, OnceDrawn
  <2>7. undo_list' = Trimmed(grown)
    BY <1>6 DEF grown
  <2> QED BY <1>1, <1>3, <1>6, <2>5, <2>6, <2>7 DEF OnceInv
<1> QED BY <1>2, <1>5, <1>6

\* Steps that only reorder the lists, or take entries off them.
LEMMA OnceKept ==
    ASSUME OnceInv, IsList(undo_list'), Drawn(undo_list', undo_list),
           IsList(redo_list'), Drawn(redo_list', redo_list), built' = built,
           saved' \in {saved, [undo |-> undo_list', redo |-> redo_list']}
    PROVE  OnceInv'
<1>1. Once(undo_list', redo_list', built)
  BY OnceDrawn DEF OnceInv
<1> QED BY <1>1 DEF OnceInv

\* undo and redo begin by reordering a list.
LEMMA StartOnce == OnceInv /\ (StartUndo \/ StartRedo) => OnceInv'
<1> SUFFICES ASSUME OnceInv, StartUndo \/ StartRedo PROVE OnceInv'
  OBVIOUS
<1>1. IsList(undo_list) /\ IsList(redo_list)
  BY DEF OnceInv, Once
<1>2. Drawn(undo_list, undo_list) /\ Drawn(redo_list, redo_list)
  BY <1>1, DrawnTrivially
<1>3. CASE StartUndo
  <2>1. PICK chosen \in DOMAIN undo_list, drop \in {FALSE} \cup {"drop" \in Features} :
           Undo(chosen, drop)
    BY <1>3 DEF StartUndo
  <2> DEFINE found == FindDependencies(undo_list, chosen)
  <2>2. found \in SUBSET DOMAIN undo_list
    BY <1>1, FoundInList
  <2>3. undo_list' = MoveFront(undo_list, found) /\ UNCHANGED <<redo_list, saved, built>>
    BY <2>1 DEF Undo
  <2> HIDE DEF found
  <2>4. IsList(undo_list') /\ Drawn(undo_list', undo_list)
    BY <1>1, <2>2, <2>3, MovedList, MovedDrawn
  <2> QED BY <1>1, <1>2, <2>3, <2>4, OnceKept
<1>4. CASE StartRedo
  <2>1. PICK chosen \in DOMAIN redo_list : Redo(chosen)
    BY <1>4 DEF StartRedo
  <2> DEFINE found == FindDependencies(redo_list, chosen)
  <2>2. found \in SUBSET DOMAIN redo_list
    BY <1>1, FoundInList
  <2>3. redo_list' = MoveFront(redo_list, found) /\ UNCHANGED <<undo_list, saved, built>>
    BY <2>1 DEF Redo
  <2> HIDE DEF found
  <2>4. IsList(redo_list') /\ Drawn(redo_list', redo_list)
    BY <1>1, <2>2, <2>3, MovedList, MovedDrawn
  <2> QED BY <1>1, <1>2, <2>3, <2>4, OnceKept
<1> QED BY <1>3, <1>4

\* A round takes the last entry of one list to the other one, or nothing.
LEMMA PerformOnce == BoundedInv /\ OnceInv /\ (PerformUndo \/ PerformRedo) => OnceInv'
<1> SUFFICES ASSUME BoundedInv, OnceInv, PerformUndo \/ PerformRedo PROVE OnceInv'
  OBVIOUS
<1>1. built' = built /\ saved' = saved /\ built \in Nat
  BY DEF PerformUndo, PerformRedo, OnceInv
<1>2. Len(undo_list) \in Nat /\ Len(redo_list) \in Nat /\ run.left \in Nat
  BY ListLen DEF BoundedInv, Lists, RunType
<1>3. CASE undo_list' = undo_list /\ redo_list' = redo_list
  BY <1>1, <1>3 DEF OnceInv
<1>4. CASE /\ run.op = "undo" /\ run.left > 0 /\ undo_list' = Popped(undo_list)
           /\ redo_list' = Append(redo_list, LastOf(undo_list))
  <2>1. Len(undo_list) > 0
    BY <1>2, <1>4 DEF BoundedInv, RoundsLeft
  <2>2. Once(undo_list', redo_list', built)
    BY <1>1, <1>4, <2>1, OnceMoved DEF OnceInv
  <2> QED BY <1>1, <2>2 DEF OnceInv
<1>5. CASE /\ run.op = "redo" /\ run.left > 0 /\ redo_list' = Popped(redo_list)
           /\ undo_list' = Append(undo_list, LastOf(redo_list))
  <2>1. Len(redo_list) > 0
    BY <1>2, <1>5 DEF BoundedInv, RoundsLeft
  <2>2. Once(redo_list, undo_list, built)
    BY <1>1, OnceSwapped DEF OnceInv
  <2>3. Once(redo_list', undo_list', built)
    BY <1>1, <1>5, <2>1, <2>2, OnceMoved
  <2>4. Once(undo_list', redo_list', built)
    BY <1>1, <2>3, OnceSwapped
  <2> QED BY <1>1, <2>4 DEF OnceInv
<1> QED BY <1>3, <1>4, <1>5 DEF PerformUndo, PerformRedo

\* The end of a call, clear, close, and what a session begins with.
LEMMA SessionOnce ==
    TypeOK /\ BoundedInv /\ OnceInv /\ (Finish \/ Clear \/ Save \/ Restart \/ Crash \/ TornSave)
       => OnceInv'
<1> SUFFICES ASSUME TypeOK, BoundedInv, OnceInv,
                    Finish \/ Clear \/ Save \/ Restart \/ Crash \/ TornSave
             PROVE  OnceInv'
  OBVIOUS
<1>1. IsList(undo_list) /\ IsList(redo_list) /\ IsList(<<>>)
  BY EmptySeq, SeqIsList DEF OnceInv, Once
<1>2. /\ Drawn(undo_list, undo_list) /\ Drawn(redo_list, redo_list)
      /\ Drawn(<<>>, undo_list) /\ Drawn(<<>>, redo_list)
  BY <1>1, DrawnTrivially
<1>3. CASE Finish
  <2>1. Len(redo_list) \in Nat /\ run.drop \in Nat /\ run.drop <= Len(redo_list)
    BY <1>3, ListLen DEF Finish, BoundedInv, RoundsLeft, RunType, Lists
  <2>2. 1 \in 1..(Len(redo_list) + 1) /\ Len(redo_list) - run.drop \in 0..Len(redo_list)
    BY <2>1
  <2>3. redo_list' = SubSeq(redo_list, 1, Len(redo_list) - run.drop)
        /\ UNCHANGED <<undo_list, saved, built>>
    BY <1>3 DEF Finish
  <2>4. IsList(redo_list') /\ Drawn(redo_list', redo_list)
    BY <1>1, <2>2, <2>3, PartDrawn
  <2> QED BY <1>1, <1>2, <2>3, <2>4, OnceKept
<1>4. CASE Clear
  <2>1. undo_list' = <<>> /\ redo_list' = <<>> /\ UNCHANGED <<saved, built>>
    BY <1>4 DEF Clear
  <2> QED BY <1>1, <1>2, <2>1, OnceKept
<1>5. CASE Save
  <2>1. undo_list' = Trimmed(undo_list) /\ UNCHANGED <<redo_list, built>>
        /\ saved' = [undo |-> undo_list', redo |-> redo_list']
    BY <1>5 DEF Save
  <2>2. Len(undo_list) \in Nat /\ MaxUndos \in Nat
    BY <1>1, ListLen, HistoryAssumption
  <2>3. Excess(undo_list) + 1 \in 1..(Len(undo_list) + 1) /\ Len(undo_list) \in 0..Len(undo_list)
    BY <2>2 DEF Excess
  <2>4. IsList(undo_list') /\ Drawn(undo_list', undo_list)
    BY <1>1, <2>1, <2>3, PartDrawn DEF Trimmed
  <2> QED BY <1>1, <1>2, <2>1, <2>4, OnceKept
<1>6. CASE Restart \/ Crash
  <2>1. /\ undo_list' = Loaded(saved.undo) /\ redo_list' = Loaded(saved.redo)
        /\ UNCHANGED <<saved, built>>
    BY <1>6 DEF Restart, Crash, Load
  <2>2. saved.undo \in Seq(Entries) /\ saved.redo \in Seq(Entries)
    BY DEF TypeOK
  <2>3. /\ IsList(undo_list') /\ Drawn(undo_list', saved.undo)
        /\ IsList(redo_list') /\ Drawn(redo_list', saved.redo)
    BY <2>1, <2>2, LoadedDrawn
  <2>4. Once(undo_list', redo_list', built)
    BY <2>3, OnceDrawn DEF OnceInv
  <2> QED BY <2>1, <2>4 DEF OnceInv
<1>7. CASE TornSave
  <2>1. /\ undo_list' = <<>> /\ redo_list' = <<>> /\ built' = built
        /\ saved' = [undo |-> undo_list', redo |-> redo_list']
    BY <1>7 DEF TornSave, NoData
  <2> QED BY <1>1, <1>2, <2>1, OnceKept
<1> QED BY <1>3, <1>4, <1>5, <1>6, <1>7

\* In every state the lists of this session and the saved ones hold each change
\* set once.
LEMMA OnceInductive == Spec => []OnceInv
<1>1. Init => OnceInv
  <2> SUFFICES ASSUME Init PROVE OnceInv
    OBVIOUS
  <2>1. /\ undo_list = <<>> /\ redo_list = <<>> /\ built = 0
        /\ saved.undo = <<>> /\ saved.redo = <<>>
    BY DEF Init, NoData
  <2>2. IsList(<<>>)
    BY EmptySeq, SeqIsList
  <2>3. DOMAIN <<>> = {} /\ 0 \in Nat
    OBVIOUS
  <2>4. Once(<<>>, <<>>, 0)
    BY <2>2, <2>3 DEF Once, Distinct, Older, Apart
  <2> QED BY <2>1, <2>3, <2>4 DEF OnceInv
<1>2. TypeOK /\ BoundedInv /\ OnceInv /\ [Next]_vars => OnceInv'
  <2> SUFFICES ASSUME TypeOK, BoundedInv, OnceInv, [Next]_vars PROVE OnceInv'
    OBVIOUS
  <2>1. CASE Next
    BY <2>1, DoOnce, StartOnce, PerformOnce, SessionOnce DEF Next
  <2>2. CASE UNCHANGED vars
    BY <2>2 DEF vars, OnceInv
  <2> QED BY <2>1, <2>2
<1> QED BY <1>1, <1>2, TypeCorrect, BoundedInductive, PTL DEF Spec

\* Whatever is done, undone, redone, dropped, interrupted, saved and loaded, a
\* change set is in one of the two lists, at one place.
THEOREM EachSetOnce == Spec => []NoDuplicates
<1>1. OnceInv => NoDuplicates
  <2> SUFFICES ASSUME OnceInv PROVE NoDuplicates
    OBVIOUS
  <2> DEFINE u == Ids(undo_list)
             r == Ids(redo_list)
             ids == u \o r
  <2>1. /\ Len(undo_list) \in Nat /\ DOMAIN undo_list = 1..Len(undo_list)
        /\ Len(redo_list) \in Nat /\ DOMAIN redo_list = 1..Len(redo_list)
    BY ListLen DEF OnceInv, Once
  <2>2. /\ u \in Seq(Nat) /\ Len(u) = Len(undo_list)
        /\ \A i \in 1..Len(undo_list) : u[i] = undo_list[i].id
    <3>1. u \in [1..Len(undo_list) -> Nat]
      BY <2>1 DEF Ids, OnceInv, Once, Older
    <3> QED BY <2>1, <3>1, SeqDef, LenProperties DEF Ids
  <2>3. /\ r \in Seq(Nat) /\ Len(r) = Len(redo_list)
        /\ \A i \in 1..Len(redo_list) : r[i] = redo_list[i].id
    <3>1. r \in [1..Len(redo_list) -> Nat]
      BY <2>1 DEF Ids, OnceInv, Once, Older
    <3> QED BY <2>1, <3>1, SeqDef, LenProperties DEF Ids
  <2> HIDE DEF u, r
  <2>4. /\ DOMAIN ids = 1..(Len(undo_list) + Len(redo_list))
        /\ \A i \in 1..(Len(undo_list) + Len(redo_list)) :
              ids[i] = IF i <= Len(undo_list) THEN u[i] ELSE r[i - Len(undo_list)]
    <3>1. ids \in Seq(Nat) /\ Len(ids) = Len(undo_list) + Len(redo_list)
      BY <2>2, <2>3, ConcatProperties
    <3>2. DOMAIN ids = 1..(Len(undo_list) + Len(redo_list))
      BY <3>1, LenProperties
    <3>3. ASSUME NEW i \in 1..(Len(undo_list) + Len(redo_list))
          PROVE  ids[i] = IF i <= Len(undo_list) THEN u[i] ELSE r[i - Len(undo_list)]
      BY <2>2, <2>3, ConcatProperties
    <3> QED BY <3>2, <3>3
  <2> HIDE DEF ids
  <2>5. ASSUME NEW i \in DOMAIN ids
        PROVE  \/ i \in DOMAIN undo_list /\ ids[i] = undo_list[i].id
               \/ /\ i - Len(undo_list) \in DOMAIN redo_list
                  /\ ids[i] = redo_list[i - Len(undo_list)].id
    <3>1. CASE i <= Len(undo_list)
      <4>1. i \in 1..Len(undo_list)
        BY <2>1, <2>4, <3>1
      <4> QED BY <2>1, <2>2, <2>4, <3>1, <4>1
    <3>2. CASE ~(i <= Len(undo_list))
      <4>1. i - Len(undo_list) \in 1..Len(redo_list)
        BY <2>1, <2>4, <3>2
      <4> QED BY <2>1, <2>3, <2>4, <3>2, <4>1
    <3> QED BY <3>1, <3>2
  <2>6. ASSUME NEW i \in DOMAIN ids, NEW j \in DOMAIN ids, ids[i] = ids[j]
        PROVE  i = j
    <3>1. i \in Int /\ j \in Int
      BY <2>1, <2>4
    <3>2. CASE i \in DOMAIN undo_list /\ ids[i] = undo_list[i].id
      <4>1. j \in DOMAIN undo_list /\ ids[j] = undo_list[j].id
        BY <2>5, <2>6, <3>2 DEF OnceInv, Once, Apart
      <4> QED BY <2>6, <3>2, <4>1 DEF OnceInv, Once, Distinct
    <3>3. CASE /\ i - Len(undo_list) \in DOMAIN redo_list
               /\ ids[i] = redo_list[i - Len(undo_list)].id
      <4>1. /\ j - Len(undo_list) \in DOMAIN redo_list
            /\ ids[j] = redo_list[j - Len(undo_list)].id
        BY <2>5, <2>6, <3>3 DEF OnceInv, Once, Apart
      <4>2. i - Len(undo_list) = j - Len(undo_list)
        BY <2>6, <3>3, <4>1 DEF OnceInv, Once, Distinct
      <4> QED BY <2>1, <3>1, <4>2
    <3> QED BY <2>5, <3>2, <3>3
  <2> QED BY <2>6 DEF NoDuplicates, ids, u, r
<1> QED BY <1>1, OnceInductive, PTL

-----------------------------------------------------------------------------
(* Related change sets keep their order                                     *)
(*                                                                         *)
(* The undo list and the redo list backwards are one line of change sets,   *)
(* oldest first, and undo and redo move a point along it.  Reordering       *)
(* brings no related sets out of order on that line; and what is related    *)
(* now is not in another order on the saved line, so that loading it after  *)
(* a crash brings none out of order either.                                 *)

Elements(list) == {list[i] : i \in DOMAIN list}

Members == Elements(undo_list) \cup Elements(redo_list)

Holds(list, x) == \E i \in DOMAIN list : list[i].id = x.id

\* On the line of these two lists x comes before y.
Earlier(undo, redo, x, y) ==
    \/ Before(undo, x, y)
    \/ Before(redo, y, x)
    \/ Holds(undo, x) /\ Holds(redo, y)

OrderInv ==
    \A x, y \in Members :
        Earlier(undo_list, redo_list, x, y) /\ RelatedSets(x.changes, y.changes)
            => ~Earlier(saved.undo, saved.redo, y, x)

\* The step brings no related change sets of the history out of order.
OrderKept ==
    \A x, y \in Members :
        Earlier(undo_list', redo_list', x, y) /\ RelatedSets(x.changes, y.changes)
            => Earlier(undo_list, redo_list, x, y)

\* The line has an order: of two change sets one is the earlier one.
LEMMA EarlierOne ==
    ASSUME NEW u, NEW r, NEW n, Once(u, r, n), NEW x, NEW y, Earlier(u, r, x, y)
    PROVE  ~Earlier(u, r, y, x)
<1>0. /\ DOMAIN u \in SUBSET Nat /\ DOMAIN r \in SUBSET Nat
      /\ Distinct(u) /\ Distinct(r) /\ Apart(u, r)
  <2>1. /\ Len(u) \in Nat /\ DOMAIN u = 1..Len(u)
        /\ Len(r) \in Nat /\ DOMAIN r = 1..Len(r)
    BY ListLen DEF Once
  <2> QED BY <2>1 DEF Once
<1> SUFFICES ASSUME Earlier(u, r, y, x) PROVE FALSE
  OBVIOUS
<1>1. CASE Before(u, x, y)
  <2>1. PICK i \in DOMAIN u, j \in DOMAIN u : i < j /\ u[i].id = x.id /\ u[j].id = y.id
    BY <1>1 DEF Before
  <2>2. ~Before(u, y, x)
    BY <1>0, <2>1 DEF Before, Distinct
  <2>3. ~Before(r, x, y) /\ ~Holds(r, x)
    BY <1>0, <2>1 DEF Before, Apart, Holds
  <2> QED BY <2>2, <2>3 DEF Earlier
<1>2. CASE Before(r, y, x)
  <2>1. PICK i \in DOMAIN r, j \in DOMAIN r : i < j /\ r[i].id = y.id /\ r[j].id = x.id
    BY <1>2 DEF Before
  <2>2. ~Before(r, x, y)
    BY <1>0, <2>1 DEF Before, Distinct
  <2>3. ~Before(u, y, x) /\ ~Holds(u, y)
    BY <1>0, <2>1 DEF Before, Apart, Holds
  <2> QED BY <2>2, <2>3 DEF Earlier
<1>3. CASE Holds(u, x) /\ Holds(r, y)
  <2>1. PICK i \in DOMAIN u, j \in DOMAIN r : u[i].id = x.id /\ r[j].id = y.id
    BY <1>3 DEF Holds
  <2>2. ~Before(u, y, x) /\ ~Before(r, x, y) /\ ~Holds(u, y)
    BY <1>0, <2>1 DEF Before, Apart, Holds
  <2> QED BY <2>2 DEF Earlier
<1> QED BY <1>1, <1>2, <1>3 DEF Earlier

\* What a list holds another one holds too, in the same order.
Thinned(part, list) ==
    /\ Elements(part) \in SUBSET Elements(list)
    /\ \A x : Holds(part, x) => Holds(list, x)
    /\ \A x, y : Before(part, x, y) => Before(list, x, y)

\* A part of a list holds nothing else and keeps the order.
LEMMA PartKeepsOrder ==
    ASSUME NEW list, IsList(list), NEW m \in 1..(Len(list) + 1), NEW n \in 0..Len(list)
    PROVE  Thinned(SubSeq(list, m, n), list)
<1> DEFINE part == SubSeq(list, m, n)
<1>1. \A k \in DOMAIN part : /\ k \in Nat /\ k + m - 1 \in DOMAIN list
                             /\ part[k] = list[k + m - 1]
  BY PartDrawn
<1>2. m \in Nat
  BY ListLen
<1> HIDE DEF part
<1>3. Elements(part) \in SUBSET Elements(list)
  BY <1>1 DEF Elements
<1>4. \A x : Holds(part, x) => Holds(list, x)
  BY <1>1 DEF Holds
<1>5. ASSUME NEW x, NEW y, Before(part, x, y) PROVE Before(list, x, y)
  <2>1. PICK i \in DOMAIN part, j \in DOMAIN part : i < j /\ part[i].id = x.id /\ part[j].id = y.id
    BY <1>5 DEF Before
  <2>2. i + m - 1 < j + m - 1
    BY <1>1, <1>2, <2>1
  <2> QED BY <1>1, <2>1, <2>2 DEF Before
<1> QED BY <1>3, <1>4, <1>5 DEF part, Thinned

\* A list is within itself, and the empty list within any.
LEMMA ThinnedTrivially ==
    ASSUME NEW list
    PROVE  Thinned(list, list) /\ Thinned(<<>>, list)
<1>1. Thinned(list, list)
  BY DEF Thinned
<1>2. DOMAIN <<>> = {}
  OBVIOUS
<1>3. Thinned(<<>>, list)
  BY <1>2 DEF Thinned, Elements, Holds, Before
<1> QED BY <1>1, <1>3

\* Related sets are related either way round.
LEMMA RelatedEitherWay ==
    ASSUME NEW c, NEW d
    PROVE  RelatedSets(c, d) <=> RelatedSets(d, c)
<1>1. \A r, s : Related(r, s) <=> Related(s, r)
  BY DEF Related
<1> QED BY <1>1, Zenon DEF RelatedSets

\* _move_front of what _FindChangeDependencies found keeps the order of any two
\* related change sets of the list.
LEMMA MovedKeepsOrder ==
    ASSUME NEW list, IsList(list), Distinct(list), NEW chosen \in DOMAIN list,
           NEW x, NEW y, RelatedSets(x.changes, y.changes),
           \A i \in DOMAIN list : list[i].id = x.id => list[i] = x,
           \A i \in DOMAIN list : list[i].id = y.id => list[i] = y,
           Before(MoveFront(list, FindDependencies(list, chosen)), x, y)
    PROVE  Before(list, x, y)
<1> DEFINE found == FindDependencies(list, chosen)
           moved == MoveFront(list, found)
<1>1. found \in SUBSET DOMAIN list /\ Closed(list, found)
  BY FoundInList, FoundClosed
<1>2. Len(list) \in Nat /\ DOMAIN list = 1..Len(list)
  BY ListLen
<1> HIDE DEF found
<1>3. DOMAIN moved = 1..Len(list)
  BY <1>1, MovedList, ListLen
<1>4. PICK q : MoveOf(list, found, q)
  BY <1>1, MoveFrontReorders
<1>5. PICK k \in 1..Len(list), l \in 1..Len(list) :
         k < l /\ moved[k].id = x.id /\ moved[l].id = y.id
  BY <1>3 DEF Before, found
<1>6. /\ q[k] \in DOMAIN list /\ list[q[k]].id = x.id
      /\ q[l] \in DOMAIN list /\ list[q[l]].id = y.id
      /\ q[k] < q[l] \/ (q[l] < q[k] /\ q[l] \in found /\ q[k] \notin found)
  BY <1>2, <1>4, <1>5 DEF MoveOf
<1>7. list[q[k]] = x /\ list[q[l]] = y
  BY <1>6
<1>8. ~(q[l] < q[k] /\ q[l] \in found /\ q[k] \notin found)
  <2>1. RelatedSets(y.changes, x.changes)
    BY RelatedEitherWay
  <2> QED BY <1>1, <1>6, <1>7, <2>1 DEF Closed
<1> QED BY <1>6, <1>8 DEF Before

\* _move_front takes nothing away and adds nothing.
LEMMA MovedElements ==
    ASSUME NEW list, IsList(list), NEW positions \in SUBSET DOMAIN list
    PROVE  /\ Elements(MoveFront(list, positions)) \in SUBSET Elements(list)
           /\ \A x : Holds(MoveFront(list, positions), x) => Holds(list, x)
<1>1. Len(list) \in Nat /\ DOMAIN list = 1..Len(list)
  BY ListLen
<1>2. DOMAIN MoveFront(list, positions) = 1..Len(list)
  BY MovedList, ListLen
<1>3. PICK q : MoveOf(list, positions, q)
  BY MoveFrontReorders
<1> QED BY <1>1, <1>2, <1>3 DEF MoveOf, Elements, Holds

\* The point moves along the line: the last of one list becomes the last of the
\* other one, and nothing changes places.
LEMMA PointMoves ==
    ASSUME NEW u, IsList(u), Len(u) > 0, NEW r, IsList(r)
    PROVE  /\ Elements(Popped(u)) \in SUBSET Elements(u)
           /\ Elements(Append(r, LastOf(u))) \in SUBSET (Elements(u) \cup Elements(r))
           /\ \A x, y : Earlier(Popped(u), Append(r, LastOf(u)), x, y) => Earlier(u, r, x, y)
<1> DEFINE e == LastOf(u)
           v == Popped(u)
           w == Append(r, e)
<1>1. /\ Len(u) \in Nat /\ DOMAIN u = 1..Len(u)
      /\ Len(r) \in Nat /\ DOMAIN r = 1..Len(r)
  BY ListLen
<1>2. 1 \in 1..(Len(u) + 1) /\ Len(u) - 1 \in 0..Len(u) /\ Len(u) \in DOMAIN u
  BY <1>1
<1>3. /\ \A k \in DOMAIN v : k + 1 - 1 \in 1..(Len(u) - 1) /\ k \in Nat /\ v[k] = u[k + 1 - 1]
      /\ Thinned(v, u)
  BY <1>1, <1>2, PartDrawn, PartKeepsOrder DEF Popped
<1>4. \A k \in DOMAIN v : k \in DOMAIN u /\ k < Len(u) /\ v[k] = u[k]
  BY <1>1, <1>3
<1>5. IsList(w) /\ Len(w) = Len(r) + 1 /\ DOMAIN w = 1..(Len(r) + 1)
  BY <1>1, AppendedList, ListLen
<1>6. w[Len(r) + 1] = e /\ \A k \in 1..Len(r) : w[k] = r[k]
  <2> DEFINE S == {r[i] : i \in DOMAIN r} \cup {e}
  <2>1. r \in Seq(S)
    BY <1>1, SeqMonotonic DEF IsList
  <2>2. e \in S
    OBVIOUS
  <2> HIDE DEF S
  <2> QED BY <2>1, <2>2, AppendProperties
<1>7. e = u[Len(u)]
  BY DEF LastOf
<1> HIDE DEF v, w, e
<1>8. \A k \in DOMAIN w : k = Len(r) + 1 \/ k \in DOMAIN r
  BY <1>1, <1>5
<1>9. Elements(v) \in SUBSET Elements(u) /\ Elements(w) \in SUBSET (Elements(u) \cup Elements(r))
  <2>1. \A k \in DOMAIN w : w[k] \in Elements(u) \cup Elements(r)
    BY <1>1, <1>2, <1>6, <1>7, <1>8 DEF Elements
  <2> QED BY <1>3, <2>1 DEF Elements, Thinned
<1>10. ASSUME NEW x, NEW y, Earlier(v, w, x, y) PROVE Earlier(u, r, x, y)
  <2>1. CASE Before(v, x, y)
    BY <1>3, <2>1 DEF Thinned, Earlier
  <2>2. CASE Before(w, y, x)
    <3>1. PICK i \in DOMAIN w, j \in DOMAIN w : i < j /\ w[i].id = y.id /\ w[j].id = x.id
      BY <2>2 DEF Before
    <3>2. i \in DOMAIN r /\ w[i] = r[i]
      BY <1>1, <1>5, <1>6, <3>1
    <3>3. CASE j \in DOMAIN r
      BY <1>1, <1>6, <3>1, <3>2, <3>3 DEF Before, Earlier
    <3>4. CASE j = Len(r) + 1
      BY <1>2, <1>6, <1>7, <3>1, <3>2, <3>4 DEF Holds, Earlier
    <3> QED BY <1>8, <3>3, <3>4
  <2>3. CASE Holds(v, x) /\ Holds(w, y)
    <3>1. PICK i \in DOMAIN v, j \in DOMAIN w : v[i].id = x.id /\ w[j].id = y.id
      BY <2>3 DEF Holds
    <3>2. CASE j \in DOMAIN r
      BY <1>1, <1>4, <1>6, <3>1, <3>2 DEF Holds, Earlier
    <3>3. CASE j = Len(r) + 1
      BY <1>2, <1>4, <1>6, <1>7, <3>1, <3>3 DEF Before, Earlier
    <3> QED BY <1>8, <3>1, <3>2, <3>3
  <2> QED BY <1>10, <2>1, <2>2, <2>3 DEF Earlier
<1> QED BY <1>9, <1>10 DEF v, w, e

\* Read from its other end the line has the other order.
LEMMA EarlierTurned ==
    ASSUME NEW u, NEW r, NEW x, NEW y
    PROVE  Earlier(u, r, x, y) <=> Earlier(r, u, y, x)
BY DEF Earlier

\* The identity of a change set is its own.
LEMMA OnePlace ==
    ASSUME OnceInv, NEW x \in Members
    PROVE  /\ \A i \in DOMAIN undo_list : undo_list[i].id = x.id => undo_list[i] = x
           /\ \A i \in DOMAIN redo_list : redo_list[i].id = x.id => redo_list[i] = x
BY DEF OnceInv, Once, Distinct, Apart, Members, Elements

\* undo and redo begin by reordering a list, which keeps what is related in order.
LEMMA StartKeepsOrder ==
    ASSUME OnceInv, StartUndo \/ StartRedo
    PROVE  OrderKept /\ Members' \in SUBSET Members /\ saved' = saved
<1>1. /\ IsList(undo_list) /\ IsList(redo_list)
      /\ Distinct(undo_list) /\ Distinct(redo_list)
  BY DEF OnceInv, Once
<1>2. CASE StartUndo
  <2>1. PICK chosen \in DOMAIN undo_list, drop \in {FALSE} \cup {"drop" \in Features} :
           Undo(chosen, drop)
    BY <1>2 DEF StartUndo
  <2> DEFINE found == FindDependencies(undo_list, chosen)
  <2>2. found \in SUBSET DOMAIN undo_list
    BY <1>1, FoundInList
  <2>3. undo_list' = MoveFront(undo_list, found) /\ redo_list' = redo_list /\ saved' = saved
    BY <2>1 DEF Undo
  <2>4. ASSUME NEW x \in Members, NEW y \in Members, RelatedSets(x.changes, y.changes),
               Before(undo_list', x, y)
        PROVE  Before(undo_list, x, y)
    BY <1>1, <2>3, <2>4, OnePlace, MovedKeepsOrder
  <2> HIDE DEF found
  <2>5. Elements(undo_list') \in SUBSET Elements(undo_list) /\ \A x : Holds(undo_list', x) => Holds(undo_list, x)
    BY <1>1, <2>2, <2>3, MovedElements
  <2>6. OrderKept
    BY <2>3, <2>4, <2>5 DEF OrderKept, Earlier
  <2> QED BY <2>3, <2>5, <2>6 DEF Members
<1>3. CASE StartRedo
  <2>1. PICK chosen \in DOMAIN redo_list : Redo(chosen)
    BY <1>3 DEF StartRedo
  <2> DEFINE found == FindDependencies(redo_list, chosen)
  <2>2. found \in SUBSET DOMAIN redo_list
    BY <1>1, FoundInList
  <2>3. redo_list' = MoveFront(redo_list, found) /\ undo_list' = undo_list /\ saved' = saved
    BY <2>1 DEF Redo
  <2>4. ASSUME NEW x \in Members, NEW y \in Members, RelatedSets(x.changes, y.changes),
               Before(redo_list', y, x)
        PROVE  Before(redo_list, y, x)
    <3>1. RelatedSets(y.changes, x.changes)
      BY <2>4, RelatedEitherWay
    <3> QED BY <1>1, <2>3, <2>4, <3>1, OnePlace, MovedKeepsOrder
  <2> HIDE DEF found
  <2>5. Elements(redo_list') \in SUBSET Elements(redo_list) /\ \A x : Holds(redo_list', x) => Holds(redo_list, x)
    BY <1>1, <2>2, <2>3, MovedElements
  <2>6. OrderKept
    BY <2>3, <2>4, <2>5 DEF OrderKept, Earlier
  <2> QED BY <2>3, <2>5, <2>6 DEF Members
<1> QED BY <1>2, <1>3

\* A round moves the point by one change set, or ends the call.
LEMMA PerformKeepsOrder ==
    ASSUME BoundedInv, OnceInv, PerformUndo \/ PerformRedo
    PROVE  OrderKept /\ Members' \in SUBSET Members /\ saved' = saved
<1>1. saved' = saved
  BY DEF PerformUndo, PerformRedo
<1>2. /\ Len(undo_list) \in Nat /\ Len(redo_list) \in Nat /\ run.left \in Nat
      /\ IsList(undo_list) /\ IsList(redo_list)
  BY ListLen DEF BoundedInv, Lists, RunType
<1>3. CASE undo_list' = undo_list /\ redo_list' = redo_list
  BY <1>1, <1>3 DEF OrderKept, Members
<1>4. CASE /\ run.op = "undo" /\ run.left > 0 /\ undo_list' = Popped(undo_list)
           /\ redo_list' = Append(redo_list, LastOf(undo_list))
  <2>1. Len(undo_list) > 0
    BY <1>2, <1>4 DEF BoundedInv, RoundsLeft
  <2>2. /\ Elements(undo_list') \in SUBSET Elements(undo_list)
        /\ Elements(redo_list') \in SUBSET (Elements(undo_list) \cup Elements(redo_list))
        /\ \A x, y : Earlier(undo_list', redo_list', x, y) => Earlier(undo_list, redo_list, x, y)
    BY <1>2, <1>4, <2>1, PointMoves
  <2> QED BY <1>1, <2>2 DEF OrderKept, Members
<1>5. CASE /\ run.op = "redo" /\ run.left > 0 /\ redo_list' = Popped(redo_list)
           /\ undo_list' = Append(undo_list, LastOf(redo_list))
  <2>1. Len(redo_list) > 0
    BY <1>2, <1>5 DEF BoundedInv, RoundsLeft
  <2>2. /\ Elements(redo_list') \in SUBSET Elements(redo_list)
        /\ Elements(undo_list') \in SUBSET (Elements(redo_list) \cup Elements(undo_list))
        /\ \A x, y : Earlier(redo_list', undo_list', y, x) => Earlier(redo_list, undo_list, y, x)
    BY <1>2, <1>5, <2>1, PointMoves
  <2>3. \A x, y : Earlier(undo_list', redo_list', x, y) => Earlier(undo_list, redo_list, x, y)
    BY <2>2, EarlierTurned
  <2> QED BY <1>1, <2>2, <2>3 DEF OrderKept, Members
<1> QED BY <1>3, <1>4, <1>5 DEF PerformUndo, PerformRedo

\* The end of a call, clear and close take entries off the lists.
LEMMA EndKeepsOrder ==
    ASSUME BoundedInv, OnceInv, Finish \/ Clear \/ Save \/ TornSave
    PROVE  /\ OrderKept /\ Members' \in SUBSET Members
           /\ saved' \in {saved, [undo |-> undo_list', redo |-> redo_list']}
<1>1. /\ IsList(undo_list) /\ IsList(redo_list)
      /\ Thinned(undo_list, undo_list) /\ Thinned(redo_list, redo_list)
      /\ Thinned(<<>>, undo_list) /\ Thinned(<<>>, redo_list)
  BY ThinnedTrivially DEF OnceInv, Once
<1>2. /\ Thinned(undo_list', undo_list) /\ Thinned(redo_list', redo_list)
      /\ saved' \in {saved, [undo |-> undo_list', redo |-> redo_list']}
  <2>1. CASE Finish
    <3>1. Len(redo_list) \in Nat /\ run.drop \in Nat /\ run.drop <= Len(redo_list)
      BY <2>1, ListLen DEF Finish, BoundedInv, RoundsLeft, RunType, Lists
    <3>2. 1 \in 1..(Len(redo_list) + 1) /\ Len(redo_list) - run.drop \in 0..Len(redo_list)
      BY <3>1
    <3>3. redo_list' = SubSeq(redo_list, 1, Len(redo_list) - run.drop)
          /\ UNCHANGED <<undo_list, saved>>
      BY <2>1 DEF Finish
    <3> QED BY <1>1, <3>2, <3>3, PartKeepsOrder
  <2>2. CASE Clear
    BY <1>1, <2>2 DEF Clear
  <2>3. CASE Save
    <3>1. undo_list' = Trimmed(undo_list) /\ redo_list' = redo_list
          /\ saved' = [undo |-> undo_list', redo |-> redo_list']
      BY <2>3 DEF Save
    <3>2. Len(undo_list) \in Nat /\ MaxUndos \in Nat
      BY <1>1, ListLen, HistoryAssumption
    <3>3. Excess(undo_list) + 1 \in 1..(Len(undo_list) + 1) /\ Len(undo_list) \in 0..Len(undo_list)
      BY <3>2 DEF Excess
    <3> QED BY <1>1, <3>1, <3>3, PartKeepsOrder DEF Trimmed
  <2>4. CASE TornSave
    BY <1>1, <2>4 DEF TornSave, NoData
  <2> QED BY <2>1, <2>2, <2>3, <2>4
<1>3. OrderKept
  BY <1>2 DEF OrderKept, Thinned, Earlier
<1> QED BY <1>2, <1>3 DEF Members, Thinned

\* A change set built just now comes after all others, and is not saved yet.
LEMMA DoKeepsOrder ==
    ASSUME TypeOK, OnceInv, OrderInv, Do
    PROVE  OrderKept /\ OrderInv'
<1>1. built \in Nat /\ built' = built + 1 /\ saved' = saved
  BY DEF Do, OnceInv
<1>2. PICK changes :
         \/ undo_list' = undo_list /\ redo_list' \in {<<>>, redo_list}
         \/ /\ undo_list' = Trimmed(Append(undo_list, [id |-> built, changes |-> changes]))
            /\ redo_list' = <<>>
  BY DEF Do
<1>3. /\ IsList(undo_list) /\ IsList(redo_list) /\ DOMAIN <<>> = {}
      /\ Thinned(undo_list, undo_list) /\ Thinned(redo_list, redo_list) /\ Thinned(<<>>, redo_list)
  BY ThinnedTrivially DEF OnceInv, Once
<1>4. CASE undo_list' = undo_list /\ redo_list' \in {<<>>, redo_list}
  <2>1. Thinned(undo_list', undo_list) /\ Thinned(redo_list', redo_list)
    BY <1>3, <1>4
  <2>2. OrderKept /\ Members' \in SUBSET Members
    BY <2>1 DEF OrderKept, Thinned, Earlier, Members
  <2> QED BY <1>1, <2>2 DEF OrderInv, OrderKept
<1>5. CASE /\ undo_list' = Trimmed(Append(undo_list, [id |-> built, changes |-> changes]))
           /\ redo_list' = <<>>
  <2> DEFINE e == [id |-> built, changes |-> changes]
             grown == Append(undo_list, e)
  <2>1. /\ IsList(grown) /\ Len(grown) = Len(undo_list) + 1 /\ Len(undo_list) \in Nat
        /\ DOMAIN undo_list = 1..Len(undo_list) /\ DOMAIN grown = 1..(Len(undo_list) + 1)
    BY <1>3, AppendedList, ListLen
  <2>2. grown[Len(undo_list) + 1] = e /\ \A k \in DOMAIN undo_list : grown[k] = undo_list[k]
    <3> DEFINE S == {undo_list[i] : i \in DOMAIN undo_list} \cup {e}
    <3>1. undo_list \in Seq(S)
      BY <1>3, SeqMonotonic DEF IsList
    <3>2. e \in S
      OBVIOUS
    <3> HIDE DEF S, e
    <3> QED BY <2>1, <3>1, <3>2, AppendProperties
  <2>3. e.id = built
    OBVIOUS
  <2> HIDE DEF grown, e
  <2>4. \A k \in DOMAIN grown : k \in DOMAIN undo_list \/ k = Len(undo_list) + 1
    BY <2>1
  <2>5. MaxUndos \in Nat
    BY HistoryAssumption
  <2>6. Excess(grown) + 1 \in 1..(Len(grown) + 1) /\ Len(grown) \in 0..Len(grown)
    BY <2>1, <2>5 DEF Excess
  <2>7. Thinned(undo_list', grown) /\ redo_list' = <<>>
    BY <1>5, <2>1, <2>6, PartKeepsOrder DEF Trimmed, grown, e
  <2>8. \A x \in Members' : x = e \/ x \in Members
    BY <1>3, <2>2, <2>4, <2>7 DEF Members, Elements, Thinned
  <2>9. \A x, y : ~Before(redo_list', x, y) /\ ~Holds(redo_list', x)
    BY <1>3, <2>7 DEF Before, Holds
  <2>10. \A k \in DOMAIN undo_list : undo_list[k].id # built
    BY <1>1 DEF OnceInv, Once, Older
  <2>11. \A x \in Members : x.id # built
    BY <1>1 DEF OnceInv, Once, Older, Members, Elements
  <2>12. ASSUME NEW x, NEW y, Before(grown, x, y)
         PROVE  x.id # built /\ (y.id # built => Before(undo_list, x, y))
    <3>1. PICK i \in DOMAIN grown, j \in DOMAIN grown :
              i < j /\ grown[i].id = x.id /\ grown[j].id = y.id
      BY <2>12 DEF Before
    <3>2. i \in DOMAIN undo_list
      BY <2>1, <3>1
    <3>3. y.id # built => j \in DOMAIN undo_list
      BY <2>2, <2>3, <2>4, <3>1
    <3> QED BY <2>2, <2>10, <3>1, <3>2, <3>3 DEF Before
  <2>13. ASSUME NEW x \in Members', NEW y \in Members',
                Earlier(undo_list', redo_list', x, y), RelatedSets(x.changes, y.changes)
         PROVE  /\ x \in Members
                /\ y \in Members => Earlier(undo_list, redo_list, x, y)
                /\ ~Earlier(saved.undo, saved.redo, y, x)
    <3>1. Before(grown, x, y)
      BY <2>7, <2>9, <2>13 DEF Earlier, Thinned
    <3>2. x \in Members /\ (y \in Members => Earlier(undo_list, redo_list, x, y))
      BY <2>3, <2>8, <2>11, <2>12, <3>1 DEF Earlier
    <3>3. CASE y \in Members
      BY <2>13, <3>2, <3>3 DEF OrderInv
    <3>4. CASE y = e
      <4>1. ~Holds(saved.undo, y) /\ ~Holds(saved.redo, y)
        <5>1. built \notin 0..(built - 1)
          BY <1>1
        <5>2. /\ \A k \in DOMAIN saved.undo : saved.undo[k].id # built
              /\ \A k \in DOMAIN saved.redo : saved.redo[k].id # built
          BY <5>1 DEF OnceInv, Once, Older
        <5> QED BY <2>3, <3>4, <5>2 DEF Holds
      <4>2. ~Earlier(saved.undo, saved.redo, y, x)
        BY <4>1 DEF Earlier, Before, Holds
      <4> QED BY <3>2, <4>2
    <3> QED BY <2>8, <3>2, <3>3, <3>4
  <2>14. OrderInv'
    BY <1>1, <2>13 DEF OrderInv
  <2>15. ASSUME NEW x \in Members, NEW y \in Members, Earlier(undo_list', redo_list', x, y)
         PROVE  Earlier(undo_list, redo_list, x, y)
    <3>1. Before(grown, x, y)
      BY <2>7, <2>9, <2>15 DEF Earlier, Thinned
    <3> QED BY <2>11, <2>12, <3>1 DEF Earlier
  <2> QED BY <2>14, <2>15 DEF OrderKept
<1> QED BY <1>2, <1>4, <1>5

\* What a session begins with is what was saved, in its order.
LEMMA LoadOrder ==
    ASSUME TypeOK, Restart \/ Crash
    PROVE  /\ saved' = saved
           /\ \A x, y : Earlier(undo_list', redo_list', x, y) => Earlier(saved.undo, saved.redo, x, y)
           /\ \A x, y : Before(undo_list', x, y) => Earlier(saved.undo, saved.redo, x, y)
<1>1. /\ undo_list' = Loaded(saved.undo) /\ redo_list' = Loaded(saved.redo) /\ saved' = saved
  BY DEF Restart, Crash, Load
<1>2. saved.undo \in Seq(Entries) /\ saved.redo \in Seq(Entries)
  BY DEF TypeOK
<1>3. /\ DOMAIN undo_list' = DOMAIN saved.undo /\ DOMAIN redo_list' = DOMAIN saved.redo
      /\ \A k \in DOMAIN saved.undo : undo_list'[k].id = saved.undo[k].id
      /\ \A k \in DOMAIN saved.redo : redo_list'[k].id = saved.redo[k].id
  BY <1>1, <1>2, LoadedType
<1>4. \A x, y : /\ Before(undo_list', x, y) => Before(saved.undo, x, y)
                /\ Before(redo_list', x, y) => Before(saved.redo, x, y)
  BY <1>3 DEF Before
<1>5. \A x : /\ Holds(undo_list', x) => Holds(saved.undo, x)
             /\ Holds(redo_list', x) => Holds(saved.redo, x)
  BY <1>3 DEF Holds
<1> QED BY <1>1, <1>4, <1>5 DEF Earlier

\* Every step keeps what is related in order, in the lists and towards the
\* saved ones.
LEMMA OrderStep ==
    ASSUME TypeOK, BoundedInv, OnceInv, OnceInv', OrderInv, [Next]_vars
    PROVE  OrderInv' /\ (OrderKept \/ Restart \/ Crash)
<1>1. CASE Do
  BY <1>1, DoKeepsOrder
<1>2. CASE /\ OrderKept /\ Members' \in SUBSET Members
           /\ saved' \in {saved, [undo |-> undo_list', redo |-> redo_list']}
  <2>1. CASE saved' = saved
    BY <1>2, <2>1 DEF OrderInv, OrderKept
  <2>2. CASE saved' = [undo |-> undo_list', redo |-> redo_list']
    <3>1. Once(undo_list', redo_list', built')
      BY DEF OnceInv
    <3>2. saved.undo' = undo_list' /\ saved.redo' = redo_list'
      BY <2>2
    <3>3. \A x, y : Earlier(undo_list', redo_list', x, y) => ~Earlier(undo_list', redo_list', y, x)
      BY <3>1, EarlierOne
    <3> QED BY <1>2, <3>2, <3>3 DEF OrderInv
  <2> QED BY <1>2, <2>1, <2>2
<1>3. CASE Restart \/ Crash
  <2>1. \A x, y : Earlier(saved.undo, saved.redo, x, y) => ~Earlier(saved.undo, saved.redo, y, x)
    BY EarlierOne DEF OnceInv
  <2> QED BY <1>3, <2>1, LoadOrder DEF OrderInv
<1>4. CASE StartUndo \/ StartRedo
  BY <1>2, <1>4, StartKeepsOrder
<1>5. CASE PerformUndo \/ PerformRedo
  BY <1>2, <1>5, PerformKeepsOrder
<1>6. CASE Finish \/ Clear \/ Save \/ TornSave
  BY <1>2, <1>6, EndKeepsOrder
<1>7. CASE UNCHANGED vars
  <2>1. undo_list' = undo_list /\ redo_list' = redo_list /\ saved' = saved
    BY <1>7 DEF vars
  <2> QED BY <1>2, <2>1 DEF OrderKept, Members
<1> QED BY <1>1, <1>3, <1>4, <1>5, <1>6, <1>7 DEF Next

\* In every state what is related is saved in the order it has now, or not at all.
LEMMA OrderInductive == Spec => []OrderInv
<1>1. Init => OrderInv
  <2>1. DOMAIN <<>> = {}
    OBVIOUS
  <2> QED BY <2>1 DEF Init, OrderInv, Members, Elements
<1>2. TypeOK /\ BoundedInv /\ OnceInv /\ OnceInv' /\ OrderInv /\ [Next]_vars => OrderInv'
  BY OrderStep
<1> QED BY <1>1, <1>2, TypeCorrect, BoundedInductive, OnceInductive, PTL DEF Spec

\* Two related change sets that stay in the undo list keep their order in it,
\* whatever is undone out of order, redone, dropped, interrupted, and even when
\* the process dies and an older copy of the lists is loaded.
THEOREM RelatedNeverReordered == Spec => RelatedKeepOrder
<1> DEFINE Kept == \A i, j \in DOMAIN undo_list :
                i < j /\ RelatedSets(undo_list[i].changes, undo_list[j].changes)
                   => ~Before(undo_list', undo_list[j], undo_list[i])
<1>1. TypeOK /\ BoundedInv /\ OnceInv /\ OnceInv' /\ OrderInv /\ [Next]_vars => Kept
  <2> SUFFICES ASSUME TypeOK, BoundedInv, OnceInv, OnceInv', OrderInv, [Next]_vars,
                      NEW i \in DOMAIN undo_list, NEW j \in DOMAIN undo_list, i < j,
                      RelatedSets(undo_list[i].changes, undo_list[j].changes),
                      Before(undo_list', undo_list[j], undo_list[i])
               PROVE  FALSE
    OBVIOUS
  <2> DEFINE x == undo_list[i]
             y == undo_list[j]
  <2>1. x \in Members /\ y \in Members
    BY DEF Members, Elements
  <2>2. Before(undo_list, x, y)
    BY DEF Before
  <2>3. Earlier(undo_list, redo_list, x, y) /\ Earlier(undo_list', redo_list', y, x)
    BY <2>2 DEF Earlier
  <2>4. RelatedSets(x.changes, y.changes) /\ RelatedSets(y.changes, x.changes)
    BY RelatedEitherWay
  <2> HIDE DEF x, y
  <2>5. ~Earlier(undo_list, redo_list, y, x)
    BY <2>3, EarlierOne DEF OnceInv
  <2>6. CASE OrderKept
    BY <2>1, <2>3, <2>4, <2>5, <2>6 DEF OrderKept
  <2>7. CASE Restart \/ Crash
    <3>1. Earlier(saved.undo, saved.redo, y, x)
      BY <2>3, <2>7, LoadOrder
    <3> QED BY <2>1, <2>3, <2>4, <3>1 DEF OrderInv
  <2> QED BY <2>6, <2>7, OrderStep
<1> HIDE DEF Kept
<1>2. Spec => [][Kept]_vars
  BY <1>1, TypeCorrect, BoundedInductive, OnceInductive, OrderInductive, PTL DEF Spec
<1> QED BY <1>2 DEF Kept, RelatedKeepOrder

-----------------------------------------------------------------------------
(* Where the changes of the entries are among all changes of a list *)

\* The k-th of the sequences put together is the v[k]-th of sequence w[k]; all
\* n sequences are there, in order.
Placed(s, ss, n, w, v) ==
    /\ \A k \in 1..Len(s) : /\ w[k] \in 1..n /\ v[k] \in 1..Len(ss[w[k]])
                            /\ s[k] = ss[w[k]][v[k]]
    /\ \A k, l \in 1..Len(s) : k < l => w[k] < w[l] \/ (w[k] = w[l] /\ v[k] < v[l])
    /\ \A i \in 1..n : \A j \in 1..Len(ss[i]) :
          \E k \in 1..Len(s) : w[k] = i /\ v[k] = j

\* One more sequence at the end.
LEMMA PlacedMore ==
    ASSUME NEW S, NEW ss, NEW n \in Nat, NEW s \in Seq(S), ss[n + 1] \in Seq(S),
           NEW w, NEW v, Placed(s, ss, n, w, v)
    PROVE  \E x, y : Placed(s \o ss[n + 1], ss, n + 1, x, y)
<1> DEFINE a == Len(s)
           more == ss[n + 1]
           b == Len(more)
           x == [k \in 1..(a + b) |-> IF k <= a THEN w[k] ELSE n + 1]
           y == [k \in 1..(a + b) |-> IF k <= a THEN v[k] ELSE k - a]
           q == s \o more
<1>1. a \in Nat /\ b \in Nat
  BY LenProperties
<1>2. /\ q \in Seq(S) /\ Len(q) = a + b
      /\ \A k \in 1..(a + b) : q[k] = IF k <= a THEN s[k] ELSE more[k - a]
  BY ConcatProperties
<1>3. \A k \in 1..(a + b) : (k <= a => k \in 1..a) /\ (~(k <= a) => k - a \in 1..b)
  BY <1>1
<1>4. \A k \in 1..a : /\ w[k] \in 1..n /\ v[k] \in 1..Len(ss[w[k]])
                      /\ s[k] = ss[w[k]][v[k]]
  BY DEF Placed
<1>5. ASSUME NEW k \in 1..(a + b)
      PROVE  x[k] \in 1..(n + 1) /\ y[k] \in 1..Len(ss[x[k]]) /\ q[k] = ss[x[k]][y[k]]
  <2>1. CASE k <= a
    <3>1. x[k] = w[k] /\ y[k] = v[k] /\ q[k] = s[k] /\ k \in 1..a
      BY <1>2, <1>3, <2>1
    <3>2. w[k] \in 1..(n + 1)
      BY <1>4, <3>1
    <3> QED BY <1>4, <3>1, <3>2
  <2>2. CASE ~(k <= a)
    <3>1. x[k] = n + 1 /\ y[k] = k - a /\ q[k] = more[k - a] /\ k - a \in 1..b
      BY <1>2, <1>3, <2>2
    <3> QED BY <3>1
  <2> QED BY <2>1, <2>2
<1>6. ASSUME NEW k \in 1..(a + b), NEW l \in 1..(a + b), k < l
      PROVE  x[k] < x[l] \/ (x[k] = x[l] /\ y[k] < y[l])
  <2>1. CASE l <= a
    <3>1. k \in 1..a /\ l \in 1..a /\ k <= a
      BY <1>1, <1>6, <2>1
    <3>2. w[k] < w[l] \/ (w[k] = w[l] /\ v[k] < v[l])
      BY <1>6, <3>1 DEF Placed
    <3> QED BY <2>1, <3>1, <3>2
  <2>2. CASE k <= a /\ ~(l <= a)
    <3>1. x[k] = w[k] /\ x[l] = n + 1 /\ w[k] \in 1..n
      BY <1>3, <1>4, <2>2
    <3> HIDE DEF x
    <3> QED BY <3>1
  <2>3. CASE ~(k <= a)
    <3>1. ~(l <= a)
      BY <1>1, <1>6, <2>3
    <3>2. x[k] = n + 1 /\ x[l] = n + 1 /\ y[k] = k - a /\ y[l] = l - a
      BY <2>3, <3>1
    <3>3. k - a < l - a
      BY <1>1, <1>6
    <3> QED BY <3>2, <3>3
  <2> QED BY <2>1, <2>2, <2>3
<1>7. ASSUME NEW i \in 1..(n + 1), NEW j \in 1..Len(ss[i])
      PROVE  \E k \in 1..(a + b) : x[k] = i /\ y[k] = j
  <2>1. CASE i = n + 1
    <3>1. j \in Nat /\ j + a \in 1..(a + b) /\ ~(j + a <= a) /\ j + a - a = j
      BY <1>1, <2>1
    <3>2. x[j + a] = i /\ y[j + a] = j
      BY <2>1, <3>1
    <3> HIDE DEF x, y
    <3> QED BY <3>1, <3>2
  <2>2. CASE i # n + 1
    <3>1. i \in 1..n
      BY <2>2
    <3>2. PICK k \in 1..a : w[k] = i /\ v[k] = j
      BY <3>1 DEF Placed
    <3>3. k \in 1..(a + b) /\ k <= a
      BY <1>1
    <3>4. x[k] = i /\ y[k] = j
      BY <3>2, <3>3
    <3> HIDE DEF x, y
    <3> QED BY <3>3, <3>4
  <2> QED BY <2>1, <2>2
<1> HIDE DEF x, y, q
<1>8. Placed(q, ss, n + 1, x, y)
  BY <1>2, <1>5, <1>6, <1>7 DEF Placed
<1> QED BY <1>8 DEF q

\* FlattenSeq keeps all elements, in order.
LEMMA FlattenPlaces ==
    ASSUME NEW S, NEW ss \in Seq(Seq(S))
    PROVE  \E w, v : Placed(Seqs!FlattenSeq(ss), ss, Len(ss), w, v)
<1>1. Len(ss) \in Nat /\ \A i \in 1..Len(ss) : ss[i] \in Seq(S)
  BY LenProperties, ElementOfSeq
<1>2. CASE Len(ss) = 0
  <2>1. ss = <<>>
    BY <1>2, EmptySeq
  <2>2. Seqs!FlattenSeq(ss) = <<>>
    BY <1>2, <2>1 DEF Seqs!FlattenSeq
  <2>3. Len(<<>>) = 0
    OBVIOUS
  <2> HIDE DEF Seqs!FlattenSeq
  <2>4. Placed(<<>>, ss, 0, ss, ss)
    BY <2>3 DEF Placed
  <2> QED BY <1>2, <2>2, <2>4
<1>3. CASE Len(ss) # 0
  <2>1. PICK f : FlatUpTo(f, ss, Len(ss)) /\ Seqs!FlattenSeq(ss) = f[Len(ss)]
    BY <1>1, <1>3, FlattenIsFlat
  <2> DEFINE Good(k) == f[k] \in Seq(S) /\ \E w, v : Placed(f[k], ss, k, w, v)
             Bad == {k \in 1..Len(ss) : ~Good(k)}
  <2>2. Bad = {}
    <3> SUFFICES ASSUME Bad # {} PROVE FALSE
      OBVIOUS
    <3>1. PICK k \in Bad : \A l \in Bad : k <= l
      <4>1. Bad \in SUBSET Nat
        OBVIOUS
      <4> HIDE DEF Bad
      <4> QED BY <4>1, LeastNatural
    <3>2. k \in 1..Len(ss) /\ ~Good(k)
      OBVIOUS
    <3>3. f[k] = IF k = 1 THEN ss[k] ELSE f[k - 1] \o ss[k]
      BY <2>1, <3>2 DEF FlatUpTo
    <3>4. CASE k = 1
      <4> DEFINE s == ss[1]
                 w == [i \in 1..Len(s) |-> 1]
                 v == [i \in 1..Len(s) |-> i]
      <4>1. f[1] = s /\ s \in Seq(S) /\ Len(s) \in Nat
        BY <1>1, <3>2, <3>3, <3>4, LenProperties
      <4>2. \A i \in 1..1 : i = 1
        OBVIOUS
      <4>3. Placed(s, ss, 1, w, v)
        BY <4>1, <4>2 DEF Placed
      <4> HIDE DEF w, v, s
      <4>4. Good(1)
        BY <4>1, <4>3
      <4> QED BY <3>2, <3>4, <4>4
    <3>5. CASE k # 1
      <4> DEFINE n == k - 1
      <4>1. n \in Nat /\ n + 1 = k /\ n \in 1..Len(ss) /\ ~(k <= n)
        BY <1>1, <3>2, <3>5
      <4>2. Good(n)
        BY <3>1, <4>1
      <4>3. f[k] = f[n] \o ss[n + 1] /\ ss[n + 1] \in Seq(S)
        BY <1>1, <3>2, <3>3, <3>5, <4>1
      <4> HIDE DEF n
      <4>4. PICK w, v : Placed(f[n], ss, n, w, v)
        BY <4>2
      <4>5. \E x, y : Placed(f[n] \o ss[n + 1], ss, n + 1, x, y)
        BY <4>1, <4>2, <4>3, <4>4, PlacedMore
      <4>6. f[n] \o ss[n + 1] \in Seq(S)
        BY <4>2, <4>3, ConcatProperties
      <4>7. Good(k)
        BY <4>1, <4>3, <4>5, <4>6
      <4> QED BY <3>2, <4>7
    <3> QED BY <3>4, <3>5
  <2>3. Len(ss) \in 1..Len(ss)
    BY <1>1, <1>3
  <2>4. Good(Len(ss))
    BY <2>2, <2>3
  <2> QED BY <2>1, <2>4
<1> QED BY <1>2, <1>3

-----------------------------------------------------------------------------
(* Lists of sets of writes *)

\* The set writes different files, which are there, and knows their old text.
WritesFiles(e, t) ==
    /\ Known(e.changes, t) /\ Apiece(e.changes)
    /\ \A i \in 1..Len(e.changes) : e.changes[i].folder = FALSE

\* The write of a set to the file p, and the text that doing or undoing the set
\* leaves in p.
Writes(e, p) == \E i \in 1..Len(e.changes) : e.changes[i].res = p

WriteOn(e, p) == e.changes[CHOOSE i \in 1..Len(e.changes) : e.changes[i].res = p]

Reach(m, e, p) == TextLeft(m, WriteOn(e, p))

Text(t, p) == Decode[t[p]]

\* The sets of a list that write p; the last, the first and two in a row.
Writers(list, p) == {i \in DOMAIN list : Writes(list[i], p)}

Final(list, p, i) == i \in Writers(list, p) /\ \A k \in Writers(list, p) : k <= i

First(list, p, i) == i \in Writers(list, p) /\ \A k \in Writers(list, p) : i <= k

Adjacent(list, p, i, j) ==
    /\ i \in Writers(list, p) /\ j \in Writers(list, p) /\ i < j
    /\ \A k \in Writers(list, p) : k <= i \/ j <= k

\* The write of a set to a file is one of its changes.
LEMMA WriteOnIs ==
    ASSUME NEW e \in Entries, NEW p, Writes(e, p)
    PROVE  /\ \E i \in 1..Len(e.changes) : WriteOn(e, p) = e.changes[i]
           /\ WriteOn(e, p) \in Changes /\ WriteOn(e, p).res = p
<1> DEFINE j == CHOOSE i \in 1..Len(e.changes) : e.changes[i].res = p
<1>1. j \in 1..Len(e.changes) /\ e.changes[j].res = p
  BY DEF Writes
<1>2. WriteOn(e, p) = e.changes[j]
  BY DEF WriteOn
<1> HIDE DEF j
<1>3. e.changes[j] \in Changes
  <2>1. e.changes \in Seq(Changes)
    BY DEF Entries
  <2> QED BY <1>1, <2>1, ElementOfSeq
<1> QED BY <1>1, <1>2, <1>3

\* Change k of a list of entries is change v[k] of entry w[k].
PlacedIn(list, w, v) ==
    LET s == AllChanges(list) IN
    /\ \A k \in 1..Len(s) : /\ w[k] \in 1..Len(list)
                            /\ v[k] \in 1..Len(list[w[k]].changes)
                            /\ s[k] = list[w[k]].changes[v[k]]
    /\ \A k, l \in 1..Len(s) : k < l => w[k] < w[l] \/ (w[k] = w[l] /\ v[k] < v[l])
    /\ \A i \in 1..Len(list) : \A j \in 1..Len(list[i].changes) :
          \E k \in 1..Len(s) : w[k] = i /\ v[k] = j

\* Every change of every entry is there, in the order of the list.
LEMMA AllPlaced ==
    ASSUME NEW list \in Seq(Entries)
    PROVE  AllChanges(list) \in Seq(Changes) /\ \E w, v : PlacedIn(list, w, v)
<1> DEFINE ss == [n \in DOMAIN list |-> list[n].changes]
           s == AllChanges(list)
<1>1. Len(list) \in Nat /\ DOMAIN list = 1..Len(list) /\ \A n \in 1..Len(list) : list[n] \in Entries
  BY EntriesAreList
<1>2. ss \in Seq(Seq(Changes)) /\ Len(ss) = Len(list) /\ \A n \in 1..Len(list) : ss[n] = list[n].changes
  <2>1. ss \in [1..Len(list) -> Seq(Changes)]
    BY <1>1 DEF Entries
  <2>2. ss \in Seq(Seq(Changes))
    BY <1>1, <2>1, SeqDef
  <2>3. DOMAIN ss = 1..Len(list)
    BY <1>1
  <2> HIDE DEF ss
  <2>4. Len(ss) = Len(list)
    BY <1>1, <2>2, <2>3, LenProperties
  <2> QED BY <1>1, <2>2, <2>4 DEF ss
<1>3. s \in Seq(Changes)
  BY <1>2, FlattenType DEF AllChanges
<1>4. PICK w, v : Placed(s, ss, Len(list), w, v)
  BY <1>2, FlattenPlaces DEF AllChanges
<1> HIDE DEF ss, s
<1>5. PlacedIn(list, w, v)
  <2>1. \A k \in 1..Len(s) : /\ w[k] \in 1..Len(list)
                            /\ v[k] \in 1..Len(list[w[k]].changes)
                            /\ s[k] = list[w[k]].changes[v[k]]
    BY <1>2, <1>4 DEF Placed
  <2>2. \A i \in 1..Len(list) : \A j \in 1..Len(list[i].changes) :
           \E k \in 1..Len(s) : w[k] = i /\ v[k] = j
    <3> SUFFICES ASSUME NEW i \in 1..Len(list), NEW j \in 1..Len(list[i].changes)
                 PROVE  \E k \in 1..Len(s) : w[k] = i /\ v[k] = j
      OBVIOUS
    <3>1. j \in 1..Len(ss[i])
      BY <1>2
    <3> QED BY <1>4, <3>1 DEF Placed
  <2> QED BY <1>4, <2>1, <2>2 DEF Placed, PlacedIn, s
<1> QED BY <1>3, <1>5 DEF s

\* Where the write of a set to a file is among all changes of the list.
LEMMA WritePlaced ==
    ASSUME NEW list \in Seq(Entries), \A k \in 1..Len(list) : Apiece(list[k].changes),
           NEW p, NEW i \in Writers(list, p)
    PROVE  \E k \in 1..Len(AllChanges(list)) :
              LET s == AllChanges(list) IN
              /\ s[k] = WriteOn(list[i], p) /\ s[k].res = p
              /\ Final(list, p, i) => \A l \in 1..Len(s) : k < l => s[l].res # p
              /\ First(list, p, i) => \A l \in 1..Len(s) : l < k => s[l].res # p
<1> DEFINE s == AllChanges(list)
<1>1. Len(list) \in Nat /\ DOMAIN list = 1..Len(list) /\ \A n \in 1..Len(list) : list[n] \in Entries
  BY EntriesAreList
<1>2. s \in Seq(Changes) /\ Len(s) \in Nat
  <2>1. s \in Seq(Changes)
    BY AllPlaced
  <2> QED BY <2>1, LenProperties
<1>3. PICK w, v : PlacedIn(list, w, v)
  BY AllPlaced
<1>4. /\ \A k \in 1..Len(s) : /\ w[k] \in 1..Len(list)
                             /\ v[k] \in 1..Len(list[w[k]].changes)
                             /\ s[k] = list[w[k]].changes[v[k]]
      /\ \A k, l \in 1..Len(s) : k < l => w[k] < w[l] \/ (w[k] = w[l] /\ v[k] < v[l])
      /\ \A n \in 1..Len(list) : \A m \in 1..Len(list[n].changes) :
            \E k \in 1..Len(s) : w[k] = n /\ v[k] = m
  BY <1>3 DEF PlacedIn
<1> HIDE DEF s
<1>5. ASSUME NEW k \in 1..Len(s)
      PROVE  /\ w[k] \in 1..Len(list) /\ v[k] \in 1..Len(list[w[k]].changes)
             /\ s[k] = list[w[k]].changes[v[k]]
             /\ s[k].res = p => w[k] \in Writers(list, p)
  <2>1. /\ w[k] \in 1..Len(list) /\ v[k] \in 1..Len(list[w[k]].changes)
        /\ s[k] = list[w[k]].changes[v[k]]
    BY <1>4
  <2> QED BY <1>1, <2>1 DEF Writers, Writes
<1>6. i \in 1..Len(list) /\ Writes(list[i], p)
  BY <1>1 DEF Writers
<1>7. PICK j \in 1..Len(list[i].changes) : WriteOn(list[i], p) = list[i].changes[j]
  BY <1>1, <1>6, WriteOnIs
<1>8. list[i].changes[j].res = p
  BY <1>1, <1>6, <1>7, WriteOnIs
<1>9. PICK k \in 1..Len(s) : w[k] = i /\ v[k] = j
  BY <1>4, <1>6
<1>10. s[k] = WriteOn(list[i], p) /\ s[k].res = p
  BY <1>5, <1>7, <1>8, <1>9
<1>11. ASSUME NEW l \in 1..Len(s), s[l].res = p, w[l] = i PROVE v[l] = j
  <2>1. v[l] \in 1..Len(list[i].changes) /\ list[i].changes[v[l]].res = p
    BY <1>5, <1>11
  <2> QED BY <1>6, <1>8, <2>1 DEF Apiece
<1>12. \A l \in 1..Len(s) : v[l] \in Int /\ w[l] \in Int
  BY <1>5
<1>13. ASSUME Final(list, p, i), NEW l \in 1..Len(s), k < l, s[l].res = p PROVE FALSE
  <2>1. w[l] <= i
    BY <1>5, <1>13 DEF Final
  <2>2. i < w[l] \/ (w[l] = i /\ j < v[l])
    BY <1>4, <1>9, <1>13
  <2> QED BY <1>6, <1>11, <1>12, <1>13, <2>1, <2>2
<1>14. ASSUME First(list, p, i), NEW l \in 1..Len(s), l < k, s[l].res = p PROVE FALSE
  <2>1. i <= w[l]
    BY <1>5, <1>14 DEF First
  <2>2. w[l] < i \/ (w[l] = i /\ v[l] < j)
    BY <1>4, <1>9, <1>14
  <2> QED BY <1>6, <1>11, <1>12, <1>14, <2>1, <2>2
<1> QED BY <1>10, <1>13, <1>14 DEF s

\* All changes of a list of such sets are writes whose contents are known.
LEMMA AllKnown ==
    ASSUME NEW list \in Seq(Entries), NEW t, \A k \in 1..Len(list) : Known(list[k].changes, t)
    PROVE  /\ AllChanges(list) \in Seq(Changes) /\ Known(AllChanges(list), t)
           /\ \A k \in 1..Len(AllChanges(list)) :
                 Writers(list, AllChanges(list)[k].res) # {}
<1> DEFINE s == AllChanges(list)
<1>1. DOMAIN list = 1..Len(list)
  BY EntriesAreList
<1>2. s \in Seq(Changes)
  BY AllPlaced
<1>3. PICK w, v : PlacedIn(list, w, v)
  BY AllPlaced
<1>4. \A k \in 1..Len(s) : /\ w[k] \in 1..Len(list)
                          /\ v[k] \in 1..Len(list[w[k]].changes)
                          /\ s[k] = list[w[k]].changes[v[k]]
  BY <1>3 DEF PlacedIn
<1> HIDE DEF s
<1>5. ASSUME NEW k \in 1..Len(s)
      PROVE  /\ s[k].kind = "contents" /\ s[k].old # None /\ t[s[k].res] \in Data
             /\ Writers(list, s[k].res) # {}
  <2>1. /\ w[k] \in 1..Len(list) /\ v[k] \in 1..Len(list[w[k]].changes)
        /\ s[k] = list[w[k]].changes[v[k]]
    BY <1>4
  <2>2. w[k] \in Writers(list, s[k].res)
    BY <1>1, <2>1 DEF Writers, Writes
  <2> QED BY <2>1, <2>2 DEF Known
<1> QED BY <1>2, <1>5 DEF s, Known

\* The changes of all sets of the list in the order they are done, or undone.
Ordered(m, list) == InOrder(m, AllChanges(list))

\* Doing a list of such sets from its start, or undoing it from its end, always
\* succeeds; a file gets the text of the set that comes last on the way.
LEMMA RunOfList ==
    ASSUME NEW m \in {"do", "undo"}, NEW list \in Seq(Entries), NEW t \in Trees, WellFormed(t),
           \A k \in 1..Len(list) : WritesFiles(list[k], t)
    PROVE  LET r == RunAll(m, Ordered(m, list), t) IN
           /\ r.ok /\ r.tree \in Trees /\ OneShape(t, r.tree)
           /\ \A p \in Paths : Writers(list, p) = {} => r.tree[p] = t[p]
           /\ \A p \in Paths, i \in 1..Len(list) :
                 Final(list, p, i) /\ m = "do" => r.tree[p] = Reach("do", list[i], p)
           /\ \A p \in Paths, i \in 1..Len(list) :
                 First(list, p, i) /\ m = "undo" => r.tree[p] = Reach("undo", list[i], p)
<1> DEFINE s == AllChanges(list)
           plan == Ordered(m, list)
           r == RunAll(m, plan, t)
<1>1. /\ s \in Seq(Changes) /\ Known(s, t)
      /\ \A k \in 1..Len(s) : Writers(list, s[k].res) # {}
  BY AllKnown DEF WritesFiles
<1>2. Len(s) \in Nat
  BY <1>1, LenProperties
<1> HIDE DEF s
<1>3. plan \in Seq(Changes) /\ Len(plan) = Len(s) /\ Known(plan, t)
  BY <1>1, InOrderType, KnownInOrder DEF Ordered, s
<1>4. /\ m = "do" => \A k \in 1..Len(s) : plan[k] = s[k]
      /\ m = "undo" => \A k \in 1..Len(s) : plan[k] = s[Len(s) - k + 1]
  <2>1. m = "do" => plan = s
    BY DEF Ordered, InOrder, s
  <2>2. m = "undo" => plan = Seqs!Reverse(s)
    BY DEF Ordered, InOrder, s
  <2> HIDE DEF plan
  <2> QED BY <1>1, <2>1, <2>2, ReverseType
<1> HIDE DEF plan
<1>5. OnlyFiles(m, plan, t) /\ r.ok
  BY <1>3, WritesSucceed DEF Known, OnlyFiles
<1>6. RunWith(r, m, plan, Len(plan)) /\ WroteFiles(r, m, plan, t)
  BY <1>3, <1>5, WroteAll
<1> HIDE DEF r
<1>7. Len(r.done) = Len(s) /\ r.tree \in Trees
  BY <1>3, <1>5, <1>6 DEF RunWith
<1>8. \A k \in 1..Len(s) : Len(s) - k + 1 \in 1..Len(s)
  BY <1>2
<1>9. ASSUME NEW p \in Paths, Writers(list, p) = {} PROVE r.tree[p] = t[p]
  <2>1. \A k \in 1..Len(s) : plan[k].res # p
    BY <1>1, <1>4, <1>8, <1>9
  <2> QED BY <1>6, <1>7, <2>1 DEF WroteFiles
<1>10. ASSUME NEW p \in Paths, NEW k \in 1..Len(s), plan[k].res = p,
              \A l \in 1..Len(s) : k < l => plan[l].res # p
       PROVE  r.tree[p] = TextLeft(m, plan[k])
  BY <1>6, <1>7, <1>10 DEF WroteFiles
<1>11. \A k \in 1..Len(list) : Apiece(list[k].changes)
  BY DEF WritesFiles
<1>12. ASSUME NEW p \in Paths, NEW i \in 1..Len(list), Final(list, p, i), m = "do"
       PROVE  r.tree[p] = Reach("do", list[i], p)
  <2>0. i \in Writers(list, p)
    BY <1>12 DEF Final
  <2>1. PICK k \in 1..Len(s) : /\ s[k] = WriteOn(list[i], p) /\ s[k].res = p
                               /\ \A l \in 1..Len(s) : k < l => s[l].res # p
    BY <1>11, <1>12, <2>0, WritePlaced DEF s
  <2> QED BY <1>4, <1>10, <1>12, <2>1 DEF Reach
<1>13. ASSUME NEW p \in Paths, NEW i \in 1..Len(list), First(list, p, i), m = "undo"
       PROVE  r.tree[p] = Reach("undo", list[i], p)
  <2>0. i \in Writers(list, p)
    BY <1>13 DEF First
  <2>1. PICK k \in 1..Len(s) : /\ s[k] = WriteOn(list[i], p) /\ s[k].res = p
                               /\ \A l \in 1..Len(s) : l < k => s[l].res # p
    BY <1>11, <1>13, <2>0, WritePlaced DEF s
  <2> DEFINE n == Len(s) - k + 1
  <2>2. n \in 1..Len(s) /\ Len(s) - n + 1 = k
    BY <1>2
  <2>3. \A l \in 1..Len(s) : n < l => Len(s) - l + 1 \in 1..Len(s) /\ Len(s) - l + 1 < k
    BY <1>2
  <2> HIDE DEF n
  <2>4. plan[n] = s[k] /\ \A l \in 1..Len(s) : n < l => plan[l].res # p
    BY <1>4, <1>13, <2>1, <2>2, <2>3
  <2> QED BY <1>10, <1>13, <2>1, <2>2, <2>4 DEF Reach
<1> QED BY <1>5, <1>6, <1>7, <1>9, <1>12, <1>13 DEF r, plan, WroteFiles

\* Replaying a list of such sets.
LEMMA DoneList ==
    ASSUME NEW list \in Seq(Entries), NEW t \in Trees, WellFormed(t),
           \A k \in 1..Len(list) : WritesFiles(list[k], t)
    PROVE  LET r == Replay(t, list) IN
           /\ r.ok /\ r.tree \in Trees /\ OneShape(t, r.tree)
           /\ \A p \in Paths : Writers(list, p) = {} => r.tree[p] = t[p]
           /\ \A p \in Paths, i \in 1..Len(list) :
                 Final(list, p, i) => r.tree[p] = Reach("do", list[i], p)
<1> DEFINE r == RunAll("do", Ordered("do", list), t)
<1>1. /\ r.ok /\ r.tree \in Trees /\ OneShape(t, r.tree)
      /\ \A p \in Paths : Writers(list, p) = {} => r.tree[p] = t[p]
      /\ \A p \in Paths, i \in 1..Len(list) :
            Final(list, p, i) /\ "do" = "do" => r.tree[p] = Reach("do", list[i], p)
  BY RunOfList
<1>2. Replay(t, list) = r
  BY DEF Replay, Ordered, InOrder
<1> HIDE DEF r
<1> QED BY <1>1, <1>2

\* Undoing a list of such sets.
LEMMA UndoneList ==
    ASSUME NEW list \in Seq(Entries), NEW t \in Trees, WellFormed(t),
           \A k \in 1..Len(list) : WritesFiles(list[k], t)
    PROVE  LET r == RunAll("undo", Seqs!Reverse(AllChanges(list)), t) IN
           /\ r.ok /\ r.tree \in Trees /\ OneShape(t, r.tree)
           /\ \A p \in Paths : Writers(list, p) = {} => r.tree[p] = t[p]
           /\ \A p \in Paths, i \in 1..Len(list) :
                 First(list, p, i) => r.tree[p] = Reach("undo", list[i], p)
<1> DEFINE r == RunAll("undo", Ordered("undo", list), t)
<1>1. /\ r.ok /\ r.tree \in Trees /\ OneShape(t, r.tree)
      /\ \A p \in Paths : Writers(list, p) = {} => r.tree[p] = t[p]
      /\ \A p \in Paths, i \in 1..Len(list) :
            First(list, p, i) /\ "undo" = "undo" => r.tree[p] = Reach("undo", list[i], p)
  BY RunOfList
<1>2. RunAll("undo", Seqs!Reverse(AllChanges(list)), t) = r
  BY DEF Ordered, InOrder
<1> HIDE DEF r
<1> QED BY <1>1, <1>2

\* The same sets write files of any tree of the shape.
LEMMA WritesShape ==
    ASSUME NEW e \in Entries, NEW t, NEW u, OneShape(t, u), WritesFiles(e, t)
    PROVE  WritesFiles(e, u)
<1>1. \A i \in 1..Len(e.changes) : e.changes[i].res \in Paths
  <2>1. e.changes \in Seq(Changes)
    BY DEF Entries
  <2>2. \A i \in 1..Len(e.changes) : e.changes[i] \in Changes
    BY <2>1, ElementOfSeq
  <2> QED BY <2>2 DEF Changes
<1> QED BY <1>1 DEF WritesFiles, Known, OneShape

\* DataToChange of what ChangeToData wrote of a write is that write.
LEMMA LoadedWrites ==
    ASSUME NEW list \in Seq(Entries), NEW t, \A k \in 1..Len(list) : Known(list[k].changes, t)
    PROVE  Loaded(list) = list
<1>1. Len(list) \in Nat /\ DOMAIN list = 1..Len(list) /\ \A i \in 1..Len(list) : list[i] \in Entries
  BY EntriesAreList
<1>2. ASSUME NEW i \in 1..Len(list) PROVE LoadedEntry(list[i]) = list[i]
  <2> DEFINE s == list[i].changes
  <2>1. s \in Seq(Changes)
    BY <1>1 DEF Entries
  <2>2. Len(s) \in Nat /\ s \in [1..Len(s) -> Changes]
    BY <2>1, LenProperties
  <2>3. \A k \in 1..Len(s) : Reloaded(s[k]) = s[k]
    BY <1>2 DEF Known, Reloaded
  <2>4. ReloadedSet(s) = s
    <3> HIDE DEF s
    <3> QED BY <2>2, <2>3 DEF ReloadedSet
  <2>5. list[i] \in [id : Nat, changes : Seq(Changes)]
    BY <1>1 DEF Entries
  <2> QED BY <2>4, <2>5 DEF LoadedEntry
<1>3. Loaded(list) = [i \in 1..Len(list) |-> list[i]]
  BY <1>1, <1>2 DEF Loaded
<1>4. list = [i \in 1..Len(list) |-> list[i]]
  <2>1. list \in [1..Len(list) -> Entries]
    BY <1>1, LenProperties
  <2> QED BY <2>1
<1> QED BY <1>3, <1>4

-----------------------------------------------------------------------------
(* Histories of writes: what stays whatever happens *)

\* The projects begin as directories, and the callers build sets of writes to
\* different files.
FreshWrite(c) == c.kind = "contents" /\ c.folder = FALSE /\ c.old = None

WriteScripts ==
    /\ \A t \in InitTrees : WellFormed(t)
    /\ \A s \in Scripts : Apiece(s) /\ \A i \in 1..Len(s) : FreshWrite(s[i])

\* The sets in the lists and in the saved ones.
Recorded == Members \cup Elements(saved.undo) \cup Elements(saved.redo)

\* The same files stay there, and all that is recorded are writes to them whose
\* old contents are known.
ShapeInv ==
    /\ WellFormed(tree) /\ OneShape(tree, base)
    /\ \A e \in Recorded : WritesFiles(e, tree)

\* What is recorded are entries.
LEMMA RecordedEntries ==
    ASSUME TypeOK
    PROVE  /\ Recorded \in SUBSET Entries
           /\ \A list \in {undo_list, redo_list, saved.undo, saved.redo} :
                 /\ list \in Seq(Entries) /\ \A k \in 1..Len(list) : list[k] \in Recorded
                 /\ Elements(list) \in SUBSET Recorded
<1>1. ASSUME NEW list \in {undo_list, redo_list, saved.undo, saved.redo}
      PROVE  /\ list \in Seq(Entries) /\ DOMAIN list = 1..Len(list)
             /\ Elements(list) \in SUBSET Entries
  <2>1. list \in Seq(Entries)
    BY DEF TypeOK
  <2> QED BY <2>1, EntriesAreList DEF Elements
<1>2. \A list \in {undo_list, redo_list, saved.undo, saved.redo} : Elements(list) \in SUBSET Recorded
  BY DEF Recorded, Members
<1>3. \A list \in {undo_list, redo_list, saved.undo, saved.redo} :
         \A k \in 1..Len(list) : list[k] \in Recorded
  BY <1>1, <1>2 DEF Elements
<1>4. Recorded \in SUBSET Entries
  BY <1>1 DEF Recorded, Members
<1> QED BY <1>1, <1>2, <1>3, <1>4

\* What a step has to keep.
LEMMA ShapeStep ==
    ASSUME TypeOK, TypeOK', ShapeInv, OneShape(tree, tree'), OneShape(tree', base'),
           \A e \in Recorded' : e \in Recorded \/ WritesFiles(e, tree')
    PROVE  ShapeInv'
<1>1. WellFormed(tree')
  BY ShapeFolders DEF TypeOK, ShapeInv
<1>2. \A e \in Recorded' : WritesFiles(e, tree')
  BY RecordedEntries, WritesShape DEF ShapeInv
<1> QED BY <1>1, <1>2 DEF ShapeInv

\* The parts that trimming makes hold nothing else.
LEMMA TrimmedElements ==
    ASSUME NEW list \in Seq(Entries)
    PROVE  /\ Elements(Trimmed(list)) \in SUBSET Elements(list)
           /\ Elements(Forgotten(list)) \in SUBSET Elements(list)
<1>1. Len(list) \in Nat /\ MaxUndos \in Nat /\ IsList(list)
  BY EntriesAreList, HistoryAssumption
<1>2. /\ Excess(list) + 1 \in 1..(Len(list) + 1) /\ Len(list) \in 0..Len(list)
      /\ 1 \in 1..(Len(list) + 1) /\ Excess(list) \in 0..Len(list)
  BY <1>1 DEF Excess
<1> QED BY <1>1, <1>2, PartKeepsOrder DEF Trimmed, Forgotten, Thinned

\* Forgetting sets of writes moves the start within the shape.
LEMMA ForgottenShape ==
    ASSUME NEW list \in Seq(Entries), NEW t \in Trees, NEW u \in Trees, WellFormed(t), OneShape(t, u),
           \A e \in Elements(list) : WritesFiles(e, t)
    PROVE  OneShape(t, Replay(u, Forgotten(list)).tree)
<1> DEFINE part == Forgotten(list)
<1>1. part \in Seq(Entries) /\ Elements(part) \in SUBSET Elements(list)
  BY TrimmedType, TrimmedElements
<1> HIDE DEF part
<1>2. DOMAIN part = 1..Len(part) /\ \A k \in 1..Len(part) : part[k] \in Entries
  BY <1>1, EntriesAreList
<1>3. \A k \in 1..Len(part) : WritesFiles(part[k], t)
  BY <1>1, <1>2 DEF Elements
<1>4. \A k \in 1..Len(part) : WritesFiles(part[k], u)
  BY <1>2, <1>3, WritesShape
<1>5. WellFormed(u)
  BY ShapeFolders
<1>6. OneShape(u, Replay(u, part).tree)
  BY <1>1, <1>4, <1>5, DoneList
<1> QED BY <1>6, ShapeTrans DEF part

\* Building a set of writes leaves it as the caller wrote it.
LEMMA BuiltWrites ==
    ASSUME WriteScripts, NEW s \in Scripts, NEW t
    PROVE  s \in Seq(Changes) /\ Built(s, t) = s
<1>1. s \in Seq(Changes)
  BY HistoryAssumption
<1>2. Len(s) \in Nat /\ s \in [1..Len(s) -> Changes]
  BY <1>1, LenProperties
<1>3. \A i \in 1..Len(s) : BuiltOne(s[i], t) = s[i]
  BY DEF WriteScripts, FreshWrite, BuiltOne
<1> QED BY <1>1, <1>2, <1>3 DEF Built

\* History.do of the set s, which ended with outcome o.
DoneAs(s, o) ==
    LET grown == Append(undo_list, [id |-> built, changes |-> o.changes]) IN
    /\ s \in Seq(Changes) /\ o \in Outcomes("do", s, tree)
    /\ tree' = o.tree /\ saved' = saved /\ run' = run
    /\ redo_list' = IF o.ok THEN <<>> ELSE redo_list
    /\ o.ok /\ IsInteresting(s) => /\ undo_list' = Trimmed(grown)
                                   /\ base' = Replay(base, Forgotten(grown)).tree
    /\ ~(o.ok /\ IsInteresting(s)) => undo_list' = undo_list /\ base' = base

\* What callers do are sets of writes as they built them.
LEMMA DoOfWrites ==
    ASSUME WriteScripts, TypeOK, Do
    PROVE  \E s \in Scripts : \E o \in Ends("do", s) : DoneAs(s, o)
<1>1. PICK s \in Scripts :
         \E o \in Ends("do", Built(s, tree)) :
              LET grown == Append(undo_list, [id |-> built, changes |-> o.changes]) IN
              /\ tree' = o.tree
              /\ redo_list' = IF o.ok THEN <<>> ELSE redo_list
              /\ IF o.ok /\ IsInteresting(Built(s, tree))
                 THEN /\ undo_list' = Trimmed(grown)
                      /\ base' = Replay(base, Forgotten(grown)).tree
                 ELSE UNCHANGED <<undo_list, base>>
  BY DEF Do
<1>2. s \in Seq(Changes) /\ Built(s, tree) = s
  BY BuiltWrites
<1>3. PICK o \in Ends("do", s) :
              LET grown == Append(undo_list, [id |-> built, changes |-> o.changes]) IN
              /\ tree' = o.tree
              /\ redo_list' = IF o.ok THEN <<>> ELSE redo_list
              /\ IF o.ok /\ IsInteresting(s)
                 THEN /\ undo_list' = Trimmed(grown)
                      /\ base' = Replay(base, Forgotten(grown)).tree
                 ELSE UNCHANGED <<undo_list, base>>
  BY <1>1, <1>2
<1>4. o \in Outcomes("do", s, tree)
  BY DEF Ends, Outcomes
<1>5. saved' = saved /\ run' = run
  BY DEF Do
<1> QED BY <1>2, <1>3, <1>4, <1>5 DEF DoneAs

\* A call that does not raise is the whole set.
LEMMA OkIsWhole ==
    ASSUME NEW m, NEW s, NEW t, NEW o \in Outcomes(m, s, t), o.ok
    PROVE  o = RunSet(m, s, t)
BY DEF Outcomes

\* A set that was done writes its files, knows what they held, and has left its
\* texts in them.
LEMMA DoneWrites ==
    ASSUME NEW s \in Seq(Changes), NEW t \in Trees, Apiece(s),
           \A i \in 1..Len(s) : FreshWrite(s[i]),
           NEW o, o = RunSet("do", s, t), o.ok, NEW e \in Entries, e.changes = o.changes
    PROVE  /\ WritesFiles(e, t)
           /\ \A p \in Paths : Writes(e, p) =>
                 /\ \E i \in 1..Len(s) : s[i].res = p
                 /\ Reach("undo", e, p) = Text(t, p) /\ o.tree[p] = Reach("do", e, p)
           /\ \A p \in Paths : ~Writes(e, p) => o.tree[p] = t[p]
<1>1. /\ Wrote("do", s, t, o.tree)
      /\ e.changes \in Seq(Changes) /\ Len(e.changes) = Len(s)
      /\ \A i \in 1..Len(s) : /\ Like(e.changes[i], s[i])
                              /\ e.changes[i].old # None
                              /\ t[s[i].res] \in Data
                              /\ e.changes[i].old = Decode[t[s[i].res]]
  BY FreshSet DEF FreshWrite
<1>2. \A i \in 1..Len(s) : e.changes[i].res = s[i].res /\ e.changes[i].kind = "contents"
                           /\ e.changes[i].new = s[i].new /\ e.changes[i].folder = FALSE
  BY <1>1 DEF Like, FreshWrite
<1>3. WritesFiles(e, t)
  BY <1>1, <1>2 DEF WritesFiles, Known, Apiece
<1>4. ASSUME NEW p \in Paths, Writes(e, p)
      PROVE  /\ \E i \in 1..Len(s) : s[i].res = p
             /\ Reach("undo", e, p) = Text(t, p) /\ o.tree[p] = Reach("do", e, p)
  <2>1. PICK i \in 1..Len(s) : WriteOn(e, p) = e.changes[i] /\ e.changes[i].res = p
    BY <1>1, <1>4, WriteOnIs
  <2>2. s[i].res = p /\ WriteOn(e, p).old = Decode[t[p]] /\ WriteOn(e, p).new = s[i].new
    BY <1>1, <1>2, <2>1
  <2>3. o.tree[p] = s[i].new
    BY <1>1, <2>2 DEF Wrote, TextLeft
  <2> QED BY <2>2, <2>3 DEF Reach, TextLeft, Text
<1>5. ASSUME NEW p \in Paths, ~Writes(e, p) PROVE o.tree[p] = t[p]
  BY <1>1, <1>2, <1>5 DEF Wrote, Writes
<1> QED BY <1>3, <1>4, <1>5

\* Doing a set of writes keeps the shape.
LEMMA DoShape ==
    ASSUME WriteScripts
    PROVE  TypeOK /\ TypeOK' /\ ShapeInv /\ Do => ShapeInv'
<1> SUFFICES ASSUME TypeOK, TypeOK', ShapeInv, Do PROVE ShapeInv'
  OBVIOUS
<1>0. PICK s \in Scripts : \E o \in Ends("do", s) : DoneAs(s, o)
  BY DoOfWrites
<1>1. PICK o \in Ends("do", s) : DoneAs(s, o)
  BY <1>0
<1>2. LET grown == Append(undo_list, [id |-> built, changes |-> o.changes]) IN
      /\ s \in Seq(Changes) /\ o \in Outcomes("do", s, tree)
      /\ tree' = o.tree /\ saved' = saved
      /\ redo_list' = IF o.ok THEN <<>> ELSE redo_list
      /\ o.ok /\ IsInteresting(s) => /\ undo_list' = Trimmed(grown)
                                     /\ base' = Replay(base, Forgotten(grown)).tree
      /\ ~(o.ok /\ IsInteresting(s)) => undo_list' = undo_list /\ base' = base
  BY <1>1 DEF DoneAs
<1> DEFINE e == [id |-> built, changes |-> o.changes]
           grown == Append(undo_list, e)
<1>3. OnlyFiles("do", s, tree)
  BY DEF WriteScripts, FreshWrite, OnlyFiles
<1>4. tree \in Trees /\ tree' \in Trees /\ base \in Trees /\ base' \in Trees
  BY DEF TypeOK
<1>5. OneShape(tree, tree') /\ OneShape(tree', tree)
  <2>1. OneShape(tree, tree')
    BY <1>2, <1>3, <1>4, OutcomeShape
  <2> QED BY <1>4, <2>1, ShapeFolders
<1>6. OneShape(tree, base)
  BY DEF ShapeInv
<1>7. Elements(redo_list') \in SUBSET Elements(redo_list) /\ Elements(saved'.undo) = Elements(saved.undo)
      /\ Elements(saved'.redo) = Elements(saved.redo)
  BY <1>2 DEF Elements
<1>8. CASE ~(o.ok /\ IsInteresting(s))
  <2>1. undo_list' = undo_list /\ base' = base
    BY <1>2, <1>8
  <2>2. Recorded' \in SUBSET Recorded
    BY <1>7, <2>1 DEF Recorded, Members
  <2>3. OneShape(tree', base')
    BY <1>5, <1>6, <2>1, ShapeTrans
  <2> QED BY <1>5, <2>2, <2>3, ShapeStep
<1>9. CASE o.ok /\ IsInteresting(s)
  <2>1. undo_list' = Trimmed(grown) /\ base' = Replay(base, Forgotten(grown)).tree
    BY <1>2, <1>9
  <2>2. o = RunSet("do", s, tree)
    BY <1>2, <1>9, OkIsWhole
  <2>3. e \in Entries /\ e.changes = o.changes
    <3>1. o.changes \in Seq(Changes)
      BY <1>2, EndsType DEF TypeOK
    <3>2. built \in Nat
      BY HistoryAssumption DEF TypeOK
    <3> QED BY <3>1, <3>2 DEF Entries
  <2> HIDE DEF e
  <2>4. WritesFiles(e, tree)
    BY <1>2, <1>4, <1>9, <2>2, <2>3, DoneWrites DEF WriteScripts
  <2>5. undo_list \in Seq(Entries) /\ grown \in Seq(Entries)
    BY <2>3, AppendProperties DEF TypeOK
  <2>6. Elements(grown) \in SUBSET (Elements(undo_list) \cup {e})
    <3>1. Len(undo_list) \in Nat /\ DOMAIN undo_list = 1..Len(undo_list) /\ DOMAIN grown = 1..Len(grown)
      BY <2>5, EntriesAreList
    <3>2. Len(grown) = Len(undo_list) + 1 /\ grown[Len(undo_list) + 1] = e
          /\ \A i \in 1..Len(undo_list) : grown[i] = undo_list[i]
      BY <2>3, <2>5, AppendProperties
    <3>3. \A i \in 1..Len(grown) : i \in 1..Len(undo_list) \/ i = Len(undo_list) + 1
      BY <3>1, <3>2
    <3> HIDE DEF grown
    <3> QED BY <3>1, <3>2, <3>3 DEF Elements
  <2> HIDE DEF grown
  <2>7. \A x \in Elements(grown) : WritesFiles(x, tree)
    BY <2>4, <2>6 DEF ShapeInv, Recorded, Members
  <2>8. Elements(undo_list') \in SUBSET (Elements(undo_list) \cup {e})
    BY <2>1, <2>5, <2>6, TrimmedElements
  <2>9. OneShape(tree, base')
    BY <1>4, <1>6, <2>1, <2>5, <2>7, ForgottenShape DEF ShapeInv
  <2>10. OneShape(tree', base')
    BY <1>5, <2>9, ShapeTrans
  <2>11. Recorded' \in SUBSET (Recorded \cup {e})
    BY <1>7, <2>8 DEF Recorded, Members
  <2>12. WritesFiles(e, tree')
    BY <1>5, <2>3, <2>4, WritesShape
  <2> QED BY <1>5, <2>10, <2>11, <2>12, ShapeStep
<1> QED BY <1>8, <1>9

\* Undoing and redoing such sets keeps the shape, and when no task is stopped
\* it succeeds.
LEMMA WritesEnd ==
    ASSUME NEW m \in {"do", "undo"}, NEW e \in Entries, tree \in Trees, WellFormed(tree),
           WritesFiles(e, tree), NEW o \in Ends(m, e.changes)
    PROVE  /\ OneShape(tree, o.tree)
           /\ "interrupt" \notin Features =>
                 /\ o.ok
                 /\ \A p \in Paths : /\ Writes(e, p) => o.tree[p] = Reach(m, e, p)
                                     /\ ~Writes(e, p) => o.tree[p] = tree[p]
<1>1. e.changes \in Seq(Changes)
  BY DEF Entries
<1>2. o \in Outcomes(m, e.changes, tree)
  BY DEF Ends, Outcomes
<1>3. OnlyFiles(m, e.changes, tree)
  BY DEF OnlyFiles, WritesFiles, Known
<1>4. OneShape(tree, o.tree)
  BY <1>1, <1>2, <1>3, OutcomeShape
<1>5. ASSUME "interrupt" \notin Features
      PROVE  /\ o.ok
             /\ \A p \in Paths : /\ Writes(e, p) => o.tree[p] = Reach(m, e, p)
                                 /\ ~Writes(e, p) => o.tree[p] = tree[p]
  <2>1. o = RunSet(m, e.changes, tree)
    BY <1>5 DEF Ends
  <2>2. o.ok /\ Wrote(m, e.changes, tree, o.tree)
    BY <1>1, <2>1, KnownSet DEF WritesFiles
  <2>3. ASSUME NEW p \in Paths, Writes(e, p) PROVE o.tree[p] = Reach(m, e, p)
    <3>1. PICK i \in 1..Len(e.changes) : WriteOn(e, p) = e.changes[i]
      BY <2>3, WriteOnIs
    <3>2. e.changes[i].res = p
      BY <2>3, <3>1, WriteOnIs
    <3> QED BY <2>2, <3>1, <3>2 DEF Wrote, Reach
  <2>4. ASSUME NEW p \in Paths, ~Writes(e, p) PROVE o.tree[p] = tree[p]
    BY <2>2, <2>4 DEF Wrote, Writes
  <2> QED BY <2>2, <2>3, <2>4
<1> QED BY <1>4, <1>5

\* The last set of a list is in the list, and the others stay in it.
LEMMA LastRecorded ==
    ASSUME NEW list \in Seq(Entries), Len(list) > 0, NEW other \in Seq(Entries)
    PROVE  /\ LastOf(list) \in Entries /\ LastOf(list) \in Elements(list)
           /\ Elements(Popped(list)) \in SUBSET Elements(list)
           /\ Elements(Append(other, LastOf(list))) \in SUBSET (Elements(list) \cup Elements(other))
<1>1. Len(list) \in Nat /\ DOMAIN list = 1..Len(list) /\ IsList(list) /\ IsList(other)
  BY EntriesAreList
<1>2. LastOf(list) \in Entries /\ LastOf(list) \in Elements(list)
  <2>1. Len(list) \in 1..Len(list)
    BY <1>1
  <2> QED BY <1>1, <2>1, EntriesAreList DEF LastOf, Elements
<1> QED BY <1>1, <1>2, PointMoves

\* A round of undo or of redo keeps the shape.
LEMMA PerformShapes ==
    TypeOK /\ TypeOK' /\ BoundedInv /\ ShapeInv /\ (PerformUndo \/ PerformRedo) => ShapeInv'
<1> SUFFICES ASSUME TypeOK, TypeOK', BoundedInv, ShapeInv, PerformUndo \/ PerformRedo
             PROVE  ShapeInv'
  OBVIOUS
<1>1. /\ tree \in Trees /\ tree' \in Trees /\ base \in Trees /\ base' \in Trees
      /\ undo_list \in Seq(Entries) /\ redo_list \in Seq(Entries)
      /\ Len(undo_list) \in Nat /\ Len(redo_list) \in Nat /\ run.left \in Nat
  BY LenProperties DEF TypeOK
<1>20. \E m \in {"do", "undo"}, e \in Recorded : \E o \in Ends(m, e.changes) :
         /\ e \in Entries /\ tree' = o.tree /\ base' = base /\ saved' = saved
         /\ Members' \in SUBSET Members
  <2>1. CASE PerformUndo
    <3>1. run.op = "undo" /\ run.left > 0 /\ UNCHANGED <<saved, built, base>>
      BY <2>1 DEF PerformUndo
    <3>2. Len(undo_list) > 0
      BY <1>1, <3>1 DEF BoundedInv, RoundsLeft
    <3>3. /\ LastOf(undo_list) \in Entries /\ LastOf(undo_list) \in Elements(undo_list)
          /\ Elements(Popped(undo_list)) \in SUBSET Elements(undo_list)
          /\ Elements(Append(redo_list, LastOf(undo_list))) \in
                SUBSET (Elements(undo_list) \cup Elements(redo_list))
      BY <1>1, <3>2, LastRecorded
    <3>4. PICK o \in Ends("undo", LastOf(undo_list).changes) :
             /\ tree' = o.tree
             /\ \/ /\ undo_list' = Popped(undo_list)
                   /\ redo_list' = Append(redo_list, LastOf(undo_list))
                \/ UNCHANGED <<undo_list, redo_list>>
      BY <2>1 DEF PerformUndo
    <3>5. Members' \in SUBSET Members
      BY <3>3, <3>4 DEF Members
    <3> QED BY <3>1, <3>3, <3>4, <3>5 DEF Recorded, Members
  <2>2. CASE PerformRedo
    <3>1. run.op = "redo" /\ run.left > 0 /\ UNCHANGED <<saved, built, base>>
      BY <2>2 DEF PerformRedo
    <3>2. Len(redo_list) > 0
      BY <1>1, <3>1 DEF BoundedInv, RoundsLeft
    <3>3. /\ LastOf(redo_list) \in Entries /\ LastOf(redo_list) \in Elements(redo_list)
          /\ Elements(Popped(redo_list)) \in SUBSET Elements(redo_list)
          /\ Elements(Append(undo_list, LastOf(redo_list))) \in
                SUBSET (Elements(redo_list) \cup Elements(undo_list))
      BY <1>1, <3>2, LastRecorded
    <3>4. PICK o \in Ends("do", LastOf(redo_list).changes) :
             /\ tree' = o.tree
             /\ \/ /\ redo_list' = Popped(redo_list)
                   /\ undo_list' = Append(undo_list, LastOf(redo_list))
                \/ UNCHANGED <<undo_list, redo_list>>
      BY <2>2 DEF PerformRedo
    <3>5. Members' \in SUBSET Members
      BY <3>3, <3>4 DEF Members
    <3> QED BY <3>1, <3>3, <3>4, <3>5 DEF Recorded, Members
  <2> QED BY <2>1, <2>2
<1>21. PICK m \in {"do", "undo"}, e \in Recorded : \E o \in Ends(m, e.changes) :
         /\ e \in Entries /\ tree' = o.tree /\ base' = base /\ saved' = saved
         /\ Members' \in SUBSET Members
  BY <1>20
<1>2. PICK o \in Ends(m, e.changes) :
         /\ e \in Entries /\ tree' = o.tree /\ base' = base /\ saved' = saved
         /\ Members' \in SUBSET Members
  BY <1>21
<1>3. OneShape(tree, tree')
  BY <1>1, <1>2, WritesEnd DEF ShapeInv
<1>4. OneShape(tree', base')
  <2>1. OneShape(tree', tree)
    BY <1>1, <1>3, ShapeFolders
  <2> QED BY <1>2, <2>1, ShapeTrans DEF ShapeInv
<1>5. Recorded' \in SUBSET Recorded
  BY <1>2 DEF Recorded
<1> QED BY <1>3, <1>4, <1>5, ShapeStep

\* What is loaded is what was saved.
LEMMA LoadIsSaved ==
    ASSUME TypeOK, ShapeInv, Load
    PROVE  undo_list' = saved.undo /\ redo_list' = saved.redo
<1>1. ASSUME NEW list \in {saved.undo, saved.redo} PROVE Loaded(list) = list
  <2>1. list \in Seq(Entries) /\ \A k \in 1..Len(list) : list[k] \in Recorded
    BY RecordedEntries
  <2>2. \A k \in 1..Len(list) : Known(list[k].changes, tree)
    BY <2>1 DEF ShapeInv, WritesFiles
  <2> QED BY <2>1, <2>2, LoadedWrites
<1> QED BY <1>1 DEF Load

\* Nothing is recorded that was not, and the project and the start stay.
LEMMA ShapeStays ==
    ASSUME TypeOK, TypeOK', ShapeInv, tree' = tree, base' \in {base, tree},
           Recorded' \in SUBSET Recorded
    PROVE  ShapeInv'
<1>1. tree \in Trees /\ OneShape(tree, tree)
  BY DEF TypeOK, OneShape
<1> QED BY <1>1, ShapeStep DEF ShapeInv

\* The beginning of undo and of redo keeps the shape.
LEMMA StartShapes ==
    TypeOK /\ TypeOK' /\ ShapeInv /\ (StartUndo \/ StartRedo) => ShapeInv'
<1> SUFFICES ASSUME TypeOK, TypeOK', ShapeInv, StartUndo \/ StartRedo PROVE ShapeInv'
  OBVIOUS
<1>1. IsList(undo_list) /\ IsList(redo_list)
  BY EntriesAreList DEF TypeOK
<1>2. /\ tree' = tree /\ base' = base /\ saved' = saved
      /\ Elements(undo_list') \in SUBSET Elements(undo_list)
      /\ Elements(redo_list') \in SUBSET Elements(redo_list)
  <2>1. CASE StartUndo
    <3>1. PICK chosen \in DOMAIN undo_list, drop \in {FALSE} \cup {"drop" \in Features} :
             Undo(chosen, drop)
      BY <2>1 DEF StartUndo
    <3>2. FindDependencies(undo_list, chosen) \in SUBSET DOMAIN undo_list
      BY <1>1, FoundInList
    <3>3. /\ undo_list' = MoveFront(undo_list, FindDependencies(undo_list, chosen))
          /\ UNCHANGED <<tree, redo_list, saved, base>>
      BY <3>1 DEF Undo
    <3> QED BY <1>1, <3>2, <3>3, MovedElements
  <2>2. CASE StartRedo
    <3>1. PICK chosen \in DOMAIN redo_list : Redo(chosen)
      BY <2>2 DEF StartRedo
    <3>2. FindDependencies(redo_list, chosen) \in SUBSET DOMAIN redo_list
      BY <1>1, FoundInList
    <3>3. /\ redo_list' = MoveFront(redo_list, FindDependencies(redo_list, chosen))
          /\ UNCHANGED <<tree, undo_list, saved, base>>
      BY <3>1 DEF Redo
    <3> QED BY <1>1, <3>2, <3>3, MovedElements
  <2> QED BY <2>1, <2>2
<1>3. Recorded' \in SUBSET Recorded
  BY <1>2 DEF Recorded, Members
<1> QED BY <1>2, <1>3, ShapeStays

\* The end of a call, clear, close, and what a session begins with.
LEMMA SessionShapes ==
    TypeOK /\ TypeOK' /\ BoundedInv /\ ShapeInv
        /\ (Finish \/ Clear \/ Save \/ Restart \/ Crash \/ TornSave) => ShapeInv'
<1> SUFFICES ASSUME TypeOK, TypeOK', BoundedInv, ShapeInv,
                    Finish \/ Clear \/ Save \/ Restart \/ Crash \/ TornSave
             PROVE  ShapeInv'
  OBVIOUS
<1>1. Elements(<<>>) = {}
  BY DEF Elements
<1>2. CASE Finish
  <2>1. Len(redo_list) \in Nat /\ run.drop \in Nat /\ run.drop <= Len(redo_list)
    BY <1>2, LenProperties DEF Finish, TypeOK, BoundedInv, RoundsLeft
  <2>2. 1 \in 1..(Len(redo_list) + 1) /\ Len(redo_list) - run.drop \in 0..Len(redo_list)
    BY <2>1
  <2>3. redo_list' = SubSeq(redo_list, 1, Len(redo_list) - run.drop)
        /\ UNCHANGED <<tree, undo_list, saved, base>>
    BY <1>2 DEF Finish
  <2>4. Elements(redo_list') \in SUBSET Elements(redo_list)
    BY <2>2, <2>3, EntriesAreList, PartKeepsOrder DEF Thinned, TypeOK
  <2>5. Recorded' \in SUBSET Recorded
    BY <2>3, <2>4 DEF Recorded, Members
  <2> QED BY <2>3, <2>5, ShapeStays
<1>3. CASE Clear
  <2>1. undo_list' = <<>> /\ redo_list' = <<>> /\ base' = tree /\ UNCHANGED <<tree, saved>>
    BY <1>3 DEF Clear
  <2>2. Recorded' \in SUBSET Recorded
    BY <1>1, <2>1 DEF Recorded, Members
  <2> QED BY <2>1, <2>2, ShapeStays
<1>4. CASE Save
  <2>1. /\ undo_list' = Trimmed(undo_list) /\ redo_list' = redo_list /\ tree' = tree
        /\ saved'.undo = undo_list' /\ saved'.redo = redo_list
        /\ base' = Replay(base, Forgotten(undo_list)).tree
    BY <1>4 DEF Save
  <2>2. Elements(undo_list') \in SUBSET Elements(undo_list)
    BY <2>1, TrimmedElements DEF TypeOK
  <2>3. Recorded' \in SUBSET Recorded
    BY <2>1, <2>2 DEF Recorded, Members
  <2>4. tree \in Trees /\ base \in Trees /\ undo_list \in Seq(Entries)
    BY DEF TypeOK
  <2>5. \A e \in Elements(undo_list) : WritesFiles(e, tree)
    BY DEF ShapeInv, Recorded, Members
  <2>6. OneShape(tree, base')
    BY <2>1, <2>4, <2>5, ForgottenShape DEF ShapeInv
  <2>7. OneShape(tree, tree')
    BY <2>1 DEF OneShape
  <2> QED BY <2>1, <2>3, <2>6, <2>7, ShapeStep
<1>5. ASSUME Load, UNCHANGED <<tree, saved>>, base' \in {base, tree} PROVE ShapeInv'
  <2>1. undo_list' = saved.undo /\ redo_list' = saved.redo
    BY <1>5, LoadIsSaved
  <2>2. Recorded' \in SUBSET Recorded
    BY <1>5, <2>1 DEF Recorded, Members
  <2> QED BY <1>5, <2>2, ShapeStays
<1>6. CASE Restart
  BY <1>5, <1>6 DEF Restart
<1>7. CASE Crash
  BY <1>5, <1>7 DEF Crash
<1>8. CASE TornSave
  <2>1. /\ undo_list' = <<>> /\ redo_list' = <<>> /\ base' = tree /\ tree' = tree
        /\ saved'.undo = <<>> /\ saved'.redo = <<>>
    BY <1>8 DEF TornSave, NoData
  <2>2. Recorded' \in SUBSET Recorded
    BY <1>1, <2>1 DEF Recorded, Members
  <2> QED BY <2>1, <2>2, ShapeStays
<1> QED BY <1>2, <1>3, <1>4, <1>6, <1>7, <1>8

\* Histories of writes keep the files of the project where they are.
LEMMA ShapeInductive ==
    ASSUME WriteScripts
    PROVE  Spec => []ShapeInv
<1>1. Init => ShapeInv
  <2> SUFFICES ASSUME Init PROVE ShapeInv
    OBVIOUS
  <2>1. /\ tree \in InitTrees /\ base = tree /\ undo_list = <<>> /\ redo_list = <<>>
        /\ saved.undo = <<>> /\ saved.redo = <<>>
    BY DEF Init, NoData
  <2>2. tree \in Trees /\ WellFormed(tree)
    BY <2>1, HistoryAssumption DEF WriteScripts
  <2>3. Recorded = {}
    BY <2>1 DEF Recorded, Members, Elements
  <2>4. OneShape(tree, tree)
    BY DEF OneShape
  <2> QED BY <2>1, <2>2, <2>3, <2>4 DEF ShapeInv
<1>2. TypeOK /\ TypeOK' /\ BoundedInv /\ ShapeInv /\ [Next]_vars => ShapeInv'
  <2>1. ASSUME TypeOK, TypeOK', ShapeInv, UNCHANGED vars PROVE ShapeInv'
    <3>1. Recorded' = Recorded /\ tree' = tree /\ base' = base
      BY <2>1 DEF vars, Recorded, Members, Elements
    <3> QED BY <2>1, <3>1, ShapeStays
  <2> QED BY <2>1, DoShape, StartShapes, PerformShapes, SessionShapes DEF Next
<1> QED BY <1>1, <1>2, TypeCorrect, BoundedInductive, PTL DEF Spec

\* A list turned round is a list of the same entries.
LEMMA ListTurned ==
    ASSUME NEW list \in Seq(Entries)
    PROVE  /\ Seqs!Reverse(list) \in Seq(Entries)
           /\ \A k \in 1..Len(Seqs!Reverse(list)) : Seqs!Reverse(list)[k] \in Elements(list)
<1> DEFINE turned == Seqs!Reverse(list)
<1>1. /\ turned \in Seq(Entries) /\ Len(turned) = Len(list)
      /\ \A k \in 1..Len(list) : turned[k] = list[Len(list) - k + 1]
  BY ReverseType
<1>2. Len(list) \in Nat /\ DOMAIN list = 1..Len(list)
  BY EntriesAreList
<1>3. \A k \in 1..Len(list) : Len(list) - k + 1 \in 1..Len(list)
  BY <1>2
<1> HIDE DEF turned
<1>4. \A k \in 1..Len(turned) : turned[k] \in Elements(list)
  BY <1>1, <1>2, <1>3 DEF Elements
<1> QED BY <1>1, <1>4 DEF turned

\* In a history of writes what was undone can always be redone, the last undone
\* first: after every undo and redo of chosen change sets, also with drop, after
\* every stopped task, every load of a saved history and every crash.
THEOREM WritesRedoAll ==
    ASSUME WriteScripts
    PROVE  Spec => []RedoListReplays
<1>1. ASSUME TypeOK, ShapeInv PROVE RedoListReplays
  <2> DEFINE turned == Seqs!Reverse(redo_list)
  <2>1. redo_list \in Seq(Entries) /\ tree \in Trees
    BY <1>1 DEF TypeOK
  <2>2. turned \in Seq(Entries) /\ \A k \in 1..Len(turned) : turned[k] \in Elements(redo_list)
    BY <2>1, ListTurned
  <2> HIDE DEF turned
  <2>3. \A k \in 1..Len(turned) : WritesFiles(turned[k], tree)
    BY <1>1, <2>2 DEF ShapeInv, Recorded, Members
  <2>4. WellFormed(tree)
    BY <1>1 DEF ShapeInv
  <2>5. Replay(tree, turned).ok
    BY <2>1, <2>2, <2>3, <2>4, DoneList
  <2> QED BY <2>5 DEF RedoListReplays, turned
<1> QED BY <1>1, TypeCorrect, ShapeInductive, PTL

\* In a history of writes that no task stops and no process death cuts short, a
\* round of undo or redo that was begun moves its change set: undo and redo never
\* raise, whichever sets are chosen, in whatever order, with drop or without.
THEOREM WritesRounds ==
    ASSUME WriteScripts, "interrupt" \notin Features, "crash" \notin Features
    PROVE  Spec => RoundsSucceed
<1> DEFINE Round == run.op # "none" /\ run.left > 0 => run'.left = run.left - 1
<1>1. TypeOK /\ BoundedInv /\ ShapeInv /\ [Next]_vars => [Round]_vars
  <2> SUFFICES ASSUME TypeOK, BoundedInv, ShapeInv, Next, run.op # "none", run.left > 0
               PROVE  run'.left = run.left - 1
    BY DEF vars
  <2>1. /\ undo_list \in Seq(Entries) /\ redo_list \in Seq(Entries)
        /\ Len(undo_list) \in Nat /\ Len(redo_list) \in Nat
        /\ run \in [op : {"none", "undo", "redo"}, left : Nat, drop : Nat]
        /\ tree \in Trees /\ WellFormed(tree)
    BY LenProperties DEF TypeOK, ShapeInv
  <2>2. run # Idle /\ run.left # 0
    BY <2>1 DEF Idle
  <2>3. PerformUndo \/ PerformRedo
    BY <2>2 DEF Next, Do, StartUndo, Undo, StartRedo, Redo, Finish, Clear, Save, Restart,
                Crash, TornSave, Ready
  <2>4. Continue.left = run.left - 1
    BY <2>1 DEF Continue
  <2>5. CASE PerformUndo
    <3>1. run.op = "undo"
      BY <2>5 DEF PerformUndo
    <3>2. Len(undo_list) > 0
      BY <2>1, <3>1 DEF BoundedInv, RoundsLeft
    <3>3. LastOf(undo_list) \in Entries /\ LastOf(undo_list) \in Elements(undo_list)
      BY <2>1, <3>2, LastRecorded
    <3>4. WritesFiles(LastOf(undo_list), tree)
      BY <3>3 DEF ShapeInv, Recorded, Members
    <3>5. \A o \in Ends("undo", LastOf(undo_list).changes) : o.ok
      BY <2>1, <3>3, <3>4, WritesEnd
    <3>6. run' = Continue
      BY <2>5, <3>5 DEF PerformUndo
    <3> QED BY <2>4, <3>6
  <2>6. CASE PerformRedo
    <3>1. run.op = "redo"
      BY <2>6 DEF PerformRedo
    <3>2. Len(redo_list) > 0
      BY <2>1, <3>1 DEF BoundedInv, RoundsLeft
    <3>3. LastOf(redo_list) \in Entries /\ LastOf(redo_list) \in Elements(redo_list)
      BY <2>1, <3>2, LastRecorded
    <3>4. WritesFiles(LastOf(redo_list), tree)
      BY <3>3 DEF ShapeInv, Recorded, Members
    <3>5. \A o \in Ends("do", LastOf(redo_list).changes) : o.ok
      BY <2>1, <3>3, <3>4, WritesEnd
    <3>6. run' = Continue
      BY <2>6, <3>5 DEF PerformRedo
    <3> QED BY <2>4, <3>6
  <2> QED BY <2>3, <2>5, <2>6
<1> HIDE DEF Round
<1>2. Spec => [][Round]_vars
  BY <1>1, TypeCorrect, BoundedInductive, ShapeInductive, PTL DEF Spec
<1> QED BY <1>2 DEF Round, RoundsSucceed

-----------------------------------------------------------------------------
(* Histories of writes: what the lists say about the files                  *)
(*                                                                         *)
(* The sets of the undo list that write a file take it, one after the       *)
(* other, from its text where the list starts to its text now; those of the *)
(* redo list, the last one first, take it on from there.                    *)

\* Where one set of the list ends the next one begins.
Linked(m, list, p) ==
    \A i, j \in Writers(list, p) :
        Adjacent(list, p, i, j) => Reach(m, list[i], p) = Reach(Opposite(m), list[j], p)

\* The sets lead to the text that p has in t, ...
Leads(m, list, t, p) ==
    /\ Linked(m, list, p)
    /\ \A i \in Writers(list, p) : Final(list, p, i) => Reach(m, list[i], p) = Text(t, p)

\* ... and start from the one that p has in b.
Starts(list, b, t, p) ==
    /\ \A i \in Writers(list, p) : First(list, p, i) => Reach("undo", list[i], p) = Text(b, p)
    /\ Writers(list, p) = {} => SameText(b, t, p)

\* SameText is an equivalence, and files of the same text have the same text.
LEMMA SameTextFacts ==
    ASSUME NEW t, NEW u, NEW p, SameText(t, u, p)
    PROVE  /\ SameText(u, t, p) /\ Text(t, p) = Text(u, p)
           /\ \A v : SameText(u, v, p) => SameText(t, v, p)
BY DEF SameText, Text

\* What a set leaves in a file is a text.
LEMMA ReachesText ==
    ASSUME NEW m \in {"do", "undo"}, NEW e \in Entries, NEW t, WritesFiles(e, t),
           NEW p, Writes(e, p)
    PROVE  /\ Reach(m, e, p) \in Data /\ Decode[Reach(m, e, p)] = Reach(m, e, p)
           /\ t[p] \in Data
<1>1. PICK i \in 1..Len(e.changes) : WriteOn(e, p) = e.changes[i]
  BY WriteOnIs
<1>2. WriteOn(e, p) \in Changes /\ WriteOn(e, p).res = p
  BY WriteOnIs
<1>3. WriteOn(e, p).old # None /\ t[p] \in Data
  BY <1>1, <1>2 DEF WritesFiles, Known
<1>4. WriteOn(e, p).new \in Texts /\ WriteOn(e, p).old \in Texts
  BY <1>2, <1>3 DEF Changes
<1>5. Reach(m, e, p) \in Texts
  BY <1>4 DEF Reach, TextLeft
<1> QED BY <1>3, <1>5, FileTreeAssumption DEF Data

\* Of the sets that write a file one is the first and one the last.
LEMMA WritersEnds ==
    ASSUME NEW list, IsList(list), NEW p, Writers(list, p) # {}
    PROVE  /\ \E i \in Writers(list, p) : First(list, p, i)
           /\ \E i \in Writers(list, p) : Final(list, p, i)
<1>1. Len(list) \in Nat /\ DOMAIN list = 1..Len(list)
  BY ListLen
<1> DEFINE W == Writers(list, p)
           n == Len(list)
           Back == {n - i : i \in W}
<1>2. W \in SUBSET (1..n) /\ W \in SUBSET Nat /\ W # {}
  BY <1>1 DEF Writers
<1>3. Back \in SUBSET Nat /\ Back # {}
  BY <1>1, <1>2
<1>4. PICK i \in W : \A k \in W : i <= k
  <2> HIDE DEF W
  <2> QED BY <1>2, LeastNatural
<1>5. PICK b \in Back : \A k \in Back : b <= k
  <2> HIDE DEF Back
  <2> QED BY <1>3, LeastNatural
<1>6. PICK j \in W : b = n - j
  OBVIOUS
<1> HIDE DEF W
<1>7. \A k \in W : n - j <= n - k
  BY <1>5, <1>6
<1>8. \A k \in W : k <= j
  BY <1>1, <1>2, <1>7
<1> QED BY <1>4, <1>8 DEF First, Final, W

\* The sets of a part that write p are sets of the list in the same order, and
\* none between two of them is left out.
Embeds(part, list, p, q) ==
    /\ \A i \in Writers(part, p) : q[i] \in Writers(list, p) /\ list[q[i]] = part[i]
    /\ \A i, j \in Writers(part, p) : i < j => q[i] < q[j]
    /\ \A i, j \in Writers(part, p), k \in Writers(list, p) :
          q[i] < k /\ k < q[j] => \E l \in Writers(part, p) : q[l] = k

\* Such a part is linked as the list is.
LEMMA PartLinked ==
    ASSUME NEW m, NEW part, IsList(part), NEW list, IsList(list), NEW p, NEW q,
           Embeds(part, list, p, q), Linked(m, list, p)
    PROVE  Linked(m, part, p)
<1>1. /\ \A i \in Writers(part, p) : i \in Nat
      /\ \A i \in Writers(list, p) : i \in Nat
  <2>1. DOMAIN part = 1..Len(part) /\ DOMAIN list = 1..Len(list)
    BY ListLen
  <2> QED BY <2>1 DEF Writers
<1> SUFFICES ASSUME NEW i \in Writers(part, p), NEW j \in Writers(part, p),
                    Adjacent(part, p, i, j)
             PROVE  Reach(m, part[i], p) = Reach(Opposite(m), part[j], p)
  BY DEF Linked
<1>2. /\ q[i] \in Writers(list, p) /\ list[q[i]] = part[i]
      /\ q[j] \in Writers(list, p) /\ list[q[j]] = part[j]
      /\ i < j /\ q[i] < q[j]
  BY DEF Embeds, Adjacent
<1>3. ASSUME NEW k \in Writers(list, p), ~(k <= q[i]), ~(q[j] <= k) PROVE FALSE
  <2>1. q[i] < k /\ k < q[j]
    BY <1>1, <1>2, <1>3
  <2>2. PICK l \in Writers(part, p) : q[l] = k
    BY <2>1 DEF Embeds
  <2>3. CASE l <= i
    <3>1. l = i \/ l < i
      BY <1>1, <2>3
    <3>2. q[l] = q[i] \/ q[l] < q[i]
      BY <3>1 DEF Embeds
    <3> QED BY <1>1, <1>2, <2>1, <2>2, <3>2
  <2>4. CASE j <= l
    <3>1. l = j \/ j < l
      BY <1>1, <2>4
    <3>2. q[l] = q[j] \/ q[j] < q[l]
      BY <3>1 DEF Embeds
    <3> QED BY <1>1, <1>2, <2>1, <2>2, <3>2
  <2> QED BY <2>3, <2>4 DEF Adjacent
<1>4. Adjacent(list, p, q[i], q[j])
  BY <1>2, <1>3 DEF Adjacent
<1> QED BY <1>2, <1>4 DEF Linked

\* The list grown is the list with the set e at its end.
Grows(list, grown, e) ==
    /\ IsList(list) /\ IsList(grown) /\ Len(grown) = Len(list) + 1
    /\ grown[Len(grown)] = e /\ \A i \in 1..Len(list) : grown[i] = list[i]

\* list.append makes a list grow, and it has grown from what list.pop leaves.
LEMMA ListGrows ==
    ASSUME NEW list \in Seq(Entries)
    PROVE  /\ \A e \in Entries : Grows(list, Append(list, e), e)
           /\ Len(list) > 0 => Grows(Popped(list), list, LastOf(list))
<1>1. IsList(list) /\ Len(list) \in Nat
  BY EntriesAreList
<1>2. ASSUME NEW e \in Entries PROVE Grows(list, Append(list, e), e)
  <2> DEFINE grown == Append(list, e)
  <2>1. /\ grown \in Seq(Entries) /\ Len(grown) = Len(list) + 1
        /\ grown[Len(list) + 1] = e /\ \A i \in 1..Len(list) : grown[i] = list[i]
    BY AppendProperties
  <2> HIDE DEF grown
  <2>2. IsList(grown)
    BY <2>1, EntriesAreList
  <2> QED BY <1>1, <2>1, <2>2 DEF Grows, grown
<1>3. ASSUME Len(list) > 0 PROVE Grows(Popped(list), list, LastOf(list))
  <2> DEFINE part == Popped(list)
  <2>1. Len(list) - 1 \in 0..Len(list)
    BY <1>1, <1>3
  <2>2. /\ part \in Seq(Entries) /\ Len(part) = Len(list) - 1
        /\ \A i \in 1..(Len(list) - 1) : part[i] = list[i]
    BY <2>1, Beginning DEF Popped
  <2> HIDE DEF part
  <2>3. IsList(part) /\ Len(list) = Len(part) + 1
    BY <1>1, <2>2, EntriesAreList
  <2>4. list[Len(list)] = LastOf(list)
    BY DEF LastOf
  <2> QED BY <1>1, <2>2, <2>3, <2>4 DEF Grows, part
<1> QED BY <1>2, <1>3

\* The sets of a grown list that write p are those of the list and perhaps e.
LEMMA GrownWriters ==
    ASSUME NEW list, NEW grown, NEW e, Grows(list, grown, e), NEW p
    PROVE  /\ \A i \in Writers(list, p) : /\ i \in Writers(grown, p) /\ grown[i] = list[i]
                                          /\ i \in Nat /\ i < Len(grown)
           /\ \A i \in Writers(grown, p) : i \in Writers(list, p) \/ i = Len(grown)
           /\ Len(grown) \in Writers(grown, p) <=> Writes(e, p)
           /\ Len(grown) \in Nat
<1>1. /\ Len(list) \in Nat /\ DOMAIN list = 1..Len(list) /\ DOMAIN grown = 1..Len(grown)
      /\ Len(grown) = Len(list) + 1 /\ grown[Len(grown)] = e
      /\ \A i \in 1..Len(list) : grown[i] = list[i]
  BY ListLen DEF Grows
<1>2. ASSUME NEW i \in Writers(list, p)
      PROVE  /\ i \in Writers(grown, p) /\ grown[i] = list[i]
             /\ i \in Nat /\ i < Len(grown)
  <2>1. i \in 1..Len(list) /\ Writes(list[i], p)
    BY <1>1, <1>2 DEF Writers
  <2>2. i \in 1..Len(grown)
    BY <1>1, <2>1
  <2> QED BY <1>1, <2>1, <2>2 DEF Writers
<1>3. ASSUME NEW i \in Writers(grown, p), i # Len(grown) PROVE i \in Writers(list, p)
  <2>1. i \in 1..Len(grown) /\ Writes(grown[i], p)
    BY <1>1, <1>3 DEF Writers
  <2>2. i \in 1..Len(list)
    BY <1>1, <1>3, <2>1
  <2> QED BY <1>1, <2>1, <2>2 DEF Writers
<1>4. Len(grown) \in Writers(grown, p) <=> Writes(e, p)
  <2>1. Len(grown) \in 1..Len(grown)
    BY <1>1
  <2> QED BY <1>1, <2>1 DEF Writers
<1> QED BY <1>1, <1>2, <1>3, <1>4

\* A set more at the end that takes p on from where the list leads to.
LEMMA LeadsMore ==
    ASSUME NEW m, NEW list, NEW grown, NEW e, Grows(list, grown, e), NEW p, NEW t, NEW u,
           Leads(m, list, t, p),
           Writes(e, p) => Reach(Opposite(m), e, p) = Text(t, p) /\ Text(u, p) = Reach(m, e, p),
           ~Writes(e, p) => Text(t, p) = Text(u, p)
    PROVE  Leads(m, grown, u, p)
<1> DEFINE n == Len(grown)
<1>1. /\ \A i \in Writers(list, p) : /\ i \in Writers(grown, p) /\ grown[i] = list[i]
                                     /\ i \in Nat /\ i < n
      /\ \A i \in Writers(grown, p) : i \in Writers(list, p) \/ i = n
      /\ n \in Writers(grown, p) <=> Writes(e, p)
      /\ n \in Nat /\ grown[n] = e
  BY GrownWriters DEF Grows
<1> HIDE DEF n
<1>2. ASSUME NEW i \in Writers(grown, p), NEW j \in Writers(grown, p), Adjacent(grown, p, i, j)
      PROVE  Reach(m, grown[i], p) = Reach(Opposite(m), grown[j], p)
  <2>1. i < j /\ \A k \in Writers(grown, p) : k <= i \/ j <= k
    BY <1>2 DEF Adjacent
  <2>2. i \in Writers(list, p) /\ grown[i] = list[i]
    BY <1>1, <2>1
  <2>3. CASE j \in Writers(list, p)
    <3>1. Adjacent(list, p, i, j)
      BY <1>1, <2>1, <2>2, <2>3 DEF Adjacent
    <3> QED BY <1>1, <2>2, <2>3, <3>1 DEF Leads, Linked
  <2>4. CASE j = n
    <3>1. \A k \in Writers(list, p) : k <= i
      BY <1>1, <2>1, <2>4
    <3>2. Final(list, p, i)
      BY <2>2, <3>1 DEF Final
    <3>3. Reach(m, list[i], p) = Text(t, p)
      BY <2>2, <3>2 DEF Leads
    <3> QED BY <1>1, <2>2, <2>4, <3>3
  <2> QED BY <1>1, <2>3, <2>4
<1>3. ASSUME NEW i \in Writers(grown, p), Final(grown, p, i)
      PROVE  Reach(m, grown[i], p) = Text(u, p)
  <2>1. \A k \in Writers(grown, p) : k <= i
    BY <1>3 DEF Final
  <2>2. CASE i = n
    BY <1>1, <2>2
  <2>3. CASE i \in Writers(list, p)
    <3>1. ~Writes(e, p)
      BY <1>1, <2>1, <2>3
    <3>2. Final(list, p, i)
      BY <1>1, <2>1, <2>3 DEF Final
    <3> QED BY <1>1, <2>3, <3>1, <3>2 DEF Leads
  <2> QED BY <1>1, <2>2, <2>3
<1> QED BY <1>2, <1>3 DEF Leads, Linked

\* One less at the end when p has the text from before it.
LEMMA LeadsLess ==
    ASSUME NEW m, NEW list, NEW grown, NEW e, Grows(list, grown, e), NEW p, NEW t, NEW u,
           Leads(m, grown, t, p),
           Writes(e, p) => Text(u, p) = Reach(Opposite(m), e, p),
           ~Writes(e, p) => Text(t, p) = Text(u, p)
    PROVE  Leads(m, list, u, p)
<1> DEFINE n == Len(grown)
<1>1. /\ \A i \in Writers(list, p) : /\ i \in Writers(grown, p) /\ grown[i] = list[i]
                                     /\ i \in Nat /\ i < n
      /\ \A i \in Writers(grown, p) : i \in Writers(list, p) \/ i = n
      /\ n \in Writers(grown, p) <=> Writes(e, p)
      /\ n \in Nat /\ grown[n] = e
  BY GrownWriters DEF Grows
<1> HIDE DEF n
<1>2. ASSUME NEW i \in Writers(list, p), NEW j \in Writers(list, p), Adjacent(list, p, i, j)
      PROVE  Reach(m, list[i], p) = Reach(Opposite(m), list[j], p)
  <2>1. i < j /\ \A k \in Writers(list, p) : k <= i \/ j <= k
    BY <1>2 DEF Adjacent
  <2>2. \A k \in Writers(grown, p) : k <= i \/ j <= k
    BY <1>1, <2>1
  <2>3. Adjacent(grown, p, i, j)
    BY <1>1, <2>1, <2>2 DEF Adjacent
  <2> QED BY <1>1, <2>3 DEF Leads, Linked
<1>3. ASSUME NEW i \in Writers(list, p), Final(list, p, i)
      PROVE  Reach(m, list[i], p) = Text(u, p)
  <2>1. \A k \in Writers(list, p) : k <= i
    BY <1>3 DEF Final
  <2>2. CASE Writes(e, p)
    <3>1. \A k \in Writers(grown, p) : k <= i \/ n <= k
      BY <1>1, <2>1
    <3>2. Adjacent(grown, p, i, n)
      BY <1>1, <2>2, <3>1 DEF Adjacent
    <3> QED BY <1>1, <2>2, <3>2 DEF Leads, Linked
  <2>3. CASE ~Writes(e, p)
    <3>1. Final(grown, p, i)
      BY <1>1, <2>1, <2>3 DEF Final
    <3> QED BY <1>1, <2>3, <3>1 DEF Leads
  <2> QED BY <2>2, <2>3
<1> QED BY <1>2, <1>3 DEF Leads, Linked

\* Such steps keep where the undo list starts.
LEMMA StartsMore ==
    ASSUME NEW list, NEW grown, NEW e, Grows(list, grown, e), NEW p, NEW b, NEW t, NEW u,
           Starts(list, b, t, p), Writes(e, p) => Reach("undo", e, p) = Text(t, p),
           ~Writes(e, p) => SameText(t, u, p)
    PROVE  Starts(grown, b, u, p)
<1> DEFINE n == Len(grown)
<1>1. /\ \A i \in Writers(list, p) : /\ i \in Writers(grown, p) /\ grown[i] = list[i]
                                     /\ i \in Nat /\ i < n
      /\ \A i \in Writers(grown, p) : i \in Writers(list, p) \/ i = n
      /\ n \in Writers(grown, p) <=> Writes(e, p)
      /\ n \in Nat /\ grown[n] = e
  BY GrownWriters DEF Grows
<1> HIDE DEF n
<1>2. ASSUME NEW i \in Writers(grown, p), First(grown, p, i)
      PROVE  Reach("undo", grown[i], p) = Text(b, p)
  <2>1. \A k \in Writers(grown, p) : i <= k
    BY <1>2 DEF First
  <2>2. CASE i \in Writers(list, p)
    <3>1. First(list, p, i)
      BY <1>1, <2>1, <2>2 DEF First
    <3> QED BY <1>1, <2>2, <3>1 DEF Starts
  <2>3. CASE i = n
    <3>1. Writers(list, p) = {}
      <4>1. \A k \in Writers(list, p) : n <= k /\ k \in Nat /\ k < n
        BY <1>1, <2>1, <2>3
      <4>2. \A k \in Writers(list, p) : FALSE
        BY <1>1, <4>1
      <4> QED BY <4>2
    <3>2. Text(b, p) = Text(t, p)
      BY <3>1, SameTextFacts DEF Starts
    <3> QED BY <1>1, <2>3, <3>2
  <2> QED BY <1>1, <2>2, <2>3
<1>3. ASSUME Writers(grown, p) = {} PROVE SameText(b, u, p)
  <2>1. ~Writes(e, p) /\ Writers(list, p) = {}
    BY <1>1, <1>3
  <2> QED BY <2>1, SameTextFacts DEF Starts
<1> QED BY <1>2, <1>3 DEF Starts

\* The same for one set less.
LEMMA StartsLess ==
    ASSUME NEW list, NEW grown, NEW e, Grows(list, grown, e), NEW p, NEW b, NEW t, NEW u,
           Starts(grown, b, t, p), Writes(e, p) => Text(u, p) = Reach("undo", e, p),
           Writes(e, p) => b[p] \in Data /\ u[p] \in Data,
           ~Writes(e, p) => SameText(t, u, p)
    PROVE  Starts(list, b, u, p)
<1> DEFINE n == Len(grown)
<1>1. /\ \A i \in Writers(list, p) : /\ i \in Writers(grown, p) /\ grown[i] = list[i]
                                     /\ i \in Nat /\ i < n
      /\ \A i \in Writers(grown, p) : i \in Writers(list, p) \/ i = n
      /\ n \in Writers(grown, p) <=> Writes(e, p)
      /\ n \in Nat /\ grown[n] = e
  BY GrownWriters DEF Grows
<1> HIDE DEF n
<1>2. ASSUME NEW i \in Writers(list, p), First(list, p, i)
      PROVE  Reach("undo", list[i], p) = Text(b, p)
  <2>1. \A k \in Writers(list, p) : i <= k
    BY <1>2 DEF First
  <2>2. \A k \in Writers(grown, p) : i <= k
    BY <1>1, <2>1
  <2>3. First(grown, p, i)
    BY <1>1, <2>2 DEF First
  <2> QED BY <1>1, <2>3 DEF Starts
<1>3. ASSUME Writers(list, p) = {} PROVE SameText(b, u, p)
  <2>1. CASE Writes(e, p)
    <3>1. n \in Writers(grown, p) /\ \A k \in Writers(grown, p) : k = n
      BY <1>1, <1>3, <2>1
    <3>2. First(grown, p, n)
      BY <1>1, <3>1 DEF First
    <3>3. Text(u, p) = Text(b, p)
      BY <1>1, <2>1, <3>1, <3>2 DEF Starts
    <3> QED BY <2>1, <3>3 DEF SameText, Text
  <2>2. CASE ~Writes(e, p)
    <3>1. Writers(grown, p) = {}
      BY <1>1, <1>3, <2>2
    <3> QED BY <2>2, <3>1, SameTextFacts DEF Starts
  <2> QED BY <2>1, <2>2
<1> QED BY <1>2, <1>3 DEF Starts

\* Two sets that write the same file are related.
LEMMA WritersRelated ==
    ASSUME NEW d \in Entries, NEW e \in Entries, NEW t, WritesFiles(d, t), WritesFiles(e, t),
           NEW p, Writes(d, p), Writes(e, p)
    PROVE  RelatedSets(d.changes, e.changes)
<1> DEFINE r == [path |-> p, folder |-> FALSE]
<1>1. ASSUME NEW x \in {d, e} PROVE r \in ChangedResources(x.changes)
  <2>1. x.changes \in Seq(Changes)
    BY DEF Entries
  <2>2. DOMAIN x.changes = 1..Len(x.changes)
    BY <2>1, LenProperties
  <2>3. PICK i \in 1..Len(x.changes) : x.changes[i].res = p
    BY DEF Writes
  <2>4. x.changes[i].folder = FALSE
    BY DEF WritesFiles
  <2>5. r \in ChangedByOne(x.changes[i])
    BY <2>3, <2>4 DEF ChangedByOne
  <2> QED BY <2>2, <2>5 DEF ChangedResources
<1>2. Related(r, r)
  BY DEF Related
<1> QED BY <1>1, <1>2 DEF RelatedSets

\* _move_front reorders a list and leaves none of it out.
LEMMA MovedOnto ==
    ASSUME NEW list, IsList(list), NEW positions, NEW q, MoveOf(list, positions, q)
    PROVE  \A k \in 1..Len(list) : \E l \in 1..Len(list) : q[l] = k
<1>1. Len(list) \in Nat
  BY ListLen
<1> DEFINE N == 1..Len(list)
<1>2. IsFiniteSet(N)
  BY ListLen
<1>3. q \in [N -> N] /\ \A k, l \in N : k < l => q[k] # q[l]
  <2>1. q \in [N -> N] /\ \A k, l \in N : k < l => q[k] < q[l] \/ q[l] < q[k]
    BY DEF MoveOf
  <2>2. \A k \in N : q[k] \in Int
    BY <1>1, <2>1
  <2>3. ASSUME NEW k \in N, NEW l \in N, k < l, q[k] = q[l] PROVE FALSE
    <3>1. q[k] < q[l] \/ q[l] < q[k]
      BY <2>1, <2>3
    <3> QED BY <2>2, <2>3, <3>1
  <2> QED BY <2>1, <2>3
<1>4. \A k, l \in N : q[k] = q[l] => k = l
  <2>1. \A k, l \in N : k < l \/ l < k \/ k = l
    BY <1>1
  <2> QED BY <1>3, <2>1
<1> HIDE DEF N
<1>5. q \in Injection(N, N)
  BY <1>3, <1>4 DEF Injection, IsInjective
<1>6. q \in Surjection(N, N)
  BY <1>2, <1>5, FS_Injection
<1> QED BY <1>6 DEF Surjection, N

\* _move_front of what _FindChangeDependencies found leaves the sets that write
\* a file in their order.
LEMMA MovedEmbeds ==
    ASSUME NEW list \in Seq(Entries), NEW t, \A k \in 1..Len(list) : WritesFiles(list[k], t),
           NEW chosen \in DOMAIN list, NEW p
    PROVE  LET moved == MoveFront(list, FindDependencies(list, chosen)) IN
           /\ moved \in Seq(Entries)
           /\ \E q : /\ Embeds(moved, list, p, q)
                     /\ \A k \in Writers(list, p) : \E l \in Writers(moved, p) : q[l] = k
<1> DEFINE found == FindDependencies(list, chosen)
           moved == MoveFront(list, found)
<1>1. IsList(list) /\ Len(list) \in Nat /\ DOMAIN list = 1..Len(list)
      /\ \A k \in 1..Len(list) : list[k] \in Entries
  BY EntriesAreList
<1>2. found \in SUBSET DOMAIN list /\ Closed(list, found)
  BY <1>1, FoundInList, FoundClosed
<1> HIDE DEF found
<1>3. moved \in Seq(Entries) /\ DOMAIN moved = 1..Len(list)
  BY <1>1, <1>2, MovedType, MovedList, ListLen
<1>4. PICK q : MoveOf(list, found, q)
  BY <1>1, <1>2, MoveFrontReorders
<1> HIDE DEF moved
<1>5. /\ q \in [1..Len(list) -> 1..Len(list)]
      /\ \A k \in 1..Len(list) : moved[k] = list[q[k]]
      /\ \A k, l \in 1..Len(list) :
            k < l => q[k] < q[l] \/ (q[l] < q[k] /\ q[l] \in found /\ q[k] \notin found)
  BY <1>4 DEF MoveOf, moved
<1>6. ASSUME NEW i \in Writers(moved, p)
      PROVE  i \in 1..Len(list) /\ q[i] \in Writers(list, p) /\ list[q[i]] = moved[i]
  BY <1>1, <1>3, <1>5 DEF Writers
<1>7. ASSUME NEW k \in Writers(list, p)
      PROVE  \E l \in Writers(moved, p) : q[l] = k
  <2>1. k \in 1..Len(list) /\ Writes(list[k], p)
    BY <1>1 DEF Writers
  <2>2. PICK l \in 1..Len(list) : q[l] = k
    BY <1>1, <1>4, <2>1, MovedOnto
  <2> QED BY <1>3, <1>5, <2>1, <2>2 DEF Writers
<1>8. ASSUME NEW i \in Writers(moved, p), NEW j \in Writers(moved, p), i < j
      PROVE  q[i] < q[j]
  <2>1. /\ q[i] \in 1..Len(list) /\ Writes(list[q[i]], p)
        /\ q[j] \in 1..Len(list) /\ Writes(list[q[j]], p)
    BY <1>1, <1>6 DEF Writers
  <2>2. RelatedSets(list[q[j]].changes, list[q[i]].changes)
    BY <1>1, <2>1, WritersRelated
  <2>3. ~(q[j] < q[i] /\ q[j] \in found /\ q[i] \notin found)
    BY <1>1, <1>2, <2>1, <2>2 DEF Closed
  <2> QED BY <1>5, <1>6, <1>8, <2>3
<1>9. Embeds(moved, list, p, q)
  BY <1>6, <1>7, <1>8 DEF Embeds
<1> QED BY <1>3, <1>7, <1>9 DEF moved, found

\* So undo and redo of a chosen set keep what the list says about each file.
LEMMA LeadsMoved ==
    ASSUME NEW list \in Seq(Entries), NEW t, \A k \in 1..Len(list) : WritesFiles(list[k], t),
           NEW chosen \in DOMAIN list, NEW p
    PROVE  LET moved == MoveFront(list, FindDependencies(list, chosen)) IN
           /\ \A m : Leads(m, list, t, p) => Leads(m, moved, t, p)
           /\ \A b : Starts(list, b, t, p) => Starts(moved, b, t, p)
<1> DEFINE moved == MoveFront(list, FindDependencies(list, chosen))
<1>1. /\ moved \in Seq(Entries)
      /\ \E q : /\ Embeds(moved, list, p, q)
                /\ \A k \in Writers(list, p) : \E l \in Writers(moved, p) : q[l] = k
  BY MovedEmbeds
<1> HIDE DEF moved
<1>2. PICK q : /\ Embeds(moved, list, p, q)
               /\ \A k \in Writers(list, p) : \E l \in Writers(moved, p) : q[l] = k
  BY <1>1
<1>3. IsList(list) /\ IsList(moved) /\ \A i \in Writers(moved, p) : i \in Nat
  <2>1. IsList(list) /\ IsList(moved) /\ DOMAIN moved = 1..Len(moved)
    BY <1>1, EntriesAreList
  <2> QED BY <2>1 DEF Writers
<1>4. ASSUME NEW i \in Writers(moved, p)
      PROVE  /\ q[i] \in Writers(list, p) /\ list[q[i]] = moved[i]
             /\ Final(moved, p, i) => Final(list, p, q[i])
             /\ First(moved, p, i) => First(list, p, q[i])
  <2>1. q[i] \in Writers(list, p) /\ list[q[i]] = moved[i] /\ q[i] \in Nat
    <3>1. q[i] \in Writers(list, p) /\ list[q[i]] = moved[i]
      BY <1>2 DEF Embeds
    <3>2. DOMAIN list = 1..Len(list)
      BY EntriesAreList
    <3> QED BY <3>1, <3>2 DEF Writers
  <2>2. ASSUME NEW k \in Writers(list, p)
        PROVE  /\ (\A l \in Writers(moved, p) : l <= i) => k <= q[i]
               /\ (\A l \in Writers(moved, p) : i <= l) => q[i] <= k
    <3>1. PICK l \in Writers(moved, p) : q[l] = k
      BY <1>2
    <3>2. q[l] \in Nat /\ (l < i => q[l] < q[i]) /\ (i < l => q[i] < q[l])
      <4>1. DOMAIN list = 1..Len(list)
        BY EntriesAreList
      <4>2. q[l] \in Nat
        BY <3>1, <4>1 DEF Writers
      <4> QED BY <1>2, <4>2 DEF Embeds
    <3>3. l < i \/ i < l \/ l = i
      BY <1>3
    <3>4. (l <= i => k <= q[i]) /\ (i <= l => q[i] <= k)
      BY <1>3, <2>1, <3>1, <3>2, <3>3
    <3> QED BY <3>4
  <2> QED BY <2>1, <2>2 DEF Final, First
<1>5. ASSUME NEW m, Leads(m, list, t, p) PROVE Leads(m, moved, t, p)
  <2>1. Linked(m, moved, p)
    BY <1>2, <1>3, <1>5, PartLinked DEF Leads
  <2> QED BY <1>4, <1>5, <2>1 DEF Leads
<1>6. ASSUME NEW b, Starts(list, b, t, p) PROVE Starts(moved, b, t, p)
  <2>1. Writers(moved, p) = {} => Writers(list, p) = {}
    BY <1>2
  <2> QED BY <1>4, <1>6, <2>1 DEF Starts
<1> QED BY <1>5, <1>6 DEF moved

\* Trimming a list cuts it in two at the excess.
LEMMA CutInTwo ==
    ASSUME NEW list \in Seq(Entries)
    PROVE  /\ Excess(list) \in Nat /\ Excess(list) <= Len(list)
           /\ Forgotten(list) \in Seq(Entries) /\ Len(Forgotten(list)) = Excess(list)
           /\ \A k \in 1..Excess(list) : Forgotten(list)[k] = list[k]
           /\ Trimmed(list) \in Seq(Entries) /\ Len(Trimmed(list)) = Len(list) - Excess(list)
           /\ \A k \in 1..(Len(list) - Excess(list)) : Trimmed(list)[k] = list[k + Excess(list)]
<1> DEFINE x == Excess(list)
           part == Trimmed(list)
<1>1. Len(list) \in Nat /\ MaxUndos \in Nat /\ IsList(list)
  BY EntriesAreList, HistoryAssumption
<1>2. x \in Nat /\ x <= Len(list)
  BY <1>1 DEF Excess
<1>3. part = SubSeq(list, x + 1, Len(list))
  BY DEF Trimmed
<1>4. Forgotten(list) = SubSeq(list, 1, x)
  BY DEF Forgotten
<1> HIDE DEF x, part
<1>5. x \in 0..Len(list) /\ x + 1 \in 1..(Len(list) + 1) /\ Len(list) \in 0..Len(list)
  BY <1>1, <1>2
<1>6. /\ Forgotten(list) \in Seq(Entries) /\ Len(Forgotten(list)) = x
      /\ \A k \in 1..x : Forgotten(list)[k] = list[k]
  BY <1>4, <1>5, Beginning
<1>7. part \in Seq(Entries) /\ Len(part) = Len(list) - x
  <2>1. Len(part) = IF x + 1 <= Len(list) THEN Len(list) - (x + 1) + 1 ELSE 0
    BY <1>1, <1>3, <1>5, PartOfList
  <2>2. Len(part) = Len(list) - x
    BY <1>1, <1>2, <2>1
  <2> QED BY <1>3, <1>5, <2>2, PartType
<1>8. ASSUME NEW k \in 1..(Len(list) - x) PROVE part[k] = list[k + x]
  <2>1. k \in DOMAIN part
    BY <1>7, EntriesAreList
  <2>2. part[k] = list[k + (x + 1) - 1]
    BY <1>1, <1>3, <1>5, <2>1, PartDrawn
  <2>3. k + (x + 1) - 1 = k + x
    BY <1>2
  <2> QED BY <2>2, <2>3
<1> QED BY <1>2, <1>6, <1>7, <1>8 DEF x, part

\* Forgetting the oldest sets moves the start to where they lead.
LEMMA LeadsTrimmed ==
    ASSUME NEW list \in Seq(Entries), NEW t \in Trees, NEW b \in Trees, WellFormed(t),
           OneShape(t, b), \A k \in 1..Len(list) : WritesFiles(list[k], t), NEW p \in Paths,
           Leads("do", list, t, p), Starts(list, b, t, p)
    PROVE  /\ Leads("do", Trimmed(list), t, p)
           /\ Starts(Trimmed(list), Replay(b, Forgotten(list)).tree, t, p)
<1> DEFINE x == Excess(list)
           part == Trimmed(list)
           old == Forgotten(list)
           v == Replay(b, old).tree
           n == Len(list)
<1>1. /\ x \in Nat /\ n \in Nat /\ x <= n
      /\ old \in Seq(Entries) /\ Len(old) = x /\ \A k \in 1..x : old[k] = list[k]
      /\ part \in Seq(Entries) /\ Len(part) = n - x /\ \A k \in 1..(n - x) : part[k] = list[k + x]
  BY CutInTwo, EntriesAreList
<1>2. /\ IsList(list) /\ IsList(part) /\ IsList(old)
      /\ DOMAIN list = 1..n /\ DOMAIN part = 1..(n - x) /\ DOMAIN old = 1..x
      /\ \A k \in 1..n : list[k] \in Entries
  BY <1>1, EntriesAreList
<1> HIDE DEF x, part, old, v, n
<1>4. ASSUME NEW i \in Writers(part, p)
      PROVE  i \in Nat /\ i + x \in Writers(list, p) /\ list[i + x] = part[i] /\ x < i + x
  <2>1. i \in 1..(n - x) /\ Writes(part[i], p)
    BY <1>2, <1>4 DEF Writers
  <2>2. i + x \in 1..n /\ i \in Nat /\ x < i + x
    BY <1>1, <2>1
  <2>3. part[i] = list[i + x]
    BY <1>1, <2>1
  <2> QED BY <1>2, <2>1, <2>2, <2>3 DEF Writers
<1>5. ASSUME NEW k \in Writers(list, p)
      PROVE  /\ k \in Nat
             /\ ~(k <= x) => k - x \in Writers(part, p) /\ k - x + x = k
             /\ k <= x => k \in Writers(old, p) /\ old[k] = list[k]
  <2>1. k \in 1..n /\ Writes(list[k], p)
    BY <1>2, <1>5 DEF Writers
  <2>2. ASSUME ~(k <= x) PROVE k - x \in Writers(part, p) /\ k - x + x = k
    <3>1. k - x \in 1..(n - x) /\ k - x + x = k
      BY <1>1, <2>1, <2>2
    <3>2. part[k - x] = list[k]
      BY <1>1, <3>1
    <3> QED BY <1>2, <2>1, <3>1, <3>2 DEF Writers
  <2>3. ASSUME k <= x PROVE k \in Writers(old, p) /\ old[k] = list[k]
    <3>1. k \in 1..x
      BY <1>1, <2>1, <2>3
    <3> QED BY <1>1, <1>2, <2>1, <3>1 DEF Writers
  <2> QED BY <1>1, <2>1, <2>2, <2>3
<1>6. ASSUME NEW k \in Writers(old, p)
      PROVE  k \in Writers(list, p) /\ k \in Nat /\ k <= x /\ old[k] = list[k]
  <2>1. k \in 1..x /\ Writes(old[k], p)
    BY <1>2, <1>6 DEF Writers
  <2>2. k \in 1..n /\ k \in Nat /\ k <= x
    BY <1>1, <2>1
  <2> QED BY <1>1, <1>2, <2>1, <2>2 DEF Writers
<1> DEFINE q == [i \in DOMAIN part |-> i + x]
<1>7. \A i \in Writers(part, p) : q[i] = i + x
  BY DEF Writers
<1> HIDE DEF q
<1>8. Embeds(part, list, p, q)
  <2>1. \A i, j \in Writers(part, p) : i < j => i + x < j + x
    BY <1>1, <1>4
  <2>2. ASSUME NEW i \in Writers(part, p), NEW k \in Writers(list, p), q[i] < k
        PROVE  \E l \in Writers(part, p) : q[l] = k
    <3>1. ~(k <= x)
      BY <1>1, <1>4, <1>5, <1>7, <2>2
    <3> QED BY <1>5, <1>7, <3>1
  <2> QED BY <1>4, <1>7, <2>1, <2>2 DEF Embeds
<1>9. Linked("do", part, p)
  BY <1>2, <1>8, PartLinked DEF Leads
<1>10. ASSUME NEW i \in Writers(part, p), Final(part, p, i)
       PROVE  Reach("do", part[i], p) = Text(t, p)
  <2>1. ASSUME NEW k \in Writers(list, p) PROVE k <= i + x
    <3>1. CASE k <= x
      BY <1>1, <1>4, <1>5, <3>1
    <3>2. CASE ~(k <= x)
      <4>1. k - x \in Writers(part, p) /\ k - x + x = k
        BY <1>5, <3>2
      <4>2. k - x <= i
        BY <1>10, <4>1 DEF Final
      <4> QED BY <1>1, <1>4, <1>5, <4>2
    <3> QED BY <3>1, <3>2
  <2>2. Final(list, p, i + x)
    BY <1>4, <2>1 DEF Final
  <2> QED BY <1>4, <2>2 DEF Leads
<1>11. Leads("do", part, t, p)
  BY <1>9, <1>10 DEF Leads
<1>12. /\ Writers(old, p) = {} => v[p] = b[p]
       /\ \A i \in Writers(old, p) : Final(old, p, i) => v[p] = Reach("do", list[i], p)
  <2>1. \A k \in 1..Len(old) : WritesFiles(old[k], b)
    <3>1. ASSUME NEW k \in 1..x PROVE WritesFiles(old[k], b)
      <4>0. k \in 1..n
        BY <1>1
      <4>1. k \in 1..n /\ old[k] = list[k]
        BY <1>1, <4>0
      <4>2. WritesFiles(list[k], t)
        BY <4>1 DEF n
      <4> QED BY <1>2, <4>1, <4>2, WritesShape
    <3> QED BY <1>1, <3>1
  <2>2. WellFormed(b)
    BY ShapeFolders
  <2>3. /\ Writers(old, p) = {} => v[p] = b[p]
        /\ \A i \in 1..Len(old) : Final(old, p, i) => v[p] = Reach("do", old[i], p)
    BY <1>1, <2>1, <2>2, DoneList DEF v
  <2>4. \A i \in Writers(old, p) : i \in 1..Len(old) /\ old[i] = list[i]
    BY <1>1, <1>2, <1>6 DEF Writers
  <2> QED BY <2>3, <2>4
<1>13. CASE Writers(old, p) = {}
  <2>1. \A k \in Writers(list, p) : ~(k <= x)
    BY <1>5, <1>13
  <2>2. ASSUME NEW i \in Writers(part, p), First(part, p, i)
        PROVE  Reach("undo", part[i], p) = Text(b, p)
    <3>1. ASSUME NEW k \in Writers(list, p) PROVE i + x <= k
      <4>1. k - x \in Writers(part, p) /\ k - x + x = k
        BY <1>5, <2>1
      <4>2. i <= k - x
        BY <2>2, <4>1 DEF First
      <4> QED BY <1>1, <1>4, <1>5, <4>2
    <3>2. First(list, p, i + x)
      BY <1>4, <3>1 DEF First
    <3> QED BY <1>4, <3>2 DEF Starts
  <2>3. Writers(part, p) = {} => Writers(list, p) = {}
    BY <1>5, <2>1
  <2>4. v[p] = b[p]
    BY <1>12, <1>13
  <2>5. Text(v, p) = Text(b, p) /\ (SameText(b, t, p) => SameText(v, t, p))
    BY <2>4 DEF Text, SameText
  <2>6. Starts(part, v, t, p)
    BY <2>2, <2>3, <2>5 DEF Starts
  <2> QED BY <1>11, <2>6 DEF part, v, old
<1>14. CASE Writers(old, p) # {}
  <2>1. PICK f \in Writers(old, p) : Final(old, p, f)
    BY <1>2, <1>14, WritersEnds
  <2>2. f \in Writers(list, p) /\ f \in Nat /\ f <= x /\ \A k \in Writers(old, p) : k <= f
    BY <1>6, <2>1 DEF Final
  <2>3. v[p] = Reach("do", list[f], p)
    BY <1>12, <2>1
  <2>4. v[p] \in Data /\ Decode[v[p]] = v[p] /\ t[p] \in Data
    <3>1. f \in 1..n /\ Writes(list[f], p)
      BY <1>2, <2>2 DEF Writers
    <3>2. WritesFiles(list[f], t)
      BY <3>1 DEF n
    <3> QED BY <1>2, <2>3, <3>1, <3>2, ReachesText
  <2>5. Text(v, p) = v[p]
    BY <2>4 DEF Text
  <2>6. ASSUME NEW i \in Writers(part, p), First(part, p, i)
        PROVE  Reach("undo", part[i], p) = Text(v, p)
    <3>1. ASSUME NEW k \in Writers(list, p) PROVE k <= f \/ i + x <= k
      <4>1. CASE k <= x
        BY <1>5, <2>2, <4>1
      <4>2. CASE ~(k <= x)
        <5>1. k - x \in Writers(part, p) /\ k - x + x = k
          BY <1>5, <4>2
        <5>2. i <= k - x
          BY <2>6, <5>1 DEF First
        <5> QED BY <1>1, <1>4, <1>5, <5>2
      <4> QED BY <4>1, <4>2
    <3>2. f < i + x
      BY <1>1, <1>4, <2>2
    <3>3. Adjacent(list, p, f, i + x)
      BY <1>4, <2>2, <3>1, <3>2 DEF Adjacent
    <3>4. Reach("do", list[f], p) = Reach(Opposite("do"), list[i + x], p)
      BY <1>4, <2>2, <3>3 DEF Leads, Linked
    <3>5. Opposite("do") = "undo"
      BY DEF Opposite
    <3> QED BY <1>4, <2>3, <2>5, <3>4, <3>5
  <2>7. ASSUME Writers(part, p) = {} PROVE SameText(v, t, p)
    <3>1. \A k \in Writers(list, p) : k <= f
      BY <1>5, <2>2, <2>7
    <3>2. Final(list, p, f)
      BY <2>2, <3>1 DEF Final
    <3>3. Reach("do", list[f], p) = Text(t, p)
      BY <2>2, <3>2 DEF Leads
    <3> QED BY <2>3, <2>4, <3>3 DEF SameText, Text
  <2>8. Starts(part, v, t, p)
    BY <2>6, <2>7 DEF Starts
  <2> QED BY <1>11, <2>8 DEF part, v, old
<1> QED BY <1>13, <1>14

\* A list leads to any tree where the file has the same text, and the empty
\* list leads anywhere.
LEMMA LeadsSame ==
    ASSUME NEW m, NEW list, NEW t, NEW u, NEW p, SameText(t, u, p)
    PROVE  /\ Leads(m, list, t, p) => Leads(m, list, u, p)
           /\ \A b : Starts(list, b, t, p) => Starts(list, b, u, p)
           /\ Leads(m, <<>>, t, p) /\ Starts(<<>>, t, u, p)
<1>1. Text(t, p) = Text(u, p) /\ \A b : SameText(b, t, p) => SameText(b, u, p)
  BY SameTextFacts
<1>2. Writers(<<>>, p) = {}
  BY DEF Writers
<1> QED BY <1>1, <1>2 DEF Leads, Starts, Linked

\* The last set of a list leads to the text that is there.
LEMMA LastLeads ==
    ASSUME NEW m, NEW list, NEW grown, NEW e, Grows(list, grown, e), NEW p, NEW t,
           Leads(m, grown, t, p), Writes(e, p)
    PROVE  Reach(m, e, p) = Text(t, p)
<1> DEFINE n == Len(grown)
<1>1. /\ \A i \in Writers(list, p) : i \in Nat /\ i < n
      /\ \A i \in Writers(grown, p) : i \in Writers(list, p) \/ i = n
      /\ n \in Writers(grown, p) /\ n \in Nat /\ grown[n] = e
  BY GrownWriters DEF Grows
<1> HIDE DEF n
<1>2. \A i \in Writers(grown, p) : i <= n
  BY <1>1
<1>3. Final(grown, p, n)
  BY <1>1, <1>2 DEF Final
<1> QED BY <1>1, <1>3 DEF Leads

-----------------------------------------------------------------------------
(* Histories of writes: where the lists start and where they lead to *)

\* No task is stopped, the process does not die, and undo is not told to drop
\* what it undid: a dropped set leaves its mark on what the callers built after
\* it was undone.
PlainFeatures == Features \cap {"interrupt", "crash", "drop"} = {}

\* What the lists say about every file that is not ignored.
ReplayInv ==
    /\ run.drop = 0
    /\ \A p \in Paths : ~IsIgnored(p) => /\ Leads("do", undo_list, tree, p)
                                         /\ Leads("undo", redo_list, tree, p)
                                         /\ Starts(undo_list, base, tree, p)

\* In a session without stopped tasks a call has one end.
LEMMA PlainEnds ==
    ASSUME PlainFeatures, NEW m, NEW s, NEW o \in Ends(m, s)
    PROVE  o = RunSet(m, s, tree) /\ o \in Outcomes(m, s, tree)
BY DEF PlainFeatures, Ends, Outcomes

\* What History.do does to the lists is what the set did to the files.
LEMMA DoReplays ==
    ASSUME WriteScripts, PlainFeatures
    PROVE  TypeOK /\ TypeOK' /\ ShapeInv /\ ShapeInv' /\ ReplayInv /\ Do => ReplayInv'
<1> SUFFICES ASSUME TypeOK, TypeOK', ShapeInv, ShapeInv', ReplayInv, Do PROVE ReplayInv'
  OBVIOUS
<1>1. PICK s \in Scripts : \E o \in Ends("do", s) : DoneAs(s, o)
  BY DoOfWrites
<1>2. PICK o \in Ends("do", s) : DoneAs(s, o)
  BY <1>1
<1> DEFINE e == [id |-> built, changes |-> o.changes]
           grown == Append(undo_list, e)
<1>3. /\ s \in Seq(Changes) /\ o \in Outcomes("do", s, tree)
      /\ tree' = o.tree /\ saved' = saved /\ run' = run
      /\ redo_list' = IF o.ok THEN <<>> ELSE redo_list
      /\ o.ok /\ IsInteresting(s) => /\ undo_list' = Trimmed(grown)
                                     /\ base' = Replay(base, Forgotten(grown)).tree
      /\ ~(o.ok /\ IsInteresting(s)) => undo_list' = undo_list /\ base' = base
  BY <1>2 DEF DoneAs
<1>4. /\ tree \in Trees /\ tree' \in Trees /\ base \in Trees /\ WellFormed(tree)
      /\ WellFormed(tree') /\ undo_list \in Seq(Entries)
  BY DEF TypeOK, ShapeInv
<1>5. /\ o = RunSet("do", s, tree)
      /\ Apiece(s) /\ \A i \in 1..Len(s) : FreshWrite(s[i])
  BY <1>3, PlainEnds DEF WriteScripts
<1>6. e \in Entries /\ e.changes = o.changes
  <2>1. o.changes \in Seq(Changes)
    BY <1>3, EndsType DEF TypeOK
  <2>2. built \in Nat
    BY HistoryAssumption DEF TypeOK
  <2> QED BY <2>1, <2>2 DEF Entries
<1> HIDE DEF e
<1>7. Grows(undo_list, grown, e) /\ grown \in Seq(Entries)
  BY <1>4, <1>6, ListGrows, AppendProperties
<1> HIDE DEF grown
<1>8. run'.drop = 0
  BY <1>3 DEF ReplayInv
<1>9. OneShape(tree, tree') /\ OneShape(tree', tree)
  <2>1. OnlyFiles("do", s, tree)
    BY <1>5 DEF FreshWrite, OnlyFiles
  <2>2. OneShape(tree, tree')
    BY <1>3, <1>4, <2>1, OutcomeShape
  <2> QED BY <1>4, <2>2, ShapeFolders
<1>10. ASSUME NEW p \in Paths, ~IsIgnored(p)
       PROVE  /\ Leads("do", undo_list', tree', p)
              /\ Leads("undo", redo_list', tree', p)
              /\ Starts(undo_list', base', tree', p)
  <2>1. /\ Leads("do", undo_list, tree, p) /\ Leads("undo", redo_list, tree, p)
        /\ Starts(undo_list, base, tree, p)
    BY <1>10 DEF ReplayInv
  <2>2. ASSUME SameText(tree, tree', p), ~(o.ok /\ IsInteresting(s))
        PROVE  /\ Leads("do", undo_list', tree', p)
               /\ Leads("undo", redo_list', tree', p)
               /\ Starts(undo_list', base', tree', p)
    <3>1. /\ Leads("do", undo_list, tree', p) /\ Leads("undo", redo_list, tree', p)
          /\ Starts(undo_list, base, tree', p)
      BY <2>1, <2>2, LeadsSame
    <3>2. SameText(tree', tree', p)
      BY DEF SameText
    <3>3. Leads("undo", <<>>, tree', p)
      BY <3>2, LeadsSame
    <3> QED BY <1>3, <2>2, <3>1, <3>3
  <2>3. CASE ~o.ok
    <3>1. \/ o.tree[p] = tree[p]
          \/ o.tree[p] \in Data /\ tree[p] \in Data /\ Decode[o.tree[p]] = Decode[tree[p]]
      BY <1>3, <1>4, <1>5, <2>3, FreshFails DEF FreshWrite
    <3>2. SameText(tree, tree', p)
      BY <1>3, <3>1 DEF SameText
    <3> QED BY <2>2, <2>3, <3>2
  <2>4. CASE o.ok
    <3>1. /\ WritesFiles(e, tree)
          /\ Writes(e, p) => /\ \E i \in 1..Len(s) : s[i].res = p
                             /\ Reach("undo", e, p) = Text(tree, p)
                             /\ o.tree[p] = Reach("do", e, p)
          /\ ~Writes(e, p) => o.tree[p] = tree[p]
      BY <1>3, <1>4, <1>5, <1>6, <2>4, DoneWrites
    <3>2. ~Writes(e, p) => SameText(tree, tree', p)
      BY <1>3, <3>1 DEF SameText
    <3>3. CASE ~IsInteresting(s)
      <4>1. ASSUME NEW i \in 1..Len(s), s[i].res = p PROVE FALSE
        <5>1. DOMAIN s = 1..Len(s)
          BY <1>3, LenProperties
        <5>2. [path |-> p, folder |-> s[i].folder] \in ChangedResources(s)
          BY <4>1, <5>1 DEF ChangedResources, ChangedByOne
        <5> QED BY <1>10, <3>3, <5>2 DEF IsInteresting
      <4>2. ~Writes(e, p)
        BY <3>1, <4>1
      <4> QED BY <2>2, <3>2, <3>3, <4>2
    <3>4. CASE IsInteresting(s)
      <4>1. undo_list' = Trimmed(grown) /\ base' = Replay(base, Forgotten(grown)).tree
            /\ redo_list' = <<>>
        BY <1>3, <2>4, <3>4
      <4>2. Writes(e, p) => Text(tree', p) = Reach("do", e, p)
        BY <1>3, <1>6, <3>1, ReachesText DEF Text
      <4>3. ~Writes(e, p) => Text(tree, p) = Text(tree', p)
        BY <3>2, SameTextFacts
      <4>4. Opposite("do") = "undo"
        BY DEF Opposite
      <4>5. Leads("do", grown, tree', p)
        BY <1>7, <2>1, <3>1, <4>2, <4>3, <4>4, LeadsMore
      <4>6. Starts(grown, base, tree', p)
        BY <1>7, <2>1, <3>1, <3>2, StartsMore
      <4>7. OneShape(tree', base)
        BY <1>4, <1>9, ShapeTrans DEF ShapeInv
      <4>8. ASSUME NEW k \in 1..Len(grown) PROVE WritesFiles(grown[k], tree')
        <5>1. CASE k = Len(grown)
          BY <1>6, <1>7, <1>9, <3>1, <5>1, WritesShape DEF Grows
        <5>2. CASE k # Len(grown)
          <6>1. Len(undo_list) \in Nat /\ Len(grown) = Len(undo_list) + 1
            BY <1>4, <1>7, EntriesAreList DEF Grows
          <6>2. k \in 1..Len(undo_list)
            BY <5>2, <6>1
          <6>3. grown[k] = undo_list[k] /\ undo_list[k] \in Recorded /\ undo_list[k] \in Entries
            BY <1>7, <6>2, RecordedEntries DEF Grows
          <6>4. WritesFiles(undo_list[k], tree)
            BY <6>3 DEF ShapeInv
          <6> QED BY <1>9, <6>3, <6>4, WritesShape
        <5> QED BY <5>1, <5>2
      <4>9. Leads("do", undo_list', tree', p) /\ Starts(undo_list', base', tree', p)
        BY <1>4, <1>7, <4>1, <4>5, <4>6, <4>7, <4>8, LeadsTrimmed
      <4>10. SameText(tree', tree', p)
        BY DEF SameText
      <4> QED BY <4>1, <4>9, <4>10, LeadsSame
    <3> QED BY <3>3, <3>4
  <2> QED BY <2>3, <2>4
<1> QED BY <1>8, <1>10 DEF ReplayInv

\* The beginning of undo and of redo moves no set across one that writes the
\* same file.
LEMMA StartReplays ==
    ASSUME PlainFeatures
    PROVE  TypeOK /\ ShapeInv /\ ReplayInv /\ (StartUndo \/ StartRedo) => ReplayInv'
<1> SUFFICES ASSUME TypeOK, ShapeInv, ReplayInv, StartUndo \/ StartRedo PROVE ReplayInv'
  OBVIOUS
<1>1. /\ undo_list \in Seq(Entries) /\ redo_list \in Seq(Entries)
      /\ \A k \in 1..Len(undo_list) : WritesFiles(undo_list[k], tree)
      /\ \A k \in 1..Len(redo_list) : WritesFiles(redo_list[k], tree)
  BY RecordedEntries DEF ShapeInv
<1>2. \A p \in Paths : ~IsIgnored(p) => /\ Leads("do", undo_list, tree, p)
                                        /\ Leads("undo", redo_list, tree, p)
                                        /\ Starts(undo_list, base, tree, p)
  BY DEF ReplayInv
<1>3. CASE StartUndo
  <2>1. PICK chosen \in DOMAIN undo_list, drop \in {FALSE} \cup {"drop" \in Features} :
           Undo(chosen, drop)
    BY <1>3 DEF StartUndo
  <2>2. ~drop
    BY DEF PlainFeatures
  <2>3. /\ undo_list' = MoveFront(undo_list, FindDependencies(undo_list, chosen))
        /\ run'.drop = 0 /\ UNCHANGED <<tree, redo_list, base>>
    BY <2>1, <2>2 DEF Undo
  <2>4. \A p \in Paths : ~IsIgnored(p) => /\ Leads("do", undo_list', tree, p)
                                          /\ Starts(undo_list', base, tree, p)
    BY <1>1, <1>2, <2>3, LeadsMoved
  <2> QED BY <1>2, <2>3, <2>4 DEF ReplayInv
<1>4. CASE StartRedo
  <2>1. PICK chosen \in DOMAIN redo_list : Redo(chosen)
    BY <1>4 DEF StartRedo
  <2>2. /\ redo_list' = MoveFront(redo_list, FindDependencies(redo_list, chosen))
        /\ run'.drop = 0 /\ UNCHANGED <<tree, undo_list, base>>
    BY <2>1 DEF Redo
  <2>3. \A p \in Paths : ~IsIgnored(p) => Leads("undo", redo_list', tree, p)
    BY <1>1, <1>2, <2>2, LeadsMoved
  <2> QED BY <1>2, <2>2, <2>3 DEF ReplayInv
<1> QED BY <1>3, <1>4

\* A round undoes or redoes the last set of its list, and moves it.
LEMMA RoundMoves ==
    ASSUME PlainFeatures, TypeOK, BoundedInv, ShapeInv, NEW m \in {"do", "undo"},
           NEW from \in Seq(Entries), NEW onto \in Seq(Entries), Len(from) > 0,
           Elements(from) \in SUBSET Recorded,
           NEW o \in Ends(m, LastOf(from).changes)
    PROVE  /\ LastOf(from) \in Entries /\ WritesFiles(LastOf(from), tree)
           /\ Grows(Popped(from), from, LastOf(from))
           /\ Grows(onto, Append(onto, LastOf(from)), LastOf(from))
           /\ o.ok /\ OneShape(tree, o.tree)
           /\ \A p \in Paths :
                 /\ Writes(LastOf(from), p) => /\ Text(o.tree, p) = Reach(m, LastOf(from), p)
                                               /\ o.tree[p] \in Data
                 /\ ~Writes(LastOf(from), p) => SameText(tree, o.tree, p)
<1> DEFINE e == LastOf(from)
<1>1. e \in Entries /\ e \in Elements(from)
  BY LastRecorded
<1>2. WritesFiles(e, tree)
  BY <1>1 DEF ShapeInv
<1>3. Grows(Popped(from), from, e) /\ Grows(onto, Append(onto, e), e)
  BY <1>1, ListGrows
<1>4. tree \in Trees /\ WellFormed(tree) /\ "interrupt" \notin Features
  BY DEF TypeOK, ShapeInv, PlainFeatures
<1> HIDE DEF e
<1>5. o \in Ends(m, e.changes)
  BY DEF e
<1>6. /\ o.ok /\ OneShape(tree, o.tree)
      /\ \A p \in Paths : /\ Writes(e, p) => o.tree[p] = Reach(m, e, p)
                          /\ ~Writes(e, p) => o.tree[p] = tree[p]
  BY <1>1, <1>2, <1>4, <1>5, WritesEnd
<1>7. ASSUME NEW p \in Paths, Writes(e, p)
      PROVE  Text(o.tree, p) = Reach(m, e, p) /\ o.tree[p] \in Data
  <2>1. Reach(m, e, p) \in Data /\ Decode[Reach(m, e, p)] = Reach(m, e, p)
    BY <1>1, <1>2, <1>7, ReachesText
  <2> QED BY <1>6, <1>7, <2>1 DEF Text
<1>8. ASSUME NEW p \in Paths, ~Writes(e, p) PROVE SameText(tree, o.tree, p)
  BY <1>6, <1>8 DEF SameText
<1> QED BY <1>1, <1>2, <1>3, <1>6, <1>7, <1>8 DEF e

\* A round of undo takes the last set off the one list and puts it on the other.
LEMMA UndoReplays ==
    ASSUME PlainFeatures
    PROVE  TypeOK /\ BoundedInv /\ ShapeInv /\ ReplayInv /\ PerformUndo => ReplayInv'
<1> SUFFICES ASSUME TypeOK, BoundedInv, ShapeInv, ReplayInv, PerformUndo PROVE ReplayInv'
  OBVIOUS
<1> DEFINE e == LastOf(undo_list)
<1>1. /\ undo_list \in Seq(Entries) /\ redo_list \in Seq(Entries) /\ Len(undo_list) > 0
      /\ Elements(undo_list) \in SUBSET Recorded
  <2>1. /\ undo_list \in Seq(Entries) /\ redo_list \in Seq(Entries)
        /\ Len(undo_list) \in Nat /\ run.left \in Nat
    BY LenProperties DEF TypeOK
  <2>2. run.op = "undo" /\ run.left > 0
    BY DEF PerformUndo
  <2>3. Len(undo_list) > 0
    BY <2>1, <2>2 DEF BoundedInv, RoundsLeft
  <2> QED BY <2>1, <2>3 DEF Recorded, Members
<1>2. PICK o \in Ends("undo", e.changes) :
         /\ tree' = o.tree
         /\ IF o.ok THEN /\ undo_list' = Popped(undo_list)
                         /\ redo_list' = Append(redo_list, e)
                         /\ run' = Continue
                    ELSE run' = Idle /\ UNCHANGED <<undo_list, redo_list>>
  BY DEF PerformUndo
<1>3. /\ e \in Entries /\ WritesFiles(e, tree)
      /\ Grows(Popped(undo_list), undo_list, e)
      /\ Grows(redo_list, Append(redo_list, e), e)
      /\ o.ok /\ OneShape(tree, o.tree)
      /\ \A p \in Paths : /\ Writes(e, p) => /\ Text(o.tree, p) = Reach("undo", e, p)
                                             /\ o.tree[p] \in Data
                          /\ ~Writes(e, p) => SameText(tree, o.tree, p)
  BY <1>1, <1>2, RoundMoves
<1> HIDE DEF e
<1>4. /\ undo_list' = Popped(undo_list) /\ redo_list' = Append(redo_list, e)
      /\ base' = base /\ run'.drop = 0
  <2>1. Continue.drop = run.drop
    BY DEF Continue, TypeOK
  <2>2. base' = base
    BY DEF PerformUndo
  <2> QED BY <1>2, <1>3, <2>1, <2>2 DEF ReplayInv
<1>5. Opposite("do") = "undo" /\ Opposite("undo") = "do"
  BY DEF Opposite
<1>6. ASSUME NEW p \in Paths, ~IsIgnored(p)
      PROVE  /\ Leads("do", undo_list', tree', p)
             /\ Leads("undo", redo_list', tree', p)
             /\ Starts(undo_list', base', tree', p)
  <2>1. /\ Leads("do", undo_list, tree, p) /\ Leads("undo", redo_list, tree, p)
        /\ Starts(undo_list, base, tree, p)
    BY <1>6 DEF ReplayInv
  <2>2. /\ Writes(e, p) => Text(tree', p) = Reach("undo", e, p) /\ tree'[p] \in Data
        /\ ~Writes(e, p) => SameText(tree, tree', p) /\ Text(tree, p) = Text(tree', p)
    BY <1>2, <1>3, SameTextFacts
  <2>3. Writes(e, p) => Reach("do", e, p) = Text(tree, p)
    BY <1>3, <2>1, LastLeads
  <2>4. Writes(e, p) => base[p] \in Data
    <3>1. WritesFiles(e, base)
      BY <1>3, WritesShape DEF ShapeInv
    <3> QED BY <1>3, <3>1, ReachesText
  <2>5. Leads("do", Popped(undo_list), tree', p)
    BY <1>3, <1>5, <2>1, <2>2, LeadsLess
  <2>6. Leads("undo", Append(redo_list, e), tree', p)
    BY <1>3, <1>5, <2>1, <2>2, <2>3, LeadsMore
  <2>7. Starts(Popped(undo_list), base, tree', p)
    BY <1>3, <2>1, <2>2, <2>4, StartsLess
  <2> QED BY <1>4, <2>5, <2>6, <2>7
<1> QED BY <1>4, <1>6 DEF ReplayInv

\* A round of redo does the same the other way round.
LEMMA RedoReplays ==
    ASSUME PlainFeatures
    PROVE  TypeOK /\ BoundedInv /\ ShapeInv /\ ReplayInv /\ PerformRedo => ReplayInv'
<1> SUFFICES ASSUME TypeOK, BoundedInv, ShapeInv, ReplayInv, PerformRedo PROVE ReplayInv'
  OBVIOUS
<1> DEFINE e == LastOf(redo_list)
<1>1. /\ undo_list \in Seq(Entries) /\ redo_list \in Seq(Entries) /\ Len(redo_list) > 0
      /\ Elements(redo_list) \in SUBSET Recorded
  <2>1. /\ undo_list \in Seq(Entries) /\ redo_list \in Seq(Entries)
        /\ Len(redo_list) \in Nat /\ run.left \in Nat
    BY LenProperties DEF TypeOK
  <2>2. run.op = "redo" /\ run.left > 0
    BY DEF PerformRedo
  <2>3. Len(redo_list) > 0
    BY <2>1, <2>2 DEF BoundedInv, RoundsLeft
  <2> QED BY <2>1, <2>3 DEF Recorded, Members
<1>2. PICK o \in Ends("do", e.changes) :
         /\ tree' = o.tree
         /\ IF o.ok THEN /\ redo_list' = Popped(redo_list)
                         /\ undo_list' = Append(undo_list, e)
                         /\ run' = Continue
                    ELSE run' = Idle /\ UNCHANGED <<undo_list, redo_list>>
  BY DEF PerformRedo
<1>3. /\ e \in Entries /\ WritesFiles(e, tree)
      /\ Grows(Popped(redo_list), redo_list, e)
      /\ Grows(undo_list, Append(undo_list, e), e)
      /\ o.ok /\ OneShape(tree, o.tree)
      /\ \A p \in Paths : /\ Writes(e, p) => /\ Text(o.tree, p) = Reach("do", e, p)
                                             /\ o.tree[p] \in Data
                          /\ ~Writes(e, p) => SameText(tree, o.tree, p)
  BY <1>1, <1>2, RoundMoves
<1> HIDE DEF e
<1>4. /\ redo_list' = Popped(redo_list) /\ undo_list' = Append(undo_list, e)
      /\ base' = base /\ run'.drop = 0
  <2>1. Continue.drop = run.drop
    BY DEF Continue, TypeOK
  <2>2. base' = base
    BY DEF PerformRedo
  <2> QED BY <1>2, <1>3, <2>1, <2>2 DEF ReplayInv
<1>5. Opposite("do") = "undo" /\ Opposite("undo") = "do"
  BY DEF Opposite
<1>6. ASSUME NEW p \in Paths, ~IsIgnored(p)
      PROVE  /\ Leads("do", undo_list', tree', p)
             /\ Leads("undo", redo_list', tree', p)
             /\ Starts(undo_list', base', tree', p)
  <2>1. /\ Leads("do", undo_list, tree, p) /\ Leads("undo", redo_list, tree, p)
        /\ Starts(undo_list, base, tree, p)
    BY <1>6 DEF ReplayInv
  <2>2. /\ Writes(e, p) => Text(tree', p) = Reach("do", e, p)
        /\ ~Writes(e, p) => SameText(tree, tree', p) /\ Text(tree, p) = Text(tree', p)
    BY <1>2, <1>3, SameTextFacts
  <2>3. Writes(e, p) => Reach("undo", e, p) = Text(tree, p)
    BY <1>3, <2>1, LastLeads
  <2>4. Leads("undo", Popped(redo_list), tree', p)
    BY <1>3, <1>5, <2>1, <2>2, LeadsLess
  <2>5. Leads("do", Append(undo_list, e), tree', p)
    BY <1>3, <1>5, <2>1, <2>2, <2>3, LeadsMore
  <2>6. Starts(Append(undo_list, e), base, tree', p)
    BY <1>3, <2>1, <2>2, <2>3, StartsMore
  <2> QED BY <1>4, <2>4, <2>5, <2>6
<1> QED BY <1>4, <1>6 DEF ReplayInv

\* The end of a call, clear, close and open: what is forgotten moves the start,
\* what is saved comes back as it was.
LEMMA SessionReplays ==
    ASSUME PlainFeatures
    PROVE  TypeOK /\ ShapeInv /\ ReplayInv
              /\ (Finish \/ Clear \/ Save \/ Restart \/ Crash \/ TornSave) => ReplayInv'
<1> SUFFICES ASSUME TypeOK, ShapeInv, ReplayInv,
                    Finish \/ Clear \/ Save \/ Restart \/ Crash \/ TornSave
             PROVE  ReplayInv'
  OBVIOUS
<1>1. /\ tree \in Trees /\ base \in Trees /\ WellFormed(tree) /\ OneShape(tree, base)
      /\ undo_list \in Seq(Entries) /\ redo_list \in Seq(Entries)
      /\ \A k \in 1..Len(undo_list) : WritesFiles(undo_list[k], tree)
  BY RecordedEntries DEF ShapeInv, TypeOK
<1>2. /\ run.drop = 0
      /\ \A p \in Paths : ~IsIgnored(p) => /\ Leads("do", undo_list, tree, p)
                                           /\ Leads("undo", redo_list, tree, p)
                                           /\ Starts(undo_list, base, tree, p)
  BY DEF ReplayInv
<1>3. Idle.drop = 0
  BY DEF Idle
<1>4. CASE Finish
  <2>1. Len(redo_list) \in Nat /\ Len(redo_list) - 0 \in 0..Len(redo_list)
    BY <1>1, LenProperties
  <2>2. redo_list' = SubSeq(redo_list, 1, Len(redo_list))
    BY <1>2, <1>4, <2>1 DEF Finish
  <2>3. redo_list' = redo_list
    <3>1. Len(redo_list) \in 0..Len(redo_list)
      BY <2>1
    <3>2. /\ redo_list' \in Seq(Entries) /\ Len(redo_list') = Len(redo_list)
          /\ \A k \in 1..Len(redo_list) : redo_list'[k] = redo_list[k]
      BY <1>1, <2>2, <3>1, Beginning
    <3> QED BY <1>1, <3>2, SeqEqual
  <2>4. run'.drop = 0 /\ UNCHANGED <<tree, undo_list, base>>
    BY <1>3, <1>4 DEF Finish
  <2> QED BY <1>2, <2>3, <2>4 DEF ReplayInv
<1>5. CASE Clear
  <2>1. undo_list' = <<>> /\ redo_list' = <<>> /\ base' = tree /\ tree' = tree /\ run' = run
    BY <1>5 DEF Clear
  <2>2. \A p : SameText(tree, tree, p)
    BY DEF SameText
  <2>3. \A p : /\ Leads("do", <<>>, tree, p) /\ Leads("undo", <<>>, tree, p)
               /\ Starts(<<>>, tree, tree, p)
    BY <2>2, LeadsSame
  <2> QED BY <1>2, <2>1, <2>3 DEF ReplayInv
<1>6. CASE Save
  <2>1. /\ undo_list' = Trimmed(undo_list) /\ redo_list' = redo_list /\ tree' = tree
        /\ run' = run /\ base' = Replay(base, Forgotten(undo_list)).tree
    BY <1>6 DEF Save
  <2>2. \A p \in Paths : ~IsIgnored(p) =>
           /\ Leads("do", Trimmed(undo_list), tree, p)
           /\ Starts(Trimmed(undo_list), Replay(base, Forgotten(undo_list)).tree, tree, p)
    BY <1>1, <1>2, LeadsTrimmed
  <2> QED BY <1>2, <2>1, <2>2 DEF ReplayInv
<1>7. CASE Restart
  <2>1. Load /\ saved.undo = undo_list /\ saved.redo = redo_list /\ UNCHANGED <<tree, base>>
    BY <1>7 DEF Restart
  <2>2. undo_list' = undo_list /\ redo_list' = redo_list /\ run' = Idle
    BY <2>1, LoadIsSaved DEF Load
  <2> QED BY <1>2, <1>3, <2>1, <2>2 DEF ReplayInv
<1>8. ~Crash /\ ~TornSave
  BY DEF Crash, TornSave, PlainFeatures
<1> QED BY <1>4, <1>5, <1>6, <1>7, <1>8

\* Histories of writes: the lists always say where the files come from and go to.
LEMMA ReplayInductive ==
    ASSUME WriteScripts, PlainFeatures
    PROVE  Spec => []ReplayInv
<1>1. Init => ReplayInv
  <2> SUFFICES ASSUME Init PROVE ReplayInv
    OBVIOUS
  <2>1. undo_list = <<>> /\ redo_list = <<>> /\ base = tree /\ run.drop = 0
    BY DEF Init, Idle
  <2>2. \A p : SameText(tree, tree, p)
    BY DEF SameText
  <2>3. \A p : /\ Leads("do", <<>>, tree, p) /\ Leads("undo", <<>>, tree, p)
               /\ Starts(<<>>, tree, tree, p)
    BY <2>2, LeadsSame
  <2> QED BY <2>1, <2>3 DEF ReplayInv
<1>2. TypeOK /\ TypeOK' /\ BoundedInv /\ ShapeInv /\ ShapeInv' /\ ReplayInv /\ [Next]_vars
         => ReplayInv'
  <2>1. ASSUME ReplayInv, UNCHANGED vars PROVE ReplayInv'
    BY <2>1 DEF vars, ReplayInv
  <2> QED BY <2>1, DoReplays, StartReplays, UndoReplays, RedoReplays, SessionReplays DEF Next
<1> QED BY <1>1, <1>2, TypeCorrect, BoundedInductive, ShapeInductive, PTL DEF Spec

\* A file that was written has one of the texts of a set in the list.
LEMMA AgreesThere ==
    ASSUME NEW m \in {"do", "undo"}, NEW e \in Entries, NEW t, WritesFiles(e, t), NEW p,
           Writes(e, p), NEW u, u[p] = Reach(m, e, p), Reach(m, e, p) = Text(t, p)
    PROVE  SameText(u, t, p)
BY ReachesText DEF SameText, Text

\* In a history of writes the directory is what the undo list, replayed, makes of
\* the directory it starts from: whatever was undone and redone out of order,
\* failed, was trimmed for max_undos, saved and loaded.
THEOREM WritesReplay ==
    ASSUME WriteScripts, PlainFeatures
    PROVE  Spec => []HistoryReplays
<1>1. ASSUME TypeOK, ShapeInv, ReplayInv PROVE HistoryReplays
  <2> DEFINE v == Replay(base, undo_list)
  <2>1. /\ tree \in Trees /\ base \in Trees /\ undo_list \in Seq(Entries)
        /\ OneShape(tree, base) /\ WellFormed(base)
        /\ DOMAIN undo_list = 1..Len(undo_list) /\ IsList(undo_list)
        /\ \A k \in 1..Len(undo_list) : undo_list[k] \in Entries
    BY <1>1, ShapeFolders, EntriesAreList DEF TypeOK, ShapeInv
  <2>2. \A k \in 1..Len(undo_list) : WritesFiles(undo_list[k], tree)
    BY <1>1, RecordedEntries DEF ShapeInv
  <2>3. \A k \in 1..Len(undo_list) : WritesFiles(undo_list[k], base)
    BY <2>1, <2>2, WritesShape
  <2>4. /\ v.ok /\ \A p \in Paths : Writers(undo_list, p) = {} => v.tree[p] = base[p]
        /\ \A p \in Paths, i \in 1..Len(undo_list) :
              Final(undo_list, p, i) => v.tree[p] = Reach("do", undo_list[i], p)
    BY <2>1, <2>3, DoneList
  <2> HIDE DEF v
  <2>5. ASSUME NEW p \in Paths, ~IsIgnored(p) PROVE SameText(v.tree, tree, p)
    <3>1. Leads("do", undo_list, tree, p) /\ Starts(undo_list, base, tree, p)
      BY <1>1, <2>5 DEF ReplayInv
    <3>2. CASE Writers(undo_list, p) = {}
      BY <2>4, <3>1, <3>2 DEF Starts, SameText
    <3>3. CASE Writers(undo_list, p) # {}
      <4>1. PICK i \in Writers(undo_list, p) : Final(undo_list, p, i)
        BY <2>1, <3>3, WritersEnds
      <4>2. i \in 1..Len(undo_list) /\ Writes(undo_list[i], p)
        BY <2>1 DEF Writers
      <4>3. v.tree[p] = Reach("do", undo_list[i], p)
        BY <2>4, <4>1, <4>2
      <4>4. Reach("do", undo_list[i], p) = Text(tree, p)
        BY <3>1, <4>1 DEF Leads
      <4> QED BY <2>1, <2>2, <4>2, <4>3, <4>4, AgreesThere
    <3> QED BY <3>2, <3>3
  <2> QED BY <2>4, <2>5 DEF HistoryReplays, Agree, v
<1> QED BY <1>1, TypeCorrect, ShapeInductive, ReplayInductive, PTL

\* In a history of writes the undo list can at every moment be undone to its
\* start, the last set first, and leaves every file with the text it began with.
THEOREM WritesUndoAll ==
    ASSUME WriteScripts, PlainFeatures
    PROVE  Spec => []UndoListUndoes
<1>1. ASSUME TypeOK, ShapeInv, ReplayInv PROVE UndoListUndoes
  <2> DEFINE v == RunAll("undo", Seqs!Reverse(AllChanges(undo_list)), tree)
  <2>1. /\ tree \in Trees /\ undo_list \in Seq(Entries)
        /\ OneShape(tree, base) /\ WellFormed(tree)
        /\ DOMAIN undo_list = 1..Len(undo_list) /\ IsList(undo_list)
        /\ \A k \in 1..Len(undo_list) : undo_list[k] \in Entries
    BY <1>1, EntriesAreList DEF TypeOK, ShapeInv
  <2>2. \A k \in 1..Len(undo_list) : WritesFiles(undo_list[k], tree)
    BY <1>1, RecordedEntries DEF ShapeInv
  <2>3. \A k \in 1..Len(undo_list) : WritesFiles(undo_list[k], base)
    BY <2>1, <2>2, WritesShape
  <2>4. /\ v.ok /\ \A p \in Paths : Writers(undo_list, p) = {} => v.tree[p] = tree[p]
        /\ \A p \in Paths, i \in 1..Len(undo_list) :
              First(undo_list, p, i) => v.tree[p] = Reach("undo", undo_list[i], p)
    BY <2>1, <2>2, UndoneList
  <2> HIDE DEF v
  <2>5. ASSUME NEW p \in Paths, ~IsIgnored(p) PROVE SameText(v.tree, base, p)
    <3>1. Starts(undo_list, base, tree, p)
      BY <1>1, <2>5 DEF ReplayInv
    <3>2. CASE Writers(undo_list, p) = {}
      <4>1. SameText(tree, base, p)
        BY <3>1, <3>2, SameTextFacts DEF Starts
      <4> QED BY <2>4, <3>2, <4>1 DEF SameText
    <3>3. CASE Writers(undo_list, p) # {}
      <4>1. PICK i \in Writers(undo_list, p) : First(undo_list, p, i)
        BY <2>1, <3>3, WritersEnds
      <4>2. i \in 1..Len(undo_list) /\ Writes(undo_list[i], p)
        BY <2>1 DEF Writers
      <4>3. v.tree[p] = Reach("undo", undo_list[i], p)
        BY <2>4, <4>1, <4>2
      <4>4. Reach("undo", undo_list[i], p) = Text(base, p)
        BY <3>1, <4>1 DEF Starts
      <4> QED BY <2>1, <2>3, <4>2, <4>3, <4>4, AgreesThere
    <3> QED BY <3>2, <3>3
  <2> QED BY <2>4, <2>5 DEF UndoListUndoes, Agree, v
<1> QED BY <1>1, TypeCorrect, ShapeInductive, ReplayInductive, PTL
=============================================================================
