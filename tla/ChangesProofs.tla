---------------------------- MODULE ChangesProofs ----------------------------
(***************************************************************************)
(* Lemmas about the operators of FileTree and Changes: what the file system *)
(* commands and the basic changes leave behind is a project directory, and  *)
(* what they capture and build is a change.  And what writes to different   *)
(* files do to a directory, done and undone, together or in part.           *)
(***************************************************************************)
EXTENDS Changes, SequenceTheorems, WellFoundedInduction, TLAPS

\* A non-empty set of natural numbers has a least element.
LEMMA LeastNatural ==
    ASSUME NEW S \in SUBSET Nat, S # {}
    PROVE  \E m \in S : \A n \in S : m <= n
<1>1. PICK m \in S : \A n \in S : ~(<<n, m>> \in OpToRel(<, Nat))
  BY NatLessThanWellFounded, WFMin, Zenon
<1>2. ASSUME NEW n \in Nat, m \in Nat, n < m PROVE <<n, m>> \in OpToRel(<, Nat)
  BY <1>2, Zenon DEF OpToRel
<1>3. \A n \in S : n \in Nat /\ m \in Nat
  OBVIOUS
<1>4. \A n \in S : ~(n < m)
  BY <1>1, <1>2, <1>3
<1> QED BY <1>3, <1>4

-----------------------------------------------------------------------------
(* The operations on the tree give trees *)

\* open(path, 'wb') and write leave a project tree.
LEMMA WriteType ==
    ASSUME NEW t \in Trees, NEW p \in Paths, NEW text \in Texts
    PROVE  WriteFile(t, p, text).tree \in Trees
BY DEF WriteFile, Raises, Leaves, Trees, Nodes, Data

\* create_file and create_folder leave a project tree.
LEMMA CreateType ==
    ASSUME NEW t \in Trees, NEW p \in Paths, NEW node \in Nodes
    PROVE  CreateNode(t, p, node).tree \in Trees
BY DEF CreateNode, Raises, Leaves, Trees

\* remove leaves a project tree.
LEMMA RemoveType ==
    ASSUME NEW t \in Trees, NEW p \in Paths
    PROVE  RemoveNode(t, p).tree \in Trees
BY DEF RemoveNode, Raises, Leaves, Trees, Nodes

\* shutil.move leaves a project tree.
LEMMA MoveType ==
    ASSUME NEW t \in Trees, NEW p \in Paths, NEW q \in Paths
    PROVE  MovePath(t, p, q).tree \in Trees
<1>1. ASSUME NEW real PROVE Renamed(t, p, real) \in Trees
  <2>1. ASSUME NEW r \in Paths
        PROVE  Renamed(t, p, real)[r] \in Nodes
    <3>1. t[r] \in Nodes /\ Absent \in Nodes /\ Dir \in Nodes
      BY DEF Trees, Nodes
    <3>2. Arrived(t, p, real, r) \in Nodes
      BY <3>1 DEF Arrived, Trees
    <3> QED BY <3>1, <3>2 DEF Renamed
  <2>2. Renamed(t, p, real) = [r \in Paths |-> Renamed(t, p, real)[r]]
    BY DEF Renamed
  <2> QED BY <2>1, <2>2 DEF Trees
<1> QED BY <1>1 DEF MovePath, Raises, Leaves

\* Doing or undoing a basic change leaves a project tree.
LEMMA PerformType ==
    ASSUME NEW m \in {"do", "undo"}, NEW c \in Changes, NEW t \in Trees
    PROVE  /\ Perform(m, c, t).tree \in Trees
           /\ Perform(m, c, t).ok \in BOOLEAN
<1>1. /\ c.res \in Paths /\ c.dest \in Paths /\ c.new \in Texts
      /\ c.old # None => c.old \in Texts
      /\ c.kind \in {"contents", "move", "create", "remove"}
  BY DEF Changes
<1>2. Empty \in Nodes /\ Dir \in Nodes
  BY FileTreeAssumption DEF Nodes, Data
<1>3. Raises(t).tree \in Trees /\ Raises(t).ok \in BOOLEAN
  BY DEF Raises
<1>4. /\ \A p \in Paths, x \in Texts : WriteFile(t, p, x).ok \in BOOLEAN
      /\ \A p \in Paths, n \in Nodes : CreateNode(t, p, n).ok \in BOOLEAN
      /\ \A p \in Paths : RemoveNode(t, p).ok \in BOOLEAN
      /\ \A p \in Paths, q \in Paths : MovePath(t, p, q).ok \in BOOLEAN
  BY DEF WriteFile, CreateNode, RemoveNode, MovePath, Raises, Leaves
<1>5. DoChange(c, t).tree \in Trees /\ DoChange(c, t).ok \in BOOLEAN
  <2>1. CASE c.kind = "contents"
    BY <1>1, <1>3, <1>4, <2>1, WriteType DEF DoChange
  <2>2. CASE c.kind = "move"
    BY <1>1, <1>4, <2>2, MoveType DEF DoChange
  <2>3. CASE c.kind = "create"
    BY <1>1, <1>2, <1>4, <2>3, CreateType DEF DoChange
  <2>4. CASE c.kind = "remove"
    BY <1>1, <1>4, <2>4, RemoveType DEF DoChange
  <2> QED BY <1>1, <2>1, <2>2, <2>3, <2>4
<1>6. UndoChange(c, t).tree \in Trees /\ UndoChange(c, t).ok \in BOOLEAN
  <2>1. CASE c.kind = "contents"
    BY <1>1, <1>3, <1>4, <2>1, WriteType DEF UndoChange
  <2>2. CASE c.kind = "move"
    BY <1>1, <1>4, <2>2, MoveType DEF UndoChange
  <2>3. CASE c.kind = "create"
    BY <1>1, <1>4, <2>3, RemoveType DEF UndoChange
  <2>4. CASE c.kind = "remove"
    BY <1>3, <2>4 DEF UndoChange
  <2> QED BY <1>1, <2>1, <2>2, <2>3, <2>4
<1> QED BY <1>5, <1>6 DEF Perform

\* What ChangeContents.do captures is a text.
LEMMA CapturedType ==
    ASSUME NEW c \in Changes, NEW t \in Trees
    PROVE  Captured(c, t) \in Changes
<1>1. CASE c.kind = "contents" /\ c.old = None /\ CanRead(t, c.res)
  <2>1. t[c.res] \in Data
    BY <1>1 DEF CanRead, IsFile
  <2>2. Decode[t[c.res]] \in Texts
    BY <2>1, FileTreeAssumption
  <2> QED BY <1>1, <2>2 DEF Captured, Changes
<1>2. CASE ~(c.kind = "contents" /\ c.old = None /\ CanRead(t, c.res))
  BY <1>2 DEF Captured
<1> QED BY <1>1, <1>2

\* A built change set is a sequence of changes.
LEMMA BuiltType ==
    ASSUME NEW s \in Seq(Changes), NEW t \in Trees,
           \A i \in DOMAIN s : Built(s, t)[i].dest \in Paths
    PROVE  Built(s, t) \in Seq(Changes)
<1>1. ASSUME NEW i \in DOMAIN s PROVE Built(s, t)[i] \in Changes
  <2>1. s[i] \in Changes
    BY ElementOfSeq
  <2>2. Built(s, t)[i] = BuiltOne(s[i], t) /\ BuiltOne(s[i], t).dest \in Paths
    BY DEF Built
  <2>3. CASE s[i].kind = "move" /\ t[s[i].dest] = Dir
    BY <2>1, <2>2, <2>3 DEF BuiltOne, Changes
  <2>4. CASE ~(s[i].kind = "move" /\ t[s[i].dest] = Dir)
    BY <2>1, <2>2, <2>4 DEF BuiltOne
  <2> QED BY <2>3, <2>4
<1>2. Len(s) \in Nat /\ DOMAIN s = 1..Len(s)
  BY LenProperties
<1>3. Built(s, t) = [i \in 1..Len(s) |-> Built(s, t)[i]]
  BY <1>2 DEF Built
<1> QED BY <1>1, <1>2, <1>3, IsASeq

-----------------------------------------------------------------------------
(* RunAll: the changes of a set performed in turn *)

NotBegun(t) == [ok |-> TRUE, tree |-> t, done |-> <<>>]

\* f[n] is where the first n changes of the set have brought the run.
RunUpTo(f, m, s, t, n) ==
    f = [k \in 0..n |-> IF k = 0 THEN NotBegun(t) ELSE Extend(m, f[k - 1], s[k])]

\* The changes of a set can be performed in turn up to any of them.
LEMMA RunExists ==
    ASSUME NEW m, NEW s, NEW t, NEW n \in Nat
    PROVE  \E f : RunUpTo(f, m, s, t, n)
<1> DEFINE Bad == {k \in Nat : ~ \E f : RunUpTo(f, m, s, t, k)}
<1> SUFFICES ASSUME Bad # {} PROVE FALSE
  OBVIOUS
<1>1. PICK k \in Bad : \A l \in Bad : k <= l
  <2>1. Bad \in SUBSET Nat
    OBVIOUS
  <2> HIDE DEF Bad
  <2> QED BY <2>1, LeastNatural
<1>2. k \in Nat /\ ~ \E f : RunUpTo(f, m, s, t, k)
  OBVIOUS
<1>3. CASE k = 0
  <2> DEFINE f == [l \in 0..0 |-> NotBegun(t)]
  <2>1. RunUpTo(f, m, s, t, 0)
    BY DEF RunUpTo
  <2> QED BY <1>2, <1>3, <2>1
<1>4. CASE k # 0
  <2>1. k - 1 \in Nat /\ ~(k <= k - 1)
    BY <1>2, <1>4
  <2>2. PICK f : RunUpTo(f, m, s, t, k - 1)
    BY <1>1, <2>1
  <2> DEFINE g == [l \in 0..k |-> IF l = k THEN Extend(m, f[k - 1], s[k]) ELSE f[l]]
  <2>3. ASSUME NEW l \in 0..k
        PROVE  g[l] = IF l = 0 THEN NotBegun(t) ELSE Extend(m, g[l - 1], s[l])
    <3>1. CASE l = k
      <4>1. l - 1 \in 0..k /\ l - 1 # k /\ l # 0
        BY <1>2, <1>4, <3>1
      <4> QED BY <3>1, <4>1
    <3>2. CASE l # k /\ l # 0
      <4>1. l - 1 \in 0..k /\ l - 1 # k /\ l \in 0..(k - 1)
        BY <1>2, <3>2
      <4>2. f[l] = Extend(m, f[l - 1], s[l])
        BY <2>2, <3>2, <4>1 DEF RunUpTo
      <4> QED BY <3>2, <4>1, <4>2
    <3>3. CASE l = 0
      <4>1. 0 \in 0..(k - 1) /\ 0 # k
        BY <2>1, <1>4
      <4>2. f[0] = NotBegun(t)
        BY <2>2, <4>1 DEF RunUpTo
      <4> QED BY <3>3, <4>1, <4>2
    <3> QED BY <3>1, <3>2, <3>3
  <2>4. g = [l \in 0..k |-> g[l]]
    OBVIOUS
  <2> HIDE DEF g
  <2>5. RunUpTo(g, m, s, t, k)
    BY <2>3, <2>4 DEF RunUpTo
  <2> QED BY <1>2, <2>5
<1> QED BY <1>3, <1>4

\* RunAll is where all changes of the set bring the run.
LEMMA RunAllIsRun ==
    ASSUME NEW m, NEW s, NEW t, Len(s) \in Nat
    PROVE  \E f : RunUpTo(f, m, s, t, Len(s)) /\ RunAll(m, s, t) = f[Len(s)]
<1> DEFINE F == CHOOSE f : RunUpTo(f, m, s, t, Len(s))
<1>1. RunUpTo(F, m, s, t, Len(s))
  BY RunExists
<1>2. RunAll(m, s, t) = F[Len(s)]
  BY DEF RunAll, RunUpTo, NotBegun
<1> QED BY <1>1, <1>2

\* The same change, but for the old contents.
Like(c, d) == /\ c.kind = d.kind /\ c.res = d.res /\ c.folder = d.folder
              /\ c.dest = d.dest /\ c.new = d.new

\* What a run is after n changes of the set: what was done are the first
\* changes of the set, all of them when nothing failed.
RunWith(r, m, s, n) ==
    /\ r \in [ok : BOOLEAN, tree : Trees, done : Seq(Changes)]
    /\ Len(r.done) <= n
    /\ r.ok => Len(r.done) = n
    /\ \A i \in 1..Len(r.done) : /\ Like(r.done[i], s[i])
                                 /\ m = "undo" => r.done[i] = s[i]

\* A change that is captured is the same but for its old contents.
LEMMA CapturedLike ==
    ASSUME NEW c \in Changes, NEW t
    PROVE  Like(Captured(c, t), c)
BY DEF Captured, Like, Changes

\* One change more keeps the type of a run.
LEMMA ExtendType ==
    ASSUME NEW m \in {"do", "undo"}, NEW s \in Seq(Changes), NEW n \in Nat,
           n + 1 \in 1..Len(s), NEW r, RunWith(r, m, s, n)
    PROVE  RunWith(Extend(m, r, s[n + 1]), m, s, n + 1)
<1> DEFINE c == s[n + 1]
           kept == IF m = "do" THEN Captured(c, r.tree) ELSE c
           result == Perform(m, c, r.tree)
           e == Extend(m, r, c)
<1>1. c \in Changes /\ r.tree \in Trees /\ r.done \in Seq(Changes)
  BY ElementOfSeq DEF RunWith
<1>2. kept \in Changes /\ Like(kept, c) /\ (m = "undo" => kept = c)
  BY <1>1, CapturedType, CapturedLike DEF Like
<1>3. result.tree \in Trees /\ result.ok \in BOOLEAN
  BY <1>1, PerformType
<1> HIDE DEF c, kept, result
<1>4. CASE ~r.ok
  <2>1. e = r
    BY <1>4 DEF Extend
  <2>2. Len(r.done) \in Nat
    BY <1>1, LenProperties
  <2> QED BY <1>4, <2>1, <2>2 DEF RunWith, c
<1>5. CASE r.ok
  <2> DEFINE d == IF result.ok THEN Append(r.done, kept) ELSE r.done
  <2>1. e = [ok |-> result.ok, tree |-> result.tree, done |-> d]
    BY <1>5 DEF Extend, result, kept
  <2>2. Len(r.done) = n /\ \A i \in 1..n : /\ Like(r.done[i], s[i])
                                           /\ m = "undo" => r.done[i] = s[i]
    BY <1>5 DEF RunWith
  <2>3. /\ Append(r.done, kept) \in Seq(Changes) /\ Len(Append(r.done, kept)) = n + 1
        /\ Append(r.done, kept)[n + 1] = kept
        /\ \A i \in 1..n : Append(r.done, kept)[i] = r.done[i]
    BY <1>1, <1>2, <2>2, AppendProperties
  <2>4. \A i \in 1..(n + 1) : i \in 1..n \/ i = n + 1
    OBVIOUS
  <2>5. ASSUME result.ok
        PROVE  \A i \in 1..(n + 1) : /\ Like(d[i], s[i])
                                     /\ m = "undo" => d[i] = s[i]
    <3>1. ASSUME NEW i \in 1..n
          PROVE  Like(d[i], s[i]) /\ (m = "undo" => d[i] = s[i])
      BY <2>2, <2>3, <2>5
    <3>2. Like(d[n + 1], s[n + 1]) /\ (m = "undo" => d[n + 1] = s[n + 1])
      BY <1>2, <2>3, <2>5 DEF c
    <3> QED BY <2>4, <3>1, <3>2
  <2>6. d \in Seq(Changes) /\ Len(d) = (IF result.ok THEN n + 1 ELSE n)
    BY <1>1, <2>2, <2>3
  <2>7. ~result.ok => d = r.done
    OBVIOUS
  <2> HIDE DEF d
  <2>8. RunWith(e, m, s, n + 1)
    <3> HIDE DEF e
    <3>1. e.ok = result.ok /\ e.tree = result.tree /\ e.done = d
          /\ e \in [ok : BOOLEAN, tree : Trees, done : Seq(Changes)]
      BY <1>3, <2>1, <2>6
    <3>2. CASE result.ok
      BY <2>5, <2>6, <3>1, <3>2 DEF RunWith
    <3>3. CASE ~result.ok
      BY <2>2, <2>6, <2>7, <3>1, <3>3 DEF RunWith
    <3> QED BY <1>3, <3>2, <3>3
  <2> QED BY <2>8 DEF c
<1>6. r.ok \in BOOLEAN
  BY DEF RunWith
<1> QED BY <1>4, <1>5, <1>6 DEF c

\* Performing the changes of a set in turn leaves a project tree, and what was
\* done is a beginning of the set.
LEMMA RunAllType ==
    ASSUME NEW m \in {"do", "undo"}, NEW s \in Seq(Changes), NEW t \in Trees
    PROVE  RunWith(RunAll(m, s, t), m, s, Len(s))
<1>1. Len(s) \in Nat
  BY LenProperties
<1>2. PICK f : RunUpTo(f, m, s, t, Len(s)) /\ RunAll(m, s, t) = f[Len(s)]
  BY <1>1, RunAllIsRun
<1> DEFINE Bad == {k \in 0..Len(s) : ~RunWith(f[k], m, s, k)}
<1>3. Bad = {}
  <2> SUFFICES ASSUME Bad # {} PROVE FALSE
    OBVIOUS
  <2>1. PICK k \in Bad : \A l \in Bad : k <= l
    <3>1. Bad \in SUBSET Nat
      OBVIOUS
    <3> HIDE DEF Bad
    <3> QED BY <3>1, LeastNatural
  <2>2. k \in 0..Len(s) /\ ~RunWith(f[k], m, s, k)
    OBVIOUS
  <2>3. CASE k = 0
    <3>1. f[0] = NotBegun(t)
      BY <1>1, <1>2 DEF RunUpTo
    <3>2. <<>> \in Seq(Changes) /\ Len(<<>>) = 0
      BY EmptySeq
    <3>3. RunWith(NotBegun(t), m, s, 0)
      BY <3>2 DEF RunWith, NotBegun
    <3> QED BY <2>2, <2>3, <3>1, <3>3
  <2>4. CASE k # 0
    <3> DEFINE n == k - 1
    <3>1. n \in Nat /\ n + 1 = k /\ n + 1 \in 1..Len(s) /\ n \in 0..Len(s) /\ ~(k <= n)
      BY <1>1, <2>2, <2>4
    <3>2. RunWith(f[n], m, s, n)
      BY <2>1, <3>1
    <3>3. f[k] = Extend(m, f[n], s[k])
      BY <1>2, <2>2, <2>4 DEF RunUpTo
    <3> HIDE DEF n
    <3>4. RunWith(Extend(m, f[n], s[n + 1]), m, s, n + 1)
      BY <3>1, <3>2, ExtendType
    <3> QED BY <2>2, <3>1, <3>3, <3>4
  <2> QED BY <2>3, <2>4
<1>4. Len(s) \in 0..Len(s)
  BY <1>1
<1> QED BY <1>2, <1>3, <1>4

-----------------------------------------------------------------------------
(* Doing or undoing a whole set *)

\* Reverse keeps the type and the length of a sequence.
LEMMA ReverseType ==
    ASSUME NEW S, NEW s \in Seq(S)
    PROVE  /\ Seqs!Reverse(s) \in Seq(S) /\ Len(Seqs!Reverse(s)) = Len(s)
           /\ \A i \in 1..Len(s) : Seqs!Reverse(s)[i] = s[Len(s) - i + 1]
<1>1. Len(s) \in Nat /\ s \in [1..Len(s) -> S]
  BY LenProperties
<1>2. \A i \in 1..Len(s) : Len(s) - i + 1 \in 1..Len(s)
  BY <1>1
<1>3. Seqs!Reverse(s) = [i \in 1..Len(s) |-> s[(Len(s) - i) + 1]]
  BY DEF Seqs!Reverse
<1>4. Seqs!Reverse(s) \in [1..Len(s) -> S]
  BY <1>1, <1>2, <1>3
<1> QED BY <1>1, <1>3, <1>4, SeqDef, LenProperties

\* The changes of a set in the order they are performed.
LEMMA InOrderType ==
    ASSUME NEW m \in {"do", "undo"}, NEW s \in Seq(Changes)
    PROVE  InOrder(m, s) \in Seq(Changes) /\ Len(InOrder(m, s)) = Len(s)
BY ReverseType DEF InOrder

\* The two modes are each other's opposite.
LEMMA OppositeMode ==
    ASSUME NEW m \in {"do", "undo"}
    PROVE  Opposite(m) \in {"do", "undo"} /\ Opposite(Opposite(m)) = m
BY DEF Opposite

\* Taking back what was done leaves a project tree.
LEMMA TakenBackType ==
    ASSUME NEW m \in {"do", "undo"}, NEW done \in Seq(Changes), NEW t \in Trees, NEW run,
           run.done = done, run.tree = t
    PROVE  TakenBack(m, run) \in Trees
<1>1. RunWith(RunAll(Opposite(m), done, t), Opposite(m), done, Len(done))
  BY OppositeMode, RunAllType
<1> QED BY <1>1 DEF TakenBack, RunWith

\* Doing or undoing a set leaves a project tree and a set of changes.
LEMMA RunSetType ==
    ASSUME NEW m \in {"do", "undo"}, NEW s \in Seq(Changes), NEW t \in Trees
    PROVE  /\ RunSet(m, s, t) \in [ok : BOOLEAN, tree : Trees, changes : Seq(Changes)]
           /\ Len(RunSet(m, s, t).changes) = Len(s)
<1> DEFINE run == RunAll(m, InOrder(m, s), t)
<1>1. InOrder(m, s) \in Seq(Changes) /\ Len(InOrder(m, s)) = Len(s)
  BY InOrderType
<1>2. RunWith(run, m, InOrder(m, s), Len(s))
  BY <1>1, RunAllType
<1>3. run.ok \in BOOLEAN /\ run.tree \in Trees /\ run.done \in Seq(Changes)
      /\ (run.ok => Len(run.done) = Len(s))
  BY <1>2 DEF RunWith
<1>4. InOrder(m, run.done) \in Seq(Changes) /\ Len(InOrder(m, run.done)) = Len(run.done)
  BY <1>3, InOrderType
<1>5. TakenBack(m, run) \in Trees
  BY <1>3, TakenBackType
<1>6. RunSet(m, s, t) =
         IF run.ok THEN [ok |-> TRUE, tree |-> run.tree, changes |-> InOrder(m, run.done)]
                   ELSE [ok |-> FALSE, tree |-> TakenBack(m, run), changes |-> s]
  BY DEF RunSet
<1> HIDE DEF run
<1>7. CASE run.ok
  BY <1>3, <1>4, <1>6, <1>7
<1>8. CASE ~run.ok
  BY <1>3, <1>5, <1>6, <1>8
<1> QED BY <1>3, <1>7, <1>8

\* A beginning of a sequence, and the beginning that is one longer.
LEMMA Beginning ==
    ASSUME NEW S, NEW s \in Seq(S), NEW n \in 0..Len(s)
    PROVE  /\ SubSeq(s, 1, n) \in Seq(S) /\ Len(SubSeq(s, 1, n)) = n
           /\ \A k \in 1..n : SubSeq(s, 1, n)[k] = s[k]
<1>1. Len(s) \in Nat /\ \A i \in 1..Len(s) : s[i] \in S
  BY LenProperties, ElementOfSeq
<1>2. CASE n = 0
  <2>1. SubSeq(s, 1, n) = <<>>
    BY <1>2
  <2>2. <<>> \in Seq(S) /\ Len(<<>>) = 0
    BY EmptySeq
  <2> QED BY <1>2, <2>1, <2>2
<1>3. CASE n # 0
  <2>1. n \in 1..Len(s) /\ 1 \in 1..(Len(s) + 1)
    BY <1>1, <1>3
  <2> QED BY <1>1, <2>1, SubSeqProperties
<1> QED BY <1>2, <1>3

\* A write that breaks leaves a project tree.
LEMMA TruncatedType ==
    ASSUME NEW c \in Changes, NEW t \in Trees
    PROVE  Truncated(c, t) \in Trees
<1>1. c.res \in Paths /\ Empty \in Nodes
  BY FileTreeAssumption DEF Changes, Nodes, Data
<1> QED BY <1>1 DEF Truncated, Trees

\* Where an exception stops a call: what was done before is a run of the
\* beginning of the set.
LEMMA HaltedIs ==
    ASSUME NEW m \in {"do", "undo"}, NEW s \in Seq(Changes), NEW t \in Trees,
           NEW n \in 1..JobsReached(m, s, t), NEW how \in {"before", "torn", "landed"}
    PROVE  /\ n \in 1..Len(s) /\ InOrder(m, s)[n] \in Changes
           /\ SubSeq(InOrder(m, s), 1, n - 1) \in Seq(Changes)
           /\ LET r == RunAll(m, SubSeq(InOrder(m, s), 1, n - 1), t)
                  run == Halted(m, s, n, how, t)
                  c == InOrder(m, s)[n]
              IN  /\ r.tree \in Trees /\ r.done \in Seq(Changes)
                  /\ run.done = r.done /\ run.tree \in Trees
                  /\ \/ run.tree = r.tree
                     \/ how = "torn" /\ run.tree = Truncated(c, r.tree)
                     \/ how = "landed" /\ run.tree = Perform(m, c, r.tree).tree
<1> DEFINE plan == InOrder(m, s)
           before == RunAll(m, SubSeq(plan, 1, n - 1), t)
           after == CASE how = "before" -> before.tree
                      [] how = "torn" -> Truncated(plan[n], before.tree)
                      [] how = "landed" -> Perform(m, plan[n], before.tree).tree
           stopped == [before EXCEPT !.tree = after]
<1>1. plan \in Seq(Changes) /\ Len(plan) = Len(s) /\ Len(plan) \in Nat
  BY InOrderType, LenProperties
<1>2. n \in 1..Len(plan)
  <2>1. RunWith(RunAll(m, plan, t), m, plan, Len(plan))
    BY <1>1, RunAllType
  <2>2. Len(RunAll(m, plan, t).done) <= Len(plan) /\ RunAll(m, plan, t).done \in Seq(Changes)
    BY <2>1 DEF RunWith
  <2>3. Len(RunAll(m, plan, t).done) \in Nat
    BY <2>2, LenProperties
  <2>4. JobsReached(m, s, t) = Len(RunAll(m, plan, t).done)
    BY DEF JobsReached
  <2> HIDE DEF plan
  <2> QED BY <1>1, <2>2, <2>3, <2>4
<1>3. stopped = Halted(m, s, n, how, t)
  BY DEF Halted
<1> HIDE DEF plan
<1>4. SubSeq(plan, 1, n - 1) \in Seq(Changes)
  <2>1. 1 \in 1..(Len(plan) + 1) /\ n - 1 \in 0..Len(plan)
    BY <1>1, <1>2
  <2> QED BY <1>1, <2>1, SubSeqProperties
<1>5. RunWith(before, m, SubSeq(plan, 1, n - 1), Len(SubSeq(plan, 1, n - 1)))
  BY <1>4, RunAllType
<1>6. before \in [ok : BOOLEAN, tree : Trees, done : Seq(Changes)]
  BY <1>5 DEF RunWith
<1>7. before = RunAll(m, SubSeq(plan, 1, n - 1), t)
  OBVIOUS
<1> HIDE DEF before
<1>8. plan[n] \in Changes
  BY <1>1, <1>2, ElementOfSeq
<1>9. /\ after \in Trees
      /\ \/ after = before.tree
         \/ how = "torn" /\ after = Truncated(plan[n], before.tree)
         \/ how = "landed" /\ after = Perform(m, plan[n], before.tree).tree
  <2>1. /\ before.tree \in Trees /\ Truncated(plan[n], before.tree) \in Trees
        /\ Perform(m, plan[n], before.tree).tree \in Trees
    BY <1>6, <1>8, PerformType, TruncatedType
  <2> QED BY <2>1
<1> HIDE DEF after
<1>10. stopped.done = before.done /\ stopped.tree = after /\ before.done \in Seq(Changes)
       /\ before.tree \in Trees
  BY <1>6
<1> HIDE DEF stopped
<1> QED BY <1>1, <1>2, <1>3, <1>4, <1>7, <1>8, <1>9, <1>10 DEF plan

\* A method enters its except branch with the run that failed, or halted at
\* one of the jobs it came to.
LEMMA HaltsAre ==
    ASSUME NEW m, NEW s, NEW t, NEW run \in Halts(m, s, t)
    PROVE  \/ run = RunAll(m, InOrder(m, s), t) /\ ~run.ok
           \/ \E n \in 1..JobsReached(m, s, t), how \in {"before", "torn", "landed"} :
                 /\ run = Halted(m, s, n, how, t)
                 /\ how = "torn" => InOrder(m, s)[n].kind = "contents"
<1> DEFINE whole == RunAll(m, InOrder(m, s), t)
           jobs == 1..JobsReached(m, s, t)
           torn == {Halted(m, s, n, "torn", t) :
                       n \in {k \in jobs : InOrder(m, s)[k].kind = "contents"}}
           plain == {Halted(m, s, n, how, t) : n \in jobs, how \in {"before", "landed"}}
<1>1. Halts(m, s, t) = (IF whole.ok THEN {} ELSE {whole}) \cup plain \cup torn
  BY DEF Halts
<1>2. CASE run \in torn
  <2>1. PICK n \in jobs : /\ InOrder(m, s)[n].kind = "contents"
                          /\ run = Halted(m, s, n, "torn", t)
    BY <1>2
  <2> QED BY <2>1
<1>3. CASE run \in plain
  <2>1. PICK n \in jobs, how \in {"before", "landed"} : run = Halted(m, s, n, how, t)
    BY <1>3
  <2> QED BY <2>1
<1> HIDE DEF torn, plain
<1> QED BY <1>1, <1>2, <1>3

\* The same, as what the except branch needs of it.
LEMMA HaltsType ==
    ASSUME NEW m \in {"do", "undo"}, NEW s \in Seq(Changes), NEW t \in Trees,
           NEW run \in Halts(m, s, t)
    PROVE  run.done \in Seq(Changes) /\ run.tree \in Trees
<1>1. CASE run = RunAll(m, InOrder(m, s), t)
  <2>1. RunWith(run, m, InOrder(m, s), Len(InOrder(m, s)))
    BY <1>1, InOrderType, RunAllType
  <2> QED BY <2>1 DEF RunWith
<1>2. ASSUME NEW n \in 1..JobsReached(m, s, t), NEW how \in {"before", "torn", "landed"},
             run = Halted(m, s, n, how, t)
      PROVE  run.done \in Seq(Changes) /\ run.tree \in Trees
  BY <1>2, HaltedIs
<1> QED BY <1>1, <1>2, HaltsAre

\* What the except branch leaves is what it comes to when it is cut short, or
\* that with one write broken.
LEMMA RolledBackIs ==
    ASSUME NEW m \in {"do", "undo"}, NEW run, run.done \in Seq(Changes), run.tree \in Trees,
           NEW left \in RolledBack(m, run)
    PROVE  \E k \in 0..Len(run.done) :
              LET back == RunAll(Opposite(m), SubSeq(run.done, 1, k), run.tree).tree
              IN  \/ left = back
                  \/ /\ k + 1 \in 1..Len(run.done) /\ run.done[k + 1].kind = "contents"
                     /\ CanWrite(back, run.done[k + 1].res)
                     /\ left = Truncated(run.done[k + 1], back)
<1>0. Len(run.done) \in Nat /\ DOMAIN run.done = 1..Len(run.done)
  BY LenProperties
<1>1. CASE left = TakenBack(m, run)
  <2>1. SubSeq(run.done, 1, Len(run.done)) = run.done
    BY <1>0, SubSeqFull
  <2>2. left = RunAll(Opposite(m), SubSeq(run.done, 1, Len(run.done)), run.tree).tree
    BY <1>1, <2>1 DEF TakenBack
  <2>3. Len(run.done) \in 0..Len(run.done)
    BY <1>0
  <2> QED BY <2>2, <2>3
<1>2. CASE \E k \in DOMAIN run.done : left = CutAfter(m, run, k)
  <2>1. PICK k \in 1..Len(run.done) : left = CutAfter(m, run, k)
    BY <1>0, <1>2
  <2>2. k \in 0..Len(run.done)
    BY <1>0
  <2> QED BY <2>1, <2>2 DEF CutAfter
<1>3. CASE \E k \in DOMAIN run.done :
              run.done[k].kind = "contents" /\ left = CutWithin(m, run, k)
  <2>1. PICK k \in 1..Len(run.done) :
              run.done[k].kind = "contents" /\ left = CutWithin(m, run, k)
    BY <1>0, <1>3
  <2>2. k - 1 \in 0..Len(run.done) /\ (k - 1) + 1 = k
    BY <1>0
  <2> QED BY <2>1, <2>2 DEF CutWithin
<1> QED BY <1>1, <1>2, <1>3 DEF RolledBack

\* The except branch leaves a project tree.
LEMMA RolledBackType ==
    ASSUME NEW m \in {"do", "undo"}, NEW run, run.done \in Seq(Changes), run.tree \in Trees,
           NEW left \in RolledBack(m, run)
    PROVE  left \in Trees
<1>1. PICK k \in 0..Len(run.done) :
              LET back == RunAll(Opposite(m), SubSeq(run.done, 1, k), run.tree).tree
              IN  \/ left = back
                  \/ /\ k + 1 \in 1..Len(run.done) /\ run.done[k + 1].kind = "contents"
                     /\ CanWrite(back, run.done[k + 1].res)
                     /\ left = Truncated(run.done[k + 1], back)
  BY RolledBackIs
<1>2. SubSeq(run.done, 1, k) \in Seq(Changes)
  BY Beginning
<1> DEFINE back == RunAll(Opposite(m), SubSeq(run.done, 1, k), run.tree)
<1>3. back.tree \in Trees
  <2>1. RunWith(back, Opposite(m), SubSeq(run.done, 1, k), Len(SubSeq(run.done, 1, k)))
    BY <1>2, OppositeMode, RunAllType
  <2> HIDE DEF back
  <2> QED BY <2>1 DEF RunWith
<1> HIDE DEF back
<1>4. left = back.tree
      \/ (k + 1 \in 1..Len(run.done) /\ left = Truncated(run.done[k + 1], back.tree))
  BY <1>1 DEF back
<1>5. k + 1 \in 1..Len(run.done) => run.done[k + 1] \in Changes
  BY ElementOfSeq
<1> QED BY <1>3, <1>4, <1>5, TruncatedType

\* However a call ends: the whole run, or what an except branch left.
LEMMA OutcomeIs ==
    ASSUME NEW m, NEW s, NEW t, NEW o \in Outcomes(m, s, t)
    PROVE  \/ o = RunSet(m, s, t)
           \/ \E run \in Halts(m, s, t) : \E left \in RolledBack(m, run) :
                 o = [ok |-> FALSE, tree |-> left, changes |-> s]
<1> DEFINE lefts == UNION {RolledBack(m, run) : run \in Halts(m, s, t)}
<1>1. o = RunSet(m, s, t) \/ o \in {[ok |-> FALSE, tree |-> left, changes |-> s] : left \in lefts}
  BY DEF Outcomes
<1>2. CASE o \in {[ok |-> FALSE, tree |-> left, changes |-> s] : left \in lefts}
  <2>1. PICK left \in lefts : o = [ok |-> FALSE, tree |-> left, changes |-> s]
    BY <1>2
  <2>2. PICK run \in Halts(m, s, t) : left \in RolledBack(m, run)
    BY <2>1
  <2> QED BY <2>1, <2>2
<1> QED BY <1>1, <1>2

\* However ChangeSet.do or ChangeSet.undo ends, there is a project tree and a
\* set of as many changes.
LEMMA OutcomesType ==
    ASSUME NEW m \in {"do", "undo"}, NEW s \in Seq(Changes), NEW t \in Trees,
           NEW o \in Outcomes(m, s, t)
    PROVE  /\ o \in [ok : BOOLEAN, tree : Trees, changes : Seq(Changes)]
           /\ Len(o.changes) = Len(s)
<1>1. CASE o = RunSet(m, s, t)
  BY <1>1, RunSetType
<1>2. ASSUME NEW run \in Halts(m, s, t), NEW left \in RolledBack(m, run),
             o = [ok |-> FALSE, tree |-> left, changes |-> s]
      PROVE  /\ o \in [ok : BOOLEAN, tree : Trees, changes : Seq(Changes)]
             /\ Len(o.changes) = Len(s)
  <2>1. left \in Trees
    BY HaltsType, RolledBackType
  <2> QED BY <1>2, <2>1
<1> QED BY <1>1, <1>2, OutcomeIs

-----------------------------------------------------------------------------
(* A run and the runs of the beginnings of its set *)

\* The run of a beginning of a set is where the whole run was at that point.
LEMMA RunPrefix ==
    ASSUME NEW S, NEW s \in Seq(S), NEW m, NEW t, NEW f, RunUpTo(f, m, s, t, Len(s)),
           NEW n \in 0..Len(s)
    PROVE  RunAll(m, SubSeq(s, 1, n), t) = f[n]
<1>1. Len(s) \in Nat
  BY LenProperties
<1>2. n \in Nat /\ Len(SubSeq(s, 1, n)) = n /\ \A k \in 1..n : SubSeq(s, 1, n)[k] = s[k]
  BY <1>1, Beginning
<1>3. PICK g : /\ RunUpTo(g, m, SubSeq(s, 1, n), t, n)
               /\ RunAll(m, SubSeq(s, 1, n), t) = g[n]
  BY <1>2, RunAllIsRun
<1> DEFINE Bad == {k \in 0..n : g[k] # f[k]}
<1>4. Bad = {}
  <2> SUFFICES ASSUME Bad # {} PROVE FALSE
    OBVIOUS
  <2>1. PICK k \in Bad : \A l \in Bad : k <= l
    <3>1. Bad \in SUBSET Nat
      BY <1>2
    <3> HIDE DEF Bad
    <3> QED BY <3>1, LeastNatural
  <2>2. k \in 0..n /\ g[k] # f[k] /\ k \in 0..Len(s)
    BY <1>1
  <2>3. k # 0
    BY <1>3, <2>2 DEF RunUpTo
  <2>4. k - 1 \in 0..n /\ ~(k <= k - 1) /\ k \in 1..n
    BY <1>2, <2>2, <2>3
  <2>5. g[k - 1] = f[k - 1] /\ SubSeq(s, 1, n)[k] = s[k]
    BY <1>2, <2>1, <2>4
  <2>6. g[k] = Extend(m, g[k - 1], SubSeq(s, 1, n)[k])
    BY <1>3, <2>2, <2>3 DEF RunUpTo
  <2>7. f[k] = Extend(m, f[k - 1], s[k])
    BY <2>2, <2>3 DEF RunUpTo
  <2> QED BY <2>2, <2>5, <2>6, <2>7
<1> HIDE DEF Bad
<1>5. n \in 0..n
  BY <1>2
<1> QED BY <1>3, <1>4, <1>5 DEF Bad

\* From one beginning of a set to the next, and from the last to the whole.
LEMMA RunSteps ==
    ASSUME NEW S, NEW s \in Seq(S), NEW m, NEW t
    PROVE  /\ RunAll(m, SubSeq(s, 1, 0), t) = NotBegun(t)
           /\ RunAll(m, SubSeq(s, 1, Len(s)), t) = RunAll(m, s, t)
           /\ \A n \in 1..Len(s) :
                RunAll(m, SubSeq(s, 1, n), t)
                    = Extend(m, RunAll(m, SubSeq(s, 1, n - 1), t), s[n])
<1>1. Len(s) \in Nat
  BY LenProperties
<1>2. PICK f : RunUpTo(f, m, s, t, Len(s)) /\ RunAll(m, s, t) = f[Len(s)]
  BY <1>1, RunAllIsRun
<1>3. \A n \in 0..Len(s) : RunAll(m, SubSeq(s, 1, n), t) = f[n]
  BY <1>2, RunPrefix
<1>4. f[0] = NotBegun(t)
  BY <1>1, <1>2 DEF RunUpTo
<1>5. ASSUME NEW n \in 1..Len(s) PROVE f[n] = Extend(m, f[n - 1], s[n])
  <2>1. n \in 0..Len(s) /\ n # 0
    BY <1>1
  <2> QED BY <1>2, <2>1 DEF RunUpTo
<1>6. /\ 0 \in 0..Len(s) /\ Len(s) \in 0..Len(s)
      /\ \A n \in 1..Len(s) : n \in 0..Len(s) /\ n - 1 \in 0..Len(s)
  BY <1>1
<1> HIDE DEF NotBegun
<1> QED BY <1>2, <1>3, <1>4, <1>5, <1>6

\* The same for one change.
LEMMA RunStep ==
    ASSUME NEW S, NEW s \in Seq(S), NEW m, NEW t, NEW n \in 1..Len(s)
    PROVE  RunAll(m, SubSeq(s, 1, n), t) = Extend(m, RunAll(m, SubSeq(s, 1, n - 1), t), s[n])
<1>1. \A k \in 1..Len(s) :
         RunAll(m, SubSeq(s, 1, k), t) = Extend(m, RunAll(m, SubSeq(s, 1, k - 1), t), s[k])
  BY RunSteps
<1> QED BY <1>1

\* A change that fails leaves the directory as it was.
LEMMA FailureLeaves ==
    ASSUME NEW m \in {"do", "undo"}, NEW c \in Changes, NEW t, ~Perform(m, c, t).ok
    PROVE  Perform(m, c, t).tree = t
<1>1. c.kind \in {"contents", "move", "create", "remove"}
  BY DEF Changes
<1>2. \A p, v : /\ ~WriteFile(t, p, v).ok => WriteFile(t, p, v).tree = t
                /\ ~CreateNode(t, p, v).ok => CreateNode(t, p, v).tree = t
                /\ ~RemoveNode(t, p).ok => RemoveNode(t, p).tree = t
                /\ ~MovePath(t, p, v).ok => MovePath(t, p, v).tree = t
  BY DEF WriteFile, CreateNode, RemoveNode, MovePath, Raises, Leaves
<1>3. CASE m = "do"
  <2>1. Perform(m, c, t) = DoChange(c, t)
    BY <1>3 DEF Perform
  <2> QED BY <1>1, <1>2, <2>1 DEF DoChange, Raises
<1>4. CASE m = "undo"
  <2>1. Perform(m, c, t) = UndoChange(c, t)
    BY <1>4 DEF Perform
  <2> QED BY <1>1, <1>2, <2>1 DEF UndoChange, Raises
<1> QED BY <1>3, <1>4

\* When a change of the set fails, the rest of the set adds nothing.
LEMMA RunStops ==
    ASSUME NEW S, NEW s \in Seq(S), NEW m, NEW t, NEW n \in 0..Len(s),
           ~RunAll(m, SubSeq(s, 1, n), t).ok
    PROVE  RunAll(m, s, t) = RunAll(m, SubSeq(s, 1, n), t)
<1> DEFINE R(k) == RunAll(m, SubSeq(s, 1, k), t)
           Bad == {k \in n..Len(s) : R(k) # R(n)}
<1>1. Len(s) \in Nat /\ n \in Nat /\ Len(s) \in n..Len(s)
  BY LenProperties
<1>2. Bad = {}
  <2> SUFFICES ASSUME Bad # {} PROVE FALSE
    OBVIOUS
  <2>1. PICK k \in Bad : \A l \in Bad : k <= l
    <3>1. Bad \in SUBSET Nat
      BY <1>1
    <3> HIDE DEF Bad
    <3> QED BY <3>1, LeastNatural
  <2>2. k \in n..Len(s) /\ R(k) # R(n)
    OBVIOUS
  <2>3. k # n
    BY <2>2
  <2>4. k - 1 \in n..Len(s) /\ ~(k <= k - 1) /\ k \in 1..Len(s)
    BY <1>1, <2>2, <2>3
  <2>5. R(k - 1) = R(n)
    BY <2>1, <2>4
  <2>6. R(k) = Extend(m, R(k - 1), s[k])
    BY <2>4, RunSteps
  <2>7. Extend(m, R(k - 1), s[k]) = R(k - 1)
    BY <2>5 DEF Extend
  <2> QED BY <2>2, <2>5, <2>6, <2>7
<1> HIDE DEF Bad
<1>3. R(Len(s)) = R(n)
  BY <1>1, <1>2 DEF Bad
<1> QED BY <1>3, RunSteps

\* One change more takes nothing from what is done.
LEMMA ExtendDone ==
    ASSUME NEW m, NEW r, r.done \in Seq(Changes), NEW c
    PROVE  Len(r.done) <= Len(Extend(m, r, c).done)
<1>0. Len(r.done) \in Nat
  BY LenProperties
<1>1. CASE ~r.ok
  BY <1>0, <1>1 DEF Extend
<1>2. CASE r.ok /\ ~Perform(m, c, r.tree).ok
  BY <1>0, <1>2 DEF Extend
<1>3. CASE r.ok /\ Perform(m, c, r.tree).ok
  <2> DEFINE kept == IF m = "do" THEN Captured(c, r.tree) ELSE c
  <2>1. Extend(m, r, c).done = Append(r.done, kept)
    BY <1>3 DEF Extend
  <2> HIDE DEF kept
  <2>2. Len(Append(r.done, kept)) = Len(r.done) + 1
    OBVIOUS
  <2> QED BY <1>0, <2>1, <2>2
<1> QED BY <1>1, <1>2, <1>3

\* What a run has done stays done: a set that gets past n changes has n jobs.
LEMMA RunReaches ==
    ASSUME NEW m \in {"do", "undo"}, NEW s \in Seq(Changes), NEW t \in Trees,
           NEW n \in 0..Len(s), RunAll(m, SubSeq(s, 1, n), t).ok
    PROVE  n <= Len(RunAll(m, s, t).done)
<1> DEFINE R(k) == RunAll(m, SubSeq(s, 1, k), t)
           Bad == {k \in n..Len(s) : ~(n <= Len(R(k).done))}
<1>1. Len(s) \in Nat /\ n \in Nat /\ Len(s) \in n..Len(s)
  BY LenProperties
<1>0. \A k \in 1..Len(s) : R(k) = Extend(m, R(k - 1), s[k])
  BY RunSteps
<1>2. ASSUME NEW k \in 0..Len(s)
      PROVE  R(k).done \in Seq(Changes) /\ Len(R(k).done) \in Nat /\ (R(k).ok => Len(R(k).done) = k)
  <2>1. SubSeq(s, 1, k) \in Seq(Changes) /\ Len(SubSeq(s, 1, k)) = k
    BY Beginning
  <2>2. RunWith(R(k), m, SubSeq(s, 1, k), k)
    BY <2>1, RunAllType
  <2> HIDE DEF R
  <2>3. R(k).done \in Seq(Changes) /\ (R(k).ok => Len(R(k).done) = k)
    BY <2>2 DEF RunWith
  <2> QED BY <2>3, LenProperties
<1>3. Bad = {}
  <2> SUFFICES ASSUME Bad # {} PROVE FALSE
    OBVIOUS
  <2>1. PICK k \in Bad : \A l \in Bad : k <= l
    <3>1. Bad \in SUBSET Nat
      BY <1>1
    <3> HIDE DEF Bad
    <3> QED BY <3>1, LeastNatural
  <2>2. k \in n..Len(s) /\ ~(n <= Len(R(k).done)) /\ k \in Nat
    BY <1>1
  <2>3. k # n
    BY <1>1, <1>2, <2>2
  <2>4. k - 1 \in n..Len(s) /\ ~(k <= k - 1) /\ k \in 1..Len(s) /\ k - 1 \in 0..Len(s)
    BY <1>1, <2>2, <2>3
  <2>5. n <= Len(R(k - 1).done)
    BY <2>1, <2>4
  <2>6. R(k) = Extend(m, R(k - 1), s[k])
    BY <1>0, <2>4
  <2>7. R(k - 1).done \in Seq(Changes) /\ Len(R(k - 1).done) \in Nat
    BY <1>2, <2>4
  <2> HIDE DEF R
  <2>8. Len(R(k - 1).done) <= Len(R(k).done)
    BY <2>6, <2>7, ExtendDone
  <2>9. Len(R(k).done) \in Nat
    <3>1. k \in 0..Len(s)
      BY <1>1, <2>2
    <3> QED BY <1>2, <3>1
  <2> QED BY <1>1, <2>2, <2>5, <2>7, <2>8, <2>9
<1> HIDE DEF Bad
<1>4. n <= Len(R(Len(s)).done)
  BY <1>1, <1>3 DEF Bad
<1> QED BY <1>4, RunSteps

-----------------------------------------------------------------------------
(* Paths *)

Sequence == Seq(STRING)

\* A folder contains what its path is a proper beginning of.
LEMMA WithinMeans ==
    ASSUME NEW s \in Sequence, NEW t \in Sequence
    PROVE  Within(s, t) <=> Len(s) < Len(t) /\ \A i \in 1..Len(s) : s[i] = t[i]
<1> USE DEF Sequence
<1>1. Len(s) \in Nat /\ Len(t) \in Nat
  BY LenProperties
<1>2. Within(s, t) <=> /\ Len(s) <= Len(t) /\ s # t
                       /\ SubSeq(s, 1, Len(s)) = SubSeq(t, 1, Len(s))
  BY DEF Within, Seqs!IsStrictPrefix, Seqs!IsPrefix
<1>3. SubSeq(s, 1, Len(s)) = s
  BY <1>1, SubSeqFull
<1>4. ASSUME Len(s) <= Len(t)
      PROVE  /\ SubSeq(t, 1, Len(s)) \in Seq(STRING) /\ Len(SubSeq(t, 1, Len(s))) = Len(s)
             /\ \A i \in 1..Len(s) : SubSeq(t, 1, Len(s))[i] = t[i]
  BY <1>1, <1>4, SubSeqProperties
<1>5. ASSUME Within(s, t) PROVE Len(s) < Len(t) /\ \A i \in 1..Len(s) : s[i] = t[i]
  <2>1. \A i \in 1..Len(s) : s[i] = t[i]
    BY <1>2, <1>3, <1>4, <1>5
  <2>2. Len(s) = Len(t) => s = t
    BY <2>1, SeqEqual
  <2> QED BY <1>1, <1>2, <1>5, <2>1, <2>2
<1>6. ASSUME Len(s) < Len(t), \A i \in 1..Len(s) : s[i] = t[i] PROVE Within(s, t)
  <2>1. s = SubSeq(t, 1, Len(s))
    BY <1>1, <1>4, <1>6, SeqEqual
  <2>2. s # t
    BY <1>1, <1>6
  <2> QED BY <1>1, <1>2, <1>3, <1>6, <2>1, <2>2
<1> QED BY <1>5, <1>6

\* What is in a folder of a folder is in the folder.
LEMMA WithinTrans ==
    ASSUME NEW a \in Sequence, NEW b \in Sequence, NEW c \in Sequence,
           Within(a, b), Within(b, c)
    PROVE  Within(a, c)
<1>1. Len(a) \in Nat /\ Len(b) \in Nat /\ Len(c) \in Nat
  BY LenProperties DEF Sequence
<1>2. Len(a) < Len(b) /\ Len(b) < Len(c)
  BY WithinMeans
<1>3. \A i \in 1..Len(a) : a[i] = b[i]
  BY WithinMeans
<1>4. \A i \in 1..Len(b) : b[i] = c[i]
  BY WithinMeans
<1>5. \A i \in 1..Len(a) : a[i] = c[i]
  BY <1>1, <1>2, <1>3, <1>4
<1> QED BY <1>1, <1>2, <1>5, WithinMeans

LEMMA WithinSelf ==
    ASSUME NEW a \in Sequence, NEW b \in Sequence
    PROVE  /\ ~Within(a, a) /\ ~Within(a, <<>>)
           /\ Within(a, b) => a # b /\ ~Within(b, a)
<1>1. Len(a) \in Nat /\ Len(b) \in Nat /\ <<>> \in Sequence /\ Len(<<>>) = 0
  BY LenProperties DEF Sequence
<1> QED BY <1>1, WithinMeans

\* Two folders that both contain something are one in the other.
LEMMA WithinChain ==
    ASSUME NEW a \in Sequence, NEW b \in Sequence, NEW c \in Sequence,
           Within(a, c), Within(b, c)
    PROVE  a = b \/ Within(a, b) \/ Within(b, a)
<1>1. Len(a) \in Nat /\ Len(b) \in Nat /\ Len(c) \in Nat
  BY LenProperties DEF Sequence
<1>2. Len(a) < Len(c) /\ Len(b) < Len(c)
  BY WithinMeans
<1>3. \A i \in 1..Len(a) : a[i] = c[i]
  BY WithinMeans
<1>4. \A i \in 1..Len(b) : b[i] = c[i]
  BY WithinMeans
<1>5. CASE Len(a) = Len(b)
  BY <1>3, <1>4, <1>5, SeqEqual DEF Sequence
<1>6. CASE Len(a) < Len(b)
  <2>1. \A i \in 1..Len(a) : a[i] = b[i]
    BY <1>1, <1>3, <1>4, <1>6
  <2> QED BY <1>6, <2>1, WithinMeans
<1>7. CASE Len(b) < Len(a)
  <2>1. \A i \in 1..Len(b) : b[i] = a[i]
    BY <1>1, <1>3, <1>4, <1>7
  <2> QED BY <1>7, <2>1, WithinMeans
<1> QED BY <1>1, <1>5, <1>6, <1>7

\* The folder that holds p is the last of those that p is in.
LEMMA ParentType ==
    ASSUME NEW p \in Sequence, p # <<>>
    PROVE  /\ Parent(p) \in Sequence /\ Within(Parent(p), p)
           /\ Len(p) \in Nat /\ Len(Parent(p)) = Len(p) - 1
<1>1. Len(p) \in Nat /\ Len(p) # 0
  BY LenProperties, EmptySeq DEF Sequence
<1>2. Len(p) - 1 \in Nat /\ \A i \in 1..(Len(p) - 1) : p[i] \in STRING
  BY <1>1, ElementOfSeq DEF Sequence
<1> DEFINE n == Len(p) - 1
<1>3. /\ SubSeq(p, 1, n) \in Seq(STRING) /\ Len(SubSeq(p, 1, n)) = IF 1 <= n THEN n - 1 + 1 ELSE 0
      /\ \A i \in 1..(n - 1 + 1) : SubSeq(p, 1, n)[i] = p[1 + i - 1]
  <2>1. 1 \in Int /\ n \in Int /\ \A i \in 1..n : p[i] \in STRING
    BY <1>2
  <2> HIDE DEF n
  <2> QED BY <2>1, SubSeqProperties
<1>4. Parent(p) = SubSeq(p, 1, n)
  BY DEF Parent
<1>5. Len(Parent(p)) = n /\ Parent(p) \in Sequence
  <2>1. n \in Nat
    BY <1>2
  <2> HIDE DEF n
  <2>2. Len(SubSeq(p, 1, n)) = n
    BY <1>3, <2>1
  <2> QED BY <1>3, <1>4, <2>2 DEF Sequence
<1>6. \A i \in 1..n : Parent(p)[i] = p[i]
  BY <1>2, <1>3, <1>4
<1> QED BY <1>1, <1>5, <1>6, WithinMeans

LEMMA ParentLast ==
    ASSUME NEW p \in Sequence, p # <<>>, NEW a \in Sequence, Within(a, p)
    PROVE  a = Parent(p) \/ Within(a, Parent(p))
<1>1. /\ Parent(p) \in Sequence /\ Within(Parent(p), p)
      /\ Len(p) \in Nat /\ Len(Parent(p)) = Len(p) - 1
  BY ParentType
<1>2. Len(a) < Len(p) /\ Len(a) \in Nat
  BY WithinMeans, LenProperties DEF Sequence
<1>3. ~Within(Parent(p), a)
  BY <1>1, <1>2, WithinMeans
<1> QED BY <1>1, <1>3, WithinChain

LEMMA ParentOfAppend ==
    ASSUME NEW p \in Sequence, NEW name, Append(p, name) \in Sequence
    PROVE  Parent(Append(p, name)) = p
<1> DEFINE q == Append(p, name)
<1>1. p \in Seq(STRING) /\ Len(p) \in Nat
  BY LenProperties DEF Sequence
<1>2. q \in Sequence
  OBVIOUS
<1>3. Len(q) = Len(p) + 1
  BY <1>1
<1>4. \A i \in 1..Len(p) : q[i] = p[i]
  BY <1>1
<1> HIDE DEF q
<1>5. Parent(q) \in Sequence /\ Len(Parent(q)) = Len(q) - 1 /\ Within(Parent(q), q)
  <2>1. q # <<>>
    BY <1>1, <1>3
  <2> QED BY <1>2, <2>1, ParentType
<1>6. Len(Parent(q)) = Len(p)
  BY <1>1, <1>3, <1>5
<1>7. \A i \in 1..Len(p) : Parent(q)[i] = q[i]
  BY <1>2, <1>5, <1>6, WithinMeans
<1>8. Parent(q) = p
  BY <1>1, <1>4, <1>5, <1>6, <1>7, SeqEqual DEF Sequence
<1> QED BY <1>8 DEF q

LEMMA LastOfAppend ==
    ASSUME NEW s \in Sequence, NEW name, Append(s, name) \in Sequence
    PROVE  /\ Append(s, name)[Len(Append(s, name))] = name
           /\ Within(s, Append(s, name))
<1> DEFINE q == Append(s, name)
<1>1. s \in Seq(STRING) /\ Len(s) \in Nat
  BY LenProperties DEF Sequence
<1>2. Len(q) = Len(s) + 1 /\ q[Len(s) + 1] = name
  BY <1>1
<1>3. q # <<>> /\ q \in Sequence
  <2>1. q \in Sequence
    OBVIOUS
  <2> HIDE DEF q
  <2> QED BY <1>1, <1>2, <2>1, EmptySeq DEF Sequence
<1>4. Parent(q) = s
  BY ParentOfAppend
<1> HIDE DEF q
<1>5. Within(s, q)
  BY <1>3, <1>4, ParentType
<1> QED BY <1>2, <1>5 DEF q

\* The paths of a project, with the folders they lead through.
LEMMA PathsType == Paths \subseteq Sequence /\ <<>> \in Sequence /\ <<>> \notin Paths
BY FileTreeAssumption, EmptySeq DEF Sequence

LEMMA WithinPath ==
    ASSUME NEW p \in Paths, NEW a \in Sequence, Within(a, p), a # <<>>
    PROVE  a \in Paths
<1>1. Len(a) \in Nat /\ Len(p) \in Nat /\ Len(a) # 0 /\ p \in Sequence
  BY LenProperties, EmptySeq, PathsType DEF Sequence
<1>2. Len(a) < Len(p) /\ \A i \in 1..Len(a) : a[i] = p[i]
  BY <1>1, WithinMeans
<1>3. SubSeq(p, 1, Len(a)) \in Paths
  BY <1>1, <1>2, FileTreeAssumption
<1>4. \A i \in 1..Len(a) : p[i] \in STRING
  BY <1>1, <1>2, ElementOfSeq DEF Sequence
<1>5. /\ Len(SubSeq(p, 1, Len(a))) = Len(a) /\ SubSeq(p, 1, Len(a)) \in Sequence
      /\ \A i \in 1..Len(a) : SubSeq(p, 1, Len(a))[i] = p[i]
  BY <1>1, <1>4, SubSeqProperties DEF Sequence
<1>6. SubSeq(p, 1, Len(a)) = a
  BY <1>1, <1>2, <1>5, SeqEqual DEF Sequence
<1> QED BY <1>3, <1>6

\* r is p or inside it.
Under(p, r) == r = p \/ Within(p, r)

\* The place of what is under p after p has gone to q.
LEMMA RebasedMeans ==
    ASSUME NEW p \in Sequence, NEW q \in Sequence, NEW r \in Sequence, Under(p, r)
    PROVE  /\ Rebased(p, q, r) \in Sequence
           /\ Len(Rebased(p, q, r)) = Len(q) + Len(r) - Len(p)
           /\ \A i \in 1..Len(q) : Rebased(p, q, r)[i] = q[i]
           /\ \A i \in (Len(q) + 1)..(Len(q) + Len(r) - Len(p)) :
                  Rebased(p, q, r)[i] = r[i - Len(q) + Len(p)]
<1>1. Len(p) \in Nat /\ Len(q) \in Nat /\ Len(r) \in Nat /\ Len(p) <= Len(r)
  BY LenProperties, WithinMeans DEF Sequence, Under
<1> DEFINE m == Len(p) + 1
           n == Len(r)
           s == SubSeq(r, m, n)
<1>2. m \in Int /\ n \in Int /\ \A i \in m..n : r[i] \in STRING
  BY <1>1, ElementOfSeq DEF Sequence
<1>3. /\ s \in Seq(STRING) /\ Len(s) = IF m <= n THEN n - m + 1 ELSE 0
      /\ \A i \in 1..(n - m + 1) : s[i] = r[m + i - 1]
  <2> HIDE DEF m, n
  <2> QED BY <1>2, SubSeqProperties
<1> HIDE DEF s
<1>4. Len(s) = Len(r) - Len(p)
  BY <1>1, <1>3
<1>5. \A i \in 1..(Len(r) - Len(p)) : s[i] = r[i + Len(p)]
  BY <1>1, <1>3
<1>6. Rebased(p, q, r) = q \o s
  BY DEF Rebased, s
<1>7. /\ q \o s \in Seq(STRING) /\ Len(q \o s) = Len(q) + Len(s)
      /\ \A i \in 1..(Len(q) + Len(s)) :
             (q \o s)[i] = IF i <= Len(q) THEN q[i] ELSE s[i - Len(q)]
  BY <1>3, ConcatProperties DEF Sequence
<1> DEFINE t == q \o s
<1> HIDE DEF t
<1>8. /\ t \in Seq(STRING) /\ Len(t) = Len(q) + Len(r) - Len(p)
      /\ \A i \in 1..Len(q) : t[i] = q[i]
  BY <1>1, <1>4, <1>7 DEF t
<1>9. ASSUME NEW i \in (Len(q) + 1)..(Len(q) + Len(r) - Len(p))
      PROVE  t[i] = r[i - Len(q) + Len(p)]
  <2>1. i \in 1..(Len(q) + Len(s)) /\ ~(i <= Len(q)) /\ i - Len(q) \in 1..(Len(r) - Len(p))
    BY <1>1, <1>4
  <2>2. t[i] = s[i - Len(q)]
    BY <1>7, <2>1 DEF t
  <2> QED BY <1>1, <1>5, <2>1, <2>2
<1> QED BY <1>6, <1>8, <1>9 DEF t, Sequence

\* What is in a folder under p stays in it when p is moved.
LEMMA RebasedWithin ==
    ASSUME NEW p \in Sequence, NEW q \in Sequence, NEW a \in Sequence, NEW r \in Sequence,
           Under(p, a), Within(a, r)
    PROVE  /\ Under(p, r) /\ Within(Rebased(p, q, a), Rebased(p, q, r))
           /\ q # <<>> => Rebased(p, q, a) # <<>>
<1>1. Under(p, r)
  BY WithinTrans DEF Under
<1>2. /\ Len(p) \in Nat /\ Len(q) \in Nat /\ Len(a) \in Nat /\ Len(r) \in Nat
      /\ Len(a) < Len(r) /\ Len(p) <= Len(a)
  BY LenProperties, WithinMeans DEF Sequence, Under
<1>3. \A i \in 1..Len(a) : a[i] = r[i]
  BY WithinMeans
<1> DEFINE x == Rebased(p, q, a)
           y == Rebased(p, q, r)
<1>4. /\ x \in Sequence /\ Len(x) = Len(q) + Len(a) - Len(p)
      /\ \A i \in 1..Len(q) : x[i] = q[i]
      /\ \A i \in (Len(q) + 1)..(Len(q) + Len(a) - Len(p)) : x[i] = a[i - Len(q) + Len(p)]
  BY RebasedMeans, ZenonT(60)
<1>5. /\ y \in Sequence /\ Len(y) = Len(q) + Len(r) - Len(p)
      /\ \A i \in 1..Len(q) : y[i] = q[i]
      /\ \A i \in (Len(q) + 1)..(Len(q) + Len(r) - Len(p)) : y[i] = r[i - Len(q) + Len(p)]
  BY <1>1, RebasedMeans, ZenonT(60)
<1> HIDE DEF x, y
<1>6. ASSUME NEW i \in 1..Len(x) PROVE x[i] = y[i]
  <2>1. CASE i <= Len(q)
    BY <1>2, <1>4, <1>5, <2>1
  <2>2. CASE ~(i <= Len(q))
    <3>1. /\ i \in (Len(q) + 1)..(Len(q) + Len(a) - Len(p))
          /\ i \in (Len(q) + 1)..(Len(q) + Len(r) - Len(p))
          /\ i - Len(q) + Len(p) \in 1..Len(a)
      BY <1>2, <1>4, <2>2
    <3> QED BY <1>3, <1>4, <1>5, <3>1
  <2> QED BY <2>1, <2>2
<1>7. Len(x) < Len(y)
  BY <1>2, <1>4, <1>5
<1>8. Within(x, y)
  BY <1>4, <1>5, <1>6, <1>7, WithinMeans
<1>9. q # <<>> => Len(q) # 0
  BY EmptySeq DEF Sequence
<1>10. q # <<>> => x # <<>>
  BY <1>2, <1>4, <1>9
<1> QED BY <1>1, <1>8, <1>10 DEF x, y

-----------------------------------------------------------------------------
(* Directories in which everything is in folders *)

Nested(t) == \A a, r \in Paths : Within(a, r) /\ Exists(t, r) => t[a] = Dir

\* In a directory where what exists has a folder around it, all around it are
\* folders, up to the root.
LEMMA NestedWell ==
    ASSUME NEW t, WellFormed(t)
    PROVE  Nested(t)
<1> DEFINE Bad == {k \in Nat : \E a, r \in Paths :
                      Within(a, r) /\ Exists(t, r) /\ t[a] # Dir /\ Len(r) = k}
<1>1. \A r \in Paths : Len(r) \in Nat
  BY PathsType, LenProperties DEF Sequence
<1>2. CASE Bad = {}
  BY <1>1, <1>2 DEF Nested
<1>3. CASE Bad # {}
  <2>1. PICK k \in Bad : \A l \in Bad : k <= l
    <3>1. Bad \in SUBSET Nat
      OBVIOUS
    <3> HIDE DEF Bad
    <3> QED BY <1>3, <3>1, LeastNatural
  <2>2. PICK a \in Paths, r \in Paths :
           Within(a, r) /\ Exists(t, r) /\ t[a] # Dir /\ Len(r) = k
    BY <2>1
  <2>3. a \in Sequence /\ r \in Sequence /\ a # <<>> /\ r # <<>>
    BY PathsType
  <2>4. Len(a) \in Nat /\ Len(a) # 0 /\ Len(a) < Len(r)
    BY <2>2, <2>3, LenProperties, EmptySeq, WithinMeans DEF Sequence
  <2>5. Parent(r) \in Paths /\ t[Parent(r)] = Dir
    <3>1. ASSUME NEW m \in Nat, NEW n \in Nat, m # 0, m < n PROVE n # 1
      BY <3>1
    <3>2. Len(r) # 1
      BY <1>1, <2>4, <3>1
    <3> QED BY <2>2, <3>2 DEF WellFormed, HasParent
  <2>6. a = Parent(r) \/ Within(a, Parent(r))
    BY <2>2, <2>3, ParentLast
  <2>7. Exists(t, Parent(r))
    BY <2>5, FileTreeAssumption DEF Exists
  <2>8. Len(Parent(r)) = Len(r) - 1 /\ Len(Parent(r)) \in Nat
    BY <1>1, <2>3, <2>5, ParentType
  <2>9. Len(Parent(r)) \in Bad
    BY <2>2, <2>5, <2>6, <2>7, <2>8
  <2> HIDE DEF Bad
  <2>10. k <= Len(Parent(r))
    BY <2>1, <2>9
  <2>11. k = Len(r) /\ Len(r) \in Nat
    BY <1>1, <2>2
  <2> QED BY <2>8, <2>10, <2>11
<1> QED BY <1>2, <1>3

\* Where something can be put there are folders all around.
LEMMA NestedUp ==
    ASSUME NEW t, Nested(t), NEW p \in Paths, HasParent(t, p), NEW a \in Paths, Within(a, p)
    PROVE  t[a] = Dir
<1>1. p \in Sequence /\ a \in Sequence /\ p # <<>> /\ a # <<>>
  BY PathsType
<1>2. Len(a) \in Nat /\ Len(a) # 0 /\ Len(a) < Len(p) /\ Len(p) \in Nat
  BY <1>1, LenProperties, EmptySeq, WithinMeans DEF Sequence
<1>3. Parent(p) \in Paths /\ t[Parent(p)] = Dir
  <2>1. ASSUME NEW m \in Nat, NEW n \in Nat, m # 0, m < n PROVE n # 1
    BY <2>1
  <2>2. Len(p) # 1
    BY <1>2, <2>1
  <2> QED BY <2>2 DEF HasParent
<1>4. a = Parent(p) \/ Within(a, Parent(p))
  BY <1>1, ParentLast
<1>5. Exists(t, Parent(p))
  BY <1>3, FileTreeAssumption DEF Exists
<1> QED BY <1>3, <1>4, <1>5 DEF Nested

LEMMA NestedPut ==
    ASSUME NEW t \in Trees, Nested(t), NEW p \in Paths, HasParent(t, p), NEW node,
           t[p] = Dir => node = Dir
    PROVE  Nested([t EXCEPT ![p] = node])
<1> DEFINE u == [t EXCEPT ![p] = node]
<1> SUFFICES ASSUME NEW a \in Paths, NEW r \in Paths, Within(a, r), Exists(u, r)
             PROVE  u[a] = Dir
  BY DEF Nested
<1>1. u[p] = node /\ \A q \in Paths : q # p => u[q] = t[q]
  BY DEF Trees
<1>2. ~Within(p, p)
  BY PathsType, WithinSelf
<1>3. CASE r = p
  BY <1>1, <1>2, <1>3, NestedUp
<1>4. CASE r # p
  <2>1. t[a] = Dir
    BY <1>1, <1>4 DEF Nested, Exists
  <2> QED BY <1>1, <2>1
<1> QED BY <1>3, <1>4

LEMMA NestedRemove ==
    ASSUME NEW t \in Trees, Nested(t), NEW p \in Paths, RemoveNode(t, p).ok
    PROVE  Nested(RemoveNode(t, p).tree)
<1> DEFINE u == [q \in Paths |-> IF q = p \/ Within(p, q) THEN Absent ELSE t[q]]
<1>1. RemoveNode(t, p).tree = u
  BY DEF RemoveNode, Raises, Leaves
<1> SUFFICES ASSUME NEW a \in Paths, NEW r \in Paths, Within(a, r), Exists(u, r)
             PROVE  u[a] = Dir
  BY <1>1 DEF Nested
<1>2. r # p /\ ~Within(p, r) /\ Exists(t, r)
  BY DEF Exists
<1>3. t[a] = Dir
  BY <1>2 DEF Nested
<1>4. ~Within(p, a) /\ a # p
  BY <1>2, PathsType, WithinTrans
<1> QED BY <1>3, <1>4

\* Where a resource arrives there was no folder, nothing was inside it, and a
\* file was there only when a file arrives; around it are folders or nothing.
LEMMA TargetMeans ==
    ASSUME NEW t \in Trees, Nested(t), NEW p \in Paths, NEW q \in Paths, p # q,
           CanMove(t, p, q), NEW real, real = Target(t, p, q)
    PROVE  /\ real \in Paths /\ real # p /\ ~Within(p, real) /\ Exists(t, p)
           /\ t[real] # Dir /\ ~Within(real, p)
           /\ t[real] \in Data => t[p] \in Data /\ real = q
           /\ \A r \in Paths : Within(real, r) => t[r] = Absent
           /\ \A r \in Paths : Within(r, real) => t[r] \in {Dir, Absent}
<1>1. /\ real \in Paths /\ Exists(t, p) /\ ~Within(p, real)
      /\ real # q => ~Exists(t, real)
      /\ \/ HasParent(t, real)
         \/ t[p] = Dir /\ \A r \in Paths : Within(r, real) => ~IsFile(t, r)
      /\ t[p] = Dir => ~IsFile(t, real)
  BY DEF CanMove
<1>2. real = q => t[q] # Dir
  <2>1. ASSUME t[q] = Dir, real = q PROVE FALSE
    <3>1. p \in Sequence /\ p # <<>> /\ q \in Sequence
      BY PathsType
    <3>2. Len(p) \in 1..Len(p)
      BY <3>1, LenProperties, EmptySeq DEF Sequence
    <3>3. p[Len(p)] \in STRING
      BY <3>1, <3>2, ElementOfSeq DEF Sequence
    <3>4. Len(Append(q, p[Len(p)])) = Len(q) + 1 /\ Len(q) \in Nat
      BY <3>1, <3>3, AppendProperties, LenProperties DEF Sequence
    <3>5. real = Append(q, p[Len(p)])
      BY <2>1 DEF Target
    <3> QED BY <2>1, <3>4, <3>5
  <2> QED BY <2>1
<1>3. t[real] # Dir
  BY <1>1, <1>2, FileTreeAssumption DEF Exists
<1>4. t[real] \in Nodes /\ t[p] \in Nodes
  BY <1>1 DEF Trees
<1>5. real # p
  <2>1. ASSUME real = p PROVE FALSE
    BY <1>1, <2>1
  <2> QED BY <2>1
<1>6. ASSUME t[real] \in Data PROVE t[p] \in Data /\ real = q
  BY <1>1, <1>4, <1>6, FileTreeAssumption DEF IsFile, Exists, Nodes
<1>7. ASSUME NEW r \in Paths, Within(real, r) PROVE t[r] = Absent
  BY <1>1, <1>3, <1>7 DEF Nested, Exists
<1>8. ASSUME NEW r \in Paths, Within(r, real) PROVE t[r] \in {Dir, Absent}
  <2>1. CASE HasParent(t, real)
    BY <1>1, <1>8, <2>1, NestedUp
  <2>2. CASE ~IsFile(t, r)
    BY <2>2 DEF IsFile, Trees, Nodes
  <2> QED BY <1>1, <1>8, <2>1, <2>2
<1>9. ~Within(real, p)
  BY <1>1, <1>7 DEF Exists
<1> QED BY <1>1, <1>3, <1>5, <1>6, <1>7, <1>8, <1>9

LEMMA NestedMove ==
    ASSUME NEW t \in Trees, Nested(t), NEW p \in Paths, NEW q \in Paths, MovePath(t, p, q).ok
    PROVE  Nested(MovePath(t, p, q).tree)
<1>1. CanMove(t, p, q)
  BY DEF MovePath, Raises
<1>2. CASE p = q
  BY <1>1, <1>2 DEF MovePath, Leaves
<1>3. CASE p # q
  <2> DEFINE real == Target(t, p, q)
             u == Renamed(t, p, real)
  <2>1. MovePath(t, p, q).tree = u
    BY <1>1, <1>3 DEF MovePath, Leaves
  <2>2. real \in Paths /\ ~Within(p, real) /\ real # p
    BY <1>1, <1>3, TargetMeans
  <2> HIDE DEF real
  <2> SUFFICES ASSUME NEW a \in Paths, NEW r \in Paths, Within(a, r), Exists(u, r)
               PROVE  u[a] = Dir
    BY <2>1 DEF Nested
  <2>3. /\ a \in Sequence /\ r \in Sequence /\ p \in Sequence /\ real \in Sequence
        /\ a # <<>> /\ p # <<>>
    BY <2>2, PathsType
  <2>4. \A x \in Paths :
          u[x] = IF Under(real, x) THEN Arrived(t, p, real, x)
                 ELSE IF Under(p, x) THEN Absent
                 ELSE IF Within(x, real) THEN Dir ELSE t[x]
    BY DEF Renamed, Under
  <2> HIDE DEF u
  <2>5. Under(real, a) => Under(real, r)
    BY <2>3, WithinTrans DEF Under
  <2>6. Under(p, a) => Under(p, r)
    BY <2>3, WithinTrans DEF Under
  <2>7. CASE Under(real, a)
    <3> DEFINE x == Rebased(real, p, a)
               y == Rebased(real, p, r)
    <3>1. y \in Paths /\ t[y] # Absent
      BY <2>4, <2>5, <2>7 DEF Exists, Arrived
    <3>2. x \in Sequence /\ Within(x, y) /\ x # <<>>
      BY <2>3, <2>7, RebasedWithin, RebasedMeans
    <3>3. x \in Paths
      BY <3>1, <3>2, WithinPath
    <3>4. t[x] = Dir
      BY <3>1, <3>2, <3>3 DEF Nested, Exists
    <3> QED BY <2>4, <2>7, <3>3, <3>4 DEF Arrived
  <2>8. CASE ~Under(real, a) /\ Under(real, r)
    <3>1. Within(a, real)
      BY <2>3, <2>8, WithinChain DEF Under
    <3>2. ~Under(p, a)
      BY <2>2, <2>3, <3>1, WithinTrans DEF Under
    <3> QED BY <2>4, <2>8, <3>1, <3>2
  <2>9. CASE ~Under(real, r)
    <3>1. ~Under(real, a) /\ ~Under(p, r) /\ ~Under(p, a)
      BY <2>4, <2>5, <2>6, <2>9 DEF Exists
    <3>2. CASE Within(a, real)
      BY <2>4, <3>1, <3>2
    <3>3. CASE ~Within(a, real)
      <4>1. ~Within(r, real)
        BY <2>3, <3>3, WithinTrans
      <4>2. t[a] = Dir
        BY <2>4, <2>9, <3>1, <4>1 DEF Nested, Exists
      <4> QED BY <2>4, <3>1, <3>3, <4>2
    <3> QED BY <3>2, <3>3
  <2> QED BY <2>7, <2>8, <2>9
<1> QED BY <1>2, <1>3

\* A change that is made leaves everything that exists in folders.
LEMMA NestedChange ==
    ASSUME NEW t \in Trees, Nested(t), NEW c \in Changes, DoChange(c, t).ok
    PROVE  Nested(DoChange(c, t).tree)
<1>1. c.res \in Paths /\ c.dest \in Paths /\ c.kind \in {"contents", "move", "create", "remove"}
  BY DEF Changes
<1>2. CASE c.kind = "contents"
  <2>1. DoChange(c, t) = WriteFile(t, c.res, c.new)
    BY <1>2 DEF DoChange, Raises
  <2>2. CanWrite(t, c.res) /\ WriteFile(t, c.res, c.new).tree = [t EXCEPT ![c.res] = c.new]
    BY <2>1 DEF WriteFile, Raises, Leaves
  <2> QED BY <1>1, <2>1, <2>2, NestedPut DEF CanWrite
<1>3. CASE c.kind = "move"
  BY <1>1, <1>3, NestedMove DEF DoChange
<1>4. CASE c.kind = "create"
  <2> DEFINE node == IF c.folder THEN Dir ELSE Empty
  <2>1. DoChange(c, t) = CreateNode(t, c.res, node)
    BY <1>4 DEF DoChange
  <2>2. /\ HasParent(t, c.res) /\ t[c.res] = Absent
        /\ CreateNode(t, c.res, node).tree = [t EXCEPT ![c.res] = node]
    BY <2>1 DEF CreateNode, Raises, Leaves, Exists
  <2>3. t[c.res] # Dir
    BY <2>2, FileTreeAssumption
  <2> HIDE DEF node
  <2>4. Nested([t EXCEPT ![c.res] = node])
    BY <1>1, <2>2, <2>3, NestedPut
  <2> QED BY <2>1, <2>2, <2>4
<1>5. CASE c.kind = "remove"
  BY <1>1, <1>5, NestedRemove DEF DoChange
<1> QED BY <1>1, <1>2, <1>3, <1>4, <1>5

-----------------------------------------------------------------------------
(* What a change leaves alone *)

\* A folder that is there before and after is a folder, a file is a file.
KindKept(t, u) ==
    \A p \in Paths : Exists(t, p) /\ Exists(u, p) => (t[p] = Dir <=> u[p] = Dir)

\* A file or folder at p is untouched, and no file has appeared there.
Quiet(t, u, p) ==
    /\ Exists(t, p) => u[p] = t[p]
    /\ ~Exists(t, p) => u[p] \in {Dir, Absent}

LEMMA PutKinds ==
    ASSUME NEW t \in Trees, NEW p \in Paths, NEW node,
           Exists(t, p) => (t[p] = Dir <=> node = Dir)
    PROVE  /\ KindKept(t, [t EXCEPT ![p] = node])
           /\ \A x \in Paths : x # p => Quiet(t, [t EXCEPT ![p] = node], x)
BY DEF KindKept, Quiet, Exists, Trees

LEMMA RemoveKinds ==
    ASSUME NEW t \in Trees, NEW p \in Paths, RemoveNode(t, p).ok
    PROVE  /\ KindKept(t, RemoveNode(t, p).tree)
           /\ \A x \in Paths : ~Under(p, x) => Quiet(t, RemoveNode(t, p).tree, x)
<1> DEFINE u == [q \in Paths |-> IF q = p \/ Within(p, q) THEN Absent ELSE t[q]]
<1>1. RemoveNode(t, p).tree = u
  BY DEF RemoveNode, Raises, Leaves
<1> QED BY <1>1 DEF KindKept, Quiet, Exists, Under

\* What is moved itself arrives at the destination itself.
LEMMA RebasedSelf ==
    ASSUME NEW p \in Sequence, NEW q \in Sequence
    PROVE  Rebased(p, q, p) = q
<1>1. Under(p, p) /\ Len(p) \in Nat /\ Len(q) \in Nat
  BY LenProperties DEF Under, Sequence
<1> DEFINE x == Rebased(p, q, p)
<1>2. /\ x \in Sequence /\ Len(x) = Len(q) + Len(p) - Len(p)
      /\ \A i \in 1..Len(q) : x[i] = q[i]
  BY <1>1, RebasedMeans
<1> HIDE DEF x
<1>3. Len(x) = Len(q)
  BY <1>1, <1>2
<1>4. x = q
  BY <1>2, <1>3, SeqEqual DEF Sequence
<1> QED BY <1>4 DEF x

LEMMA MoveKinds ==
    ASSUME NEW t \in Trees, Nested(t), NEW p \in Paths, NEW q \in Paths, p # q,
           CanMove(t, p, q), NEW real, real = Target(t, p, q)
    PROVE  /\ KindKept(t, Renamed(t, p, real))
           /\ \A x \in Paths : ~Under(p, x) /\ ~Under(real, x) => Quiet(t, Renamed(t, p, real), x)
<1> DEFINE u == Renamed(t, p, real)
<1>1. /\ real \in Paths /\ real # p /\ t[real] # Dir
      /\ t[real] \in Data => t[p] \in Data
      /\ \A r \in Paths : Within(real, r) => t[r] = Absent
      /\ \A r \in Paths : Within(r, real) => t[r] \in {Dir, Absent}
  BY TargetMeans
<1>2. \A x \in Paths :
        u[x] = IF Under(real, x) THEN Arrived(t, p, real, x)
               ELSE IF Under(p, x) THEN Absent
               ELSE IF Within(x, real) THEN Dir ELSE t[x]
  BY DEF Renamed, Under
<1>3. u[real] = t[p]
  <2>1. Rebased(real, p, real) = p
    BY <1>1, PathsType, RebasedSelf
  <2> QED BY <1>1, <1>2, <2>1 DEF Under, Arrived
<1> HIDE DEF u
<1>4. ASSUME NEW x \in Paths, Exists(t, x), Exists(u, x) PROVE t[x] = Dir <=> u[x] = Dir
  <2>1. CASE x = real
    <3>1. t[real] \in Data
      BY <1>1, <1>4, <2>1 DEF Trees, Nodes, Exists
    <3> QED BY <1>1, <1>3, <2>1, <3>1, FileTreeAssumption
  <2>2. CASE x # real
    BY <1>1, <1>2, <1>4, <2>2 DEF Under, Exists
  <2> QED BY <2>1, <2>2
<1>5. ASSUME NEW x \in Paths, ~Under(p, x), ~Under(real, x) PROVE Quiet(t, u, x)
  BY <1>1, <1>2, <1>5 DEF Quiet, Exists
<1>6. KindKept(t, u)
  BY <1>4 DEF KindKept
<1> QED BY <1>5, <1>6 DEF u

\* Nothing becomes a folder that was a file by one change, or the other way
\* round.
LEMMA ChangeKinds ==
    ASSUME NEW t \in Trees, Nested(t), NEW c \in Changes, DoChange(c, t).ok
    PROVE  KindKept(t, DoChange(c, t).tree)
<1>1. c.res \in Paths /\ c.dest \in Paths /\ c.kind \in {"contents", "move", "create", "remove"}
  BY DEF Changes
<1>2. CASE c.kind = "contents"
  <2>1. DoChange(c, t) = WriteFile(t, c.res, c.new)
    BY <1>2 DEF DoChange, Raises
  <2>2. t[c.res] # Dir /\ WriteFile(t, c.res, c.new).tree = [t EXCEPT ![c.res] = c.new]
    BY <2>1 DEF WriteFile, Raises, Leaves, CanWrite
  <2>3. c.new # Dir
    BY FileTreeAssumption DEF Changes, Data
  <2> QED BY <1>1, <2>1, <2>2, <2>3, PutKinds
<1>3. CASE c.kind = "move"
  <2>1. DoChange(c, t) = MovePath(t, c.res, c.dest)
    BY <1>3 DEF DoChange
  <2>2. CanMove(t, c.res, c.dest)
    BY <2>1 DEF MovePath, Raises
  <2>3. CASE c.res = c.dest
    BY <2>1, <2>2, <2>3 DEF MovePath, Leaves, KindKept
  <2>4. CASE c.res # c.dest
    <3>1. MovePath(t, c.res, c.dest).tree = Renamed(t, c.res, Target(t, c.res, c.dest))
      BY <2>2, <2>4 DEF MovePath, Leaves
    <3> QED BY <1>1, <2>1, <2>2, <2>4, <3>1, MoveKinds
  <2> QED BY <2>3, <2>4
<1>4. CASE c.kind = "create"
  <2> DEFINE node == IF c.folder THEN Dir ELSE Empty
  <2>1. DoChange(c, t) = CreateNode(t, c.res, node)
    BY <1>4 DEF DoChange
  <2>2. ~Exists(t, c.res) /\ CreateNode(t, c.res, node).tree = [t EXCEPT ![c.res] = node]
    BY <2>1 DEF CreateNode, Raises, Leaves
  <2> HIDE DEF node
  <2> QED BY <1>1, <2>1, <2>2, PutKinds
<1>5. CASE c.kind = "remove"
  BY <1>1, <1>5, RemoveKinds DEF DoChange
<1> QED BY <1>1, <1>2, <1>3, <1>4, <1>5

-----------------------------------------------------------------------------
(* Writing files *)

\* Capturing the old contents leaves the rest of a change as it is.
LEMMA CapturedFields ==
    ASSUME NEW c \in Changes, NEW t
    PROVE  LET d == Captured(c, t) IN
           /\ d.kind = c.kind /\ d.res = c.res /\ d.new = c.new
           /\ c.old # None => d = c
           /\ c.old = None /\ d.old # None =>
                 CanRead(t, c.res) /\ d.old = Decode[t[c.res]]
BY DEF Captured, Changes

\* A write that succeeds had contents to put back and a folder to write in.
LEMMA WriteSucceeds ==
    ASSUME NEW c \in Changes, NEW t \in Trees, c.kind = "contents",
           NEW m \in {"do", "undo"}, Perform(m, c, t).ok
    PROVE  /\ HasParent(t, c.res)
           /\ Captured(c, t).old # None
           /\ m = "undo" => c.old # None
           /\ Perform(m, c, t).tree =
                 [t EXCEPT ![c.res] = IF m = "do" THEN c.new ELSE c.old]
<1>1. CASE m = "do"
  BY <1>1 DEF Perform, DoChange, WriteFile, Raises, Leaves, CanWrite
<1>2. CASE m = "undo"
  BY <1>2 DEF Perform, UndoChange, WriteFile, Raises, Leaves, CanWrite, Captured
<1> QED BY <1>1, <1>2

\* A write that fails leaves the tree alone.
LEMMA WriteFails ==
    ASSUME NEW c \in Changes, NEW t \in Trees, c.kind = "contents",
           NEW m \in {"do", "undo"}, ~Perform(m, c, t).ok
    PROVE  Perform(m, c, t).tree = t
BY DEF Perform, DoChange, UndoChange, WriteFile, Raises, Leaves

\* A write that has its contents and a file to go to succeeds.
LEMMA WriteCan ==
    ASSUME NEW c \in Changes, NEW t \in Trees, c.kind = "contents",
           NEW m \in {"do", "undo"}, c.old # None, CanWrite(t, c.res)
    PROVE  /\ Perform(m, c, t).ok
           /\ Perform(m, c, t).tree =
                 [t EXCEPT ![c.res] = IF m = "do" THEN c.new ELSE c.old]
<1>1. CASE m = "do"
  BY <1>1 DEF Perform, DoChange, WriteFile, Leaves, Captured
<1>2. CASE m = "undo"
  BY <1>2 DEF Perform, UndoChange, WriteFile, Leaves
<1> QED BY <1>1, <1>2

-----------------------------------------------------------------------------
(* A run of writes *)

\* The same files and folders are there; only contents differ.
OneShape(t, u) == \A p \in Paths : IF t[p] \in Data THEN u[p] \in Data ELSE u[p] = t[p]

\* The text a write leaves.
TextLeft(m, c) == IF m = "do" THEN c.new ELSE c.old

\* Only writes to files that are there, or, done for the first time, writes
\* that read their file first and raise when there is none.
OnlyFiles(m, s, t) ==
    \A i \in 1..Len(s) :
        /\ s[i].kind = "contents"
        /\ t[s[i].res] \in Data \/ (m = "do" /\ s[i].old = None)

\* What the run r of such a set has made of the tree t: a file has the text of
\* the last write to it, and what was captured is what the file held.
WroteFiles(r, m, s, t) ==
    /\ OneShape(t, r.tree)
    /\ \A i \in 1..Len(r.done) : r.done[i].old # None /\ t[s[i].res] \in Data
    /\ \A p \in Paths : (\A i \in 1..Len(r.done) : s[i].res # p) => r.tree[p] = t[p]
    /\ \A i \in 1..Len(r.done) :
          (\A j \in 1..Len(r.done) : i < j => s[j].res # s[i].res)
             => r.tree[s[i].res] = TextLeft(m, s[i])
    /\ \A i \in 1..Len(r.done) : s[i].old # None => r.done[i] = s[i]
    /\ \A i \in 1..Len(r.done) :
          s[i].old = None /\ (\A j \in 1..Len(r.done) : j < i => s[j].res # s[i].res)
             => r.done[i].old = Decode[t[s[i].res]]

\* One more write of the set.
LEMMA WroteStep ==
    ASSUME NEW m \in {"do", "undo"}, NEW s \in Seq(Changes), NEW t \in Trees,
           OnlyFiles(m, s, t), NEW n \in 1..Len(s), NEW r,
           RunWith(r, m, s, n - 1), WroteFiles(r, m, s, t)
    PROVE  WroteFiles(Extend(m, r, s[n]), m, s, t)
<1> DEFINE c == s[n]
           kept == IF m = "do" THEN Captured(c, r.tree) ELSE c
           result == Perform(m, c, r.tree)
           e == Extend(m, r, c)
<1>1. /\ c \in Changes /\ r.tree \in Trees /\ r.done \in Seq(Changes)
      /\ c.kind = "contents" /\ c.res \in Paths /\ Len(s) \in Nat /\ n \in Nat
  <2>1. c \in Changes /\ Len(s) \in Nat
    BY ElementOfSeq, LenProperties
  <2>2. r.tree \in Trees /\ r.done \in Seq(Changes)
    BY DEF RunWith
  <2> QED BY <2>1, <2>2 DEF OnlyFiles, Changes
<1>2. result.ok \in BOOLEAN /\ r.ok \in BOOLEAN
  <2>1. result.ok \in BOOLEAN
    BY <1>1, PerformType
  <2> QED BY <2>1 DEF RunWith
<1>3. CASE ~r.ok
  BY <1>3 DEF Extend
<1>4. CASE r.ok /\ ~result.ok
  <2>1. result.tree = r.tree
    BY <1>1, <1>4, WriteFails
  <2>2. Extend(m, r, c) = [ok |-> FALSE, tree |-> r.tree, done |-> r.done]
    BY <1>2, <1>4, <2>1 DEF Extend
  <2> HIDE DEF c
  <2>3. Extend(m, r, c).tree = r.tree /\ Extend(m, r, c).done = r.done
    BY <2>2
  <2> QED BY <2>3 DEF WroteFiles, c
<1>5. CASE r.ok /\ result.ok
  <2>1. /\ result.tree = [r.tree EXCEPT ![c.res] = TextLeft(m, c)]
        /\ Captured(c, r.tree).old # None /\ (m = "undo" => c.old # None)
    BY <1>1, <1>5, WriteSucceeds DEF TextLeft
  <2>2. /\ kept.old # None
        /\ c.old # None => kept = c
        /\ c.old = None => CanRead(r.tree, c.res) /\ kept.old = Decode[r.tree[c.res]]
    BY <1>1, <2>1, CapturedFields
  <2>3. Len(r.done) = n - 1
    BY <1>5 DEF RunWith
  <2>4. Extend(m, r, c) = [ok |-> TRUE, tree |-> result.tree, done |-> Append(r.done, kept)]
    BY <1>2, <1>5 DEF Extend
  <2>5. /\ Len(Append(r.done, kept)) = n /\ Append(r.done, kept)[n] = kept
        /\ \A i \in 1..(n - 1) : Append(r.done, kept)[i] = r.done[i]
    <3>1. kept \in Changes
      BY <1>1, CapturedType
    <3> HIDE DEF kept
    <3> QED BY <1>1, <2>3, <3>1, AppendProperties
  <2>6. t[c.res] \in Data
    <3>1. CASE c.old = None
      <4>1. r.tree[c.res] \in Data
        BY <2>2, <3>1 DEF CanRead, IsFile
      <4> QED BY <1>1, <4>1 DEF WroteFiles, OneShape
    <3>2. CASE c.old # None
      BY <1>1, <3>2 DEF OnlyFiles
    <3> QED BY <3>1, <3>2
  <2>7. TextLeft(m, c) \in Data
    BY <1>1, <2>1 DEF TextLeft, Changes, Data
  <2> DEFINE u == [r.tree EXCEPT ![c.res] = TextLeft(m, c)]
             d == Append(r.done, kept)
  <2>8. u[c.res] = TextLeft(m, c) /\ \A p \in Paths : p # c.res => u[p] = r.tree[p]
    BY <1>1 DEF Trees
  <2>9. e.tree = u /\ e.done = d
    BY <2>1, <2>4
  <2>10. \A i \in 1..n : i = n \/ (i \in 1..(n - 1) /\ i < n)
    BY <1>1
  <2>11. \A i \in 1..(n - 1) : i \in 1..n /\ s[i].res \in Paths
    <3>1. \A i \in 1..(n - 1) : i \in 1..n /\ i \in 1..Len(s)
      BY <1>1
    <3>2. \A i \in 1..Len(s) : s[i] \in Changes
      BY ElementOfSeq
    <3> QED BY <3>1, <3>2 DEF Changes
  <2>12. n \in 1..n /\ ~(n < n) /\ \A i \in 1..n : ~(n < i)
    BY <1>1
  <2> HIDE DEF u, d, kept, e, result
  <2>13. OneShape(t, u)
    BY <2>6, <2>7, <2>8 DEF OneShape, WroteFiles
  <2>14. ASSUME NEW i \in 1..n PROVE d[i].old # None /\ t[s[i].res] \in Data
    BY <2>2, <2>3, <2>5, <2>6, <2>10 DEF WroteFiles, c, d
  <2>15. ASSUME NEW p \in Paths, \A i \in 1..n : s[i].res # p PROVE u[p] = t[p]
    <3>1. p # c.res
      BY <2>12, <2>15 DEF c
    <3>2. \A i \in 1..(n - 1) : s[i].res # p
      BY <2>11, <2>15
    <3> QED BY <2>3, <2>8, <3>1, <3>2 DEF WroteFiles
  <2>16. ASSUME NEW i \in 1..n, \A j \in 1..n : i < j => s[j].res # s[i].res
         PROVE  u[s[i].res] = TextLeft(m, s[i])
    <3>1. CASE i = n
      BY <2>8, <3>1 DEF c
    <3>2. CASE i # n
      <4>1. i \in 1..(n - 1) /\ s[n].res # s[i].res /\ s[i].res \in Paths
        BY <2>10, <2>11, <2>12, <2>16, <3>2
      <4>2. \A j \in 1..(n - 1) : i < j => s[j].res # s[i].res
        BY <2>11, <2>16
      <4>3. r.tree[s[i].res] = TextLeft(m, s[i])
        BY <2>3, <4>1, <4>2 DEF WroteFiles
      <4> QED BY <2>8, <4>1, <4>3 DEF c
    <3> QED BY <3>1, <3>2
  <2>17. ASSUME NEW i \in 1..n, s[i].old # None PROVE d[i] = s[i]
    BY <2>2, <2>3, <2>5, <2>10, <2>17 DEF WroteFiles, c, d
  <2>18. ASSUME NEW i \in 1..n, s[i].old = None, \A j \in 1..n : j < i => s[j].res # s[i].res
         PROVE  d[i].old = Decode[t[s[i].res]]
    <3>1. CASE i = n
      <4>1. \A j \in 1..(n - 1) : s[j].res # c.res
        <5>1. \A j \in 1..(n - 1) : j < n
          BY <1>1
        <5> QED BY <2>11, <2>18, <3>1, <5>1 DEF c
      <4>2. r.tree[c.res] = t[c.res]
        BY <1>1, <2>3, <4>1 DEF WroteFiles
      <4> QED BY <2>2, <2>5, <2>18, <3>1, <4>2 DEF c, d
    <3>2. CASE i # n
      <4>1. i \in 1..(n - 1) /\ \A j \in 1..(n - 1) : j < i => s[j].res # s[i].res
        BY <2>10, <2>11, <2>18, <3>2
      <4>2. r.done[i].old = Decode[t[s[i].res]]
        BY <2>3, <2>18, <4>1 DEF WroteFiles
      <4> QED BY <2>5, <4>1, <4>2 DEF d
    <3> QED BY <3>1, <3>2
  <2>19. Len(d) = n
    BY <2>5 DEF d
  <2>20. WroteFiles(e, m, s, t)
    BY <2>9, <2>13, <2>14, <2>15, <2>16, <2>17, <2>18, <2>19 DEF WroteFiles
  <2> QED BY <2>20 DEF e, c
<1> QED BY <1>2, <1>3, <1>4, <1>5

\* Where such a set has brought the tree after any number of its changes.
LEMMA WroteUpTo ==
    ASSUME NEW m \in {"do", "undo"}, NEW s \in Seq(Changes), NEW t \in Trees,
           OnlyFiles(m, s, t), NEW f, RunUpTo(f, m, s, t, Len(s))
    PROVE  \A k \in 0..Len(s) : RunWith(f[k], m, s, k) /\ WroteFiles(f[k], m, s, t)
<1> DEFINE Bad == {k \in 0..Len(s) : ~(RunWith(f[k], m, s, k) /\ WroteFiles(f[k], m, s, t))}
<1> SUFFICES ASSUME Bad # {} PROVE FALSE
  OBVIOUS
<1>1. Len(s) \in Nat
  BY LenProperties
<1>2. PICK k \in Bad : \A l \in Bad : k <= l
  <2>1. Bad \in SUBSET Nat
    OBVIOUS
  <2> HIDE DEF Bad
  <2> QED BY <2>1, LeastNatural
<1>3. k \in 0..Len(s) /\ ~(RunWith(f[k], m, s, k) /\ WroteFiles(f[k], m, s, t))
  OBVIOUS
<1>4. CASE k = 0
  <2>1. f[0] = NotBegun(t)
    BY <1>1 DEF RunUpTo
  <2>2. <<>> \in Seq(Changes) /\ Len(<<>>) = 0
    BY EmptySeq
  <2>3. RunWith(NotBegun(t), m, s, 0)
    BY <2>2 DEF RunWith, NotBegun
  <2>4. WroteFiles(NotBegun(t), m, s, t)
    BY <2>2 DEF WroteFiles, NotBegun, OneShape
  <2> QED BY <1>3, <1>4, <2>1, <2>3, <2>4
<1>5. CASE k # 0
  <2> DEFINE n == k - 1
  <2>1. n \in Nat /\ n + 1 = k /\ k \in 1..Len(s) /\ n \in 0..Len(s) /\ ~(k <= n)
    BY <1>1, <1>3, <1>5
  <2>2. RunWith(f[n], m, s, n) /\ WroteFiles(f[n], m, s, t)
    BY <1>2, <2>1
  <2>3. f[k] = Extend(m, f[n], s[k])
    BY <1>3, <1>5 DEF RunUpTo
  <2>4. WroteFiles(f[k], m, s, t)
    BY <2>1, <2>2, <2>3, WroteStep
  <2> HIDE DEF n
  <2>5. RunWith(Extend(m, f[n], s[n + 1]), m, s, n + 1)
    BY <2>1, <2>2, ExtendType
  <2> QED BY <1>3, <2>1, <2>3, <2>4, <2>5
<1> QED BY <1>4, <1>5

\* What performing such a set makes of the tree, whether all of it succeeds or
\* it stops at a write that fails.
LEMMA WroteAll ==
    ASSUME NEW m \in {"do", "undo"}, NEW s \in Seq(Changes), NEW t \in Trees,
           OnlyFiles(m, s, t)
    PROVE  RunWith(RunAll(m, s, t), m, s, Len(s)) /\ WroteFiles(RunAll(m, s, t), m, s, t)
<1>1. Len(s) \in Nat /\ Len(s) \in 0..Len(s)
  BY LenProperties
<1>2. PICK f : RunUpTo(f, m, s, t, Len(s)) /\ RunAll(m, s, t) = f[Len(s)]
  BY <1>1, RunAllIsRun
<1> QED BY <1>1, <1>2, WroteUpTo

\* Where only contents differ the same folders are there.
LEMMA ShapeFolders ==
    ASSUME NEW t \in Trees, NEW u \in Trees, OneShape(t, u)
    PROVE  /\ OneShape(u, t)
           /\ \A p \in Paths : (t[p] \in Data <=> u[p] \in Data) /\ (t[p] = Dir <=> u[p] = Dir)
           /\ WellFormed(t) => WellFormed(u)
<1>1. \A p \in Paths : /\ t[p] \in Data <=> u[p] \in Data
                       /\ t[p] = Dir <=> u[p] = Dir
                       /\ t[p] = Absent <=> u[p] = Absent
  BY FileTreeAssumption DEF OneShape
<1>2. OneShape(u, t)
  BY DEF OneShape
<1>3. ASSUME WellFormed(t) PROVE WellFormed(u)
  <2> SUFFICES ASSUME NEW p \in Paths, Exists(u, p) PROVE HasParent(u, p)
    BY DEF WellFormed
  <2>1. HasParent(t, p)
    BY <1>1, <1>3 DEF WellFormed, Exists
  <2> QED BY <1>1, <2>1 DEF HasParent
<1> QED BY <1>1, <1>2, <1>3

\* A file of a directory can be written.
LEMMA FileCan ==
    ASSUME NEW t, WellFormed(t), NEW p \in Paths, t[p] \in Data
    PROVE  CanWrite(t, p)
BY FileTreeAssumption DEF WellFormed, CanWrite, Exists

\* Writes whose contents are known, to files that are there, all succeed.
LEMMA WritesSucceed ==
    ASSUME NEW m \in {"do", "undo"}, NEW s \in Seq(Changes), NEW t \in Trees, WellFormed(t),
           \A i \in 1..Len(s) : /\ s[i].kind = "contents" /\ s[i].old # None
                                /\ t[s[i].res] \in Data
    PROVE  RunAll(m, s, t).ok
<1>1. Len(s) \in Nat /\ Len(s) \in 0..Len(s)
  BY LenProperties
<1>2. PICK f : RunUpTo(f, m, s, t, Len(s)) /\ RunAll(m, s, t) = f[Len(s)]
  BY <1>1, RunAllIsRun
<1>3. OnlyFiles(m, s, t)
  BY DEF OnlyFiles
<1>4. \A k \in 0..Len(s) : RunWith(f[k], m, s, k) /\ WroteFiles(f[k], m, s, t)
  BY <1>2, <1>3, WroteUpTo
<1> DEFINE Bad == {k \in 0..Len(s) : ~f[k].ok}
<1>5. Bad = {}
  <2> SUFFICES ASSUME Bad # {} PROVE FALSE
    OBVIOUS
  <2>1. PICK k \in Bad : \A l \in Bad : k <= l
    <3>1. Bad \in SUBSET Nat
      OBVIOUS
    <3> HIDE DEF Bad
    <3> QED BY <3>1, LeastNatural
  <2>2. k \in 0..Len(s) /\ ~f[k].ok
    OBVIOUS
  <2>3. k # 0
    BY <1>1, <1>2, <2>2 DEF RunUpTo, NotBegun
  <2>4. k \in 1..Len(s) /\ k - 1 \in 0..Len(s) /\ ~(k <= k - 1)
    BY <1>1, <2>2, <2>3
  <2>5. f[k - 1].ok /\ f[k - 1].tree \in Trees /\ OneShape(t, f[k - 1].tree)
    BY <1>4, <2>1, <2>4 DEF RunWith, WroteFiles
  <2>6. f[k] = Extend(m, f[k - 1], s[k])
    BY <1>2, <2>2, <2>3 DEF RunUpTo
  <2>7. s[k] \in Changes /\ s[k].res \in Paths
    <3>1. s[k] \in Changes
      BY <2>4, ElementOfSeq
    <3> QED BY <3>1 DEF Changes
  <2>8. WellFormed(f[k - 1].tree) /\ f[k - 1].tree[s[k].res] \in Data
    BY <2>4, <2>5, <2>7, ShapeFolders
  <2>9. Perform(m, s[k], f[k - 1].tree).ok
    BY <2>4, <2>5, <2>7, <2>8, FileCan, WriteCan
  <2> QED BY <2>2, <2>5, <2>6, <2>9 DEF Extend
<1> QED BY <1>1, <1>2, <1>5

-----------------------------------------------------------------------------
(* A set of writes as one call *)

\* Shapes go together.
LEMMA ShapeTrans ==
    ASSUME NEW t, NEW u, NEW w, OneShape(t, u), OneShape(u, w)
    PROVE  OneShape(t, w)
BY DEF OneShape

\* One write leaves the shape.
LEMMA PerformShape ==
    ASSUME NEW m \in {"do", "undo"}, NEW c \in Changes, NEW t \in Trees, c.kind = "contents",
           t[c.res] \in Data \/ (m = "do" /\ c.old = None)
    PROVE  OneShape(t, Perform(m, c, t).tree)
<1>1. Perform(m, c, t).ok \in BOOLEAN
  BY PerformType
<1>2. CASE Perform(m, c, t).ok
  <2>1. /\ Perform(m, c, t).tree = [t EXCEPT ![c.res] = TextLeft(m, c)]
        /\ Captured(c, t).old # None /\ (m = "undo" => c.old # None)
    BY <1>2, WriteSucceeds DEF TextLeft
  <2>2. t[c.res] \in Data
    BY <2>1, CapturedFields DEF CanRead, IsFile
  <2>3. c.res \in Paths /\ TextLeft(m, c) \in Data
    BY <2>1 DEF TextLeft, Changes, Data
  <2>4. \A p \in Paths : [t EXCEPT ![c.res] = TextLeft(m, c)][p] = IF p = c.res THEN TextLeft(m, c) ELSE t[p]
    BY <2>3 DEF Trees
  <2> QED BY <2>1, <2>2, <2>3, <2>4 DEF OneShape
<1>3. CASE ~Perform(m, c, t).ok
  <2>1. Perform(m, c, t).tree = t
    BY <1>3, WriteFails
  <2> QED BY <2>1 DEF OneShape
<1> QED BY <1>1, <1>2, <1>3

\* A set of such writes is one in the order of undo too, and so is a beginning.
LEMMA OnlyFilesInOrder ==
    ASSUME NEW m \in {"do", "undo"}, NEW s \in Seq(Changes), NEW t, OnlyFiles(m, s, t)
    PROVE  /\ OnlyFiles(m, InOrder(m, s), t)
           /\ \A n \in 0..Len(s) : OnlyFiles(m, SubSeq(InOrder(m, s), 1, n), t)
<1>1. Len(s) \in Nat /\ \A i \in 1..Len(s) : Len(s) - i + 1 \in 1..Len(s)
  BY LenProperties
<1>2. OnlyFiles(m, InOrder(m, s), t)
  BY <1>1, ReverseType DEF OnlyFiles, InOrder
<1>3. InOrder(m, s) \in Seq(Changes) /\ Len(InOrder(m, s)) = Len(s)
  BY InOrderType
<1>4. ASSUME NEW n \in 0..Len(s) PROVE OnlyFiles(m, SubSeq(InOrder(m, s), 1, n), t)
  <2> DEFINE plan == InOrder(m, s)
             part == SubSeq(plan, 1, n)
  <2>1. Len(part) = n /\ \A k \in 1..n : part[k] = plan[k]
    BY <1>3, Beginning
  <2>2. \A k \in 1..n : k \in 1..Len(plan)
    BY <1>1, <1>3
  <2> HIDE DEF part, plan
  <2>3. OnlyFiles(m, part, t)
    BY <1>2, <2>1, <2>2 DEF OnlyFiles, plan
  <2> QED BY <2>3 DEF part, plan
<1> QED BY <1>2, <1>4

\* What was done of such a set can be taken back from any tree of the shape.
LEMMA DoneFiles ==
    ASSUME NEW m \in {"do", "undo"}, NEW s \in Seq(Changes), NEW t \in Trees,
           OnlyFiles(m, s, t), NEW n \in Nat, n <= Len(s), NEW r,
           RunWith(r, m, s, n), WroteFiles(r, m, s, t), NEW u \in Trees, OneShape(t, u)
    PROVE  /\ r.done \in Seq(Changes)
           /\ \A i \in 1..Len(r.done) :
                 /\ i \in 1..Len(s) /\ Like(r.done[i], s[i])
                 /\ r.done[i].kind = "contents" /\ r.done[i].old # None
                 /\ u[r.done[i].res] \in Data
           /\ OnlyFiles(Opposite(m), r.done, u)
<1>1. /\ r.done \in Seq(Changes) /\ Len(r.done) <= n
      /\ \A i \in 1..Len(r.done) : Like(r.done[i], s[i])
  BY DEF RunWith
<1>2. Len(s) \in Nat /\ Len(r.done) \in Nat
  BY <1>1, LenProperties
<1>3. ASSUME NEW i \in 1..Len(r.done)
      PROVE  /\ i \in 1..Len(s) /\ Like(r.done[i], s[i])
             /\ r.done[i].kind = "contents" /\ r.done[i].old # None
             /\ u[r.done[i].res] \in Data
  <2>1. i \in 1..Len(s) /\ Like(r.done[i], s[i])
    BY <1>1, <1>2
  <2>2. r.done[i].old # None /\ t[s[i].res] \in Data /\ s[i].kind = "contents"
    BY <2>1 DEF WroteFiles, OnlyFiles
  <2>3. s[i].res \in Paths
    <3>1. s[i] \in Changes
      BY <2>1, ElementOfSeq
    <3> QED BY <3>1 DEF Changes
  <2> QED BY <2>1, <2>2, <2>3 DEF Like, OneShape
<1> QED BY <1>1, <1>3 DEF OnlyFiles

\* A write that breaks in a file that is there leaves the shape.
LEMMA TruncatedShape ==
    ASSUME NEW c \in Changes, NEW t \in Trees, t[c.res] \in Data
    PROVE  OneShape(t, Truncated(c, t))
<1>1. c.res \in Paths /\ Empty \in Data
  BY FileTreeAssumption DEF Changes, Data
<1> QED BY <1>1 DEF OneShape, Truncated, Trees

\* What is taken back of a run on such a set, and where that is cut short, leaves
\* the shape.
LEMMA BackShape ==
    ASSUME NEW m \in {"do", "undo"}, NEW q \in Seq(Changes), NEW t \in Trees,
           OnlyFiles(m, q, t), NEW run, run.done = RunAll(m, q, t).done,
           run.tree \in Trees, OneShape(t, run.tree), NEW left \in RolledBack(m, run)
    PROVE  OneShape(t, left)
<1> DEFINE r == RunAll(m, q, t)
<1>1. /\ run.done \in Seq(Changes)
      /\ \A i \in 1..Len(run.done) : run.tree[run.done[i].res] \in Data
      /\ OnlyFiles(Opposite(m), run.done, run.tree)
  <2>1. Len(q) \in Nat /\ Len(q) <= Len(q)
    BY LenProperties
  <2>2. RunWith(r, m, q, Len(q)) /\ WroteFiles(r, m, q, t)
    BY WroteAll
  <2> HIDE DEF r
  <2>3. /\ r.done \in Seq(Changes)
        /\ \A i \in 1..Len(r.done) : run.tree[r.done[i].res] \in Data
        /\ OnlyFiles(Opposite(m), r.done, run.tree)
    BY <2>1, <2>2, DoneFiles
  <2> QED BY <2>3 DEF r
<1>2. PICK k \in 0..Len(run.done) :
              LET back == RunAll(Opposite(m), SubSeq(run.done, 1, k), run.tree).tree
              IN  \/ left = back
                  \/ /\ k + 1 \in 1..Len(run.done) /\ run.done[k + 1].kind = "contents"
                     /\ CanWrite(back, run.done[k + 1].res)
                     /\ left = Truncated(run.done[k + 1], back)
  BY <1>1, RolledBackIs
<1> DEFINE part == SubSeq(run.done, 1, k)
           back == RunAll(Opposite(m), part, run.tree)
<1>3. left = back.tree \/ (k + 1 \in 1..Len(run.done) /\ left = Truncated(run.done[k + 1], back.tree))
  BY <1>2
<1>4. part \in Seq(Changes) /\ Len(part) = k /\ \A i \in 1..k : part[i] = run.done[i]
  BY <1>1, Beginning
<1>5. \A i \in 1..k : i \in 1..Len(run.done)
  BY <1>1, LenProperties
<1> HIDE DEF part
<1>6. OnlyFiles(Opposite(m), part, run.tree)
  BY <1>1, <1>4, <1>5 DEF OnlyFiles
<1>7. back.tree \in Trees /\ OneShape(run.tree, back.tree)
  <2>1. RunWith(back, Opposite(m), part, Len(part)) /\ WroteFiles(back, Opposite(m), part, run.tree)
    BY <1>4, <1>6, OppositeMode, WroteAll
  <2> HIDE DEF back
  <2> QED BY <2>1 DEF RunWith, WroteFiles
<1> HIDE DEF back
<1>8. OneShape(t, back.tree)
  BY <1>7, ShapeTrans
<1>9. CASE k + 1 \in 1..Len(run.done) /\ left = Truncated(run.done[k + 1], back.tree)
  <2>1. run.done[k + 1] \in Changes
    BY <1>1, <1>9, ElementOfSeq
  <2>2. run.done[k + 1].res \in Paths /\ run.tree[run.done[k + 1].res] \in Data
    BY <1>1, <1>9, <2>1 DEF Changes
  <2>3. back.tree[run.done[k + 1].res] \in Data
    BY <1>7, <2>2 DEF OneShape
  <2>4. OneShape(back.tree, left)
    BY <1>7, <1>9, <2>1, <2>3, TruncatedShape
  <2> QED BY <1>8, <2>4, ShapeTrans
<1> QED BY <1>3, <1>8, <1>9

\* However a call on such a set ends, the shape of the tree stays.
LEMMA OutcomeShape ==
    ASSUME NEW m \in {"do", "undo"}, NEW s \in Seq(Changes), NEW t \in Trees,
           OnlyFiles(m, s, t), NEW o \in Outcomes(m, s, t)
    PROVE  OneShape(t, o.tree)
<1> DEFINE plan == InOrder(m, s)
           whole == RunAll(m, plan, t)
<1>1. /\ plan \in Seq(Changes) /\ Len(plan) = Len(s) /\ Len(s) \in Nat
      /\ OnlyFiles(m, plan, t)
  BY InOrderType, OnlyFilesInOrder, LenProperties
<1>2. whole.tree \in Trees /\ OneShape(t, whole.tree)
  BY <1>1, WroteAll DEF RunWith, WroteFiles
<1>3. ASSUME NEW left \in RolledBack(m, whole)
      PROVE  OneShape(t, left)
  <2> DEFINE run == whole
  <2>1. run.done = RunAll(m, plan, t).done
    OBVIOUS
  <2>2. left \in RolledBack(m, run)
    OBVIOUS
  <2> HIDE DEF plan, run, whole
  <2> QED BY <1>1, <1>2, <2>1, <2>2, BackShape DEF run
<1>4. CASE o = RunSet(m, s, t)
  <2>1. o.tree = whole.tree \/ o.tree = TakenBack(m, whole)
    BY <1>4 DEF RunSet
  <2>2. TakenBack(m, whole) \in RolledBack(m, whole)
    BY DEF RolledBack
  <2> QED BY <1>2, <1>3, <2>1, <2>2
<1>5. \A n \in 1..JobsReached(m, s, t) : t[plan[n].res] \in Data
  <2>1. RunWith(whole, m, plan, Len(plan)) /\ WroteFiles(whole, m, plan, t)
    BY <1>1, WroteAll
  <2>2. JobsReached(m, s, t) = Len(whole.done)
    BY DEF JobsReached
  <2> HIDE DEF whole, plan
  <2> QED BY <2>1, <2>2 DEF WroteFiles
<1>6. ASSUME NEW n \in 1..JobsReached(m, s, t), NEW how \in {"before", "torn", "landed"},
             how = "torn" => plan[n].kind = "contents",
             NEW run, run = Halted(m, s, n, how, t), NEW left \in RolledBack(m, run)
      PROVE  OneShape(t, left)
  <2> DEFINE q == SubSeq(plan, 1, n - 1)
             r == RunAll(m, q, t)
  <2>1. /\ n \in 1..Len(s) /\ plan[n] \in Changes /\ q \in Seq(Changes)
        /\ r.tree \in Trees /\ run.done = r.done /\ run.tree \in Trees
        /\ \/ run.tree = r.tree
           \/ how = "torn" /\ run.tree = Truncated(plan[n], r.tree)
           \/ how = "landed" /\ run.tree = Perform(m, plan[n], r.tree).tree
    BY <1>6, HaltedIs
  <2>2. n - 1 \in 0..Len(s)
    BY <1>1, <2>1
  <2>3. OnlyFiles(m, q, t)
    BY <1>1, <2>2, OnlyFilesInOrder
  <2>4. OneShape(t, r.tree)
    BY <2>1, <2>3, WroteAll DEF WroteFiles
  <2>5. r = RunAll(m, q, t)
    OBVIOUS
  <2> HIDE DEF r, q
  <2>6. plan[n].res \in Paths /\ plan[n].kind = "contents"
        /\ (r.tree[plan[n].res] \in Data \/ (m = "do" /\ plan[n].old = None))
    <3>1. plan[n].res \in Paths
      BY <2>1 DEF Changes
    <3>2. plan[n].kind = "contents" /\ (t[plan[n].res] \in Data \/ (m = "do" /\ plan[n].old = None))
      BY <1>1, <2>1 DEF OnlyFiles
    <3> HIDE DEF plan
    <3> QED BY <2>4, <3>1, <3>2 DEF OneShape
  <2> HIDE DEF plan
  <2>7. CASE run.tree = Perform(m, plan[n], r.tree).tree
    <3>1. OneShape(r.tree, run.tree)
      BY <2>1, <2>6, <2>7, PerformShape
    <3>2. OneShape(t, run.tree)
      BY <2>4, <3>1, ShapeTrans
    <3> QED BY <1>6, <2>1, <2>3, <2>5, <3>2, BackShape
  <2>8. CASE how = "torn" /\ run.tree = Truncated(plan[n], r.tree)
    <3>1. r.tree[plan[n].res] \in Data
      BY <1>5, <2>4, <2>6 DEF OneShape
    <3>2. OneShape(t, run.tree)
      BY <2>1, <2>4, <2>8, <3>1, TruncatedShape, ShapeTrans
    <3> QED BY <1>6, <2>1, <2>3, <2>5, <3>2, BackShape
  <2>9. CASE run.tree = r.tree
    BY <1>6, <2>1, <2>3, <2>4, <2>5, <2>9, BackShape
  <2> QED BY <2>1, <2>7, <2>8, <2>9
<1>7. ASSUME NEW run \in Halts(m, s, t), NEW left \in RolledBack(m, run)
      PROVE  OneShape(t, left)
  <2>1. CASE run = whole
    BY <1>3, <1>7, <2>1
  <2>2. CASE \E n \in 1..JobsReached(m, s, t), how \in {"before", "torn", "landed"} :
                /\ run = Halted(m, s, n, how, t)
                /\ how = "torn" => plan[n].kind = "contents"
    BY <1>6, <1>7, <2>2
  <2> QED BY <2>1, <2>2, HaltsAre
<1>8. ASSUME NEW run \in Halts(m, s, t), NEW left \in RolledBack(m, run),
             o = [ok |-> FALSE, tree |-> left, changes |-> s]
      PROVE  OneShape(t, o.tree)
  BY <1>7, <1>8
<1> QED BY <1>4, <1>8, OutcomeIs

\* No file is written twice.
Apiece(s) == \A i, j \in 1..Len(s) : s[i].res = s[j].res => i = j

\* Every write knows what it replaced, and its file is there.
Known(s, t) ==
    \A i \in 1..Len(s) : /\ s[i].kind = "contents" /\ s[i].old # None
                         /\ t[s[i].res] \in Data

\* The files of the set have the texts of its writes, the rest is as it was.
Wrote(m, s, t, u) ==
    /\ \A i \in 1..Len(s) : u[s[i].res] = TextLeft(m, s[i])
    /\ \A p \in Paths : (\A i \in 1..Len(s) : s[i].res # p) => u[p] = t[p]

\* A run of different files that got to the end.
LEMMA WroteApiece ==
    ASSUME NEW m \in {"do", "undo"}, NEW s \in Seq(Changes), NEW t \in Trees,
           OnlyFiles(m, s, t), Apiece(s), RunAll(m, s, t).ok
    PROVE  /\ Wrote(m, s, t, RunAll(m, s, t).tree)
           /\ Len(RunAll(m, s, t).done) = Len(s)
<1> DEFINE r == RunAll(m, s, t)
<1>1. RunWith(r, m, s, Len(s)) /\ WroteFiles(r, m, s, t)
  BY WroteAll
<1>2. Len(s) \in Nat /\ r.ok
  BY LenProperties
<1> HIDE DEF r
<1>3. Len(r.done) = Len(s)
  BY <1>1, <1>2 DEF RunWith
<1>4. ASSUME NEW i \in 1..Len(s) PROVE r.tree[s[i].res] = TextLeft(m, s[i])
  <2>1. \A j \in 1..Len(s) : i < j => s[j].res # s[i].res
    BY <1>2 DEF Apiece
  <2> QED BY <1>1, <1>3, <2>1 DEF WroteFiles
<1>5. \A p \in Paths : (\A i \in 1..Len(s) : s[i].res # p) => r.tree[p] = t[p]
  BY <1>1, <1>3 DEF WroteFiles
<1> QED BY <1>3, <1>4, <1>5 DEF Wrote, r

\* The order of a set of different files does not matter.
LEMMA KnownInOrder ==
    ASSUME NEW m \in {"do", "undo"}, NEW s \in Seq(Changes), NEW t
    PROVE  /\ Known(s, t) => Known(InOrder(m, s), t)
           /\ Apiece(s) => Apiece(InOrder(m, s))
           /\ \A u : Wrote(m, InOrder(m, s), t, u) => Wrote(m, s, t, u)
<1>1. Len(s) \in Nat
  BY LenProperties
<1>2. CASE m = "do"
  <2>1. InOrder(m, s) = s
    BY <1>2 DEF InOrder
  <2> QED BY <2>1
<1>3. CASE m = "undo"
  <2> DEFINE plan == InOrder(m, s)
  <2>1. plan = Seqs!Reverse(s)
    BY <1>3 DEF InOrder
  <2>2. Len(plan) = Len(s) /\ \A i \in 1..Len(s) : plan[i] = s[Len(s) - i + 1]
    BY <2>1, ReverseType
  <2>3. \A i \in 1..Len(s) : Len(s) - i + 1 \in 1..Len(s) /\ Len(s) - (Len(s) - i + 1) + 1 = i
    BY <1>1
  <2> HIDE DEF plan
  <2>4. \A i \in 1..Len(s) : plan[Len(s) - i + 1] = s[i]
    BY <2>2, <2>3
  <2>5. Known(s, t) => Known(plan, t)
    BY <2>2, <2>3 DEF Known
  <2>6. ASSUME Apiece(s), NEW i \in 1..Len(s), NEW j \in 1..Len(s), plan[i].res = plan[j].res
        PROVE  i = j
    <3> DEFINE k == Len(s) - i + 1
               l == Len(s) - j + 1
    <3>1. k \in 1..Len(s) /\ l \in 1..Len(s) /\ plan[i] = s[k] /\ plan[j] = s[l]
      BY <2>2, <2>3
    <3> HIDE DEF k, l
    <3>2. k = l
      BY <2>6, <3>1 DEF Apiece
    <3> QED BY <1>1, <3>2 DEF k, l
  <2>7. ASSUME NEW u, Wrote(m, plan, t, u) PROVE Wrote(m, s, t, u)
    <3>1. \A i \in 1..Len(s) : u[s[i].res] = TextLeft(m, s[i])
      BY <2>2, <2>3, <2>4, <2>7 DEF Wrote
    <3>2. ASSUME NEW p \in Paths, \A i \in 1..Len(s) : s[i].res # p PROVE u[p] = t[p]
      <4>1. ASSUME NEW i \in 1..Len(plan) PROVE plan[i].res # p
        <5>1. i \in 1..Len(s) /\ plan[i] = s[Len(s) - i + 1]
          BY <2>2
        <5>2. Len(s) - i + 1 \in 1..Len(s)
          BY <2>3, <5>1
        <5> QED BY <3>2, <5>1, <5>2
      <4>2. (\A i \in 1..Len(plan) : plan[i].res # p) => u[p] = t[p]
        BY <2>7 DEF Wrote
      <4> QED BY <4>1, <4>2
    <3> QED BY <3>1, <3>2 DEF Wrote
  <2> QED BY <2>2, <2>5, <2>6, <2>7 DEF Apiece, plan
<1> QED BY <1>2, <1>3

\* Doing or undoing such a set succeeds.
LEMMA KnownSet ==
    ASSUME NEW m \in {"do", "undo"}, NEW s \in Seq(Changes), NEW t \in Trees,
           WellFormed(t), Known(s, t), Apiece(s)
    PROVE  /\ RunSet(m, s, t).ok
           /\ Wrote(m, s, t, RunSet(m, s, t).tree)
<1> DEFINE plan == InOrder(m, s)
<1>1. plan \in Seq(Changes) /\ Known(plan, t) /\ Apiece(plan)
  BY InOrderType, KnownInOrder
<1> HIDE DEF plan
<1>2. RunAll(m, plan, t).ok
  BY <1>1, WritesSucceed DEF Known
<1>3. OnlyFiles(m, plan, t)
  BY <1>1 DEF OnlyFiles, Known
<1>4. Wrote(m, plan, t, RunAll(m, plan, t).tree)
  BY <1>1, <1>2, <1>3, WroteApiece
<1>5. RunSet(m, s, t).ok /\ RunSet(m, s, t).tree = RunAll(m, plan, t).tree
  BY <1>2 DEF RunSet, plan
<1> QED BY <1>4, <1>5, KnownInOrder DEF plan

\* A set that is done for the first time and gets to the end: every write knows
\* the text it replaced.
LEMMA FreshSet ==
    ASSUME NEW s \in Seq(Changes), NEW t \in Trees, Apiece(s),
           \A i \in 1..Len(s) : s[i].kind = "contents" /\ s[i].old = None,
           RunSet("do", s, t).ok
    PROVE  LET o == RunSet("do", s, t) IN
           /\ Wrote("do", s, t, o.tree)
           /\ o.changes \in Seq(Changes) /\ Len(o.changes) = Len(s)
           /\ \A i \in 1..Len(s) : /\ Like(o.changes[i], s[i])
                                   /\ o.changes[i].old # None
                                   /\ t[s[i].res] \in Data
                                   /\ o.changes[i].old = Decode[t[s[i].res]]
<1> DEFINE r == RunAll("do", s, t)
<1>1. InOrder("do", s) = s /\ \A q : InOrder("do", q) = q
  BY DEF InOrder
<1>2. r.ok /\ RunSet("do", s, t).tree = r.tree /\ RunSet("do", s, t).changes = r.done
  BY <1>1 DEF RunSet
<1>3. OnlyFiles("do", s, t)
  BY DEF OnlyFiles
<1>4. RunWith(r, "do", s, Len(s)) /\ WroteFiles(r, "do", s, t)
  BY <1>3, WroteAll
<1>5. Wrote("do", s, t, r.tree) /\ Len(r.done) = Len(s)
  BY <1>2, <1>3, WroteApiece
<1> HIDE DEF r
<1>6. r.done \in Seq(Changes) /\ \A i \in 1..Len(s) : Like(r.done[i], s[i])
  BY <1>4, <1>5 DEF RunWith
<1>7. ASSUME NEW i \in 1..Len(s)
      PROVE  r.done[i].old # None /\ t[s[i].res] \in Data /\ r.done[i].old = Decode[t[s[i].res]]
  <2>1. Len(s) \in Nat /\ \A j \in 1..Len(s) : j < i => s[j].res # s[i].res
    BY LenProperties DEF Apiece
  <2> QED BY <1>4, <1>5, <2>1 DEF WroteFiles
<1> QED BY <1>2, <1>5, <1>6, <1>7

\* One that fails is taken back: every file has the text it had.
LEMMA FreshFails ==
    ASSUME NEW s \in Seq(Changes), NEW t \in Trees, WellFormed(t), Apiece(s),
           \A i \in 1..Len(s) : s[i].kind = "contents" /\ s[i].old = None,
           ~RunSet("do", s, t).ok, NEW p \in Paths
    PROVE  LET u == RunSet("do", s, t).tree IN
           \/ u[p] = t[p]
           \/ u[p] \in Data /\ t[p] \in Data /\ Decode[u[p]] = Decode[t[p]]
<1> DEFINE r == RunAll("do", s, t)
           u == RunAll("undo", r.done, r.tree).tree
<1>1. InOrder("do", s) = s /\ Opposite("do") = "undo" /\ Len(s) \in Nat
  BY LenProperties DEF InOrder, Opposite
<1>2. RunSet("do", s, t).tree = u
  BY <1>1 DEF RunSet, TakenBack
<1>3. OnlyFiles("do", s, t)
  BY DEF OnlyFiles
<1>4. RunWith(r, "do", s, Len(s)) /\ WroteFiles(r, "do", s, t)
  BY <1>3, WroteAll
<1>5. r.tree \in Trees /\ OneShape(t, r.tree) /\ WellFormed(r.tree)
  <2>1. r.tree \in Trees /\ OneShape(t, r.tree)
    BY <1>4 DEF RunWith, WroteFiles
  <2> HIDE DEF r
  <2> QED BY <2>1, ShapeFolders
<1>6. /\ r.done \in Seq(Changes)
      /\ \A i \in 1..Len(r.done) :
            /\ i \in 1..Len(s) /\ Like(r.done[i], s[i])
            /\ r.done[i].kind = "contents" /\ r.done[i].old # None
            /\ r.tree[r.done[i].res] \in Data
      /\ OnlyFiles("undo", r.done, r.tree)
  <2>1. Len(s) <= Len(s)
    BY <1>1
  <2> HIDE DEF r
  <2> QED BY <1>1, <1>3, <1>4, <1>5, <2>1, DoneFiles
<1> HIDE DEF r
<1>7. Apiece(r.done)
  BY <1>6 DEF Apiece, Like
<1>8. RunAll("undo", r.done, r.tree).ok
  BY <1>5, <1>6, WritesSucceed
<1>9. Wrote("undo", r.done, r.tree, u)
  BY <1>5, <1>6, <1>7, <1>8, WroteApiece
<1> HIDE DEF u
<1>10. CASE \E i \in 1..Len(r.done) : r.done[i].res = p
  <2>1. PICK i \in 1..Len(r.done) : r.done[i].res = p
    BY <1>10
  <2>2. i \in 1..Len(s) /\ s[i].res = p /\ u[p] = r.done[i].old
    BY <1>6, <1>9, <2>1 DEF Wrote, TextLeft, Like
  <2>3. \A j \in 1..Len(r.done) : j < i => s[j].res # s[i].res
    BY <1>1, <1>6, <2>2 DEF Apiece
  <2>4. t[p] \in Data /\ u[p] = Decode[t[p]]
    BY <1>4, <2>1, <2>2, <2>3 DEF WroteFiles
  <2> QED BY <1>2, <2>4, FileTreeAssumption DEF Data
<1>11. CASE \A i \in 1..Len(r.done) : r.done[i].res # p
  <2>1. u[p] = r.tree[p]
    BY <1>9, <1>11 DEF Wrote
  <2>2. \A i \in 1..Len(r.done) : s[i].res # p
    BY <1>6, <1>11 DEF Like
  <2>3. r.tree[p] = t[p]
    BY <1>4, <2>2 DEF WroteFiles
  <2> QED BY <1>2, <2>1, <2>3
<1> QED BY <1>10, <1>11
=============================================================================
