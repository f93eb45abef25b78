-------------------------- MODULE ModuleCacheProofs --------------------------
(***************************************************************************)
(* Theorems about ModuleCache for every project directory, every set of     *)
(* threads and any number of changes: its type invariant; that a module     *)
(* which is in the cache is watched by PyCore's observer, so that there is  *)
(* no order of the threads' steps and of the notifications in which it      *)
(* could stay there for good; and that the modules in the cache, and what   *)
(* they have concluded from one another, agree with the directory once all  *)
(* has settled.                                                             *)
(***************************************************************************)
EXTENDS ModuleCache, ChangesProofs

Entries == [src : Data \ {Bad}, seen : Answers \cup {None}]

Jobs == [want : Seq(Resources), made : Data \cup {None},
         step : {"idle", "keep", "observe"}, owner : BOOLEAN]

CacheInv ==
    /\ DOMAIN cache \subseteq Resources
    /\ \A r \in DOMAIN cache : cache[r] \in Entries

TableInv ==
    /\ DOMAIN table \subseteq Resources
    /\ \A r \in DOMAIN table : table[r] \in Nat \cup {None}

\* A thread that builds a module has read a source that can be parsed.
JobInv ==
    /\ job \in [Threads -> Jobs]
    /\ \A t \in Threads : job[t].step # "idle" =>
          /\ job[t].made \in Data \ {Bad}
          /\ job[t].want # <<>>

EventInv ==
    event.kind \in {"none", "changed", "created", "moved", "removed", "validate"}

DiskInv == tree \in Trees /\ mtime \in [Places -> Nat] /\ clock \in Nat

CacheTypes ==
    /\ DiskInv /\ TableInv /\ CacheInv /\ JobInv /\ EventInv
    /\ replaced \subseteq Resources
    /\ (event = NoEvent \/ event.kind # "none")

-----------------------------------------------------------------------------
(* Sources *)

\* What a module is made from is data; an __init__ that is there is a resource.
LEMMA SourceType ==
    ASSUME NEW t \in Trees, NEW r \in Resources, IsThere(t, r)
    PROVE  Source(t, r) \in Data
<1>1. CASE ~r.folder
  <2>1. t[r.path] \in Nodes /\ t[r.path] # Absent /\ t[r.path] # Dir
    BY <1>1 DEF Resources, Trees, IsThere
  <2> QED BY <1>1, <2>1 DEF Source, Nodes
<1>2. CASE r.folder /\ HasInit(t, r)
  <2>1. InitPy(r).path \in Paths /\ InitPy(r).folder = FALSE
    BY <1>2 DEF HasInit, InitPy, FileAt
  <2>2. t[InitPy(r).path] \in Nodes \ {Absent, Dir}
    BY <1>2, <2>1 DEF HasInit, IsThere, Trees
  <2> QED BY <1>2, <2>2 DEF Source, Nodes
<1>3. CASE r.folder /\ ~HasInit(t, r)
  BY <1>3, FileTreeAssumption DEF Source, Data
<1> QED BY <1>1, <1>2, <1>3 DEF Resources

LEMMA InitPyType ==
    ASSUME NEW t, NEW r \in Resources, HasInit(t, r)
    PROVE  InitPy(r) \in Resources
BY DEF HasInit, InitPy, FileAt, Resources

LEMMA FoundType ==
    ASSUME NEW t, Found(t) # None
    PROVE  Found(t) \in Resources /\ IsThere(t, Found(t))
<1> DEFINE there == {i \in DOMAIN Candidates : IsThere(t, Candidates[i])}
<1>1. DOMAIN Candidates = 1..Len(Candidates) /\ Len(Candidates) \in Nat
  BY ModuleCacheAssumption, LenProperties
<1>2. there \subseteq Nat /\ there # {}
  BY <1>1 DEF Found
<1>3. \E m \in there : \A j \in there : m <= j
  BY <1>2, LeastNatural
<1>4. (CHOOSE i \in there : \A j \in there : i <= j) \in there
  BY <1>3
<1>5. \E i \in there : Found(t) = Candidates[i]
  BY <1>2, <1>4 DEF Found
<1>6. \A i \in DOMAIN Candidates : Candidates[i] \in Resources
  BY ModuleCacheAssumption, ElementOfSeq
<1> QED BY <1>5, <1>6

-----------------------------------------------------------------------------
(* The directory *)

\* A change of the directory gives what it has altered a new time.
LEMMA ChangeDiskType ==
    ASSUME DiskInv, NEW t \in Trees, ChangeDisk(t)
    PROVE  DiskInv' /\ replaced' = replaced
BY DEF DiskInv, ChangeDisk

\* What a call of rope does to the directory leaves one, and the event that
\* is told has a kind.
LEMMA ChangeType ==
    ASSUME CacheTypes, NEW c \in Changes,
           NEW kind \in {"changed", "created", "moved", "removed"}, Change(c, kind)
    PROVE  CacheTypes'
<1>1. DoChange(c, tree).tree \in Trees
  BY PerformType DEF Perform, CacheTypes, DiskInv
<1>2. /\ DiskInv' /\ replaced' = replaced
  BY <1>1, ChangeDiskType DEF Change, CacheTypes
<1>3. UNCHANGED <<table, cache, job>> /\ event'.kind = kind
  BY DEF Change, Tell
<1> QED BY <1>2, <1>3 DEF CacheTypes, TableInv, CacheInv, JobInv, EventInv

LEMMA CallsKeep ==
    ASSUME CacheTypes,
           WriteResource \/ CreateResource \/ RemoveResource \/ MoveResource
    PROVE  CacheTypes'
<1>1. ASSUME NEW p \in Paths, NEW text \in Written PROVE Write(p, text) \in Changes
  BY ModuleCacheAssumption DEF Write, Changes
<1>2. ASSUME NEW p \in Paths, NEW q \in Paths, NEW isFolder \in BOOLEAN
      PROVE  /\ Create(p, isFolder) \in Changes
             /\ Delete(p, isFolder) \in Changes
             /\ Move(p, q, isFolder) \in Changes
  BY FileTreeAssumption DEF Create, Delete, Move, Changes
<1>3. CASE WriteResource
  BY <1>1, <1>3, ChangeType DEF WriteResource
<1>4. CASE CreateResource
  BY <1>2, <1>4, ChangeType DEF CreateResource
<1>5. CASE RemoveResource
  BY <1>2, <1>5, ChangeType DEF RemoveResource
<1>6. CASE MoveResource
  <2>1. PICK pair \in MovePairs :
           LET c == BuiltOne(Move(pair[1], pair[2], tree[pair[1]] = Dir), tree)
           IN  c.dest \in Paths /\ Change(c, "moved")
    BY <1>6 DEF MoveResource
  <2> DEFINE m == Move(pair[1], pair[2], tree[pair[1]] = Dir)
             c == BuiltOne(m, tree)
  <2>2. pair[1] \in Paths /\ pair[2] \in Paths
    BY ModuleCacheAssumption
  <2>3. m \in Changes
    BY <1>2, <2>2
  <2>4. c \in Changes
    BY <2>1, <2>3 DEF BuiltOne, Changes
  <2> QED BY <2>1, <2>4, ChangeType
<1> QED BY <1>3, <1>4, <1>5, <1>6

LEMMA OutsideKeeps == CacheTypes /\ Outside => CacheTypes'
<1> SUFFICES ASSUME CacheTypes, Outside PROVE CacheTypes'
  OBVIOUS
<1>1. PICK p \in Paths :
        \E result \in {WriteFile(tree, p, text) : text \in Written} \cup
                      {CreateNode(tree, p, Dir), RemoveNode(tree, p)} :
             result.ok /\ ChangeDisk(result.tree)
  BY DEF Outside
<1>2. \A text \in Written : WriteFile(tree, p, text).tree \in Trees
  BY WriteType, ModuleCacheAssumption DEF CacheTypes, DiskInv
<1>3. CreateNode(tree, p, Dir).tree \in Trees /\ RemoveNode(tree, p).tree \in Trees
  BY CreateType, RemoveType DEF CacheTypes, DiskInv, Nodes
<1>4. DiskInv' /\ replaced' = replaced
  BY <1>1, <1>2, <1>3, ChangeDiskType DEF CacheTypes
<1> QED BY <1>4 DEF Outside, CacheTypes, TableInv, CacheInv, JobInv, EventInv

-----------------------------------------------------------------------------
(* Notifications *)

\* What is reported as changed or created is in the table.
LEMMA CauseInTable ==
    ASSUME CacheTypes, event # NoEvent
    PROVE  Cause.changed \subseteq DOMAIN table /\ Cause.created \subseteq DOMAIN table
<1>1. event.kind \in {"changed", "created", "moved", "removed", "validate"}
  BY DEF CacheTypes, EventInv
<1> USE DEF ChangedParent
<1>2. \A gone : CausedByRemoved(table, gone).changed \subseteq DOMAIN table
                /\ CausedByRemoved(table, gone).created = {}
  BY DEF CausedByRemoved
<1>3. CASE event.kind = "changed"
  BY <1>3 DEF Cause, CausedByChanged, NoChanges
<1>4. CASE event.kind = "created"
  BY <1>4 DEF Cause, CausedByCreated, NoChanges
<1>5. CASE event.kind = "moved"
  BY <1>5 DEF Cause, CausedByMoved
<1>6. CASE event.kind = "removed"
  BY <1>2, <1>6 DEF Cause
<1>7. CASE event.kind = "validate"
  <2>1. /\ InScope(table, event.res) \subseteq DOMAIN table
    BY DEF InScope, Inside
  <2>2. Cause = CausedByValidate(tree, mtime, table, event.res)
    BY <1>7 DEF Cause
  <2> QED BY <1>2, <2>1, <2>2 DEF CausedByValidate, Altered, Appeared
<1> QED BY <1>1, <1>3, <1>4, <1>5, <1>6, <1>7

\* Forgetting keeps the modules, invalidating those that are not invalidated.
LEMMA ForgottenType ==
    ASSUME NEW c, \A r \in DOMAIN c : c[r] \in Entries
    PROVE  /\ DOMAIN Forgotten(c) = DOMAIN c
           /\ \A r \in DOMAIN c : Forgotten(c)[r] \in Entries
BY DEF Forgotten, Entries

LEMMA InvalidatedType ==
    ASSUME CacheInv, NEW gone
    PROVE  /\ DOMAIN Invalidated(gone) = DOMAIN cache \ gone
           /\ \A r \in DOMAIN Invalidated(gone) : Invalidated(gone)[r] \in Entries
<1>1. CASE gone \cap DOMAIN cache = {}
  BY <1>1 DEF Invalidated, CacheInv
<1>2. CASE gone \cap DOMAIN cache # {}
  <2> DEFINE left == [r \in DOMAIN cache \ gone |-> cache[r]]
  <2>1. DOMAIN left = DOMAIN cache \ gone /\ \A r \in DOMAIN left : left[r] \in Entries
    BY DEF CacheInv
  <2>2. Invalidated(gone) = Forgotten(left)
    BY <1>2 DEF Invalidated
  <2> HIDE DEF left
  <2> QED BY <2>1, <2>2, ForgottenType
<1> QED BY <1>1, <1>2

LEMMA ReportKeeps == CacheTypes /\ Report => CacheTypes'
<1> SUFFICES ASSUME CacheTypes, Report PROVE CacheTypes'
  OBVIOUS
<1> DEFINE gone == DOMAIN Cause.moved
           reported == Cause.changed \cup gone
           seen == Cause.changed \cup Cause.created
           kept == DOMAIN table \ (gone \cap DOMAIN cache)
<1>1. /\ cache' = Invalidated(reported)
      /\ table' = [r \in kept \cup seen |->
                      IF r \in seen THEN mtime[r.path]
                      ELSE IF r \in gone THEN None ELSE table[r]]
      /\ replaced' \subseteq DOMAIN cache'
      /\ job' = [t \in Threads |->
                    [job[t] EXCEPT !.owner = @ /\ Importer \notin reported]]
      /\ event' = NoEvent /\ UNCHANGED disk
  BY DEF Report
<1>2. seen \subseteq DOMAIN table
  BY CauseInTable DEF Report
<1>3. CacheInv' /\ replaced' \subseteq Resources
  BY <1>1, InvalidatedType DEF CacheTypes, CacheInv
<1>4. TableInv'
  <2>1. DOMAIN table' = kept \cup seen
    BY <1>1
  <2>2. ASSUME NEW r \in kept \cup seen PROVE table'[r] \in Nat \cup {None}
    <3>1. r \in DOMAIN table /\ r.path \in Places
      BY <1>2 DEF CacheTypes, TableInv, Resources, Places
    <3>2. mtime[r.path] \in Nat /\ table[r] \in Nat \cup {None}
      BY <3>1 DEF CacheTypes, DiskInv, TableInv
    <3> HIDE DEF seen, gone, kept
    <3> QED BY <1>1, <3>2
  <2> QED BY <1>2, <2>1, <2>2 DEF TableInv, CacheTypes
<1>5. JobInv'
  <2>1. ASSUME NEW t \in Threads
        PROVE  /\ job'[t] \in Jobs
               /\ job'[t].step = job[t].step /\ job'[t].made = job[t].made
               /\ job'[t].want = job[t].want
    <3>1. job[t] \in Jobs
      BY DEF CacheTypes, JobInv
    <3>2. job'[t] = [job[t] EXCEPT !.owner = job[t].owner /\ Importer \notin reported]
      BY <1>1
    <3>3. (job[t].owner /\ Importer \notin reported) \in BOOLEAN
      OBVIOUS
    <3> QED BY <3>1, <3>2, <3>3 DEF Jobs
  <2>2. job' \in [Threads -> Jobs]
    BY <1>1, <2>1
  <2> QED BY <2>1, <2>2 DEF JobInv, CacheTypes
<1> QED BY <1>1, <1>3, <1>4, <1>5 DEF CacheTypes, DiskInv, disk, EventInv, NoEvent

-----------------------------------------------------------------------------
(* get_pymodule *)

\* A call that does not raise has a source and asks for a module or two.
LEMMA AskedType ==
    ASSUME CacheTypes, NEW r \in Resources, IsThere(tree, r), NEW owner \in BOOLEAN
    PROVE  /\ Asked(r, owner) \in Jobs
           /\ Asked(r, owner).step # "idle" =>
                 /\ Asked(r, owner).made \in Data \ {Bad}
                 /\ Asked(r, owner).want # <<>>
<1> DEFINE known == r.folder /\ HasInit(tree, r) /\ InitPy(r) \in DOMAIN cache
           source == IF known THEN cache[InitPy(r)].src ELSE Source(tree, r)
           asked == [want |-> IF r.folder /\ HasInit(tree, r) /\ ~known
                              THEN <<r, InitPy(r)>> ELSE <<r>>,
                     made |-> source, step |-> "keep", owner |-> owner]
<1>1. Asked(r, owner) = IF source = Bad THEN Nobody ELSE asked
  BY DEF Asked
<1>2. Nobody \in Jobs /\ Nobody.step = "idle"
  BY DEF Nobody, Jobs
<1>3. source \in Data
  BY SourceType DEF CacheTypes, DiskInv, CacheInv, Entries
<1>4. asked.want \in Seq(Resources) /\ asked.want # <<>>
  BY InitPyType
<1>5. asked \in Jobs
  BY <1>3, <1>4 DEF Jobs
<1> HIDE DEF source, asked
<1>6. asked.made = source
  BY DEF asked
<1> QED BY <1>1, <1>2, <1>3, <1>4, <1>5, <1>6

\* Giving one thread another job.
LEMMA JobChanges ==
    ASSUME CacheTypes, NEW t \in Threads, NEW j \in Jobs,
           j.step # "idle" => j.made \in Data \ {Bad} /\ j.want # <<>>,
           job' = [job EXCEPT ![t] = j]
    PROVE  JobInv'
BY DEF CacheTypes, JobInv

\* What a thread works on.
LEMMA TopType ==
    ASSUME CacheTypes, NEW t \in Threads, job[t].step # "idle"
    PROVE  /\ Top(t) \in Resources
           /\ job[t].made \in Data \ {Bad}
<1>1. job[t].want \in Seq(Resources) /\ job[t].want # <<>>
  BY DEF CacheTypes, JobInv, Jobs
<1>2. Len(job[t].want) \in DOMAIN job[t].want
  BY <1>1, LenProperties, EmptySeq
<1> QED BY <1>1, <1>2, ElementOfSeq DEF Top, CacheTypes, JobInv

LEMMA AskKeeps == ASSUME CacheTypes, NEW t \in Threads, Ask(t) PROVE CacheTypes'
<1>1. PICK r \in Resources : IsThere(tree, r) /\ job' = [job EXCEPT ![t] = Asked(r, FALSE)]
  BY DEF Ask
<1>2. JobInv'
  BY <1>1, AskedType, JobChanges
<1> QED BY <1>2 DEF Ask, CacheTypes, DiskInv, TableInv, CacheInv, EventInv, disk

\* What is concluded is an answer.
LEMMA SeenType ==
    ASSUME CacheTypes, Importer \in DOMAIN cache, NEW answer \in Answers,
           cache' = [cache EXCEPT ![Importer].seen = answer]
    PROVE  CacheInv' /\ DOMAIN cache' = DOMAIN cache
BY DEF CacheTypes, CacheInv, Entries

LEMMA InferKeeps == ASSUME CacheTypes, NEW t \in Threads, Infer(t) PROVE CacheTypes'
<1> DEFINE found == Found(tree)
           answer == [res |-> found, src |-> IF found = None THEN Empty ELSE cache[found].src]
<1>1. found # None => found \in Resources /\ IsThere(tree, found)
  BY FoundType
<1>2. CASE found = None \/ found \in DOMAIN cache
  <2>1. Importer \in DOMAIN cache /\ UNCHANGED job
        /\ cache' = [cache EXCEPT ![Importer].seen = answer]
    BY <1>2 DEF Infer
  <2>2. answer \in Answers
    BY <1>1, <1>2, FileTreeAssumption DEF Answers, CacheTypes, CacheInv, Entries, Data
  <2>3. CacheInv' /\ DOMAIN cache' = DOMAIN cache
    BY <2>1, <2>2, SeenType
  <2> QED BY <2>1, <2>3 DEF Infer, CacheTypes, DiskInv, TableInv, JobInv, EventInv, disk
<1>3. CASE ~(found = None \/ found \in DOMAIN cache)
  <2>1. job' = [job EXCEPT ![t] = Asked(found, TRUE)] /\ UNCHANGED cache
    BY <1>3 DEF Infer
  <2>2. JobInv'
    BY <1>1, <1>3, <2>1, AskedType, JobChanges
  <2> QED BY <2>1, <2>2 DEF Infer, CacheTypes, DiskInv, TableInv, CacheInv, EventInv, disk
<1> QED BY <1>2, <1>3

LEMMA KeepKeeps == ASSUME CacheTypes, NEW t \in Threads, Keep(t) PROVE CacheTypes'
<1>1. job[t].step # "idle"
  BY DEF Keep
<1>2. Top(t) \in Resources /\ job[t].made \in Data \ {Bad}
  BY <1>1, TopType
<1>3. CacheInv' /\ replaced \subseteq Resources
  <2>1. cache' = [r \in DOMAIN cache \cup {Top(t)} |->
                   IF r = Top(t) THEN [src |-> job[t].made, seen |-> None] ELSE cache[r]]
    BY DEF Keep
  <2>2. DOMAIN cache' = DOMAIN cache \cup {Top(t)}
    BY <2>1
  <2>3. [src |-> job[t].made, seen |-> None] \in Entries
    BY <1>2 DEF Entries
  <2> QED BY <1>2, <2>1, <2>2, <2>3 DEF CacheTypes, CacheInv
<1>4. JobInv'
  <2>1. ASSUME NEW u \in Threads
        PROVE  /\ job'[u] \in Jobs /\ job'[u].made = job[u].made
               /\ job'[u].want = job[u].want
               /\ (job'[u].step = "idle") = (job[u].step = "idle")
    <3>1. job[u] \in Jobs
      BY DEF CacheTypes, JobInv
    <3>2. CASE u = t
      BY <1>1, <3>1, <3>2 DEF Keep, Jobs
    <3>3. CASE u # t
      <4>1. job'[u] = [job[u] EXCEPT !.owner = job[u].owner /\ Top(t) # Importer]
        BY <3>3 DEF Keep
      <4>2. (job[u].owner /\ Top(t) # Importer) \in BOOLEAN
        OBVIOUS
      <4> QED BY <3>1, <4>1, <4>2 DEF Jobs
    <3> QED BY <3>2, <3>3
  <2>2. job' \in [Threads -> Jobs]
    BY <2>1 DEF Keep
  <2> QED BY <2>1, <2>2 DEF JobInv, CacheTypes
<1> QED BY <1>3, <1>4 DEF Keep, CacheTypes, DiskInv, TableInv, EventInv, disk

LEMMA ObserveKeeps == ASSUME CacheTypes, NEW t \in Threads, Observe(t) PROVE CacheTypes'
<1>1. job[t].step # "idle" /\ job[t] \in Jobs
  BY DEF Observe, CacheTypes, JobInv
<1>2. Top(t) \in Resources /\ job[t].made \in Data \ {Bad}
  BY <1>1, TopType
<1>3. TableInv'
  <2>1. DOMAIN table' = DOMAIN table \cup {Top(t)}
    BY DEF Observe
  <2>2. ASSUME NEW r \in DOMAIN table' PROVE table'[r] \in Nat \cup {None}
    <3>1. r.path \in Places
      BY <1>2, <2>1 DEF CacheTypes, TableInv, Resources, Places
    <3>2. mtime[r.path] \in Nat
      BY <3>1 DEF CacheTypes, DiskInv
    <3> QED BY <2>1, <3>2 DEF Observe, CacheTypes, TableInv
  <2> QED BY <1>2, <2>1, <2>2 DEF TableInv, CacheTypes
<1>4. CASE Len(job[t].want) > 1
  <2>1. UNCHANGED cache
        /\ job' = [job EXCEPT ![t].want = SubSeq(@, 1, 1), ![t].step = "keep"]
    BY <1>4 DEF Observe, Give
  <2>2. /\ SubSeq(job[t].want, 1, 1) \in Seq(Resources)
        /\ SubSeq(job[t].want, 1, 1) # <<>>
    BY <1>1, <1>4, SubSeqProperties, EmptySeq DEF Jobs
  <2> DEFINE j == [job[t] EXCEPT !.want = SubSeq(@, 1, 1), !.step = "keep"]
  <2>3. job' = [job EXCEPT ![t] = j]
    BY <2>1 DEF CacheTypes, JobInv
  <2>4. j \in Jobs /\ j.made = job[t].made /\ j.want = SubSeq(job[t].want, 1, 1)
    BY <1>1, <2>2 DEF Jobs
  <2> HIDE DEF j
  <2>5. JobInv'
    BY <1>2, <2>2, <2>3, <2>4, JobChanges
  <2> QED BY <1>3, <2>1, <2>5 DEF Observe, CacheTypes, DiskInv, CacheInv, EventInv, disk
<1>5. CASE ~(Len(job[t].want) > 1)
  <2>1. job' = [job EXCEPT ![t] = Nobody]
    BY <1>5 DEF Observe, Give
  <2>2. JobInv'
    <3>1. Nobody \in Jobs /\ Nobody.step = "idle"
      BY EmptySeq DEF Nobody, Jobs
    <3> QED BY <2>1, <3>1, JobChanges
  <2>3. CacheInv' /\ DOMAIN cache' = DOMAIN cache
    <3>1. CASE job[t].owner /\ Importer \in DOMAIN cache
      <4>1. cache' = [cache EXCEPT ![Importer].seen = [res |-> Top(t), src |-> job[t].made]]
        BY <1>5, <3>1 DEF Observe, Give
      <4>2. [res |-> Top(t), src |-> job[t].made] \in Answers
        BY <1>2 DEF Answers
      <4> QED BY <3>1, <4>1, <4>2, SeenType
    <3>2. CASE ~(job[t].owner /\ Importer \in DOMAIN cache)
      BY <1>5, <3>2 DEF Observe, Give, CacheTypes, CacheInv
    <3> QED BY <3>1, <3>2
  <2> QED BY <1>3, <2>2, <2>3 DEF Observe, CacheTypes, DiskInv, EventInv, disk
<1> QED BY <1>4, <1>5

LEMMA ForgetKeeps == ASSUME CacheTypes, NEW t \in Threads, ForgetAllData(t) PROVE CacheTypes'
<1>1. CacheInv'
  BY ForgottenType DEF ForgetAllData, CacheTypes, CacheInv
<1> QED BY <1>1 DEF ForgetAllData, CacheTypes, DiskInv, TableInv, JobInv, EventInv, disk

-----------------------------------------------------------------------------
(* The theorems *)

LEMMA CacheTypesHold == Spec => []CacheTypes
<1>1. Init => CacheTypes
  <2> SUFFICES ASSUME Init PROVE CacheTypes
    OBVIOUS
  <2>1. Nobody \in Jobs /\ Nobody.step = "idle"
    BY EmptySeq DEF Nobody, Jobs
  <2>2. DiskInv
    BY ModuleCacheAssumption DEF Init, DiskInv
  <2> QED BY <2>1, <2>2
     DEF Init, CacheTypes, TableInv, CacheInv, JobInv, EventInv, NoEvent
<1>2. CacheTypes /\ [Next]_vars => CacheTypes'
  <2> SUFFICES ASSUME CacheTypes, [Next]_vars PROVE CacheTypes'
    OBVIOUS
  <2>1. CASE WriteResource \/ CreateResource \/ RemoveResource \/ MoveResource
    BY <2>1, CallsKeep
  <2>2. CASE Outside
    BY <2>2, OutsideKeeps
  <2>3. CASE Validate \/ ReportRaises
    BY <2>3 DEF Validate, ReportRaises, Tell, NoEvent, CacheTypes, DiskInv, TableInv, CacheInv,
                JobInv, EventInv, disk
  <2>4. CASE Report
    BY <2>4, ReportKeeps
  <2>5. CASE \E t \in Threads : Ask(t) \/ Infer(t) \/ Keep(t) \/ Observe(t) \/ ForgetAllData(t)
    BY <2>5, AskKeeps, InferKeeps, KeepKeeps, ObserveKeeps, ForgetKeeps
  <2>6. CASE UNCHANGED vars
    BY <2>6 DEF vars, disk, CacheTypes, DiskInv, TableInv, CacheInv, JobInv, EventInv
  <2> QED BY <2>1, <2>2, <2>3, <2>4, <2>5, <2>6 DEF Next
<1> QED BY <1>1, <1>2, PTL DEF Spec

\* The variables of ModuleCache keep their types: whatever is looked up, told
\* and changed in which order, the cache has modules of resources, made from
\* sources that can be parsed, and the observer's table has resources only.
THEOREM CacheTypeCorrect == Spec => []TypeOK
<1>1. CacheTypes => TypeOK
  BY DEF CacheTypes, DiskInv, TableInv, CacheInv, Entries, TypeOK
<1> QED BY <1>1, CacheTypesHold, PTL

\* A notification takes out of the table only what it takes out of the cache.
LEMMA ReportWatches == CacheTypes /\ CachedAreWatched /\ Report => CachedAreWatched'
<1> SUFFICES ASSUME CacheTypes, CachedAreWatched, Report PROVE CachedAreWatched'
  OBVIOUS
<1> DEFINE gone == DOMAIN Cause.moved
           reported == Cause.changed \cup gone
           seen == Cause.changed \cup Cause.created
<1>1. /\ cache' = Invalidated(reported)
      /\ DOMAIN table' = (DOMAIN table \ (gone \cap DOMAIN cache)) \cup seen
      /\ job' = [t \in Threads |->
                    [job[t] EXCEPT !.owner = @ /\ Importer \notin reported]]
  BY DEF Report
<1>2. DOMAIN cache' = DOMAIN cache \ reported
  BY <1>1, InvalidatedType DEF CacheTypes
<1>3. ASSUME NEW t \in Threads
      PROVE  job'[t].step = job[t].step /\ Top(t)' = Top(t)
  BY <1>1 DEF CacheTypes, JobInv, Jobs, Top
<1>4. ASSUME NEW r \in DOMAIN cache'
      PROVE  r \in DOMAIN table' \/ \E t \in Threads : job'[t].step = "observe" /\ Top(t)' = r
  <2>1. r \in DOMAIN cache /\ r \notin gone
    BY <1>2
  <2>2. CASE r \in DOMAIN table
    BY <1>1, <2>1, <2>2
  <2>3. CASE r \notin DOMAIN table
    BY <1>3, <2>1, <2>3 DEF CachedAreWatched
  <2> QED BY <2>2, <2>3
<1> QED BY <1>4 DEF CachedAreWatched

\* A thread that is not at the step between the two loses nothing by it.
LEMMA OthersWatch ==
    ASSUME CacheTypes, CachedAreWatched, NEW t \in Threads, NEW j,
           job[t].step # "observe", job' = [job EXCEPT ![t] = j],
           DOMAIN cache' = DOMAIN cache, UNCHANGED table
    PROVE  CachedAreWatched'
<1>1. ASSUME NEW u \in Threads, job[u].step = "observe"
      PROVE  job'[u].step = "observe" /\ Top(u)' = Top(u)
  BY <1>1 DEF CacheTypes, JobInv, Top
<1> QED BY <1>1 DEF CachedAreWatched

LEMMA KeepWatches ==
    ASSUME CacheTypes, CachedAreWatched, NEW t \in Threads, Keep(t)
    PROVE  CachedAreWatched'
<1>1. /\ DOMAIN cache' = DOMAIN cache \cup {Top(t)} /\ UNCHANGED table
      /\ job[t].step = "keep"
      /\ job' = [u \in Threads |->
                   IF u = t THEN [job[t] EXCEPT !.step = "observe"]
                   ELSE [job[u] EXCEPT !.owner = @ /\ Top(t) # Importer]]
  BY DEF Keep
<1>2. job'[t].step = "observe" /\ Top(t)' = Top(t)
  BY <1>1 DEF CacheTypes, JobInv, Jobs, Top
<1>3. ASSUME NEW u \in Threads, job[u].step = "observe"
      PROVE  job'[u].step = "observe" /\ Top(u)' = Top(u)
  BY <1>1, <1>3 DEF CacheTypes, JobInv, Jobs, Top
<1> QED BY <1>1, <1>2, <1>3 DEF CachedAreWatched

LEMMA ObserveWatches ==
    ASSUME CacheTypes, CachedAreWatched, NEW t \in Threads, Observe(t)
    PROVE  CachedAreWatched'
<1>1. DOMAIN table' = DOMAIN table \cup {Top(t)}
  BY DEF Observe
<1>2. /\ DOMAIN cache' = DOMAIN cache
      /\ \A u \in Threads \ {t} : job'[u] = job[u]
  BY DEF Observe, Give, CacheTypes, JobInv
<1> QED BY <1>1, <1>2 DEF CachedAreWatched, Top

\* A module in the cache is in the table of PyCore's observer, or a thread is
\* just about to add it: get_pymodule stores the module first and observes its
\* resource afterwards, and no notification that comes in between, from the
\* other thread or about another resource, leaves a module nobody watches.
THEOREM CachedModulesWatched == Spec => []CachedAreWatched
<1>1. Init => CachedAreWatched
  BY DEF Init, CachedAreWatched
<1>2. CacheTypes /\ CachedAreWatched /\ [Next]_vars => CachedAreWatched'
  <2> SUFFICES ASSUME CacheTypes, CachedAreWatched, [Next]_vars PROVE CachedAreWatched'
    OBVIOUS
  <2>1. CASE UNCHANGED <<table, cache, job>>
    BY <2>1 DEF CachedAreWatched, Top
  <2>2. CASE WriteResource \/ CreateResource \/ RemoveResource \/ MoveResource
    BY <2>1, <2>2 DEF WriteResource, CreateResource, RemoveResource, MoveResource, Change
  <2>3. CASE Outside \/ Validate \/ ReportRaises \/ UNCHANGED vars
    BY <2>1, <2>3 DEF Outside, Validate, ReportRaises, vars
  <2>4. CASE Report
    BY <2>4, ReportWatches
  <2>5. ASSUME NEW t \in Threads,
               Ask(t) \/ Infer(t) \/ Keep(t) \/ Observe(t) \/ ForgetAllData(t)
        PROVE  CachedAreWatched'
    <3>1. CASE Ask(t)
      <4>1. PICK r \in Resources : job' = [job EXCEPT ![t] = Asked(r, FALSE)]
        BY <3>1 DEF Ask
      <4>2. job[t].step # "observe" /\ UNCHANGED <<table, cache>>
        BY <3>1 DEF Ask, Idle, Nobody
      <4> QED BY <4>1, <4>2, OthersWatch
    <3>2. CASE Infer(t)
      <4>1. CASE UNCHANGED job
        BY <3>2, <4>1 DEF Infer, CachedAreWatched, Top
      <4>2. CASE UNCHANGED cache
        <5>1. CASE job' = [job EXCEPT ![t] = Asked(Found(tree), TRUE)]
          <6>1. job[t].step # "observe" /\ UNCHANGED table
            BY <3>2 DEF Infer, Idle, Nobody
          <6> QED BY <4>2, <5>1, <6>1, OthersWatch
        <5> QED BY <3>2, <4>1, <5>1 DEF Infer
      <4> QED BY <3>2, <4>1, <4>2 DEF Infer
    <3>3. CASE ForgetAllData(t)
      BY <3>3 DEF ForgetAllData, Forgotten, CachedAreWatched, Top
    <3> QED BY <2>5, <3>1, <3>2, <3>3, KeepWatches, ObserveWatches
  <2> QED BY <2>2, <2>3, <2>4, <2>5 DEF Next
<1> QED BY <1>1, <1>2, CacheTypesHold, PTL DEF Spec

-----------------------------------------------------------------------------
(* Modules that are made from what is in the directory *)

\* What PyCore tries for the import.
Tried == {Candidates[i] : i \in DOMAIN Candidates}

\* A module of r that is made from src is made from what is there; a package
\* from the same as the module of its __init__, which is in the cache then.
MadeFrom(r, src) ==
    /\ IsThere(tree, r)
    /\ r.folder /\ HasInit(tree, r) => InitPy(r) \in DOMAIN cache
    /\ src = IF ~r.folder THEN tree[r.path]
             ELSE IF HasInit(tree, r) THEN cache[InitPy(r)].src ELSE Empty

Made(r) == MadeFrom(r, cache[r].src)

\* A thread works for the module of r, and on that of top first.
Works(t, r, top) ==
    /\ IsThere(tree, r)
    /\ \/ top = r /\ job[t].want = <<r>>
       \/ top = InitPy(r) /\ r.folder /\ HasInit(tree, r) /\ job[t].want = <<r, top>>
    /\ r \in DOMAIN cache => Made(r)
    /\ top \in DOMAIN cache => Made(top)
    /\ MadeFrom(top, job[t].made)
    /\ job[t].owner => r \in Tried
    /\ job[t].step \in {"keep", "observe"}
    /\ job[t].step = "observe" => top \in DOMAIN cache

JobsTrue == \A t \in Threads : job[t] # Nobody => \E r, top \in Resources : Works(t, r, top)

\* The observer finds out at the next validate().
Unclean(r) == r \in DOMAIN table /\ ~(There(tree, r) /\ table[r] = mtime[r.path])

FalseIsUnclean == \A r \in DOMAIN cache : r \in replaced \/ Made(r) \/ Unclean(r)

\* What is about to be told reaches the module of r.
Reached(r) ==
    \/ /\ event.kind \in {"changed", "created", "moved", "removed"}
       /\ \/ r = event.res \/ r = ParentFolder(event.res)
          \/ event.kind \in {"moved", "removed"} /\ Covers(event.res, r)
    \/ event.kind = "moved" /\ (r = event.new \/ r = ParentFolder(event.new))

FalseIsReached ==
    ~unseen /\ event.kind # "validate" =>
        \A r \in DOMAIN cache : r \in replaced \/ Made(r) \/ Reached(r)

\* What the module with the import has concluded is about a module in the cache.
SeenInCache ==
    Importer \in DOMAIN cache =>
        LET s == cache[Importer].seen
        IN  s # None =>
              /\ s.res = None => s.src = Empty
              /\ s.res # None =>
                    s.res \in DOMAIN cache /\ s.src = cache[s.res].src /\ s.res \in Tried

\* Indicators are of the past.
TimesPast ==
    /\ \A p \in Places : mtime[p] <= clock
    /\ \A r \in DOMAIN table : table[r] # None => table[r] <= clock

EventRes ==
    /\ event.kind = "validate" => event.res = FolderAt(Root)
    /\ event.kind \in {"changed", "created", "moved", "removed"} => event.res \in Resources

FreshInv ==
    /\ Nested(tree) /\ TimesPast /\ EventRes
    /\ ~raced => JobsTrue /\ FalseIsUnclean /\ FalseIsReached /\ SeenInCache

\* What a module is made from is one thing.
LEMMA MadeOnce ==
    ASSUME NEW r, NEW src, NEW other, MadeFrom(r, src), MadeFrom(r, other)
    PROVE  src = other
BY DEF MadeFrom

\* While the cache grows and the directory stays, made is made.
LEMMA GrowMade ==
    ASSUME UNCHANGED tree, DOMAIN cache \subseteq DOMAIN cache',
           \A r \in DOMAIN cache : cache'[r].src = cache[r].src
    PROVE  /\ \A r, src : MadeFrom(r, src) => MadeFrom(r, src)'
           /\ \A r \in DOMAIN cache : Made(r) => Made(r)'
<1>1. ASSUME NEW r, NEW src, MadeFrom(r, src) PROVE MadeFrom(r, src)'
  BY <1>1 DEF MadeFrom
<1>2. ASSUME NEW r \in DOMAIN cache, Made(r) PROVE Made(r)'
  <2>1. MadeFrom(r, cache[r].src)
    BY <1>2 DEF Made
  <2>2. MadeFrom(r, cache'[r].src)
    BY <2>1
  <2> QED BY <2>2 DEF MadeFrom, Made
<1> QED BY <1>1, <1>2

-----------------------------------------------------------------------------
(* The steps of the threads *)

\* What a step of get_pymodule leaves alone.
SteadyDisk == UNCHANGED <<tree, mtime, clock, event, unseen, raced, replaced>>

\* The cache grows by what is made from what is in the directory.
GrowsTrue ==
    /\ DOMAIN cache \subseteq DOMAIN cache'
    /\ \A r \in DOMAIN cache : cache'[r].src = cache[r].src
    /\ \A r \in DOMAIN cache' \ DOMAIN cache : Made(r)'

LEMMA GrownMade ==
    ASSUME UNCHANGED tree, GrowsTrue, NEW r \in DOMAIN cache', r \in DOMAIN cache => Made(r)
    PROVE  Made(r)'
BY GrowMade DEF GrowsTrue

\* What is false in the cache stays known to be so, or is not false any more.
LEMMA SteadyFalse ==
    ASSUME SteadyDisk, GrowsTrue, FalseIsUnclean, FalseIsReached,
           DOMAIN table \subseteq DOMAIN table',
           \A r \in DOMAIN table : table'[r] = table[r] \/ (r \in DOMAIN cache' => Made(r)')
    PROVE  FalseIsUnclean' /\ FalseIsReached'
<1>1. ASSUME NEW r \in DOMAIN cache' PROVE r \in replaced' \/ Made(r)' \/ Unclean(r)'
  <2>1. CASE r \notin DOMAIN cache
    BY <1>1, <2>1 DEF GrowsTrue
  <2>2. CASE r \in DOMAIN cache /\ Unclean(r)
    <3>1. r \in DOMAIN table' /\ (table'[r] = table[r] \/ Made(r)')
      BY <1>1, <2>2 DEF Unclean
    <3>2. table'[r] = table[r] => Unclean(r)'
      BY <2>2, <3>1 DEF Unclean, SteadyDisk, There, NodeAt
    <3> QED BY <3>1, <3>2
  <2>3. CASE r \in DOMAIN cache /\ ~Unclean(r)
    <3>1. r \in replaced \/ Made(r)
      BY <2>3 DEF FalseIsUnclean
    <3> QED BY <1>1, <3>1, GrownMade DEF SteadyDisk
  <2> QED BY <2>1, <2>2, <2>3
<1>2. ASSUME ~unseen', event'.kind # "validate", NEW r \in DOMAIN cache'
      PROVE  r \in replaced' \/ Made(r)' \/ Reached(r)'
  <2>1. CASE r \notin DOMAIN cache
    BY <1>2, <2>1 DEF GrowsTrue
  <2>2. CASE r \in DOMAIN cache
    <3>1. r \in replaced \/ Made(r) \/ Reached(r)
      BY <1>2, <2>2 DEF FalseIsReached, SteadyDisk
    <3>2. Reached(r) => Reached(r)'
      BY DEF Reached, SteadyDisk
    <3> QED BY <1>2, <3>1, <3>2, GrownMade DEF SteadyDisk
  <2> QED BY <2>1, <2>2
<1> QED BY <1>1, <1>2 DEF FalseIsUnclean, FalseIsReached

\* What the thread itself works on.
LEMMA WorksTop ==
    ASSUME NEW t, NEW r \in Resources, NEW top \in Resources, Works(t, r, top)
    PROVE  /\ Top(t) = top
           /\ Len(job[t].want) > 1 => SubSeq(job[t].want, 1, 1) = <<r>> /\ top = InitPy(r)
           /\ Len(job[t].want) > 1 => r.folder /\ HasInit(tree, r)
           /\ ~(Len(job[t].want) > 1) => top = r
<1>1. CASE top = r /\ job[t].want = <<r>>
  BY <1>1 DEF Top
<1>2. CASE top = InitPy(r) /\ r.folder /\ HasInit(tree, r) /\ job[t].want = <<r, top>>
  <2>1. Len(<<r, top>>) = 2 /\ <<r, top>>[2] = top
    OBVIOUS
  <2>2. SubSeq(<<r, top>>, 1, 1) = <<r>>
    <3> DEFINE s == <<r, top>>
    <3>1. \A i \in 1..1 : s[i] \in Resources
      OBVIOUS
    <3> HIDE DEF s
    <3>2. /\ SubSeq(s, 1, 1) \in Seq(Resources) /\ Len(SubSeq(s, 1, 1)) = 1
          /\ SubSeq(s, 1, 1)[1] = s[1]
      BY <3>1, SubSeqProperties
    <3>3. SubSeq(s, 1, 1) = <<r>>
      <4>1. s[1] = r
        BY DEF s
      <4>2. <<r>> \in Seq(Resources) /\ Len(<<r>>) = 1 /\ <<r>>[1] = r
        OBVIOUS
      <4> DEFINE u == SubSeq(s, 1, 1)
                 v == <<r>>
      <4>3. u \in Seq(Resources) /\ v \in Seq(Resources) /\ Len(u) = 1 /\ Len(v) = 1 /\ u[1] = v[1]
        BY <3>2, <4>1, <4>2
      <4> HIDE DEF u, v
      <4>4. \A i \in 1..Len(u) : u[i] = v[i]
        BY <4>3
      <4>5. u = v
        BY <4>3, <4>4, SeqEqual
      <4> QED BY <4>5 DEF u, v
    <3> QED BY <3>3 DEF s
  <2> QED BY <1>2, <2>1, <2>2 DEF Top
<1> QED BY <1>1, <1>2 DEF Works

\* The other threads go on with what they work on.
LEMMA WorksOn ==
    ASSUME UNCHANGED tree, GrowsTrue, NEW u,
           NEW r, NEW top, Works(u, r, top), job'[u].want = job[u].want,
           job'[u].made = job[u].made, job'[u].step = job[u].step,
           job'[u].owner => job[u].owner
    PROVE  Works(u, r, top)'
<1>1. MadeFrom(top, job[u].made)'
  <2>1. MadeFrom(top, job[u].made)
    BY DEF Works
  <2> DEFINE s == job[u].made
  <2>2. \A q, src : MadeFrom(q, src) => MadeFrom(q, src)'
    BY GrowMade DEF GrowsTrue
  <2>3. MadeFrom(top, s)
    BY <2>1
  <2>4. job'[u].made = s
    OBVIOUS
  <2> QED BY <2>1, <2>4, GrowMade DEF GrowsTrue, MadeFrom
<1>2. r \in DOMAIN cache' => Made(r)'
  BY GrownMade DEF Works
<1>3. top \in DOMAIN cache' => Made(top)'
  BY GrownMade DEF Works
<1>4. job'[u].step = "observe" => top \in DOMAIN cache'
  BY DEF Works, GrowsTrue
<1>5. IsThere(tree', r) /\ (r.folder /\ HasInit(tree, r) => HasInit(tree', r))
  BY DEF Works
<1> QED BY <1>1, <1>2, <1>3, <1>4, <1>5 DEF Works

\* A caller that asks works for what it asked for.
LEMMA AskedWorks ==
    ASSUME CacheTypes, NEW t \in Threads, NEW r \in Resources, IsThere(tree, r),
           r \notin DOMAIN cache, NEW owner \in BOOLEAN, owner => r \in Tried,
           UNCHANGED <<tree, cache>>, job' = [job EXCEPT ![t] = Asked(r, owner)],
           job'[t] # Nobody
    PROVE  \E top \in Resources : Works(t, r, top)'
<1> DEFINE package == r.folder /\ HasInit(tree, r)
           known == package /\ InitPy(r) \in DOMAIN cache
           source == IF known THEN cache[InitPy(r)].src ELSE Source(tree, r)
           want == IF package /\ ~known THEN <<r, InitPy(r)>> ELSE <<r>>
           asked == [want |-> want, made |-> source, step |-> "keep", owner |-> owner]
<1>1. job'[t] = Asked(r, owner)
  BY DEF CacheTypes, JobInv
<1>2. Asked(r, owner) = asked
  <2>1. source # Bad
    BY <1>1 DEF Asked
  <2> QED BY <2>1 DEF Asked
<1>3. /\ job'[t].want = want /\ job'[t].made = source /\ job'[t].step = "keep"
      /\ job'[t].owner = owner
  BY <1>1, <1>2
<1>4. CASE package /\ ~known
  <2>1. InitPy(r) \in Resources /\ IsThere(tree, InitPy(r)) /\ InitPy(r) \notin DOMAIN cache
    BY <1>4, InitPyType DEF HasInit
  <2>2. source = tree[InitPy(r).path] /\ InitPy(r).folder = FALSE
    BY <1>4 DEF Source, InitPy, FileAt
  <2>3. want = <<r, InitPy(r)>>
    BY <1>4
  <2> HIDE DEF source, want
  <2>4. job'[t].made = tree[InitPy(r).path] /\ job'[t].want = <<r, InitPy(r)>>
    BY <1>3, <2>2, <2>3
  <2>5. MadeFrom(InitPy(r), job[t].made)'
    BY <2>1, <2>2, <2>4 DEF MadeFrom
  <2>6. Works(t, r, InitPy(r))'
    BY <1>3, <1>4, <2>1, <2>4, <2>5 DEF Works
  <2> QED BY <2>1, <2>6
<1>5. CASE ~(package /\ ~known)
  <2>1. MadeFrom(r, source)
    BY <1>5 DEF MadeFrom, Source, Resources
  <2>2. want = <<r>>
    BY <1>5
  <2> HIDE DEF source, want
  <2>3. MadeFrom(r, job'[t].made)
    BY <1>3, <2>1
  <2>4. MadeFrom(r, job[t].made)'
    BY <2>3 DEF MadeFrom
  <2>5. Works(t, r, r)'
    BY <1>3, <2>2, <2>4 DEF Works
  <2> QED BY <2>5
<1> QED BY <1>4, <1>5

\* The tables and the cache as they are: what the threads work on is theirs.
LEMMA OthersWork ==
    ASSUME CacheTypes, JobsTrue, UNCHANGED tree, GrowsTrue, NEW t \in Threads,
           job'[t] # Nobody => \E r, top \in Resources : Works(t, r, top)',
           \A u \in Threads \ {t} :
              /\ job'[u].want = job[u].want /\ job'[u].made = job[u].made
              /\ job'[u].step = job[u].step /\ (job'[u].owner => job[u].owner)
              /\ job'[u] # Nobody => job[u] # Nobody
    PROVE  JobsTrue'
<1> SUFFICES ASSUME NEW u \in Threads, job'[u] # Nobody
             PROVE  \E r, top \in Resources : Works(u, r, top)'
  BY DEF JobsTrue
<1>1. CASE u = t
  BY <1>1
<1>2. CASE u # t
  <2>1. PICK r \in Resources, top \in Resources : Works(u, r, top)
    BY <1>2 DEF JobsTrue
  <2>2. Works(u, r, top)'
    BY <1>2, <2>1, WorksOn
  <2> QED BY <2>2
<1> QED BY <1>1, <1>2

LEMMA AskFresh ==
    ASSUME CacheTypes, FreshInv, NEW t \in Threads, Ask(t)
    PROVE  FreshInv'
<1>1. PICK r \in Resources : /\ IsThere(tree, r) /\ r \notin DOMAIN cache
                             /\ job' = [job EXCEPT ![t] = Asked(r, FALSE)]
  BY DEF Ask
<1>2. SteadyDisk /\ UNCHANGED <<tree, table, cache>>
  BY DEF Ask, SteadyDisk, disk
<1>3. GrowsTrue
  BY <1>2 DEF GrowsTrue
<1>4. ASSUME ~raced' PROVE JobsTrue' /\ FalseIsUnclean' /\ FalseIsReached' /\ SeenInCache'
  <2>1. JobsTrue /\ FalseIsUnclean /\ FalseIsReached /\ SeenInCache
    BY <1>2, <1>4 DEF FreshInv, SteadyDisk
  <2>2. job'[t] # Nobody => \E x, top \in Resources : Works(t, x, top)'
    BY <1>1, <1>2, AskedWorks
  <2>3. \A u \in Threads \ {t} : job'[u] = job[u]
    BY <1>1 DEF CacheTypes, JobInv
  <2>4. JobsTrue'
    BY <1>2, <1>3, <2>1, <2>2, <2>3, OthersWork
  <2>5. FalseIsUnclean' /\ FalseIsReached'
    BY <1>2, <1>3, <2>1, SteadyFalse
  <2> QED BY <1>2, <2>1, <2>4, <2>5 DEF SeenInCache
<1> QED BY <1>2, <1>4 DEF FreshInv, SteadyDisk, TimesPast, EventRes

\* What is found is one of the candidates.
LEMMA FoundTried == ASSUME NEW t, Found(t) # None PROVE Found(t) \in Tried
<1> DEFINE there == {i \in DOMAIN Candidates : IsThere(t, Candidates[i])}
<1>1. DOMAIN Candidates = 1..Len(Candidates) /\ Len(Candidates) \in Nat
  BY ModuleCacheAssumption, LenProperties
<1>2. there \subseteq Nat /\ there # {}
  BY <1>1 DEF Found
<1>3. \E m \in there : \A j \in there : m <= j
  BY <1>2, LeastNatural
<1>4. (CHOOSE i \in there : \A j \in there : i <= j) \in there
  BY <1>3
<1> QED BY <1>2, <1>4 DEF Found, Tried

LEMMA InferFresh ==
    ASSUME CacheTypes, FreshInv, NEW t \in Threads, Infer(t)
    PROVE  FreshInv'
<1> DEFINE found == Found(tree)
           answer == [res |-> found, src |-> IF found = None THEN Empty ELSE cache[found].src]
<1>1. SteadyDisk /\ UNCHANGED <<tree, table>>
  BY DEF Infer, SteadyDisk, disk
<1>2. found # None => found \in Resources /\ IsThere(tree, found) /\ found \in Tried
  BY FoundType, FoundTried
<1>3. CASE found = None \/ found \in DOMAIN cache
  <2>1. /\ Importer \in DOMAIN cache /\ UNCHANGED job
        /\ cache' = [cache EXCEPT ![Importer].seen = answer]
    BY <1>3 DEF Infer
  <2>2. \A r \in DOMAIN cache : cache[r] \in Entries
    BY DEF CacheTypes, CacheInv
  <2>3. /\ DOMAIN cache' = DOMAIN cache /\ cache'[Importer].seen = answer
        /\ \A r \in DOMAIN cache : cache'[r].src = cache[r].src
    BY <2>1, <2>2 DEF Entries
  <2>4. GrowsTrue
    BY <2>3 DEF GrowsTrue
  <2>5. ASSUME ~raced' PROVE JobsTrue' /\ FalseIsUnclean' /\ FalseIsReached' /\ SeenInCache'
    <3>1. JobsTrue /\ FalseIsUnclean /\ FalseIsReached
      BY <1>1, <2>5 DEF FreshInv, SteadyDisk
    <3>2. job'[t] # Nobody => \E x, top \in Resources : Works(t, x, top)'
      BY <2>1 DEF Infer, Idle
    <3>3. JobsTrue'
      BY <1>1, <2>1, <2>4, <3>1, <3>2, OthersWork
    <3>4. FalseIsUnclean' /\ FalseIsReached'
      BY <1>1, <2>4, <3>1, SteadyFalse
    <3>5. SeenInCache'
      BY <1>2, <1>3, <2>3 DEF SeenInCache
    <3> QED BY <3>3, <3>4, <3>5
  <2> QED BY <1>1, <2>5 DEF FreshInv, SteadyDisk, TimesPast, EventRes
<1>4. CASE ~(found = None \/ found \in DOMAIN cache)
  <2>1. job' = [job EXCEPT ![t] = Asked(found, TRUE)] /\ UNCHANGED cache
    BY <1>4 DEF Infer
  <2>2. GrowsTrue
    BY <2>1 DEF GrowsTrue
  <2>3. ASSUME ~raced' PROVE JobsTrue' /\ FalseIsUnclean' /\ FalseIsReached' /\ SeenInCache'
    <3>1. JobsTrue /\ FalseIsUnclean /\ FalseIsReached /\ SeenInCache
      BY <1>1, <2>3 DEF FreshInv, SteadyDisk
    <3>2. job'[t] # Nobody => \E x, top \in Resources : Works(t, x, top)'
      BY <1>1, <1>2, <1>4, <2>1, AskedWorks
    <3>3. \A u \in Threads \ {t} : job'[u] = job[u]
      BY <2>1 DEF CacheTypes, JobInv
    <3>4. JobsTrue'
      BY <1>1, <2>2, <3>1, <3>2, <3>3, OthersWork
    <3>5. FalseIsUnclean' /\ FalseIsReached'
      BY <1>1, <2>2, <3>1, SteadyFalse
    <3> QED BY <2>1, <3>1, <3>4, <3>5 DEF SeenInCache
  <2> QED BY <1>1, <2>3 DEF FreshInv, SteadyDisk, TimesPast, EventRes
<1> QED BY <1>3, <1>4

LEMMA ForgetFresh ==
    ASSUME CacheTypes, FreshInv, NEW t \in Threads, ForgetAllData(t)
    PROVE  FreshInv'
<1>1. SteadyDisk /\ UNCHANGED <<tree, table, job>>
  BY DEF ForgetAllData, SteadyDisk, disk
<1>2. /\ DOMAIN cache' = DOMAIN cache
      /\ \A r \in DOMAIN cache : cache'[r].src = cache[r].src /\ cache'[r].seen = None
  BY DEF ForgetAllData, Forgotten, CacheTypes, CacheInv, Entries
<1>3. GrowsTrue
  BY <1>2 DEF GrowsTrue
<1>4. ASSUME ~raced' PROVE JobsTrue' /\ FalseIsUnclean' /\ FalseIsReached' /\ SeenInCache'
  <2>1. JobsTrue /\ FalseIsUnclean /\ FalseIsReached
    BY <1>1, <1>4 DEF FreshInv, SteadyDisk
  <2>2. job'[t] # Nobody => \E x, top \in Resources : Works(t, x, top)'
    BY <1>1 DEF ForgetAllData, Idle
  <2>3. JobsTrue'
    BY <1>1, <1>3, <2>1, <2>2, OthersWork
  <2>4. FalseIsUnclean' /\ FalseIsReached'
    BY <1>1, <1>3, <2>1, SteadyFalse
  <2> QED BY <1>2, <2>3, <2>4 DEF SeenInCache
<1> QED BY <1>1, <1>4 DEF FreshInv, SteadyDisk, TimesPast, EventRes

\* A module that is stored is made from what is in the directory; if one was
\* there it was made from the same.
LEMMA KeepFresh ==
    ASSUME CacheTypes, FreshInv, NEW t \in Threads, Keep(t)
    PROVE  FreshInv'
<1>1. SteadyDisk /\ UNCHANGED <<tree, table>>
  BY DEF Keep, SteadyDisk, disk
<1>2. ASSUME ~raced' PROVE JobsTrue' /\ FalseIsUnclean' /\ FalseIsReached' /\ SeenInCache'
  <2>1. JobsTrue /\ FalseIsUnclean /\ FalseIsReached /\ SeenInCache
    BY <1>1, <1>2 DEF FreshInv, SteadyDisk
  <2>2. job[t] # Nobody /\ job[t] \in Jobs
    BY DEF Keep, Nobody, CacheTypes, JobInv
  <2>3. PICK r \in Resources, top \in Resources : Works(t, r, top)
    BY <2>1, <2>2 DEF JobsTrue
  <2>4. Top(t) = top
    BY <2>3, WorksTop
  <2>5. cache' = [x \in DOMAIN cache \cup {top} |->
                    IF x = top THEN [src |-> job[t].made, seen |-> None] ELSE cache[x]]
    BY <2>4 DEF Keep
  <2>6. /\ DOMAIN cache' = DOMAIN cache \cup {top}
        /\ cache'[top] = [src |-> job[t].made, seen |-> None]
        /\ \A x \in DOMAIN cache : x # top => cache'[x] = cache[x]
    BY <2>5
  <2>7. MadeFrom(top, job[t].made) /\ (top \in DOMAIN cache => MadeFrom(top, cache[top].src))
    BY <2>3 DEF Works, Made
  <2>8. \A x \in DOMAIN cache : cache'[x].src = cache[x].src
    <3>1. top \in DOMAIN cache => cache[top].src = job[t].made
      BY <2>7, MadeOnce
    <3> QED BY <2>6, <3>1
  <2>9. Made(top)'
    <3>1. DOMAIN cache \subseteq DOMAIN cache'
      BY <2>6
    <3>2. cache'[top].src = job[t].made
      BY <2>6
    <3> QED BY <1>1, <2>7, <2>8, <3>1, <3>2, GrowMade DEF MadeFrom, Made
  <2>10. GrowsTrue
    BY <2>6, <2>8, <2>9 DEF GrowsTrue
  <2>11. job' = [u \in Threads |->
                   IF u = t THEN [job[t] EXCEPT !.step = "observe"]
                   ELSE [job[u] EXCEPT !.owner = @ /\ Top(t) # Importer]]
    BY DEF Keep
  <2>12. \A u \in Threads \ {t} :
              /\ job'[u].want = job[u].want /\ job'[u].made = job[u].made
              /\ job'[u].step = job[u].step /\ (job'[u].owner => job[u].owner)
              /\ job'[u] # Nobody => job[u] # Nobody
    <3> SUFFICES ASSUME NEW u \in Threads \ {t}
                 PROVE  /\ job'[u].want = job[u].want /\ job'[u].made = job[u].made
                        /\ job'[u].step = job[u].step /\ (job'[u].owner => job[u].owner)
                        /\ job'[u] # Nobody => job[u] # Nobody
      OBVIOUS
    <3>1. job'[u] = [job[u] EXCEPT !.owner = job[u].owner /\ Top(t) # Importer]
      BY <2>11
    <3>2. job[u] \in Jobs
      BY DEF CacheTypes, JobInv
    <3>3. ASSUME job[u] = Nobody PROVE job'[u] = Nobody
      <4>1. (job[u].owner /\ Top(t) # Importer) = FALSE
        BY <3>3 DEF Nobody
      <4>2. job'[u] = [Nobody EXCEPT !.owner = FALSE]
        BY <3>1, <3>3, <4>1
      <4> QED BY <4>2 DEF Nobody
    <3> QED BY <3>1, <3>2, <3>3 DEF Jobs
  <2>13. Works(t, r, top)'
    <3>1. /\ job'[t].want = job[t].want /\ job'[t].made = job[t].made
          /\ job'[t].step = "observe" /\ job'[t].owner = job[t].owner
      BY <2>2, <2>11 DEF Jobs
    <3>2. (r \in DOMAIN cache' => Made(r)') /\ (top \in DOMAIN cache' => Made(top)')
      BY <1>1, <2>3, <2>9, <2>10, GrownMade DEF Works
    <3>3. MadeFrom(top, job[t].made)'
      BY <2>6, <2>9, <3>1 DEF Made, MadeFrom
    <3>4. IsThere(tree', r) /\ (r.folder /\ HasInit(tree, r) => HasInit(tree', r))
      BY <1>1, <2>3 DEF Works
    <3> QED BY <2>3, <2>6, <3>1, <3>2, <3>3, <3>4 DEF Works
  <2>14. JobsTrue'
    BY <1>1, <2>1, <2>10, <2>12, <2>13, OthersWork
  <2>15. FalseIsUnclean' /\ FalseIsReached'
    BY <1>1, <2>1, <2>10, SteadyFalse
  <2>16. SeenInCache'
    BY <2>1, <2>6, <2>8 DEF SeenInCache
  <2> QED BY <2>14, <2>15, <2>16
<1> QED BY <1>1, <1>2 DEF FreshInv, SteadyDisk, TimesPast, EventRes

\* What is observed is made from what is in the directory at that moment, and
\* so is what the caller concludes from it.
LEMMA ObserveFresh ==
    ASSUME CacheTypes, FreshInv, NEW t \in Threads, Observe(t)
    PROVE  FreshInv'
<1>1. SteadyDisk /\ UNCHANGED tree
  BY DEF Observe, SteadyDisk, disk
<1>2. job[t] # Nobody /\ job[t] \in Jobs /\ job[t].step = "observe"
  BY DEF Observe, Nobody, CacheTypes, JobInv
<1>3. /\ DOMAIN table' = DOMAIN table \cup {Top(t)}
      /\ \A r \in DOMAIN table : r # Top(t) => table'[r] = table[r]
      /\ table'[Top(t)] = IF There(tree, Top(t)) THEN mtime[Top(t).path] ELSE None
  BY DEF Observe
<1>4. TimesPast'
  <2>1. Top(t).path \in Places
    BY <1>2, TopType DEF Resources, Places
  <2> QED BY <1>1, <1>3, <2>1 DEF FreshInv, SteadyDisk, TimesPast
<1>5. ASSUME ~raced' PROVE JobsTrue' /\ FalseIsUnclean' /\ FalseIsReached' /\ SeenInCache'
  <2>1. JobsTrue /\ FalseIsUnclean /\ FalseIsReached /\ SeenInCache
    BY <1>1, <1>5 DEF FreshInv, SteadyDisk
  <2>2. PICK r \in Resources, top \in Resources : Works(t, r, top)
    BY <1>2, <2>1 DEF JobsTrue
  <2>3. /\ Top(t) = top /\ top \in DOMAIN cache /\ Made(top)
        /\ cache[top].src = job[t].made
    <3>1. Top(t) = top
      BY <2>2, WorksTop
    <3>2. top \in DOMAIN cache /\ Made(top) /\ MadeFrom(top, job[t].made)
      BY <1>2, <2>2 DEF Works
    <3> QED BY <3>1, <3>2, MadeOnce DEF Made
  <2>4. \A x \in DOMAIN cache : cache[x] \in Entries
    BY DEF CacheTypes, CacheInv
  <2>5. CASE Len(job[t].want) > 1
    <3>1. UNCHANGED cache
          /\ job' = [job EXCEPT ![t].want = SubSeq(@, 1, 1), ![t].step = "keep"]
      BY <2>5 DEF Observe, Give
    <3>2. top = InitPy(r) /\ r.folder /\ HasInit(tree, r) /\ SubSeq(job[t].want, 1, 1) = <<r>>
      BY <2>2, <2>5, WorksTop
    <3>3. GrowsTrue
      BY <3>1 DEF GrowsTrue
    <3>4. /\ job'[t].want = <<r>> /\ job'[t].made = job[t].made
          /\ job'[t].step = "keep" /\ job'[t].owner = job[t].owner
      BY <1>2, <3>1, <3>2 DEF CacheTypes, JobInv, Jobs
    <3>5. Works(t, r, r)'
      <4>1. MadeFrom(r, job'[t].made)
        BY <2>2, <2>3, <3>2, <3>4 DEF MadeFrom, Works
      <4>2. MadeFrom(r, job[t].made)'
        BY <1>1, <3>1, <4>1 DEF MadeFrom
      <4>3. r \in DOMAIN cache' => Made(r)'
        BY <1>1, <2>2, <3>3, GrownMade DEF Works
      <4>4. IsThere(tree', r) /\ (job'[t].owner => r \in Tried)
        BY <1>1, <2>2, <3>4 DEF Works
      <4> QED BY <3>4, <4>2, <4>3, <4>4 DEF Works
    <3>6. \A u \in Threads \ {t} : job'[u] = job[u]
      BY <3>1 DEF CacheTypes, JobInv
    <3>7. JobsTrue'
      BY <1>1, <2>1, <3>3, <3>5, <3>6, OthersWork
    <3>8. Made(top)'
      BY <1>1, <2>3, <3>1, <3>3, GrownMade
    <3>9. FalseIsUnclean' /\ FalseIsReached'
      BY <1>1, <1>3, <2>1, <2>3, <3>3, <3>8, SteadyFalse
    <3> QED BY <2>1, <3>1, <3>7, <3>9 DEF SeenInCache
  <2>6. CASE ~(Len(job[t].want) > 1)
    <3>1. job' = [job EXCEPT ![t] = Nobody]
          /\ cache' = IF job[t].owner /\ Importer \in DOMAIN cache
                      THEN [cache EXCEPT ![Importer].seen = [res |-> top, src |-> job[t].made]]
                      ELSE cache
      BY <2>3, <2>6 DEF Observe, Give
    <3>2. /\ DOMAIN cache' = DOMAIN cache
          /\ \A x \in DOMAIN cache : cache'[x].src = cache[x].src
          /\ Importer \in DOMAIN cache =>
                cache'[Importer].seen = IF job[t].owner THEN [res |-> top, src |-> job[t].made]
                                        ELSE cache[Importer].seen
      BY <2>4, <3>1 DEF Entries
    <3>3. GrowsTrue
      BY <3>2 DEF GrowsTrue
    <3>4. job'[t] = Nobody /\ \A u \in Threads \ {t} : job'[u] = job[u]
      BY <3>1 DEF CacheTypes, JobInv
    <3>5. JobsTrue'
      BY <1>1, <2>1, <3>3, <3>4, OthersWork
    <3>6. Made(top)'
      BY <1>1, <2>3, <3>2, <3>3, GrownMade
    <3>7. FalseIsUnclean' /\ FalseIsReached'
      BY <1>1, <1>3, <2>1, <2>3, <3>3, <3>6, SteadyFalse
    <3>8. job[t].owner => top \in Tried
      <4>1. top = r
        BY <2>2, <2>6, WorksTop
      <4>2. job[t].owner => r \in Tried
        BY <2>2, Zenon DEF Works
      <4> QED BY <4>1, <4>2
    <3>9. top # None
      BY ModuleCacheAssumption
    <3>10. SeenInCache'
      BY <2>1, <2>3, <3>2, <3>8, <3>9 DEF SeenInCache
    <3> QED BY <3>5, <3>7, <3>10
  <2> QED BY <2>5, <2>6
<1> QED BY <1>1, <1>4, <1>5 DEF FreshInv, SteadyDisk, EventRes

-----------------------------------------------------------------------------
(* The directory changes *)

\* A package is the folder that holds its __init__.
LEMMA InitParent ==
    ASSUME NEW r \in Resources, r.folder, InitPy(r).path \in Paths
    PROVE  /\ Parent(InitPy(r).path) = r.path /\ FolderAt(r.path) = r
           /\ ParentFolder(InitPy(r)) = r /\ InitPy(r) \in Resources
           /\ \A a \in Sequence : Within(a, InitPy(r).path) => a = r.path \/ Within(a, r.path)
<1>1. r.path \in Sequence
  BY PathsType DEF Resources
<1>2. InitPy(r).path = Append(r.path, "__init__")
  BY DEF InitPy, FileAt
<1>3. Parent(InitPy(r).path) = r.path
  <2> DEFINE s == r.path
             name == "__init__"
  <2>1. s \in Sequence /\ Append(s, name) \in Sequence
    BY <1>1, <1>2, PathsType
  <2> HIDE DEF s, name
  <2>2. Parent(Append(s, name)) = s
    BY <2>1, ParentOfAppend
  <2> QED BY <1>2, <2>2 DEF s, name
<1>4. FolderAt(r.path) = r
  BY DEF FolderAt, Resources
<1>5. InitPy(r) \in Resources
  BY DEF InitPy, FileAt, Resources
<1>6. InitPy(r).path \in Sequence /\ InitPy(r).path # <<>>
  BY PathsType
<1>7. \A a \in Sequence : Within(a, InitPy(r).path) => a = r.path \/ Within(a, r.path)
  BY <1>3, <1>6, ParentLast
<1> QED BY <1>3, <1>4, <1>5, <1>7 DEF ParentFolder

LEMMA MadeStays ==
    ASSUME UNCHANGED cache, NEW r, Made(r), IsThere(tree', r),
           ~r.folder => tree'[r.path] = tree[r.path],
           r.folder => (HasInit(tree', r) <=> HasInit(tree, r))
    PROVE  Made(r)'
BY DEF Made, MadeFrom

LEMMA QuietMade ==
    ASSUME CacheTypes, tree' \in Trees, UNCHANGED cache, NEW r \in Resources, Made(r),
           Quiet(tree, tree', r.path),
           r.folder /\ InitPy(r).path \in Paths =>
              \/ Quiet(tree, tree', InitPy(r).path)
              \/ IsFile(tree, InitPy(r).path) /\ IsFile(tree', InitPy(r).path)
    PROVE  Made(r)'
<1>1. IsThere(tree, r)
  BY DEF Made, MadeFrom
<1>2. tree'[r.path] = tree[r.path] /\ IsThere(tree', r)
  BY <1>1 DEF IsThere, Quiet, Exists
<1>3. ASSUME r.folder PROVE HasInit(tree', r) <=> HasInit(tree, r)
  <2>1. CASE InitPy(r).path \notin Paths
    BY <2>1 DEF HasInit
  <2>2. CASE InitPy(r).path \in Paths
    <3>1. InitPy(r).folder = FALSE
      BY DEF InitPy, FileAt
    <3>2. CASE Quiet(tree, tree', InitPy(r).path)
      BY <2>2, <3>1, <3>2 DEF HasInit, IsThere, Quiet, Exists
    <3>3. CASE IsFile(tree, InitPy(r).path) /\ IsFile(tree', InitPy(r).path)
      BY <2>2, <3>1, <3>3, FileTreeAssumption DEF HasInit, IsThere, IsFile
    <3> QED BY <1>3, <2>2, <3>2, <3>3
  <2> QED BY <2>1, <2>2
<1> QED BY <1>2, <1>3, MadeStays

\* A folder whose listing is the same has an __init__ when it had one.
LEMMA InitKept ==
    ASSUME NEW t, NEW u, KindKept(t, u), NEW r \in Resources, r.folder,
           Listing(t, r.path) = Listing(u, r.path)
    PROVE  HasInit(t, r) <=> HasInit(u, r)
<1>1. CASE InitPy(r).path \notin Paths
  BY <1>1 DEF HasInit
<1>2. CASE InitPy(r).path \in Paths
  <2>1. Parent(InitPy(r).path) = r.path
    BY <1>2, InitParent
  <2>2. Exists(t, InitPy(r).path) <=> Exists(u, InitPy(r).path)
    BY <1>2, <2>1 DEF Listing
  <2>3. InitPy(r).folder = FALSE
    BY DEF InitPy, FileAt
  <2> QED BY <1>2, <2>2, <2>3 DEF HasInit, IsThere, KindKept, Exists
<1> QED BY <1>1, <1>2

\* While no thread is in get_pymodule all that is cached is watched.
LEMMA WatchedAlone ==
    ASSUME CacheTypes, CachedAreWatched, ~Building
    PROVE  DOMAIN cache \subseteq DOMAIN table
BY DEF CachedAreWatched, Building, Nobody

\* What a change of the directory makes false has a new time, or none.
LEMMA DiskFalse ==
    ASSUME CacheTypes, CachedAreWatched, TimesPast, FalseIsUnclean, ~Building,
           NEW u \in Trees, KindKept(tree, u), ChangeDisk(u), UNCHANGED <<table, cache>>
    PROVE  FalseIsUnclean'
<1> SUFFICES ASSUME NEW r \in DOMAIN cache
             PROVE  r \in replaced' \/ Made(r)' \/ Unclean(r)'
  BY DEF FalseIsUnclean
<1> DEFINE p == r.path
<1>1. tree' = u /\ replaced' = replaced /\ cache' = cache /\ table' = table
  BY DEF ChangeDisk
<1>2. r \in DOMAIN table /\ r \in Resources /\ p \in Paths /\ p \in Places /\ p # Root
  BY WatchedAlone, PathsType DEF CacheTypes, CacheInv, Resources, Places, Root
<1>3. mtime'[p] = IF NodeAt(u, p) # NodeAt(tree, p) \/ Listing(u, p) # Listing(tree, p)
                  THEN clock + 1 ELSE mtime[p]
  BY <1>2 DEF ChangeDisk
<1>4. CASE NodeAt(u, p) # NodeAt(tree, p) \/ Listing(u, p) # Listing(tree, p)
  <2>1. mtime'[p] = clock + 1 /\ clock \in Nat
    BY <1>3, <1>4 DEF CacheTypes, DiskInv
  <2>2. table[r] \in Nat \cup {None} /\ (table[r] # None => table[r] <= clock)
    BY <1>2 DEF CacheTypes, TableInv, TimesPast
  <2>3. table[r] # clock + 1
    <3>1. CASE table[r] = None
      BY <2>1, <3>1, ModuleCacheAssumption
    <3>2. CASE table[r] # None
      BY <2>1, <2>2, <3>2
    <3> QED BY <3>1, <3>2
  <2> QED BY <1>1, <1>2, <2>1, <2>3 DEF Unclean
<1>5. CASE ~(NodeAt(u, p) # NodeAt(tree, p) \/ Listing(u, p) # Listing(tree, p))
  <2>1. u[p] = tree[p] /\ mtime'[p] = mtime[p] /\ Listing(u, p) = Listing(tree, p)
    BY <1>2, <1>3, <1>5 DEF NodeAt
  <2>2. Unclean(r) => Unclean(r)'
    BY <1>1, <1>5, <2>1 DEF Unclean, There
  <2>3. ASSUME Made(r) PROVE Made(r)'
    <3>1. IsThere(tree', r)
      BY <1>1, <2>1, <2>3 DEF Made, MadeFrom, IsThere
    <3>2. r.folder => (HasInit(tree', r) <=> HasInit(tree, r))
      BY <1>1, <1>2, <2>1, InitKept
    <3> QED BY <1>1, <2>1, <2>3, <3>1, <3>2, MadeStays
  <2> QED BY <1>1, <2>2, <2>3 DEF FalseIsUnclean
<1> QED BY <1>4, <1>5

\* A change of the directory, when no thread is in get_pymodule, leaves the
\* invariant true up to what is about to be told.
LEMMA DiskFresh ==
    ASSUME CacheTypes, CachedAreWatched, FreshInv, NEW u \in Trees, Nested(u),
           KindKept(tree, u), ChangeDisk(u), UNCHANGED <<table, cache, job>>, EventRes',
           ~raced' => FalseIsReached'
    PROVE  FreshInv'
<1>1. tree' = u /\ clock' = clock + 1 /\ clock \in Nat /\ (~raced' => ~raced /\ ~Building)
  BY DEF ChangeDisk, CacheTypes, DiskInv
<1>2. TimesPast'
  <2>1. \A p \in Places : mtime[p] \in Nat /\ mtime[p] <= clock
    BY DEF FreshInv, TimesPast, CacheTypes, DiskInv
  <2>2. \A p \in Places : mtime'[p] = clock + 1 \/ mtime'[p] = mtime[p]
    BY DEF ChangeDisk
  <2>3. \A p \in Places : mtime'[p] <= clock'
    BY <1>1, <2>1, <2>2
  <2>4. \A r \in DOMAIN table' : table'[r] # None => table'[r] <= clock'
    BY <1>1 DEF FreshInv, TimesPast, CacheTypes, TableInv
  <2> QED BY <2>3, <2>4 DEF TimesPast
<1>3. ASSUME ~raced' PROVE JobsTrue' /\ FalseIsUnclean' /\ FalseIsReached' /\ SeenInCache'
  <2>1. ~Building /\ ~raced
    BY <1>1, <1>3
  <2>2. JobsTrue'
    BY <2>1 DEF JobsTrue, Building
  <2>3. FalseIsUnclean'
    BY <2>1, DiskFalse DEF FreshInv
  <2>4. SeenInCache'
    BY <2>1 DEF FreshInv, SeenInCache
  <2> QED BY <1>3, <2>2, <2>3, <2>4
<1> QED BY <1>1, <1>2, <1>3 DEF FreshInv

\* A call of rope: what it makes false is about to be told.
LEMMA ChangeFresh ==
    ASSUME CacheTypes, CachedAreWatched, FreshInv, event = NoEvent, NEW c \in Changes,
           NEW kind \in {"changed", "created", "moved", "removed"}, Change(c, kind),
           \A r \in DOMAIN cache : Made(r) => Made(r)' \/ Reached(r)'
    PROVE  FreshInv'
<1>1. /\ DoChange(c, tree).ok /\ ChangeDisk(DoChange(c, tree).tree)
      /\ UNCHANGED <<table, cache, job, unseen>>
      /\ event'.kind = kind /\ event'.res = [path |-> c.res, folder |-> c.folder]
  BY DEF Change, Tell
<1>2. DoChange(c, tree).tree \in Trees
  BY PerformType DEF Perform, CacheTypes, DiskInv
<1>3. Nested(DoChange(c, tree).tree) /\ KindKept(tree, DoChange(c, tree).tree)
  BY <1>1, NestedChange, ChangeKinds DEF FreshInv, CacheTypes, DiskInv
<1>4. EventRes'
  BY <1>1 DEF EventRes, Changes, Resources
<1>5. ASSUME ~raced' PROVE FalseIsReached'
  <2>1. ~raced /\ UNCHANGED replaced
    BY <1>1, <1>5 DEF ChangeDisk
  <2>2. \A r : ~Reached(r)
    BY DEF Reached, NoEvent
  <2>3. ~unseen => \A r \in DOMAIN cache : r \in replaced \/ Made(r)
    BY <2>1, <2>2 DEF FreshInv, FalseIsReached, NoEvent
  <2> QED BY <1>1, <2>1, <2>3 DEF FalseIsReached
<1> QED BY <1>1, <1>2, <1>3, <1>4, <1>5, DiskFresh

LEMMA ChangeTree ==
    ASSUME CacheTypes, NEW c \in Changes, NEW kind, Change(c, kind)
    PROVE  /\ DoChange(c, tree).ok /\ tree' = DoChange(c, tree).tree
           /\ tree' \in Trees /\ tree' # tree /\ UNCHANGED cache
           /\ event'.kind = kind /\ event'.res = [path |-> c.res, folder |-> c.folder]
           /\ kind = "moved" => event'.new = [path |-> c.dest, folder |-> c.folder]
<1>1. DoChange(c, tree).tree \in Trees
  BY PerformType DEF Perform, CacheTypes, DiskInv
<1> QED BY <1>1 DEF Change, ChangeDisk, Tell

LEMMA WriteFresh ==
    ASSUME CacheTypes, CachedAreWatched, FreshInv, WriteResource
    PROVE  FreshInv'
<1>1. PICK p \in Paths, text \in Written : IsFile(tree, p) /\ Change(Write(p, text), "changed")
  BY DEF WriteResource
<1> DEFINE c == Write(p, text)
<1>2. text \in Texts /\ event = NoEvent
  BY ModuleCacheAssumption DEF WriteResource, MayChange, Idle
<1>3. /\ c \in Changes /\ c.kind = "contents" /\ c.res = p /\ c.folder = FALSE /\ c.new = text
  BY <1>2 DEF Write, Changes
<1> HIDE DEF c
<1>4. /\ DoChange(c, tree).ok /\ tree' = DoChange(c, tree).tree
      /\ tree' \in Trees /\ UNCHANGED cache
      /\ event'.kind = "changed" /\ event'.res = [path |-> p, folder |-> FALSE]
  BY <1>1, <1>3, ChangeTree DEF c
<1>5. tree' = [tree EXCEPT ![p] = text]
  BY <1>3, <1>4 DEF DoChange, WriteFile, Raises, Leaves
<1>6. tree[p] \in Data /\ tree[p] # Dir /\ text # Dir /\ text \in Data /\ tree \in Trees
  BY <1>1, <1>2, FileTreeAssumption DEF IsFile, Data, CacheTypes, DiskInv
<1>7. IsFile(tree, p) /\ IsFile(tree', p)
  BY <1>5, <1>6 DEF IsFile, Trees
<1>8. \A x \in Paths : x # p => Quiet(tree, tree', x)
  BY <1>5, <1>6, PutKinds
<1>9. ASSUME NEW r \in DOMAIN cache, Made(r) PROVE Made(r)' \/ Reached(r)'
  <2>1. r \in Resources /\ IsThere(tree, r)
    BY <1>9 DEF CacheTypes, CacheInv, Made, MadeFrom
  <2>2. CASE r.path = p
    <3>1. r.folder = FALSE
      BY <1>6, <2>1, <2>2 DEF IsThere, Resources
    <3>2. r = [path |-> p, folder |-> FALSE]
      BY <2>1, <2>2, <3>1 DEF Resources
    <3> QED BY <1>4, <3>2 DEF Reached
  <2>3. CASE r.path # p
    <3>1. Quiet(tree, tree', r.path)
      BY <1>8, <2>1, <2>3 DEF Resources
    <3>2. InitPy(r).path \in Paths =>
             \/ Quiet(tree, tree', InitPy(r).path)
             \/ IsFile(tree, InitPy(r).path) /\ IsFile(tree', InitPy(r).path)
      BY <1>7, <1>8
    <3> QED BY <1>4, <1>9, <2>1, <3>1, <3>2, QuietMade
  <2> QED BY <2>2, <2>3
<1> QED BY <1>1, <1>2, <1>3, <1>9, ChangeFresh DEF c

LEMMA CreateFresh ==
    ASSUME CacheTypes, CachedAreWatched, FreshInv, CreateResource
    PROVE  FreshInv'
<1>1. PICK p \in Paths, isFolder \in BOOLEAN : Change(Create(p, isFolder), "created")
  BY DEF CreateResource
<1> DEFINE c == Create(p, isFolder)
           node == IF isFolder THEN Dir ELSE Empty
<1>2. event = NoEvent
  BY DEF CreateResource, MayChange, Idle
<1>3. /\ c \in Changes /\ c.kind = "create" /\ c.res = p /\ c.folder = isFolder
  BY FileTreeAssumption DEF Create, Changes
<1> HIDE DEF c
<1>4. /\ DoChange(c, tree).ok /\ tree' = DoChange(c, tree).tree
      /\ tree' \in Trees /\ UNCHANGED cache
      /\ event'.kind = "created" /\ event'.res = [path |-> p, folder |-> isFolder]
  BY <1>1, <1>3, ChangeTree DEF c
<1>5. ~Exists(tree, p) /\ tree' = [tree EXCEPT ![p] = node] /\ tree \in Trees
  <2>1. DoChange(c, tree) = CreateNode(tree, p, node)
    BY <1>3 DEF DoChange
  <2> QED BY <1>4, <2>1 DEF CreateNode, Raises, Leaves, CacheTypes, DiskInv
<1> HIDE DEF node
<1>6. \A x \in Paths : x # p => Quiet(tree, tree', x)
  BY <1>5, PutKinds
<1>7. ASSUME NEW r \in DOMAIN cache, Made(r) PROVE Made(r)' \/ Reached(r)'
  <2>1. r \in Resources /\ IsThere(tree, r) /\ r.path \in Paths
    BY <1>7 DEF CacheTypes, CacheInv, Made, MadeFrom, Resources
  <2>2. Quiet(tree, tree', r.path)
    BY <1>5, <1>6, <2>1 DEF IsThere, Exists
  <2>3. CASE r.folder /\ InitPy(r).path = p
    <3>1. ParentFolder(InitPy(r)) = r
      BY <2>1, <2>3, InitParent
    <3>2. ParentFolder(event'.res) = r
      BY <1>4, <2>3, <3>1 DEF ParentFolder
    <3> QED BY <1>4, <3>2 DEF Reached
  <2>4. CASE ~(r.folder /\ InitPy(r).path = p)
    BY <1>4, <1>6, <1>7, <2>1, <2>2, <2>4, QuietMade
  <2> QED BY <2>3, <2>4
<1> QED BY <1>1, <1>2, <1>3, <1>7, ChangeFresh DEF c

\* What is under the resource that goes, or stays in its folder, is reached.
LEMMA ReachedUnder ==
    ASSUME CacheTypes, Nested(tree), NEW p \in Paths, NEW r \in Resources, IsThere(tree, r),
           event'.kind \in {"moved", "removed"},
           event'.res = [path |-> p, folder |-> (tree[p] = Dir)]
    PROVE  /\ Under(p, r.path) => Reached(r)'
           /\ r.folder /\ InitPy(r).path \in Paths /\ Under(p, InitPy(r).path) => Reached(r)'
<1>1. r.path \in Paths /\ Exists(tree, r.path) /\ p \in Sequence /\ r.folder \in BOOLEAN
  BY PathsType DEF Resources, IsThere, Exists
<1>2. ASSUME Under(p, r.path) PROVE Reached(r)'
  <2>1. CASE r.path = p
    <3>1. r = [path |-> p, folder |-> (tree[p] = Dir)]
      BY <2>1 DEF IsThere, Resources
    <3> QED BY <3>1 DEF Reached
  <2>2. CASE Within(p, r.path)
    <3>1. tree[p] = Dir
      BY <1>1, <2>2 DEF Nested
    <3>2. event'.res.folder /\ event'.res.path = p
      <4>1. (tree[p] = Dir) = TRUE
        BY <3>1
      <4>2. event'.res = [path |-> p, folder |-> TRUE]
        BY <4>1, Zenon
      <4> QED BY <4>2
    <3>3. Covers(event'.res, r)
      BY <2>2, <3>2 DEF Covers
    <3> QED BY <3>3 DEF Reached
  <2> QED BY <1>2, <2>1, <2>2 DEF Under
<1>3. ASSUME r.folder, InitPy(r).path \in Paths, Under(p, InitPy(r).path) PROVE Reached(r)'
  <2>1. CASE InitPy(r).path = p
    <3>1. ParentFolder(event'.res) = r
      BY <1>3, <2>1, InitParent DEF ParentFolder
    <3> QED BY <3>1 DEF Reached
  <2>2. CASE Within(p, InitPy(r).path)
    <3>1. Under(p, r.path)
      BY <1>1, <1>3, <2>2, InitParent DEF Under
    <3> QED BY <1>2, <3>1
  <2> QED BY <1>3, <2>1, <2>2 DEF Under
<1> QED BY <1>2, <1>3

LEMMA RemoveFresh ==
    ASSUME CacheTypes, CachedAreWatched, FreshInv, RemoveResource
    PROVE  FreshInv'
<1>1. PICK p \in Paths : Change(Delete(p, tree[p] = Dir), "removed")
  BY DEF RemoveResource
<1> DEFINE c == Delete(p, tree[p] = Dir)
<1>2. event = NoEvent /\ tree \in Trees /\ Nested(tree)
  BY DEF RemoveResource, MayChange, Idle, CacheTypes, DiskInv, FreshInv
<1>3. /\ c \in Changes /\ c.kind = "remove" /\ c.res = p /\ c.folder = (tree[p] = Dir)
  BY FileTreeAssumption DEF Delete, Changes
<1> HIDE DEF c
<1>4. /\ DoChange(c, tree).ok /\ tree' = DoChange(c, tree).tree
      /\ tree' \in Trees /\ UNCHANGED cache
      /\ event'.kind = "removed" /\ event'.res = [path |-> p, folder |-> (tree[p] = Dir)]
  BY <1>1, <1>3, ChangeTree DEF c
<1>5. \A x \in Paths : ~Under(p, x) => Quiet(tree, tree', x)
  <2>1. DoChange(c, tree) = RemoveNode(tree, p)
    BY <1>3 DEF DoChange
  <2> QED BY <1>2, <1>4, <2>1, RemoveKinds
<1>6. ASSUME NEW r \in DOMAIN cache, Made(r) PROVE Made(r)' \/ Reached(r)'
  <2>1. r \in Resources /\ IsThere(tree, r) /\ r.path \in Paths
    BY <1>6 DEF CacheTypes, CacheInv, Made, MadeFrom, Resources
  <2>2. CASE Under(p, r.path) \/ (r.folder /\ InitPy(r).path \in Paths /\ Under(p, InitPy(r).path))
    BY <1>2, <1>4, <2>1, <2>2, ReachedUnder
  <2>3. CASE ~(Under(p, r.path) \/ (r.folder /\ InitPy(r).path \in Paths /\ Under(p, InitPy(r).path)))
    BY <1>4, <1>5, <1>6, <2>1, <2>3, QuietMade
  <2> QED BY <2>2, <2>3
<1> QED BY <1>1, <1>2, <1>3, <1>6, ChangeFresh DEF c

\* __init__ is the name of a source file, never of a folder with something in it.
NothingInsideInit == \A p, q \in Paths : p[Len(p)] = "__init__" => ~Within(p, q)

\* A move that takes the resource in deeper than its event says makes no
\* __init__ of another package.
LEMMA DeepMove ==
    ASSUME NothingInsideInit, NEW p \in Paths, NEW q \in Paths, NEW dest \in Paths,
           dest = (IF tree[q] = Dir THEN Append(q, p[Len(p)]) ELSE q),
           NEW real \in Paths, real = Target(tree, p, dest), real # dest,
           NEW r \in Resources, InitPy(r).path = real
    PROVE  FALSE
<1>1. tree[dest] = Dir /\ real = Append(dest, p[Len(p)])
  BY DEF Target
<1>2. tree[q] = Dir /\ dest = Append(q, p[Len(p)])
  BY <1>1
<1>3. real = Append(r.path, "__init__")
  BY DEF InitPy, FileAt
<1>4. dest \in Sequence /\ real \in Sequence /\ q \in Sequence /\ r.path \in Sequence
  BY PathsType DEF Resources
<1> DEFINE last == p[Len(p)]
           name == "__init__"
           s == r.path
<1>5. real = Append(dest, last) /\ dest = Append(q, last) /\ real = Append(s, name)
  BY <1>1, <1>2, <1>3
<1>6. s \in Sequence
  BY <1>4
<1>7. \A x, y \in Paths : x[Len(x)] = name => ~Within(x, y)
  BY DEF NothingInsideInit
<1> HIDE DEF last, name, s
<1>8. real[Len(real)] = last /\ Within(dest, real)
  BY <1>4, <1>5, LastOfAppend, ZenonT(60)
<1>9. dest[Len(dest)] = last
  BY <1>4, <1>5, LastOfAppend
<1>10. real[Len(real)] = name
  BY <1>4, <1>5, <1>6, LastOfAppend
<1> QED BY <1>7, <1>8, <1>9, <1>10

LEMMA MoveFresh ==
    ASSUME NothingInsideInit, CacheTypes, CachedAreWatched, FreshInv, MoveResource
    PROVE  FreshInv'
<1>1. PICK pair \in MovePairs :
         LET c == BuiltOne(Move(pair[1], pair[2], tree[pair[1]] = Dir), tree)
         IN  c.dest \in Paths /\ Change(c, "moved")
  BY DEF MoveResource
<1> DEFINE p == pair[1]
           q == pair[2]
           m == Move(p, q, tree[p] = Dir)
           c == BuiltOne(m, tree)
           dest == c.dest
           real == Target(tree, p, dest)
<1>2. p \in Paths /\ q \in Paths /\ dest \in Paths /\ Change(c, "moved")
  BY <1>1, ModuleCacheAssumption
<1>3. event = NoEvent /\ tree \in Trees /\ Nested(tree)
  BY DEF MoveResource, MayChange, Idle, CacheTypes, DiskInv, FreshInv
<1>4. /\ c \in Changes /\ c.kind = "move" /\ c.res = p /\ c.folder = (tree[p] = Dir)
      /\ dest = IF tree[q] = Dir THEN Append(q, p[Len(p)]) ELSE q
  <2>1. /\ m \in Changes /\ m.kind = "move" /\ m.res = p /\ m.folder = (tree[p] = Dir)
        /\ m.dest = q
    BY <1>2, FileTreeAssumption DEF Move, Changes
  <2> HIDE DEF m
  <2>2. c = IF tree[q] = Dir THEN [m EXCEPT !.dest = Append(q, p[Len(p)])] ELSE m
    BY <2>1 DEF BuiltOne
  <2> QED BY <1>2, <2>1, <2>2 DEF Changes
<1> HIDE DEF m, c
<1>5. /\ DoChange(c, tree).ok /\ tree' = DoChange(c, tree).tree
      /\ tree' \in Trees /\ tree' # tree /\ UNCHANGED cache
      /\ event'.kind = "moved" /\ event'.res = [path |-> p, folder |-> (tree[p] = Dir)]
      /\ event'.new = [path |-> dest, folder |-> (tree[p] = Dir)]
  BY <1>2, <1>4, ChangeTree
<1> HIDE DEF dest
<1>6. CanMove(tree, p, dest) /\ p # dest /\ tree' = Renamed(tree, p, real)
  <2>1. DoChange(c, tree) = MovePath(tree, p, dest)
    BY <1>4 DEF DoChange, dest
  <2> QED BY <1>5, <2>1 DEF MovePath, Raises, Leaves
<1> HIDE DEF real
<1>7. /\ real \in Paths /\ tree[real] # Dir
      /\ tree[real] \in Data => tree[p] \in Data /\ real = dest
      /\ \A x \in Paths : Within(real, x) => tree[x] = Absent
  BY <1>2, <1>3, <1>6, TargetMeans DEF real
<1>8. \A x \in Paths : ~Under(p, x) /\ ~Under(real, x) => Quiet(tree, tree', x)
  BY <1>2, <1>3, <1>6, MoveKinds DEF real
<1>9. ASSUME NEW r \in DOMAIN cache, Made(r) PROVE Made(r)' \/ Reached(r)'
  <2>1. r \in Resources /\ IsThere(tree, r) /\ r.path \in Paths /\ tree[r.path] # Absent
    BY <1>9 DEF CacheTypes, CacheInv, Made, MadeFrom, Resources, IsThere
  <2> DEFINE x == InitPy(r).path
  <2>2. CASE Under(p, r.path) \/ (r.folder /\ x \in Paths /\ Under(p, x))
    BY <1>2, <1>3, <1>5, <2>1, <2>2, ReachedUnder
  <2>3. ~Within(real, r.path)
    BY <1>7, <2>1
  <2>4. CASE r.path = real
    <3>1. tree[real] \in Data
      BY <1>3, <1>7, <2>1, <2>4 DEF Trees, Nodes
    <3>2. real = dest /\ (tree[p] = Dir) = FALSE /\ r.folder = FALSE
      BY <1>7, <2>1, <2>4, <3>1, FileTreeAssumption DEF IsThere, Resources
    <3>3. r = [path |-> dest, folder |-> FALSE]
      BY <2>1, <2>4, <3>2 DEF Resources
    <3>4. event'.new = [path |-> dest, folder |-> FALSE]
      BY <1>5, <3>2, Zenon
    <3> QED BY <1>5, <3>3, <3>4 DEF Reached
  <2>5. CASE r.folder /\ x = real
    <3>1. real = dest
      <4>1. real = Target(tree, p, dest)
        BY DEF real
      <4> SUFFICES ASSUME real # dest PROVE FALSE
        OBVIOUS
      <4>2. dest = IF tree[q] = Dir THEN Append(q, p[Len(p)]) ELSE q
        BY <1>4
      <4>3. p \in Paths /\ q \in Paths /\ dest \in Paths /\ real \in Paths
        BY <1>2, <1>7
      <4>4. r \in Resources /\ InitPy(r).path = real
        BY <2>1, <2>5
      <4> HIDE DEF p, q
      <4> QED BY <4>1, <4>2, <4>3, <4>4, DeepMove, ZenonT(60)
    <3>2. ParentFolder(InitPy(r)) = r
      BY <1>7, <2>1, <2>5, InitParent
    <3>3. ParentFolder(event'.new) = r
      BY <1>5, <2>5, <3>1, <3>2 DEF ParentFolder
    <3> QED BY <1>5, <3>3 DEF Reached
  <2>6. CASE /\ ~(Under(p, r.path) \/ (r.folder /\ x \in Paths /\ Under(p, x)))
             /\ r.path # real /\ ~(r.folder /\ x = real)
    <3>1. Quiet(tree, tree', r.path)
      BY <1>8, <2>1, <2>3, <2>6 DEF Under
    <3>2. r.folder /\ x \in Paths => Quiet(tree, tree', x)
      <4> SUFFICES ASSUME r.folder, x \in Paths PROVE ~Within(real, x)
        BY <1>8, <2>6 DEF Under
      <4>1. real \in Sequence
        BY <1>7, PathsType
      <4> QED BY <2>1, <2>3, <2>6, <4>1, InitParent
    <3> QED BY <1>5, <1>9, <2>1, <3>1, <3>2, QuietMade
  <2> QED BY <2>2, <2>4, <2>5, <2>6
<1> QED BY <1>2, <1>3, <1>4, <1>9, ChangeFresh

LEMMA OutsideFresh ==
    ASSUME CacheTypes, CachedAreWatched, FreshInv, Outside
    PROVE  FreshInv'
<1>1. PICK p \in Paths :
         \E result \in {WriteFile(tree, p, text) : text \in Written} \cup
                       {CreateNode(tree, p, Dir), RemoveNode(tree, p)} :
             result.ok /\ ChangeDisk(result.tree)
  BY DEF Outside
<1>2. PICK result \in {WriteFile(tree, p, text) : text \in Written} \cup
                      {CreateNode(tree, p, Dir), RemoveNode(tree, p)} :
         result.ok /\ ChangeDisk(result.tree)
  BY <1>1
<1>3. tree \in Trees /\ Nested(tree)
  BY DEF CacheTypes, DiskInv, FreshInv
<1>4. event = NoEvent /\ unseen' = TRUE /\ UNCHANGED <<table, cache, job, event>>
  BY DEF Outside
<1> DEFINE u == result.tree
<1>5. u \in Trees /\ Nested(u) /\ KindKept(tree, u)
  <2>1. CASE \E text \in Written : result = WriteFile(tree, p, text)
    <3>1. PICK text \in Written : result = WriteFile(tree, p, text)
      BY <2>1
    <3>2. text \in Data /\ text # Dir
      BY ModuleCacheAssumption, FileTreeAssumption DEF Data
    <3>3. CanWrite(tree, p) /\ u = [tree EXCEPT ![p] = text]
      BY <1>2, <3>1 DEF WriteFile, Raises, Leaves
    <3>4. HasParent(tree, p) /\ tree[p] # Dir
      BY <3>3 DEF CanWrite
    <3>5. u \in Trees
      BY <1>3, <3>2, <3>3 DEF Trees, Nodes
    <3> HIDE DEF u
    <3> QED BY <1>3, <3>2, <3>3, <3>4, <3>5, NestedPut, PutKinds
  <2>2. CASE result = CreateNode(tree, p, Dir)
    <3>1. ~Exists(tree, p) /\ HasParent(tree, p) /\ u = [tree EXCEPT ![p] = Dir]
      BY <1>2, <2>2 DEF CreateNode, Raises, Leaves
    <3>2. u \in Trees
      BY <1>3, <3>1 DEF Trees, Nodes
    <3> HIDE DEF u
    <3> QED BY <1>3, <3>1, <3>2, NestedPut, PutKinds
  <2>3. CASE result = RemoveNode(tree, p)
    <3>1. u \in Trees
      BY <1>3, <2>3, RemoveType
    <3> QED BY <1>2, <1>3, <2>3, <3>1, NestedRemove, RemoveKinds
  <2> QED BY <2>1, <2>2, <2>3
<1>6. EventRes'
  BY <1>4 DEF EventRes, NoEvent
<1>7. FalseIsReached'
  BY <1>4 DEF FalseIsReached
<1> HIDE DEF u
<1>8. ChangeDisk(u)
  BY <1>2 DEF u
<1> QED BY <1>4, <1>5, <1>6, <1>7, <1>8, DiskFresh

LEMMA ValidateFresh ==
    ASSUME FreshInv, Validate
    PROVE  FreshInv'
<1>1. /\ event' = [kind |-> "validate", res |-> FolderAt(Root), new |-> None]
      /\ UNCHANGED <<tree, mtime, clock, table, cache, job, raced, replaced>>
  BY DEF Validate, Tell, disk
<1>2. EventRes'
  BY <1>1 DEF EventRes
<1>3. FalseIsReached'
  BY <1>1 DEF FalseIsReached
<1>4. TimesPast'
  BY <1>1 DEF FreshInv, TimesPast
<1>5. ASSUME ~raced' PROVE JobsTrue' /\ FalseIsUnclean' /\ SeenInCache'
  <2>1. JobsTrue /\ FalseIsUnclean /\ SeenInCache
    BY <1>1, <1>5 DEF FreshInv
  <2>2. JobsTrue'
    BY <1>1, <2>1 DEF JobsTrue, Works, MadeFrom, Made
  <2>3. FalseIsUnclean'
    BY <1>1, <2>1 DEF FalseIsUnclean, Made, MadeFrom, Unclean
  <2>4. SeenInCache'
    BY <1>1, <2>1 DEF SeenInCache
  <2> QED BY <2>2, <2>3, <2>4
<1> QED BY <1>1, <1>2, <1>3, <1>4, <1>5 DEF FreshInv

\* The observer raises: nothing is reported, and what the move has made false
\* is left for the next validate().
LEMMA RaisesFresh ==
    ASSUME FreshInv, ReportRaises
    PROVE  FreshInv'
<1>1. /\ event' = NoEvent /\ unseen' = TRUE
      /\ UNCHANGED <<tree, mtime, clock, table, cache, job, raced, replaced>>
  BY DEF ReportRaises, disk
<1>2. EventRes'
  BY <1>1 DEF EventRes, NoEvent
<1>3. FalseIsReached'
  BY <1>1 DEF FalseIsReached
<1>4. TimesPast'
  BY <1>1 DEF FreshInv, TimesPast
<1>5. ASSUME ~raced' PROVE JobsTrue' /\ FalseIsUnclean' /\ SeenInCache'
  <2>1. JobsTrue /\ FalseIsUnclean /\ SeenInCache
    BY <1>1, <1>5 DEF FreshInv
  <2>2. JobsTrue'
    BY <1>1, <2>1 DEF JobsTrue, Works, MadeFrom, Made
  <2>3. FalseIsUnclean'
    BY <1>1, <2>1 DEF FalseIsUnclean, Made, MadeFrom, Unclean
  <2>4. SeenInCache'
    BY <1>1, <2>1 DEF SeenInCache
  <2> QED BY <2>2, <2>3, <2>4
<1> QED BY <1>1, <1>2, <1>3, <1>4, <1>5 DEF FreshInv

-----------------------------------------------------------------------------
(* The observer is told *)

Reported == Cause.changed \cup DOMAIN Cause.moved

\* What the four kinds of calls, and validate(), have reported.
LEMMA CauseOf ==
           /\ event.kind = "changed" =>
                /\ Cause.changed = ({event.res} \cap DOMAIN table) \cup ChangedParent(table, event.res)
                /\ DOMAIN Cause.moved = {} /\ Cause.created = {}
           /\ event.kind = "created" =>
                /\ Cause.changed = ChangedParent(table, event.res)
                /\ DOMAIN Cause.moved = {} /\ Cause.created = {event.res} \cap DOMAIN table
           /\ event.kind = "moved" =>
                /\ Cause.changed = ChangedParent(table, event.res) \cup ChangedParent(table, event.new)
                /\ DOMAIN Cause.moved = ({event.res} \cap DOMAIN table) \cup Inside(table, event.res)
                /\ Cause.created = {event.new} \cap DOMAIN table
           /\ event.kind = "removed" =>
                /\ Cause.changed = ChangedParent(table, event.res)
                /\ DOMAIN Cause.moved = ({event.res} \cap DOMAIN table) \cup Inside(table, event.res)
                /\ Cause.created = {}
           /\ event.kind = "validate" =>
                LET gone == Vanished(tree, table, event.res)
                    altered == Altered(tree, mtime, table, event.res)
                IN  /\ Cause.changed = (UNION {ChangedParent(table, r) : r \in gone}) \cup altered
                                          \cup UNION {ChangedParent(table, r) : r \in altered}
                    /\ DOMAIN Cause.moved = (gone \cap DOMAIN table)
                                               \cup UNION {Inside(table, r) : r \in gone}
                    /\ Cause.created = Appeared(tree, table, event.res)
<1>1. ASSUME event.kind = "changed"
      PROVE  Cause = CausedByChanged(table, event.res)
  BY <1>1 DEF Cause
<1>2. ASSUME event.kind = "created"
      PROVE  Cause = CausedByCreated(table, event.res)
  BY <1>2 DEF Cause
<1>3. ASSUME event.kind = "moved"
      PROVE  Cause = CausedByMoved(tree, table, event.res, event.new)
  BY <1>3 DEF Cause
<1>4. ASSUME event.kind = "removed"
      PROVE  Cause = CausedByRemoved(table, {event.res})
  BY <1>4 DEF Cause
<1>5. ASSUME event.kind = "validate"
      PROVE  Cause = CausedByValidate(tree, mtime, table, event.res)
  BY <1>5 DEF Cause
<1>6. \A r : /\ CausedByChanged(table, r).changed = ({r} \cap DOMAIN table) \cup ChangedParent(table, r)
             /\ DOMAIN CausedByChanged(table, r).moved = {}
             /\ CausedByChanged(table, r).created = {}
  BY DEF CausedByChanged, NoChanges, NoMoves
<1>7. \A r : /\ CausedByCreated(table, r).changed = ChangedParent(table, r)
             /\ DOMAIN CausedByCreated(table, r).moved = {}
             /\ CausedByCreated(table, r).created = {r} \cap DOMAIN table
  BY DEF CausedByCreated, NoChanges, NoMoves
<1>8. \A r, n : LET c == CausedByMoved(tree, table, r, n)
                IN  /\ c.changed = ChangedParent(table, r) \cup ChangedParent(table, n)
                    /\ DOMAIN c.moved = ({r} \cap DOMAIN table) \cup Inside(table, r)
                    /\ c.created = {n} \cap DOMAIN table
  BY DEF CausedByMoved
<1>9. \A R : LET c == CausedByRemoved(table, R)
             IN  /\ c.changed = UNION {ChangedParent(table, r) : r \in R}
                 /\ DOMAIN c.moved = (R \cap DOMAIN table) \cup UNION {Inside(table, r) : r \in R}
                 /\ c.created = {}
  BY DEF CausedByRemoved
<1>10. ASSUME event.kind = "removed"
       PROVE  /\ Cause.changed = ChangedParent(table, event.res)
              /\ DOMAIN Cause.moved = ({event.res} \cap DOMAIN table) \cup Inside(table, event.res)
              /\ Cause.created = {}
  <2>1. \A g : UNION {g} = g
    OBVIOUS
  <2>2. /\ {ChangedParent(table, r) : r \in {event.res}} = {ChangedParent(table, event.res)}
        /\ {Inside(table, r) : r \in {event.res}} = {Inside(table, event.res)}
    OBVIOUS
  <2> QED BY <1>4, <1>9, <1>10, <2>1, <2>2, ZenonT(60)
<1>11. ASSUME event.kind = "validate"
       PROVE  LET gone == Vanished(tree, table, event.res)
                  altered == Altered(tree, mtime, table, event.res)
              IN  /\ Cause.changed = (UNION {ChangedParent(table, r) : r \in gone}) \cup altered
                                        \cup UNION {ChangedParent(table, r) : r \in altered}
                  /\ DOMAIN Cause.moved = (gone \cap DOMAIN table)
                                             \cup UNION {Inside(table, r) : r \in gone}
                  /\ Cause.created = Appeared(tree, table, event.res)
  BY <1>5, <1>9, <1>11 DEF CausedByValidate
<1> QED BY <1>1, <1>2, <1>3, <1>6, <1>7, <1>8, <1>10, <1>11

\* What is reached is reported, or reported as created.
LEMMA ReachedTold ==
    ASSUME NEW r \in DOMAIN table, Reached(r)
    PROVE  r \in Reported \/ r \in Cause.created
<1>1. CASE r = event.res
  BY <1>1, CauseOf DEF Reached, Reported
<1>2. CASE r = ParentFolder(event.res) /\ event.kind \in {"changed", "created", "moved", "removed"}
  <2>1. r \in ChangedParent(table, event.res)
    BY <1>2 DEF ChangedParent
  <2> QED BY <1>2, <2>1, CauseOf DEF Reported
<1>3. CASE event.kind \in {"moved", "removed"} /\ Covers(event.res, r)
  <2>1. r \in Inside(table, event.res)
    BY <1>3 DEF Inside
  <2> QED BY <1>3, <2>1, CauseOf DEF Reported
<1>4. CASE event.kind = "moved" /\ r = event.new
  BY <1>4, CauseOf
<1>5. CASE event.kind = "moved" /\ r = ParentFolder(event.new)
  <2>1. r \in ChangedParent(table, event.new)
    BY <1>5 DEF ChangedParent
  <2> QED BY <1>5, <2>1, CauseOf DEF Reported
<1> QED BY <1>1, <1>2, <1>3, <1>4, <1>5 DEF Reached

\* A package is reported with its __init__.
LEMMA InitTold ==
    ASSUME CacheTypes, EventRes, event # NoEvent, NEW r \in DOMAIN table, r.folder,
           InitPy(r).path \in Paths, InitPy(r) \in Reported
    PROVE  r \in Reported
<1> DEFINE x == InitPy(r)
<1>1. event.kind \in {"changed", "created", "moved", "removed", "validate"}
  BY DEF CacheTypes, EventInv
<1>2. r \in Resources /\ x.folder = FALSE
  BY DEF CacheTypes, TableInv, InitPy, FileAt
<1>3. ParentFolder(x) = r /\ \A a \in Sequence : Within(a, x.path) => a = r.path \/ Within(a, r.path)
  BY <1>2, InitParent
<1> HIDE DEF x
<1>4. \A s : x \notin ChangedParent(table, s)
  BY <1>2 DEF ChangedParent, ParentFolder, FolderAt
<1>5. \A s : x = s => r \in ChangedParent(table, s)
  BY <1>3 DEF ChangedParent
<1>6. ASSUME NEW s \in Resources \cup {FolderAt(Root)}, x \in Inside(table, s)
      PROVE  r = s \/ r \in Inside(table, s)
  <2>1. s.folder = TRUE /\ Within(s.path, x.path) /\ s.path \in Sequence
    BY <1>6, PathsType DEF Inside, Covers, Resources, FolderAt, Root
  <2>2. s = [path |-> s.path, folder |-> TRUE] /\ r = [path |-> r.path, folder |-> TRUE]
    BY <1>2, <2>1 DEF Resources, FolderAt
  <2>3. s.path = r.path \/ Within(s.path, r.path)
    BY <1>3, <2>1
  <2> QED BY <2>1, <2>2, <2>3 DEF Inside, Covers
<1>7. x \in Reported
  BY DEF x
<1>8. CASE event.kind \in {"changed", "created"}
  <2>1. x = event.res /\ event.kind = "changed"
    BY <1>4, <1>7, <1>8, CauseOf DEF Reported
  <2> QED BY <1>5, <2>1, CauseOf DEF Reported
<1>9. CASE event.kind \in {"moved", "removed"}
  <2>1. x = event.res \/ x \in Inside(table, event.res)
    BY <1>4, <1>7, <1>9, CauseOf DEF Reported
  <2>2. event.res \in Resources
    BY <1>9 DEF EventRes
  <2>3. CASE x = event.res
    BY <1>5, <1>9, <2>3, CauseOf DEF Reported
  <2>4. CASE x \in Inside(table, event.res)
    <3>1. r = event.res \/ r \in Inside(table, event.res)
      BY <1>6, <2>2, <2>4
    <3> QED BY <1>9, <3>1, CauseOf DEF Reported
  <2> QED BY <2>1, <2>3, <2>4
<1>10. CASE event.kind = "validate"
  <2> DEFINE gone == Vanished(tree, table, event.res)
             altered == Altered(tree, mtime, table, event.res)
  <2>1. /\ Cause.changed = (UNION {ChangedParent(table, s) : s \in gone}) \cup altered
                              \cup UNION {ChangedParent(table, s) : s \in altered}
        /\ DOMAIN Cause.moved = (gone \cap DOMAIN table) \cup UNION {Inside(table, s) : s \in gone}
    BY <1>10, CauseOf
  <2>2. \A s \in gone : s \in Resources
    BY DEF Vanished, InScope, Inside, CacheTypes, TableInv
  <2> HIDE DEF gone, altered
  <2>3. x \in altered \/ x \in gone \/ \E s \in gone : x \in Inside(table, s)
    BY <1>4, <1>7, <2>1 DEF Reported
  <2>4. CASE x \in altered \/ x \in gone
    BY <1>5, <2>1, <2>4 DEF Reported
  <2>5. CASE \E s \in gone : x \in Inside(table, s)
    <3>1. PICK s \in gone : x \in Inside(table, s)
      BY <2>5
    <3>2. r = s \/ r \in Inside(table, s)
      BY <1>6, <2>2, <3>1
    <3> QED BY <2>1, <3>1, <3>2 DEF Reported
  <2> QED BY <2>3, <2>4, <2>5
<1> QED BY <1>1, <1>8, <1>9, <1>10

\* validate() finds what is not as it was looked at last.
LEMMA UncleanTold ==
    ASSUME CacheTypes, event.kind = "validate", event.res = FolderAt(Root), NEW r, Unclean(r)
    PROVE  r \in Reported \/ r \in Cause.created
<1> DEFINE scope == InScope(table, event.res)
           gone == Vanished(tree, table, event.res)
           altered == Altered(tree, mtime, table, event.res)
           away == {s \in scope : ~There(tree, s)}
<1>1. /\ r \in DOMAIN table /\ r \in Resources
      /\ DOMAIN table \subseteq Resources
  BY DEF Unclean, CacheTypes, TableInv
<1>2. scope = DOMAIN table
  <2>1. ASSUME NEW s \in DOMAIN table PROVE Covers(FolderAt(Root), s)
    <3>1. s.path \in Sequence /\ s.path # <<>> /\ <<>> \in Sequence
      BY <1>1, PathsType DEF Resources
    <3>2. Len(s.path) \in Nat /\ Len(s.path) # 0 /\ Len(<<>>) = 0
      BY <3>1, LenProperties, EmptySeq DEF Sequence
    <3>3. Within(<<>>, s.path)
      BY <3>1, <3>2, WithinMeans
    <3> QED BY <3>3 DEF Covers, FolderAt, Root
  <2> QED BY <2>1 DEF InScope, Inside
<1>3. /\ altered \subseteq Cause.changed /\ Cause.created = Appeared(tree, table, event.res)
      /\ DOMAIN Cause.moved = (gone \cap DOMAIN table) \cup UNION {Inside(table, s) : s \in gone}
  BY CauseOf
<1>4. CASE There(tree, r)
  <2>1. table[r] # mtime[r.path]
    BY <1>4 DEF Unclean
  <2>2. CASE table[r] = None
    BY <1>1, <1>2, <1>3, <1>4, <2>2 DEF Appeared
  <2>3. CASE table[r] # None
    BY <1>1, <1>2, <1>3, <1>4, <2>1, <2>3 DEF Altered, Reported
  <2> QED BY <2>2, <2>3
<1>5. CASE ~There(tree, r)
  <2>1. gone = {s \in away : \A z \in away : ~Covers(z, s)}
    BY DEF Vanished
  <2>2. r \in away /\ away \subseteq Resources
    BY <1>1, <1>2, <1>5
  <2> HIDE DEF away, scope, gone, altered
  <2>3. CASE \A z \in away : ~Covers(z, r)
    BY <1>1, <1>3, <2>1, <2>2, <2>3 DEF Reported
  <2>4. CASE \E z \in away : Covers(z, r)
    <3> DEFINE Over == {k \in Nat : \E z \in away : Covers(z, r) /\ Len(z.path) = k}
    <3>1. \A z \in away : z.path \in Sequence /\ Len(z.path) \in Nat
      BY <2>2, PathsType, LenProperties DEF Resources, Sequence
    <3>2. Over \in SUBSET Nat /\ Over # {}
      BY <2>4, <3>1
    <3>3. PICK k \in Over : \A l \in Over : k <= l
      <4> HIDE DEF Over
      <4> QED BY <3>2, LeastNatural
    <3>4. PICK z \in away : Covers(z, r) /\ Len(z.path) = k
      BY <3>3
    <3>5. ASSUME NEW y \in away, Covers(y, z) PROVE FALSE
      <4>1. y.path \in Sequence /\ z.path \in Sequence /\ r.path \in Sequence
        BY <1>1, <3>1, PathsType DEF Resources
      <4>2. Within(y.path, z.path) /\ Within(z.path, r.path) /\ y.folder
        BY <3>4, <3>5 DEF Covers
      <4>3. Covers(y, r)
        BY <4>1, <4>2, WithinTrans DEF Covers
      <4>4. Len(y.path) \in Over /\ Len(y.path) < Len(z.path)
        BY <3>1, <4>1, <4>2, <4>3, WithinMeans
      <4>5. Len(y.path) \in Nat /\ Len(z.path) \in Nat
        BY <3>1
      <4> HIDE DEF Over
      <4>6. k <= Len(y.path)
        BY <3>3, <4>4
      <4> QED BY <3>4, <4>4, <4>5, <4>6
    <3>6. z \in gone
      BY <2>1, <3>5
    <3>7. r \in Inside(table, z)
      BY <1>1, <3>4 DEF Inside
    <3> QED BY <1>3, <3>6, <3>7 DEF Reported
  <2> QED BY <2>3, <2>4
<1> QED BY <1>4, <1>5

\* Invalidating keeps what the others are made from; when one that is in the
\* cache goes no conclusion is kept.
LEMMA InvalidatedKeeps ==
    ASSUME CacheInv, NEW gone
    PROVE  /\ \A r \in DOMAIN cache \ gone : Invalidated(gone)[r].src = cache[r].src
           /\ \/ Invalidated(gone) = cache
              \/ \A r \in DOMAIN cache \ gone : Invalidated(gone)[r].seen = None
<1>1. CASE gone \cap DOMAIN cache = {}
  BY <1>1 DEF Invalidated
<1>2. CASE gone \cap DOMAIN cache # {}
  <2> DEFINE left == [r \in DOMAIN cache \ gone |-> cache[r]]
  <2>1. DOMAIN left = DOMAIN cache \ gone
        /\ \A r \in DOMAIN left : left[r] = cache[r] /\ left[r] \in Entries
    BY DEF CacheInv
  <2>2. Invalidated(gone) = Forgotten(left)
    BY <1>2 DEF Invalidated
  <2> HIDE DEF left
  <2>3. \A r \in DOMAIN left : Forgotten(left)[r].src = left[r].src /\ Forgotten(left)[r].seen = None
    BY <2>1 DEF Forgotten, Entries
  <2> QED BY <2>1, <2>2, <2>3
<1> QED BY <1>1, <1>2

LEMMA ReportFresh ==
    ASSUME CacheTypes, CachedAreWatched, FreshInv, Report
    PROVE  FreshInv'
<1> DEFINE gone == DOMAIN Cause.moved
           seen == Cause.changed \cup Cause.created
           kept == (DOMAIN table \ (gone \cap DOMAIN cache)) \cup seen
<1>1. /\ cache' = Invalidated(Reported)
      /\ table' = [r \in kept |-> IF r \in seen THEN mtime[r.path]
                                  ELSE IF r \in gone THEN None ELSE table[r]]
      /\ replaced' = (replaced \cup Cause.created) \cap DOMAIN cache'
      /\ job' = [t \in Threads |->
                    [job[t] EXCEPT !.owner = @ /\ Importer \notin Reported]]
      /\ event' = NoEvent /\ event # NoEvent /\ raced' = (raced \/ Building)
      /\ UNCHANGED <<tree, mtime, clock, unseen>>
  BY DEF Report, Reported, disk
<1>2. seen \subseteq DOMAIN table /\ DOMAIN table \subseteq Resources
  BY <1>1, CauseInTable DEF CacheTypes, TableInv
<1>3. TimesPast'
  <2>1. \A p \in Places : mtime'[p] <= clock'
    BY <1>1 DEF FreshInv, TimesPast
  <2>2. ASSUME NEW r \in DOMAIN table', table'[r] # None PROVE table'[r] <= clock'
    <3>1. r \in kept /\ table'[r] = IF r \in seen THEN mtime[r.path]
                                    ELSE IF r \in gone THEN None ELSE table[r]
      BY <1>1, <2>2
    <3>2. r \in DOMAIN table /\ r.path \in Places
      BY <1>2, <3>1 DEF Resources, Places
    <3> HIDE DEF seen, gone
    <3> QED BY <1>1, <2>2, <3>1, <3>2 DEF FreshInv, TimesPast
  <2> QED BY <2>1, <2>2 DEF TimesPast
<1>4. EventRes'
  BY <1>1 DEF EventRes, NoEvent
<1>5. ASSUME ~raced' PROVE JobsTrue' /\ FalseIsUnclean' /\ FalseIsReached' /\ SeenInCache'
  <2>1. ~raced /\ ~Building
    BY <1>1, <1>5
  <2>2. JobsTrue /\ FalseIsUnclean /\ FalseIsReached /\ SeenInCache /\ EventRes
    BY <2>1 DEF FreshInv
  <2>3. DOMAIN cache \subseteq DOMAIN table
    BY <2>1, WatchedAlone
  <2>4. /\ DOMAIN cache' = DOMAIN cache \ Reported
        /\ \A r \in DOMAIN cache' : cache'[r].src = cache[r].src
        /\ cache' = cache \/ \A r \in DOMAIN cache' : cache'[r].seen = None
    BY <1>1, InvalidatedType, InvalidatedKeeps, ZenonT(60) DEF CacheTypes
  <2>5. JobsTrue'
    <3>1. ASSUME NEW t \in Threads PROVE job'[t] = Nobody
      <4>1. job[t] = Nobody
        BY <2>1 DEF Building
      <4>2. job'[t] = [Nobody EXCEPT !.owner = Nobody.owner /\ Importer \notin Reported]
        BY <1>1, <4>1
      <4>3. (Nobody.owner /\ Importer \notin Reported) = FALSE
        BY DEF Nobody
      <4>4. job'[t] = [Nobody EXCEPT !.owner = FALSE]
        BY <4>2, <4>3, Zenon
      <4> QED BY <4>4 DEF Nobody
    <3> QED BY <3>1 DEF JobsTrue
  <2>6. SeenInCache'
    <3>1. CASE cache' = cache
      BY <2>2, <3>1 DEF SeenInCache
    <3>2. CASE \A r \in DOMAIN cache' : cache'[r].seen = None
      BY <3>2 DEF SeenInCache
    <3> QED BY <2>4, <3>1, <3>2
  <2>7. ASSUME NEW r \in DOMAIN cache', Made(r) PROVE Made(r)'
    <3>1. r \in DOMAIN cache /\ r \notin Reported /\ r \in DOMAIN table /\ r \in Resources
      BY <1>2, <2>3, <2>4
    <3>2. IsThere(tree, r) /\ cache'[r].src = cache[r].src
      BY <2>4, <2>7 DEF Made, MadeFrom
    <3>3. CASE r.folder /\ HasInit(tree, r)
      <4>1. InitPy(r) \in DOMAIN cache /\ cache[r].src = cache[InitPy(r)].src
        BY <2>7, <3>3 DEF Made, MadeFrom
      <4>2. InitPy(r) \notin Reported
        BY <1>1, <2>2, <3>1, <3>3, InitTold DEF HasInit
      <4>3. InitPy(r) \in DOMAIN cache' /\ cache'[InitPy(r)].src = cache[InitPy(r)].src
        BY <2>4, <4>1, <4>2
      <4> QED BY <1>1, <3>2, <3>3, <4>1, <4>3 DEF Made, MadeFrom
    <3>4. CASE ~(r.folder /\ HasInit(tree, r))
      <4>1. cache[r].src = IF ~r.folder THEN tree[r.path] ELSE Empty
        BY <2>7, <3>4 DEF Made, MadeFrom
      <4> QED BY <1>1, <3>2, <3>4, <4>1 DEF Made, MadeFrom
    <3> QED BY <3>3, <3>4
  <2>8. ASSUME NEW r \in DOMAIN cache', r \in replaced \cup Cause.created
        PROVE  r \in replaced'
    BY <1>1, <2>8
  <2>9. ASSUME NEW r \in DOMAIN cache' PROVE r \in replaced' \/ Made(r)' \/ Unclean(r)'
    <3>1. r \in DOMAIN cache /\ r \notin Reported /\ r \in DOMAIN table
      BY <2>3, <2>4
    <3>2. r \in replaced \/ Made(r) \/ Unclean(r)
      BY <2>2, <3>1 DEF FalseIsUnclean
    <3>3. ASSUME Unclean(r), r \notin Cause.created PROVE Unclean(r)'
      <4>1. r \notin seen /\ r \notin gone /\ r \in kept
        BY <3>1, <3>3 DEF Reported
      <4> HIDE DEF seen, gone
      <4>2. r \in DOMAIN table' /\ table'[r] = table[r]
        BY <1>1, <4>1
      <4> QED BY <1>1, <3>3, <4>2 DEF Unclean, There
    <3> QED BY <2>7, <2>8, <3>2, <3>3
  <2>10. ASSUME ~unseen', NEW r \in DOMAIN cache' PROVE r \in replaced' \/ Made(r)'
    <3>1. r \in DOMAIN cache /\ r \notin Reported /\ r \in DOMAIN table
      BY <2>3, <2>4
    <3>2. r \in replaced \/ Made(r) \/ r \in Cause.created
      <4>1. CASE event.kind = "validate"
        <5>1. r \in replaced \/ Made(r) \/ Unclean(r)
          BY <2>2, <3>1 DEF FalseIsUnclean
        <5>2. event.res = FolderAt(Root)
          BY <2>2, <4>1 DEF EventRes
        <5> QED BY <3>1, <4>1, <5>1, <5>2, UncleanTold
      <4>2. CASE event.kind # "validate"
        <5>1. r \in replaced \/ Made(r) \/ Reached(r)
          BY <1>1, <2>2, <2>10, <3>1, <4>2 DEF FalseIsReached
        <5> QED BY <3>1, <5>1, ReachedTold
      <4> QED BY <4>1, <4>2
    <3> QED BY <2>7, <2>8, <3>2
  <2>11. FalseIsUnclean'
    BY <2>9 DEF FalseIsUnclean
  <2>12. FalseIsReached'
    BY <2>10 DEF FalseIsReached
  <2> QED BY <2>5, <2>6, <2>11, <2>12
<1> QED BY <1>1, <1>3, <1>4, <1>5 DEF FreshInv

-----------------------------------------------------------------------------
(* What is in the cache when all has settled *)

LEMMA FreshKept ==
    ASSUME NothingInsideInit, CacheTypes, CachedAreWatched, FreshInv, [Next]_vars
    PROVE  FreshInv'
<1>1. CASE WriteResource \/ CreateResource \/ RemoveResource \/ MoveResource
  BY <1>1, WriteFresh, CreateFresh, RemoveFresh, MoveFresh
<1>2. CASE Outside \/ Validate \/ Report \/ ReportRaises
  BY <1>2, OutsideFresh, ValidateFresh, ReportFresh, RaisesFresh
<1>3. ASSUME NEW t \in Threads,
             Ask(t) \/ Infer(t) \/ Keep(t) \/ Observe(t) \/ ForgetAllData(t)
      PROVE  FreshInv'
  BY <1>3, AskFresh, InferFresh, KeepFresh, ObserveFresh, ForgetFresh
<1>4. CASE UNCHANGED vars
  BY <1>4 DEF vars, disk, FreshInv, TimesPast, EventRes, JobsTrue, FalseIsUnclean,
              FalseIsReached, SeenInCache, Works, Made, MadeFrom, Unclean, Reached, There
<1> QED BY <1>1, <1>2, <1>3, <1>4 DEF Next

LEMMA FreshAtStart == Init => FreshInv
<1> SUFFICES ASSUME Init PROVE FreshInv
  OBVIOUS
<1>1. Nested(tree)
  BY NestedWell, ModuleCacheAssumption DEF Init
<1>2. TimesPast
  BY DEF Init, TimesPast
<1>3. EventRes /\ JobsTrue
  BY DEF Init, EventRes, JobsTrue, NoEvent
<1>4. FalseIsUnclean /\ FalseIsReached /\ SeenInCache
  BY DEF Init, FalseIsUnclean, FalseIsReached, SeenInCache
<1> QED BY <1>1, <1>2, <1>3, <1>4 DEF FreshInv

LEMMA FreshHolds ==
    ASSUME NothingInsideInit
    PROVE  Spec => []FreshInv
<1>1. CacheTypes /\ CachedAreWatched /\ FreshInv /\ [Next]_vars => FreshInv'
  BY FreshKept
<1> QED BY <1>1, FreshAtStart, CacheTypesHold, CachedModulesWatched, PTL DEF Spec

LEMMA FreshMeans == CacheTypes /\ FreshInv => ModulesFresh
<1> SUFFICES ASSUME CacheTypes, FreshInv, Settled, NEW r \in DOMAIN cache
             PROVE  Excused(r) \/ (IsThere(tree, r) /\ cache[r].src = Source(tree, r))
  BY DEF ModulesFresh
<1>1. \A x \in DOMAIN cache : x \in replaced \/ Made(x)
  BY DEF Settled, FreshInv, FalseIsReached, Reached, NoEvent
<1>2. CASE r \in replaced
  BY <1>2 DEF Excused
<1>3. CASE Made(r) /\ r.folder /\ HasInit(tree, r)
  <2>1. InitPy(r) \in DOMAIN cache /\ cache[r].src = cache[InitPy(r)].src /\ IsThere(tree, r)
    BY <1>3 DEF Made, MadeFrom
  <2>2. CASE InitPy(r) \in replaced
    BY <1>3, <2>2 DEF Excused
  <2>3. CASE Made(InitPy(r))
    <3>1. InitPy(r).folder = FALSE
      BY DEF InitPy, FileAt
    <3>2. cache[InitPy(r)].src = tree[InitPy(r).path]
      BY <2>3, <3>1 DEF Made, MadeFrom
    <3> QED BY <1>3, <2>1, <3>2 DEF Source
  <2> QED BY <1>1, <2>1, <2>2, <2>3
<1>4. CASE Made(r) /\ ~(r.folder /\ HasInit(tree, r))
  BY <1>4 DEF Made, MadeFrom, Source
<1> QED BY <1>1, <1>2, <1>3, <1>4

\* Once every change of the directory has been told, or a validate() has come
\* after a change that was not (another program's, or a move on whose report the
\* observer raised), and no change came while a module was being built, each
\* module in the cache is made from what is in the directory, a package from
\* the __init__ that is there: get_pymodule, the observer's table, the
\* notifications and validate() have lost no change, whatever was moved,
\* removed, written behind rope's back or looked up in between.  Only a module
\* at whose place something was created is excused.
THEOREM ModulesStayFresh ==
    ASSUME NothingInsideInit
    PROVE  Spec => []ModulesFresh
<1> QED BY FreshMeans, FreshHolds, CacheTypesHold, PTL

\* The first that is there is found.
LEMMA FoundFirst ==
    ASSUME NEW t, NEW j \in DOMAIN Candidates, IsThere(t, Candidates[j])
    PROVE  \E m \in DOMAIN Candidates : Found(t) = Candidates[m] /\ m <= j
<1> DEFINE there == {i \in DOMAIN Candidates : IsThere(t, Candidates[i])}
<1>1. DOMAIN Candidates = 1..Len(Candidates) /\ Len(Candidates) \in Nat
  BY ModuleCacheAssumption, LenProperties
<1>2. there \in SUBSET Nat /\ j \in there /\ there # {} /\ there \subseteq DOMAIN Candidates
  BY <1>1
<1> DEFINE least == CHOOSE i \in there : \A k \in there : i <= k
<1>3. Found(t) = Candidates[least]
  BY <1>2 DEF Found
<1> HIDE DEF there
<1>4. \E m \in there : \A k \in there : m <= k
  BY <1>2, LeastNatural
<1>5. least \in there /\ \A k \in there : least <= k
  BY <1>4
<1> HIDE DEF least
<1> QED BY <1>2, <1>3, <1>5

LEMMA ConclusionsMean == CacheTypes /\ FreshInv => ConclusionsFresh
<1> SUFFICES ASSUME CacheTypes, FreshInv, Settled, Importer \in DOMAIN cache
             PROVE  LET seen == cache[Importer].seen
                    IN  \/ seen = None \/ seen = Meaning(tree)
                        \/ seen.res # Found(tree) /\ Before(Found(tree), seen.res)
                        \/ seen.res # None /\ Excused(seen.res)
  BY DEF ConclusionsFresh
<1> DEFINE s == cache[Importer].seen
<1>1. SeenInCache /\ s \in Answers \cup {None}
  BY DEF FreshInv, Settled, CacheTypes, CacheInv, Entries
<1>2. CASE s # None /\ s.res = None
  <2>1. s.src = Empty
    BY <1>1, <1>2 DEF SeenInCache
  <2>2. s = [res |-> None, src |-> Empty]
    BY <1>1, <1>2, <2>1 DEF Answers
  <2>3. CASE Found(tree) = None
    BY <2>2, <2>3 DEF Meaning
  <2>4. CASE Found(tree) # None
    <3>1. Found(tree) \in Tried
      BY <2>4, FoundTried
    <3> QED BY <1>2, <2>4, <3>1 DEF Before, Tried
  <2> QED BY <2>3, <2>4
<1>3. CASE s # None /\ s.res # None /\ ~Excused(s.res)
  <2>1. s.res \in DOMAIN cache /\ s.src = cache[s.res].src /\ s.res \in Tried
    BY <1>1, <1>3 DEF SeenInCache
  <2>2. IsThere(tree, s.res) /\ s.src = Source(tree, s.res)
    BY <1>3, <2>1, FreshMeans DEF ModulesFresh
  <2>3. PICK j \in DOMAIN Candidates : s.res = Candidates[j]
    BY <2>1 DEF Tried
  <2>4. PICK m \in DOMAIN Candidates : Found(tree) = Candidates[m] /\ m <= j
    BY <2>2, <2>3, FoundFirst
  <2>5. CASE Found(tree) = s.res
    <3>1. s = [res |-> s.res, src |-> s.src]
      BY <1>1, <1>3 DEF Answers
    <3> QED BY <1>3, <2>2, <2>5, <3>1 DEF Meaning
  <2>6. CASE Found(tree) # s.res
    <3>1. m \in Nat /\ j \in Nat
      BY ModuleCacheAssumption, LenProperties
    <3>2. m < j
      BY <2>3, <2>4, <2>6, <3>1
    <3> QED BY <2>3, <2>4, <2>6, <3>2 DEF Before
  <2> QED BY <2>5, <2>6
<1> QED BY <1>2, <1>3

\* Once all is settled, what the module with the import has concluded is what
\* the import gives in the directory as it is, the first of the candidates that
\* is there and the source that is in it.  Settled asks for a validate()
\* after another program's change and after a move on whose report the observer
\* raised; the two other changes PyCore does not hear of are the exceptions: a
\* module that has appeared before the one found, and one that was created anew.
THEOREM ConclusionsStayFresh ==
    ASSUME NothingInsideInit
    PROVE  Spec => []ConclusionsFresh
<1> QED BY ConclusionsMean, FreshHolds, CacheTypesHold, PTL
=============================================================================
