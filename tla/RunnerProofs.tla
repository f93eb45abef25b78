---------------------------- MODULE RunnerProofs ----------------------------
(***************************************************************************)
(* Theorems about Runner for any number of runs, files, functions and      *)
(* values, and every interleaving of the receiving threads, the children   *)
(* and the main thread: its type invariant; that a receiving thread dies   *)
(* only of a garbled stream, of a file that cannot be parsed at that       *)
(* moment or of a change of the entry it works on; that what is in the     *)
(* object information is watched; and that what is known of a function     *)
(* stays known.                                                            *)
(***************************************************************************)
EXTENDS Runner, SequenceTheorems, WellFoundedInduction, TLAPS

\* A non-empty set of natural numbers has a least element.
LEMMA LeastNatural ==
    ASSUME NEW S \in SUBSET Nat, S # {}
    PROVE  \E m \in S : \A n \in S : m <= n
<1>1. PICK m \in S : \A n \in S : ~(<<n, m>> \in OpToRel(<, Nat))
  BY NatLessThanWellFounded, WFMin, Zenon
<1>2. ASSUME NEW n \in Nat, m \in Nat, n < m PROVE <<n, m>> \in OpToRel(<, Nat)
  BY <1>2, Zenon DEF OpToRel
<1>3. \A n \in S : n \in Nat /\ m \in Nat
  OBVIOUS
<1>4. \A n \in S : ~(n < m)
  BY <1>1, <1>2, <1>3
<1> QED BY <1>3, <1>4

PCs == {"none", "accept", "read", "parse", "file", "create", "added", "scope", "make",
        "fetch", "store", "notify", "done", "dead"}

(* The steps with data received, before the ScopeInfo is at hand. *)
Working == {"parse", "file", "create", "added", "scope", "make", "fetch"}

Works == [file : Files \union {Gone}, scope : Scopes \union {Gone}, returned : Returned]
Jobs == [pc : PCs, data : Works, old : Returned \union {Nothing}]
Links == [connected : BOOLEAN, sent : Seq(Data \union {Garbage}), count : 0..MaxSent]
Mains == [pc : {"idle", "wait", "changed", "moved", "removed"}, run : Threads,
          from : Files \union {Gone}, to : Files \union {Gone}]

WorkInv ==
  \A t \in Threads :
    /\ thread[t].pc \in Working => File(t) \in Files /\ Scope(t) \in Scopes
    /\ thread[t].pc = "store" => Scope(t) \in Scopes

MainInv ==
  /\ main \in Mains
  /\ main.pc \in {"changed", "moved", "removed"} => main.from \in Files
  /\ main.pc = "moved" => main.to \in Files

RunnerTypes ==
  /\ source \in [Files -> {Gone} \union SUBSET Scopes] /\ broken \subseteq Files
  /\ IsDB(db) /\ table \subseteq Files
  /\ child \in [Runners -> {"none", "running", "ended", "failed"}]
  /\ port \in [Runners -> 0..Unused]
  /\ link \in [Runners -> Links]
  /\ thread \in [Threads -> Jobs]
  /\ used \subseteq Files /\ upset \subseteq Threads /\ ops \in 0..MaxOps
  /\ WorkInv /\ MainInv

-----------------------------------------------------------------------------
(* The operations of the database *)

(* The operations of MemoryDB on files keep the shape of the database. *)
LEMMA FileTypes ==
  ASSUME NEW d, IsDB(d), NEW p \in Files, NEW q \in Files, NEW valid
  PROVE  /\ IsDB(CreateFile(d, p))
         /\ IsDB(RenameFile(d, p, q))
         /\ IsDB(ValidateFile(d, p, valid))
<1> USE DEF IsDB, Range
<1>1. IsDB(CreateFile(d, p))
  BY DEF CreateFile, Empty
<1>2. IsDB(RenameFile(d, p, q))
  BY DEF RenameFile
<1>3. CASE p \notin DOMAIN d
  BY <1>1, <1>2, <1>3 DEF ValidateFile
<1>4. CASE p \in DOMAIN d
  <2> DEFINE entry == Restrict(d[p], DOMAIN d[p] \intersect valid)
  <2>1. DOMAIN entry \subseteq Scopes
        /\ \A x \in DOMAIN entry : entry[x] \in Returned \union {Nothing}
    BY <1>4 DEF Restrict
  <2>2. ValidateFile(d, p, valid) = [d EXCEPT ![p] = entry]
    BY <1>4 DEF ValidateFile
  <2> HIDE DEF entry
  <2>3. IsDB(ValidateFile(d, p, valid))
    BY <1>4, <2>1, <2>2
  <2> QED BY <1>1, <1>2, <2>3
<1> QED BY <1>3, <1>4

(* So do those of FileInfo and ScopeInfo. *)
LEMMA ScopeTypes ==
  ASSUME NEW d, IsDB(d), NEW p \in Files, NEW k \in Scopes, NEW v \in Returned
  PROVE  /\ p \in DOMAIN d => IsDB(CreateScope(d, p, k))
         /\ Has(d, p, k) => IsDB(AddCall(d, p, k, v))
<1> USE DEF IsDB, Range
<1>1. ASSUME p \in DOMAIN d PROVE IsDB(CreateScope(d, p, k))
  <2> DEFINE entry == [x \in DOMAIN d[p] \union {k} |-> IF x = k THEN Nothing ELSE d[p][x]]
  <2>1. DOMAIN entry \subseteq Scopes
    BY <1>1
  <2>2. \A x \in DOMAIN entry : entry[x] \in Returned \union {Nothing}
    BY <1>1
  <2>3. CreateScope(d, p, k) = [d EXCEPT ![p] = entry]
    BY DEF CreateScope
  <2> HIDE DEF entry
  <2> QED BY <1>1, <2>1, <2>2, <2>3
<1>2. ASSUME Has(d, p, k) PROVE IsDB(AddCall(d, p, k, v))
  BY <1>2 DEF AddCall, Has
<1> QED BY <1>1, <1>2

(* What of the database they take away. *)
LEMMA CreateFileKeeps ==
  ASSUME NEW d, NEW p
  PROVE  /\ DOMAIN CreateFile(d, p) = DOMAIN d \union {p}
         /\ \A x, y : x # p /\ Has(d, x, y) => Has(CreateFile(d, p), x, y)
BY DEF CreateFile, Has

LEMMA CreateScopeKeeps ==
  ASSUME NEW d, NEW p, NEW k
  PROVE  /\ DOMAIN CreateScope(d, p, k) = DOMAIN d
         /\ \A x, y : Has(d, x, y) => Has(CreateScope(d, p, k), x, y)
         /\ p \in DOMAIN d => Has(CreateScope(d, p, k), p, k)
BY DEF CreateScope, Has

LEMMA AddCallKeeps ==
  ASSUME NEW d, NEW p, NEW k, NEW v
  PROVE  /\ DOMAIN AddCall(d, p, k, v) = DOMAIN d
         /\ \A x, y : Has(d, x, y) => Has(AddCall(d, p, k, v), x, y)
BY DEF AddCall, Has

LEMMA ValidateFileKeeps ==
  ASSUME NEW d, NEW p, NEW valid
  PROVE  /\ DOMAIN ValidateFile(d, p, valid) = DOMAIN d
         /\ \A x, y : (x # p \/ y \in valid) /\ Has(d, x, y) => Has(ValidateFile(d, p, valid), x, y)
BY DEF ValidateFile, Restrict, Has

LEMMA RenameFileKeeps ==
  ASSUME NEW d, NEW p, NEW q
  PROVE  /\ p \notin DOMAIN d => RenameFile(d, p, q) = d
         /\ p \in DOMAIN d => DOMAIN RenameFile(d, p, q) = (DOMAIN d \ {p}) \union {q}
         /\ \A x, y : x # p /\ x # q /\ Has(d, x, y) => Has(RenameFile(d, p, q), x, y)
BY DEF RenameFile, Has

-----------------------------------------------------------------------------
(* The threads *)

(* A ScopeInfo that goes along, or away, leaves the rest of what a thread  *)
(* is at as it is.                                                         *)
SameWork(now, new) ==
  \A t \in Threads : /\ new[t].pc = now[t].pc
                     /\ new[t].data.scope = now[t].data.scope
                     /\ now[t].pc # "store" => new[t] = now[t]

LEMMA HeldTypes ==
  ASSUME NEW now \in [Threads -> Jobs], NEW threads, NEW where \in Files \union {Gone}
  PROVE  Held(now, threads, where) \in [Threads -> Jobs] /\ SameWork(now, Held(now, threads, where))
<1>1. ASSUME NEW t \in Threads
      PROVE  LET new == Held(now, threads, where)
             IN /\ new[t] \in Jobs
                /\ new[t].pc = now[t].pc
                /\ new[t].data.scope = now[t].data.scope
                /\ now[t].pc # "store" => new[t] = now[t]
  <2>1. now[t] \in Jobs
    OBVIOUS
  <2>2. CASE t \in threads /\ now[t].pc = "store"
    <3>1. Held(now, threads, where)[t] = [now[t] EXCEPT !.data.file = where]
      BY <2>2 DEF Held
    <3> QED BY <2>1, <2>2, <3>1 DEF Jobs, Works
  <2>3. CASE ~(t \in threads /\ now[t].pc = "store")
    BY <2>1, <2>3 DEF Held
  <2> QED BY <2>2, <2>3
<1>2. Held(now, threads, where) = [t \in Threads |-> Held(now, threads, where)[t]]
  BY DEF Held
<1> QED BY <1>1, <1>2 DEF SameWork

(* What a thread is at after another thread's work, or a notification, took *)
(* its ScopeInfo away.                                                     *)
LEMMA SameWorkInv ==
  ASSUME RunnerTypes, thread' \in [Threads -> Jobs], SameWork(thread, thread')
  PROVE  WorkInv'
BY DEF RunnerTypes, WorkInv, SameWork, File, Scope, Working, Jobs

(* A thread goes on with what it is at. *)
LEMMA GoesTypes ==
  ASSUME RunnerTypes, NEW t \in Threads, NEW pc \in PCs, Goes(t, pc),
         pc \in Working => thread[t].pc \in Working,
         pc = "store" => thread[t].pc = "store"
  PROVE  thread' \in [Threads -> Jobs] /\ WorkInv'
<1>1. thread' \in [Threads -> Jobs]
  BY DEF Goes, RunnerTypes, Jobs
<1>2. ASSUME NEW u \in Threads
      PROVE  /\ thread'[u].data = thread[u].data
             /\ thread'[u].pc = IF u = t THEN pc ELSE thread[u].pc
  BY DEF Goes, RunnerTypes, Jobs
<1> QED BY <1>1, <1>2 DEF RunnerTypes, WorkInv, File, Scope, Working

(* A thread begins with something else. *)
LEMMA NewJobTypes ==
  ASSUME RunnerTypes, NEW t \in Threads, NEW j \in Jobs,
         j.pc \in Working => j.data \in Data,
         j.pc = "store" => j.data.scope \in Scopes,
         thread' = [thread EXCEPT ![t] = j]
  PROVE  thread' \in [Threads -> Jobs] /\ WorkInv'
<1>1. thread' \in [Threads -> Jobs]
  BY DEF RunnerTypes
<1>2. ASSUME NEW u \in Threads PROVE thread'[u] = IF u = t THEN j ELSE thread[u]
  BY DEF RunnerTypes
<1> QED BY <1>1, <1>2 DEF RunnerTypes, WorkInv, File, Scope, Working, Data

LEMMA FixedJobs ==
  /\ Off \in Jobs /\ Off.pc = "none"
  /\ \A pc \in PCs : At(pc, NoData, Nothing) \in Jobs
  /\ \A data \in Data, pc \in PCs : At(pc, data, Nothing) \in Jobs
  /\ \A data, pc : At(pc, data, Nothing).data = data /\ At(pc, data, Nothing).pc = pc
BY DEF Off, At, Jobs, Works, NoData, PCs, Data, Returned

LEMMA FailsTypes ==
  ASSUME RunnerTypes, NEW t \in Threads, Fails(t)
  PROVE  thread' \in [Threads -> Jobs] /\ WorkInv'
<1>1. CASE t = Main
  BY <1>1, NewJobTypes, FixedJobs DEF Fails, Off, At, Working
<1>2. CASE t # Main
  <2> DEFINE j == [thread[t] EXCEPT !.pc = "dead"]
  <2>1. j \in Jobs /\ j.pc = "dead"
    BY DEF RunnerTypes, Jobs, PCs
  <2>2. thread' = [thread EXCEPT ![t] = j]
    BY <1>2 DEF Fails, RunnerTypes
  <2> HIDE DEF j
  <2> QED BY <2>1, <2>2, NewJobTypes DEF Working
<1> QED BY <1>1, <1>2

-----------------------------------------------------------------------------
(* add_callinfo *)

LEMMA StoringTypes ==
  ASSUME RunnerTypes, NEW t \in Threads, Storing(t)
  PROVE  RunnerTypes'
<1>0. /\ thread[t] \in Jobs
      /\ UNCHANGED <<source, broken, child, port, link, main, used, ops>>
  BY DEF Storing, RunnerTypes
<1>1. SUFFICES ASSUME TRUE
               PROVE  /\ IsDB(db') /\ table' \subseteq Files /\ upset' \subseteq Threads
                      /\ thread' \in [Threads -> Jobs] /\ WorkInv'
  BY <1>0, <1>1 DEF RunnerTypes, MainInv
<1>2. thread[t].pc \in Working => File(t) \in Files /\ Scope(t) \in Scopes
  BY DEF RunnerTypes, WorkInv
<1>3. IsDB(db) /\ table \subseteq Files /\ upset \subseteq Threads
      /\ thread \in [Threads -> Jobs]
  BY DEF RunnerTypes
<1>4. CASE LookForFile(t)
  BY <1>3, <1>4, GoesTypes DEF LookForFile, PCs, Working
<1>5. CASE CreateInfo(t)
  <2> DEFINE others == IF File(t) \in DOMAIN db THEN AtWork(File(t)) \ {t} ELSE {}
             held == Held(thread, others, Gone)
  <2>1. /\ thread[t].pc = "create" /\ File(t) \in Files /\ Scope(t) \in Scopes
        /\ db' = CreateFile(db, File(t)) /\ table' = table
        /\ upset' = upset \union others
        /\ thread' = [held EXCEPT ![t].pc = "added"]
    BY <1>2, <1>5 DEF CreateInfo, Working
  <2>2. IsDB(db') /\ upset' \subseteq Threads
    BY <1>3, <2>1, FileTypes DEF AtWork
  <2>3. held \in [Threads -> Jobs] /\ SameWork(thread, held)
    BY <1>3, HeldTypes
  <2> HIDE DEF held
  <2>4. thread' \in [Threads -> Jobs]
    BY <2>1, <2>3 DEF Jobs, PCs
  <2>5. ASSUME NEW u \in Threads
        PROVE  /\ thread'[u].data = held[u].data
               /\ thread'[u].pc = IF u = t THEN "added" ELSE held[u].pc
    BY <2>1, <2>3 DEF Jobs
  <2>6. WorkInv'
    BY <2>1, <2>3, <2>5 DEF RunnerTypes, WorkInv, SameWork, File, Scope, Working
  <2> QED BY <1>3, <2>1, <2>2, <2>4, <2>6
<1>6. CASE FileAdded(t)
  <2>1. thread[t].pc = "added" /\ Goes(t, "scope")
    BY <1>6 DEF FileAdded
  <2>2. thread' \in [Threads -> Jobs] /\ WorkInv'
    BY <2>1, GoesTypes DEF PCs, Working
  <2> QED BY <1>2, <1>3, <1>6, <2>1, <2>2 DEF FileAdded, Working
<1>7. CASE LookForScope(t)
  BY <1>3, <1>7, GoesTypes, FailsTypes DEF LookForScope, PCs, Working
<1>8. CASE MakeScope(t)
  <2> DEFINE others == {u \in AtWork(File(t)) : Scope(u) = Scope(t)}
             held == Held(thread, others, Gone)
  <2>1. CASE File(t) \notin DOMAIN db
    BY <1>3, <1>8, <2>1, FailsTypes DEF MakeScope
  <2>2. CASE File(t) \in DOMAIN db
    <3>1. /\ thread[t].pc = "make" /\ File(t) \in Files /\ Scope(t) \in Scopes
          /\ db' = CreateScope(db, File(t), Scope(t)) /\ UNCHANGED <<table, upset>>
          /\ thread' = [held EXCEPT ![t].pc = "fetch"]
      BY <1>2, <1>8, <2>2 DEF MakeScope, Working
    <3>2. IsDB(db')
      BY <1>3, <2>2, <3>1, ScopeTypes DEF Returned
    <3>3. held \in [Threads -> Jobs] /\ SameWork(thread, held)
      BY <1>3, HeldTypes
    <3> HIDE DEF held
    <3>4. thread' \in [Threads -> Jobs]
      BY <3>1, <3>3 DEF Jobs, PCs
    <3>5. ASSUME NEW u \in Threads
          PROVE  /\ thread'[u].data = held[u].data
                 /\ thread'[u].pc = IF u = t THEN "fetch" ELSE held[u].pc
      BY <3>1, <3>3 DEF Jobs
    <3>6. WorkInv'
      BY <3>1, <3>3, <3>5 DEF RunnerTypes, WorkInv, SameWork, File, Scope, Working
    <3> QED BY <1>3, <3>1, <3>2, <3>4, <3>6
  <2> QED BY <2>1, <2>2
<1>9. CASE Fetch(t)
  <2>1. CASE ~Has(db, File(t), Scope(t))
    BY <1>3, <1>9, <2>1, FailsTypes DEF Fetch
  <2>2. CASE Has(db, File(t), Scope(t))
    <3> DEFINE j == [thread[t] EXCEPT !.pc = "store", !.old = db[File(t)][Scope(t)]]
    <3>1. thread[t].pc = "fetch" /\ File(t) \in Files /\ Scope(t) \in Scopes
      BY <1>2, <1>9 DEF Fetch, Working
    <3>2. db[File(t)][Scope(t)] \in Returned \union {Nothing}
      BY <1>3, <2>2 DEF IsDB, Has, Range
    <3>3. /\ thread' = [thread EXCEPT ![t] = j]
          /\ UNCHANGED <<db, table, upset>>
      BY <1>3, <1>9, <2>2 DEF Fetch
    <3>4. j \in Jobs /\ j.pc = "store" /\ j.data = thread[t].data
      BY <1>0, <3>2 DEF Jobs, PCs
    <3> HIDE DEF j
    <3>5. thread' \in [Threads -> Jobs] /\ WorkInv'
      BY <3>1, <3>3, <3>4, NewJobTypes DEF Working, Scope
    <3> QED BY <1>3, <3>3, <3>5
  <2> QED BY <2>1, <2>2
<1>10. CASE Store(t)
  <2>1. /\ thread[t].pc = "store" /\ Scope(t) \in Scopes
        /\ thread[t].data.returned \in Returned
    BY <1>0, <1>10 DEF Store, RunnerTypes, WorkInv, Jobs, Works
  <2>2. IsDB(db')
    <3>1. CASE /\ File(t) # Gone /\ Has(db, File(t), Scope(t))
               /\ IsMoreValid(thread[t].data.returned, thread[t].old)
      <4>1. db' = AddCall(db, File(t), Scope(t), thread[t].data.returned)
        BY <1>10, <3>1 DEF Store, File, Scope
      <4>2. File(t) \in Files
        BY <1>3, <3>1 DEF IsDB, Has
      <4> QED BY <1>3, <2>1, <3>1, <4>1, <4>2, ScopeTypes
    <3>2. CASE ~(/\ File(t) # Gone /\ Has(db, File(t), Scope(t))
                 /\ IsMoreValid(thread[t].data.returned, thread[t].old))
      BY <1>3, <1>10, <3>2 DEF Store
    <3> QED BY <3>1, <3>2
  <2>3. Stored(t) \in Jobs /\ Stored(t).pc \in {"none", "read"}
    BY FixedJobs DEF Stored, Off, At, PCs
  <2>4. thread' \in [Threads -> Jobs] /\ WorkInv'
    BY <1>10, <2>3, NewJobTypes DEF Store, Working
  <2> QED BY <1>3, <1>10, <2>2, <2>4 DEF Store
<1> QED BY <1>4, <1>5, <1>6, <1>7, <1>8, <1>9, <1>10 DEF Storing

-----------------------------------------------------------------------------
(* The process, the receiver and the calls of the main thread *)

LEMMA FreePortType == FreePort \in 0..Unused
<1> DEFINE free == (1..Ports) \ TakenPorts
<1>1. Ports \in Nat
  BY RunnerAssumption
<1>2. CASE free = {}
  BY <1>1, <1>2 DEF FreePort, Unused
<1>3. CASE free # {}
  <2>1. \E n \in free : \A m \in free : n <= m
    <3>1. free \in SUBSET Nat
      BY <1>1
    <3> HIDE DEF free
    <3> QED BY <1>3, <3>1, LeastNatural
  <2>2. (CHOOSE n \in free : \A m \in free : n <= m) \in free
    BY <2>1
  <2> QED BY <1>1, <1>3, <2>2 DEF FreePort, Unused
<1> QED BY <1>2, <1>3

LEMMA RunTypes ==
  ASSUME RunnerTypes, NEW r \in Runners, NEW doa \in BOOLEAN, NEW spawns \in BOOLEAN,
         Run(r, doa, spawns)
  PROVE  RunnerTypes'
<1>1. r \in Threads /\ thread[r] = Off
  BY DEF Threads, Run
<1>2. thread' \in [Threads -> Jobs] /\ WorkInv'
  <2>1. PICK pc \in {"accept", "none"} : Goes(r, pc)
    BY DEF Run, Goes
  <2> QED BY <1>1, <2>1, GoesTypes DEF PCs, Working
<1>3. port' \in [Runners -> 0..Unused]
  <2>1. 0 \in 0..Unused
    BY RunnerAssumption DEF Unused
  <2> QED BY <2>1, FreePortType DEF Run, RunnerTypes
<1> QED BY <1>2, <1>3 DEF Run, RunnerTypes, MainInv

LEMMA ProcessTypes ==
  ASSUME RunnerTypes, NEW r \in Runners, Process(r) \/ kill_process(r)
  PROVE  RunnerTypes'
<1>1. link[r] \in Links
  BY DEF RunnerTypes
<1>2. CASE Connect(r)
  <2>1. child' \in [Runners -> {"none", "running", "ended", "failed"}]
    BY <1>2 DEF Connect, RunnerTypes
  <2>2. link' \in [Runners -> Links]
    <3>1. [link[r] EXCEPT !.connected = TRUE] \in Links
      BY <1>1 DEF Links
    <3> QED BY <1>2, <3>1 DEF Connect, RunnerTypes
  <2> QED BY <1>2, <2>1, <2>2 DEF Connect, RunnerTypes, WorkInv, MainInv, File, Scope
<1>3. CASE Exit(r)
  BY <1>3 DEF Exit, RunnerTypes, WorkInv, MainInv, File, Scope
<1>4. ASSUME NEW data \in Data \union {Garbage}, Send(r, data) PROVE RunnerTypes'
  <2>1. Append(link[r].sent, data) \in Seq(Data \union {Garbage})
    BY <1>1, AppendProperties DEF Links
  <2>2. link[r].count + 1 \in 0..MaxSent
    BY <1>1, <1>4, RunnerAssumption DEF Send, Links
  <2>3. link' \in [Runners -> Links]
    <3> DEFINE new == [link[r] EXCEPT !.sent = Append(link[r].sent, data),
                                      !.count = link[r].count + 1]
    <3>1. new \in Links
      BY <1>1, <2>1, <2>2 DEF Links
    <3>2. link' = [link EXCEPT ![r] = new]
      BY <1>4 DEF Send, RunnerTypes
    <3> HIDE DEF new
    <3> QED BY <3>1, <3>2 DEF RunnerTypes
  <2> QED BY <1>4, <2>3 DEF Send, RunnerTypes, WorkInv, MainInv, File, Scope
<1>5. CASE kill_process(r)
  <2>1. PICK n \in 0..Len(link[r].sent) :
           link' = [link EXCEPT ![r].sent = SubSeq(@, 1, n)]
    BY <1>5 DEF kill_process
  <2>2. SubSeq(link[r].sent, 1, n) \in Seq(Data \union {Garbage})
    <3>1. link[r].sent \in Seq(Data \union {Garbage}) /\ Len(link[r].sent) \in Nat
      BY <1>1, LenProperties DEF Links
    <3>2. \A i \in 1..n : link[r].sent[i] \in Data \union {Garbage}
      BY <3>1, ElementOfSeq
    <3> QED BY <3>1, <3>2, SubSeqProperties
  <2>3. link' \in [Runners -> Links]
    BY <1>1, <2>1, <2>2 DEF RunnerTypes, Links
  <2> QED BY <1>5, <2>3 DEF kill_process, RunnerTypes, WorkInv, MainInv, File, Scope
<1> QED BY <1>2, <1>3, <1>4, <1>5 DEF Process

(* What parsing the file ends in. *)
LEMMA ParseSteps ==
  ASSUME RunnerTypes, NEW r \in Runners, Parse(r)
  PROVE  \E j \in {At("file", thread[r].data, Nothing), At("read", NoData, Nothing),
                    [thread[r] EXCEPT !.pc = "dead"]} :
            /\ thread' = [thread EXCEPT ![r] = j]
            /\ ~Unreadable(File(r)) \/ Untold(File(r)) \/ j = [thread[r] EXCEPT !.pc = "dead"]
<1> DEFINE found == At("file", thread[r].data, Nothing)
           lost == At("read", NoData, Nothing)
           fails == [thread[r] EXCEPT !.pc = "dead"]
<1>1. thread \in [Threads -> Jobs] /\ r \in Threads
  BY DEF RunnerTypes, Threads
<1>2. CASE Unreadable(File(r)) /\ Goes(r, "dead")
  <2>1. thread' = [thread EXCEPT ![r] = fails]
    BY <1>1, <1>2 DEF Goes
  <2> QED BY <2>1, Zenon
<1>3. CASE ~Unreadable(File(r)) /\ \E j \in {found, lost} : thread' = [thread EXCEPT ![r] = j]
  <2> QED BY <1>3, Zenon
<1>4. CASE Untold(File(r)) /\ \E j \in {found, lost} : thread' = [thread EXCEPT ![r] = j]
  <2> QED BY <1>4, Zenon
<1> QED BY <1>2, <1>3, <1>4 DEF Parse

LEMMA ReceiverTypes ==
  ASSUME RunnerTypes, NEW r \in Runners, Receiver(r)
  PROVE  RunnerTypes'
<1>0. r \in Threads
  BY DEF Threads
<1>1. CASE Accept(r)
  BY <1>0, <1>1, GoesTypes DEF Accept, RunnerTypes, MainInv, PCs, Working
<1>2. CASE EndOfStream(r)
  BY <1>0, <1>2, GoesTypes DEF EndOfStream, RunnerTypes, MainInv, PCs, Working
<1>3. CASE Notify(r)
  BY <1>0, <1>3, GoesTypes DEF Notify, RunnerTypes, MainInv, PCs, Working
<1>4. CASE Receive(r)
  <2> DEFINE data == Head(link[r].sent)
             j == IF data = Garbage THEN At("dead", NoData, Nothing)
                  ELSE IF Exists(data.file) THEN At("parse", data, Nothing) ELSE thread[r]
  <2>1. link[r] \in Links /\ link[r].sent # <<>> /\ thread[r].pc = "read"
    BY <1>4 DEF Receive, RunnerTypes
  <2>2. data \in Data \union {Garbage} /\ Tail(link[r].sent) \in Seq(Data \union {Garbage})
    BY <2>1, HeadTailProperties DEF Links
  <2>3. link' \in [Runners -> Links]
    BY <1>4, <2>1, <2>2 DEF Receive, RunnerTypes, Links
  <2>4. j \in Jobs
    BY <1>0, <2>2, FixedJobs DEF RunnerTypes, PCs
  <2>5. j.pc \in Working => j.data \in Data
    BY <2>1, <2>2, FixedJobs DEF At, Working
  <2>6. j.pc # "store"
    BY <2>1 DEF At
  <2>7. thread' = [thread EXCEPT ![r] = j]
    BY <1>0, <1>4 DEF Receive, RunnerTypes
  <2> HIDE DEF j
  <2>8. thread' \in [Threads -> Jobs] /\ WorkInv'
    BY <1>0, <2>4, <2>5, <2>6, <2>7, NewJobTypes
  <2>9. upset' \subseteq Threads
    BY <1>0, <1>4 DEF Receive, RunnerTypes
  <2> QED BY <1>4, <2>3, <2>8, <2>9 DEF Receive, RunnerTypes, MainInv
<1>5. CASE Storing(r)
  BY <1>0, <1>5, StoringTypes
<1>6. CASE Parse(r)
  <2>1. thread[r].pc = "parse" /\ File(r) \in Files /\ Scope(r) \in Scopes
    BY <1>0, <1>6 DEF Parse, RunnerTypes, WorkInv, Working
  <2>2. thread[r].data \in Data
    <3>1. thread[r].data \in Works
      BY <1>0 DEF RunnerTypes, Jobs
    <3> QED BY <2>1, <3>1 DEF Data, Works, File, Scope
  <2>3. PICK j \in {At("file", thread[r].data, Nothing), At("read", NoData, Nothing),
                    [thread[r] EXCEPT !.pc = "dead"]} :
           thread' = [thread EXCEPT ![r] = j]
    BY <1>0, <1>6, ParseSteps
  <2>4. j \in Jobs
    <3>1. At("file", thread[r].data, Nothing) \in Jobs /\ At("read", NoData, Nothing) \in Jobs
      BY <2>2, FixedJobs DEF PCs
    <3>2. [thread[r] EXCEPT !.pc = "dead"] \in Jobs
      BY <1>0 DEF RunnerTypes, Jobs, PCs
    <3> QED BY <2>3, <3>1, <3>2
  <2>5. j.pc \in {"file", "read", "dead"} /\ (j.pc = "file" => j.data \in Data)
    <3>1. thread[r] \in Jobs
      BY <1>0 DEF RunnerTypes
    <3>2. [thread[r] EXCEPT !.pc = "dead"].pc = "dead"
      BY <3>1 DEF Jobs
    <3>3. /\ At("read", NoData, Nothing).pc = "read"
          /\ At("file", thread[r].data, Nothing).data = thread[r].data
          /\ At("file", thread[r].data, Nothing).pc = "file"
      BY DEF At
    <3> QED BY <2>2, <2>3, <3>2, <3>3
  <2>6. thread' \in [Threads -> Jobs] /\ WorkInv'
    BY <1>0, <2>3, <2>4, <2>5, NewJobTypes DEF Working
  <2> QED BY <1>6, <2>6 DEF Parse, RunnerTypes, MainInv
<1> QED BY <1>1, <1>2, <1>3, <1>4, <1>5, <1>6 DEF Receiver

LEMMA WaitTypes ==
  ASSUME RunnerTypes, NEW r \in Runners, wait_process(r) \/ Joined(r)
  PROVE  RunnerTypes'
<1>1. main' \in Mains /\ main'.pc \in {"wait", "idle"}
  <2>1. Gone \in Files \union {Gone} /\ r \in Threads /\ Main \in Threads
    BY DEF Threads
  <2>2. CASE wait_process(r)
    BY <2>1, <2>2 DEF wait_process, Idle, Mains
  <2>3. CASE Joined(r)
    BY <2>1, <2>3 DEF Joined, Idle, Mains
  <2> QED BY <2>2, <2>3
<1> QED BY <1>1 DEF wait_process, Joined, RunnerTypes, WorkInv, MainInv, File, Scope

LEMMA AnalyzeTypes ==
  ASSUME RunnerTypes, NEW data \in Data, Analyze(data)
  PROVE  RunnerTypes'
<1>1. thread' \in [Threads -> Jobs] /\ WorkInv'
  BY FixedJobs, NewJobTypes DEF Analyze, Threads, At, PCs
<1>2. ops' \in 0..MaxOps
  BY RunnerAssumption DEF Analyze, RunnerTypes
<1> QED BY <1>1, <1>2 DEF Analyze, RunnerTypes, MainInv

(* The files change. *)
LEMMA TellingTypes ==
  ASSUME RunnerTypes, NEW pc \in {"changed", "moved", "removed"},
         NEW p \in Files, NEW q \in Files, Telling(pc, p, q), UNCHANGED thread
  PROVE  MainInv' /\ WorkInv'
BY DEF RunnerTypes, Telling, Idle, Mains, MainInv, WorkInv, Threads, File, Scope

LEMMA FilesTypes ==
  ASSUME RunnerTypes, NEW p \in Files, NEW q \in Files, NEW scopes \in SUBSET Scopes,
         \/ ChangeFile(p, scopes) \/ MakeFile(p, scopes) \/ MoveFile(p, q)
         \/ RemoveFile(p) \/ BreakFile(p)
  PROVE  RunnerTypes'
<1>1. ops' \in 0..MaxOps
  BY RunnerAssumption DEF ChangeFile, MakeFile, MoveFile, RemoveFile, BreakFile, MayChange,
                          RunnerTypes
<1>2. CASE ChangeFile(p, scopes)
  BY <1>1, <1>2, TellingTypes DEF ChangeFile, RunnerTypes
<1>3. CASE MakeFile(p, scopes)
  BY <1>1, <1>3 DEF MakeFile, RunnerTypes, WorkInv, MainInv, File, Scope
<1>4. CASE MoveFile(p, q)
  BY <1>1, <1>4, TellingTypes DEF MoveFile, RunnerTypes
<1>5. CASE RemoveFile(p)
  BY <1>1, <1>5, TellingTypes DEF RemoveFile, RunnerTypes
<1>6. CASE BreakFile(p)
  BY <1>1, <1>6, TellingTypes DEF BreakFile, RunnerTypes
<1> QED BY <1>2, <1>3, <1>4, <1>5, <1>6

LEMMA TellTypes == RunnerTypes /\ Tell => RunnerTypes'
<1> SUFFICES ASSUME RunnerTypes, Tell PROVE RunnerTypes'
  OBVIOUS
<1>1. /\ main' = Idle /\ Idle \in Mains /\ Idle.pc = "idle" /\ main.from \in Files
      /\ UNCHANGED <<source, broken, child, port, link, used, ops>>
      /\ main.pc = "moved" => main.to \in Files
  BY DEF Tell, TellChanged, TellMoved, TellRemoved, Idle, Mains, Threads, RunnerTypes, MainInv
<1>2. SUFFICES ASSUME TRUE
               PROVE  /\ IsDB(db') /\ table' \subseteq Files /\ upset' \subseteq Threads
                      /\ thread' \in [Threads -> Jobs] /\ SameWork(thread, thread')
  BY <1>1, <1>2, SameWorkInv DEF RunnerTypes, MainInv
<1>3. /\ IsDB(db) /\ table \subseteq Files /\ upset \subseteq Threads
      /\ thread \in [Threads -> Jobs] /\ SameWork(thread, thread)
  BY DEF RunnerTypes, SameWork
<1>4. \A p : AtWork(p) \subseteq Threads
  BY DEF AtWork
<1> DEFINE p == main.from
           q == main.to
<1>5. CASE TellChanged
  <2> DEFINE gone == {t \in AtWork(p) : Scope(t) \notin source[p]}
  <2>1. CASE p \in table \ broken
    <3>1. /\ db' = ValidateFile(db, p, source[p]) /\ upset' = upset \union gone
          /\ thread' = Held(thread, gone, Gone) /\ UNCHANGED table
      BY <1>5, <2>1 DEF TellChanged
    <3>2. IsDB(db')
      BY <1>1, <1>3, <3>1, FileTypes
    <3> QED BY <1>3, <1>4, <3>1, <3>2, HeldTypes
  <2>2. CASE p \notin table \ broken
    BY <1>3, <1>5, <2>2 DEF TellChanged
  <2> QED BY <2>1, <2>2
<1>6. CASE TellMoved
  <2> DEFINE replaced == IF p \in DOMAIN db THEN AtWork(q) ELSE {}
             held == Held(thread, replaced, Gone)
  <2>1. CASE p \in table
    <3>1. /\ db' = RenameFile(db, p, q) /\ table' = (table \ {p}) \union {q}
          /\ upset' = upset \union AtWork(p) \union replaced
          /\ thread' = Held(held, AtWork(p), q)
          /\ q \in Files
      BY <1>1, <1>6, <2>1 DEF TellMoved
    <3>2. IsDB(db')
      BY <1>1, <1>3, <3>1, FileTypes
    <3>3. held \in [Threads -> Jobs] /\ SameWork(thread, held)
      BY <1>3, HeldTypes
    <3> HIDE DEF held
    <3>4. thread' \in [Threads -> Jobs] /\ SameWork(held, thread')
      BY <3>1, <3>3, HeldTypes
    <3>5. SameWork(thread, thread')
      BY <3>3, <3>4 DEF SameWork
    <3> QED BY <1>3, <1>4, <3>1, <3>2, <3>4, <3>5
  <2>2. CASE p \notin table
    BY <1>3, <1>6, <2>2 DEF TellMoved
  <2> QED BY <2>1, <2>2
<1>7. CASE TellRemoved
  BY <1>3, <1>7 DEF TellRemoved
<1> QED BY <1>5, <1>6, <1>7 DEF Tell

-----------------------------------------------------------------------------
(* Type correctness *)

LEMMA InitTypes == Init => RunnerTypes
<1> SUFFICES ASSUME Init PROVE RunnerTypes
  OBVIOUS
<1>1. source \in [Files -> {Gone} \union SUBSET Scopes] /\ broken \subseteq Files
  BY DEF Init
<1>2. IsDB(db)
  BY DEF Init, IsDB, Range
<1>3. /\ child \in [Runners -> {"none", "running", "ended", "failed"}]
      /\ port \in [Runners -> 0..Unused] /\ ops \in 0..MaxOps
  BY RunnerAssumption DEF Init, Unused
<1>4. link \in [Runners -> Links]
  <2>1. NoLink \in Links
    BY EmptySeq, RunnerAssumption DEF NoLink, Links
  <2> QED BY <2>1 DEF Init
<1>5. thread \in [Threads -> Jobs] /\ WorkInv
  BY FixedJobs DEF Init, WorkInv, Working
<1>6. MainInv
  BY DEF Init, Idle, Mains, MainInv, Threads
<1> QED BY <1>1, <1>2, <1>3, <1>4, <1>5, <1>6 DEF Init, RunnerTypes

LEMMA UserTypes == RunnerTypes /\ User => RunnerTypes'
<1> SUFFICES ASSUME RunnerTypes, User PROVE RunnerTypes'
  OBVIOUS
<1>1. CASE \E r \in Runners, doa, spawns \in BOOLEAN : Run(r, doa, spawns)
  BY <1>1, RunTypes
<1>2. CASE \E r \in Runners : kill_process(r) \/ wait_process(r) \/ Joined(r)
  BY <1>2, ProcessTypes, WaitTypes
<1>3. CASE \E data \in Data : Analyze(data)
  BY <1>3, AnalyzeTypes
<1>4. CASE \E p \in Files, scopes \in SUBSET Scopes : ChangeFile(p, scopes) \/ MakeFile(p, scopes)
  BY <1>4, FilesTypes
<1>5. CASE \/ \E p, q \in Files : MoveFile(p, q)
           \/ \E p \in Files : RemoveFile(p) \/ BreakFile(p)
  BY <1>5, FilesTypes
<1> QED BY <1>1, <1>2, <1>3, <1>4, <1>5 DEF User

LEMMA RunnerTypesHold == Spec => []RunnerTypes
<1>1. RunnerTypes /\ [Next]_vars => RunnerTypes'
  <2> SUFFICES ASSUME RunnerTypes, [Next]_vars PROVE RunnerTypes'
    OBVIOUS
  <2>1. CASE User \/ Tell
    BY <2>1, UserTypes, TellTypes
  <2>2. CASE Storing(Main)
    BY <2>2, StoringTypes DEF Threads
  <2>3. CASE \E r \in Runners : Process(r) \/ Receiver(r)
    BY <2>3, ProcessTypes, ReceiverTypes
  <2>4. CASE UNCHANGED vars
    BY <2>4 DEF vars, RunnerTypes, WorkInv, MainInv, File, Scope
  <2> QED BY <2>1, <2>2, <2>3, <2>4 DEF Next
<1> QED BY <1>1, InitTypes, PTL DEF Spec

(* The variables of Runner keep their types: the object information stays   *)
(* a function on files and scopes, a receiver's port is one of those it may *)
(* try, and what is on its way is what a child can send.                   *)
THEOREM RunnerTypeCorrect == Spec => []TypeOK
<1>1. RunnerTypes => TypeOK
  BY DEF RunnerTypes, MainInv, Mains, Links, Jobs, TypeOK
<1> QED BY <1>1, RunnerTypesHold, PTL

-----------------------------------------------------------------------------
(* Why a receiving thread dies *)

(* A thread finds the entry it has seen or made, unless it is upset. *)
Secure(t) ==
  /\ thread[t].pc \in {"added", "scope", "make"} => File(t) \in DOMAIN db \/ t \in upset
  /\ thread[t].pc = "fetch" => Has(db, File(t), Scope(t)) \/ t \in upset

SecureInv == \A t \in Threads : Secure(t)

(* A thread that takes no step is as secure as before, when the database   *)
(* has kept the entry it is at work on, or when it is upset now.           *)
LEMMA StaysSecure ==
  ASSUME NEW t \in Threads, Secure(t), upset \subseteq upset',
         thread'[t].pc = thread[t].pc,
         thread[t].pc # "store" => thread'[t] = thread[t],
         File(t) \in DOMAIN db /\ t \in AtWork(File(t)) => File(t) \in DOMAIN db' \/ t \in upset',
         Has(db, File(t), Scope(t)) /\ t \in AtWork(File(t))
            => Has(db', File(t), Scope(t)) \/ t \in upset'
  PROVE  Secure(t)'
<1>1. thread[t].pc \in {"added", "scope", "make", "fetch"} => t \in AtWork(File(t))
  BY DEF AtWork
<1>2. thread[t].pc # "store" => File(t)' = File(t) /\ Scope(t)' = Scope(t)
  BY DEF File, Scope
<1> QED BY <1>1, <1>2 DEF Secure

(* All threads, when no thread takes a step. *)
LEMMA AllStaySecure ==
  ASSUME SecureInv, UNCHANGED <<db, thread>>, upset \subseteq upset'
  PROVE  SecureInv'
BY DEF SecureInv, Secure, File, Scope

LEMMA StoringSecure ==
  ASSUME RunnerTypes, SecureInv, NEW t \in Threads, Storing(t)
  PROVE  SecureInv'
<1>1. /\ thread \in [Threads -> Jobs] /\ thread[t] \in Jobs /\ Secure(t)
      /\ thread[t].pc \in {"scope", "create", "make", "fetch", "store"}
             => File(t) \in Files \union {Gone}
  BY DEF RunnerTypes, SecureInv, Jobs, Works, File
<1>2. CASE LookForFile(t)
  <2>1. PICK pc \in {"scope", "create"} :
           /\ thread' = [thread EXCEPT ![t].pc = pc]
           /\ pc = "scope" => File(t) \in DOMAIN db
    BY <1>2 DEF LookForFile, Goes
  <2> QED BY <1>1, <1>2, <2>1 DEF LookForFile, SecureInv, Secure, File, Scope, Jobs
<1>3. CASE CreateInfo(t)
  <2> DEFINE others == IF File(t) \in DOMAIN db THEN AtWork(File(t)) \ {t} ELSE {}
             held == Held(thread, others, Gone)
  <2>1. /\ thread[t].pc = "create" /\ db' = CreateFile(db, File(t))
        /\ upset' = upset \union others
        /\ thread' = [held EXCEPT ![t].pc = "added"]
    BY <1>3 DEF CreateInfo
  <2>2. held \in [Threads -> Jobs] /\ SameWork(thread, held)
    BY <1>1, HeldTypes
  <2> HIDE DEF held
  <2>3. ASSUME NEW u \in Threads, u # t PROVE thread'[u] = held[u]
    BY <2>1, <2>2, <2>3
  <2>4. thread'[t].pc = "added" /\ thread'[t].data = thread[t].data
    BY <2>1, <2>2 DEF SameWork, Jobs
  <2>5. DOMAIN db' = DOMAIN db \union {File(t)}
    BY <2>1, CreateFileKeeps
  <2>6. Secure(t)'
    BY <2>4, <2>5 DEF Secure, File
  <2>7. ASSUME NEW u \in Threads, u # t PROVE Secure(u)'
    <3>1. /\ Secure(u) /\ thread'[u].pc = thread[u].pc
          /\ thread[u].pc # "store" => thread'[u] = thread[u]
      BY <2>2, <2>3, <2>7 DEF SecureInv, SameWork
    <3>2. Has(db, File(u), Scope(u)) /\ u \in AtWork(File(u))
             => Has(db', File(u), Scope(u)) \/ u \in upset'
      <4>1. CASE File(u) # File(t)
        BY <2>1, <4>1, CreateFileKeeps
      <4>2. CASE File(u) = File(t)
        BY <2>1, <2>7, <4>2 DEF Has
      <4> QED BY <4>1, <4>2
    <3> QED BY <2>1, <2>5, <3>1, <3>2, StaysSecure
  <2> QED BY <2>6, <2>7 DEF SecureInv
<1>4. CASE FileAdded(t)
  <2>1. thread[t].pc = "added" /\ thread' = [thread EXCEPT ![t].pc = "scope"]
    BY <1>4 DEF FileAdded, Goes
  <2> QED BY <1>1, <1>4, <2>1 DEF FileAdded, SecureInv, Secure, File, Scope, Jobs
<1>5. ASSUME Fails(t), UNCHANGED <<db, upset>> PROVE SecureInv'
  <2>1. \A u \in Threads : u # t => thread'[u] = thread[u]
    BY <1>5 DEF Fails, RunnerTypes
  <2>2. \A u \in Threads : u # t => Secure(u)'
    BY <1>5, <2>1 DEF SecureInv, Secure, File, Scope
  <2>3. thread'[t].pc \in {"none", "dead"}
    BY <1>1, <1>5 DEF Fails, Off, At, Jobs
  <2> QED BY <2>2, <2>3 DEF SecureInv, Secure
<1>6. CASE LookForScope(t)
  <2>1. thread[t].pc = "scope" /\ UNCHANGED <<db, upset>>
    BY <1>6 DEF LookForScope
  <2>2. CASE File(t) \notin DOMAIN db
    BY <1>1, <1>5, <1>6, <2>1, <2>2 DEF LookForScope, Secure
  <2>3. CASE File(t) \in DOMAIN db
    <3>1. PICK pc \in {"fetch", "make"} :
             /\ thread' = [thread EXCEPT ![t].pc = pc]
             /\ pc = "fetch" => Has(db, File(t), Scope(t))
      BY <1>6, <2>3 DEF LookForScope, Goes
    <3> QED BY <1>1, <2>1, <2>3, <3>1 DEF SecureInv, Secure, File, Scope, Jobs
  <2> QED BY <2>2, <2>3
<1>7. CASE MakeScope(t)
  <2> DEFINE others == {u \in AtWork(File(t)) : Scope(u) = Scope(t)}
             held == Held(thread, others, Gone)
  <2>1. thread[t].pc = "make" /\ UNCHANGED upset
    BY <1>7 DEF MakeScope
  <2>2. CASE File(t) \notin DOMAIN db
    BY <1>1, <1>5, <1>7, <2>1, <2>2 DEF MakeScope, Secure
  <2>3. CASE File(t) \in DOMAIN db
    <3>1. /\ db' = CreateScope(db, File(t), Scope(t))
          /\ thread' = [held EXCEPT ![t].pc = "fetch"]
      BY <1>7, <2>3 DEF MakeScope
    <3>2. held \in [Threads -> Jobs] /\ SameWork(thread, held)
      BY <1>1, HeldTypes
    <3> HIDE DEF held
    <3>3. ASSUME NEW u \in Threads, u # t PROVE thread'[u] = held[u]
      BY <3>1, <3>2, <3>3
    <3>4. thread'[t].pc = "fetch" /\ thread'[t].data = thread[t].data
      BY <2>1, <3>1, <3>2 DEF SameWork, Jobs
    <3>5. Has(db', File(t), Scope(t))
      BY <2>3, <3>1, CreateScopeKeeps
    <3>6. Secure(t)'
      BY <3>4, <3>5 DEF Secure, File, Scope
    <3>7. ASSUME NEW u \in Threads, u # t PROVE Secure(u)'
      <4>1. /\ Secure(u) /\ thread'[u].pc = thread[u].pc
            /\ thread[u].pc # "store" => thread'[u] = thread[u]
        BY <3>2, <3>3, <3>7 DEF SecureInv, SameWork
      <4>2. /\ DOMAIN db' = DOMAIN db
            /\ Has(db, File(u), Scope(u)) => Has(db', File(u), Scope(u))
        BY <3>1, CreateScopeKeeps
      <4> QED BY <2>1, <4>1, <4>2, StaysSecure
    <3> QED BY <3>6, <3>7 DEF SecureInv
  <2> QED BY <2>2, <2>3
<1>8. CASE Fetch(t)
  <2>1. thread[t].pc = "fetch" /\ UNCHANGED <<db, upset>>
    BY <1>8 DEF Fetch
  <2>2. CASE ~Has(db, File(t), Scope(t))
    BY <1>1, <1>5, <1>8, <2>1, <2>2 DEF Fetch, Secure
  <2>3. CASE Has(db, File(t), Scope(t))
    <3>1. thread'[t].pc = "store" /\ \A u \in Threads : u # t => thread'[u] = thread[u]
      BY <1>1, <1>8, <2>3 DEF Fetch, Jobs
    <3> QED BY <2>1, <3>1 DEF SecureInv, Secure, File, Scope
  <2> QED BY <2>2, <2>3
<1>9. CASE Store(t)
  <2>1. /\ thread' = [thread EXCEPT ![t] = Stored(t)] /\ UNCHANGED upset
        /\ Stored(t).pc \in {"none", "read"}
        /\ \/ db' = db
           \/ db' = AddCall(db, thread[t].data.file, thread[t].data.scope, thread[t].data.returned)
    BY <1>9 DEF Store, Stored, Off, At
  <2>2. /\ DOMAIN db' = DOMAIN db
        /\ \A x, y : Has(db, x, y) => Has(db', x, y)
    BY <2>1, AddCallKeeps
  <2>3. Secure(t)'
    BY <1>1, <2>1 DEF Secure
  <2>4. ASSUME NEW u \in Threads, u # t PROVE Secure(u)'
    <3>1. Secure(u) /\ thread'[u] = thread[u]
      BY <1>1, <2>1, <2>4 DEF SecureInv
    <3> QED BY <2>1, <2>2, <3>1, StaysSecure
  <2> QED BY <2>3, <2>4 DEF SecureInv
<1> QED BY <1>2, <1>3, <1>4, <1>6, <1>7, <1>8, <1>9 DEF Storing

(* A notification upsets the threads whose entry it takes away. *)
LEMMA TellSecure ==
  ASSUME RunnerTypes, SecureInv, Tell
  PROVE  SecureInv'
<1> DEFINE p == main.from
           q == main.to
<1>1. thread \in [Threads -> Jobs] /\ p \in Files
  BY DEF RunnerTypes, MainInv, Tell, TellChanged, TellMoved, TellRemoved
<1>2. CASE UNCHANGED <<db, thread, upset>>
  BY <1>2, AllStaySecure
<1>3. CASE TellChanged /\ p \in table \ broken
  <2> DEFINE gone == {t \in AtWork(p) : Scope(t) \notin source[p]}
  <2>1. /\ db' = ValidateFile(db, p, source[p]) /\ upset' = upset \union gone
        /\ thread' = Held(thread, gone, Gone)
    BY <1>3 DEF TellChanged
  <2>2. SameWork(thread, thread')
    BY <1>1, <2>1, HeldTypes
  <2>3. ASSUME NEW t \in Threads PROVE Secure(t)'
    <3>1. /\ Secure(t) /\ thread'[t].pc = thread[t].pc
          /\ thread[t].pc # "store" => thread'[t] = thread[t]
      BY <2>2 DEF SecureInv, SameWork
    <3>2. DOMAIN db' = DOMAIN db
      BY <2>1, ValidateFileKeeps
    <3>3. Has(db, File(t), Scope(t)) /\ t \in AtWork(File(t))
            => Has(db', File(t), Scope(t)) \/ t \in upset'
      <4>1. CASE File(t) # p \/ Scope(t) \in source[p]
        BY <2>1, <4>1, ValidateFileKeeps
      <4>2. CASE File(t) = p /\ Scope(t) \notin source[p]
        BY <2>1, <4>2
      <4> QED BY <4>1, <4>2
    <3> QED BY <2>1, <3>1, <3>2, <3>3, StaysSecure
  <2> QED BY <2>3 DEF SecureInv
<1>4. CASE TellMoved /\ p \in table
  <2> DEFINE replaced == IF p \in DOMAIN db THEN AtWork(q) ELSE {}
             held == Held(thread, replaced, Gone)
  <2>1. /\ db' = RenameFile(db, p, q) /\ upset' = upset \union AtWork(p) \union replaced
        /\ thread' = Held(held, AtWork(p), q) /\ q \in Files
    BY <1>4 DEF TellMoved, RunnerTypes, MainInv
  <2>2. held \in [Threads -> Jobs] /\ SameWork(thread, held)
    BY <1>1, HeldTypes
  <2> HIDE DEF held
  <2>3. SameWork(held, thread')
    BY <2>1, <2>2, HeldTypes
  <2>4. ASSUME NEW t \in Threads PROVE Secure(t)'
    <3>1. /\ Secure(t) /\ thread'[t].pc = thread[t].pc
          /\ thread[t].pc # "store" => thread'[t] = thread[t]
      BY <2>2, <2>3 DEF SecureInv, SameWork
    <3>2. /\ File(t) \in DOMAIN db /\ t \in AtWork(File(t))
                => File(t) \in DOMAIN db' \/ t \in upset'
          /\ Has(db, File(t), Scope(t)) /\ t \in AtWork(File(t))
                => Has(db', File(t), Scope(t)) \/ t \in upset'
      <4>1. CASE p \notin DOMAIN db
        BY <2>1, <4>1, RenameFileKeeps
      <4>2. CASE p \in DOMAIN db /\ File(t) \in {p, q}
        BY <2>1, <4>2
      <4>3. CASE p \in DOMAIN db /\ File(t) \notin {p, q}
        <5>1. /\ p \in DOMAIN db /\ db' = RenameFile(db, p, q)
              /\ File(t) # p /\ File(t) # q
          BY <2>1, <4>3
        <5> HIDE DEF p, q
        <5>3. DOMAIN db' = (DOMAIN db \ {p}) \union {q}
          BY <5>1 DEF RenameFile
        <5>2. Has(db, File(t), Scope(t)) => Has(db', File(t), Scope(t))
          BY <5>1, <5>3 DEF RenameFile, Has
        <5> QED BY <5>1, <5>2, <5>3
      <4> QED BY <4>1, <4>2, <4>3
    <3> QED BY <2>1, <3>1, <3>2, StaysSecure
  <2> QED BY <2>4 DEF SecureInv
<1> QED BY <1>2, <1>3, <1>4 DEF Tell, TellChanged, TellMoved, TellRemoved

(* A thread that begins with something else is secure in it. *)
LEMMA NewJobSecure ==
  ASSUME RunnerTypes, SecureInv, NEW t \in Threads, NEW j,
         thread' = [thread EXCEPT ![t] = j], UNCHANGED db, upset \ {t} \subseteq upset',
         j.pc \notin {"added", "scope", "make", "fetch"}
  PROVE  SecureInv'
<1>1. \A u \in Threads : thread'[u] = IF u = t THEN j ELSE thread[u]
  BY DEF RunnerTypes
<1> QED BY <1>1 DEF SecureInv, Secure, File, Scope

LEMMA ReceiverSecure ==
  ASSUME RunnerTypes, SecureInv, NEW r \in Runners,
         Accept(r) \/ Receive(r) \/ Parse(r) \/ EndOfStream(r) \/ Notify(r)
  PROVE  SecureInv'
<1>1. r \in Threads /\ thread[r] \in Jobs
  BY DEF Threads, RunnerTypes
<1>2. ASSUME NEW pc \in {"read", "notify", "done"}, Goes(r, pc), UNCHANGED <<db, upset>>
      PROVE  SecureInv'
  <2> DEFINE j == [thread[r] EXCEPT !.pc = pc]
  <2>1. thread' = [thread EXCEPT ![r] = j] /\ j.pc = pc
    BY <1>1, <1>2 DEF Goes, RunnerTypes, Jobs
  <2> HIDE DEF j
  <2> QED BY <1>1, <1>2, <2>1, NewJobSecure
<1>3. CASE Receive(r)
  <2> DEFINE data == Head(link[r].sent)
             j == IF data = Garbage THEN At("dead", NoData, Nothing)
                  ELSE IF Exists(data.file) THEN At("parse", data, Nothing) ELSE thread[r]
  <2>1. /\ thread' = [thread EXCEPT ![r] = j] /\ UNCHANGED db
        /\ upset' = upset \ {r} /\ thread[r].pc = "read"
    BY <1>1, <1>3 DEF Receive, RunnerTypes
  <2>2. j.pc \in {"dead", "parse", "read"}
    BY <2>1 DEF At
  <2> HIDE DEF j
  <2> QED BY <1>1, <2>1, <2>2, NewJobSecure
<1>4. CASE Parse(r)
  <2>1. PICK j \in {At("file", thread[r].data, Nothing), At("read", NoData, Nothing),
                    [thread[r] EXCEPT !.pc = "dead"]} :
           thread' = [thread EXCEPT ![r] = j]
    BY <1>4, ParseSteps
  <2>2. j.pc \in {"file", "read", "dead"}
    <3>1. [thread[r] EXCEPT !.pc = "dead"].pc = "dead"
      BY <1>1 DEF Jobs
    <3>2. At("read", NoData, Nothing).pc = "read" /\ At("file", thread[r].data, Nothing).pc = "file"
      BY DEF At
    <3> QED BY <2>1, <3>1, <3>2
  <2>3. UNCHANGED <<db, upset>>
    BY <1>4 DEF Parse
  <2> QED BY <1>1, <2>1, <2>2, <2>3, NewJobSecure
<1> QED BY <1>2, <1>3, <1>4 DEF Accept, EndOfStream, Notify

LEMMA UserSecure ==
  ASSUME RunnerTypes, SecureInv, User
  PROVE  SecureInv'
<1>1. CASE UNCHANGED <<db, thread, upset>>
  BY <1>1, AllStaySecure
<1>2. ASSUME NEW r \in Runners, NEW doa \in BOOLEAN, NEW spawns \in BOOLEAN,
             Run(r, doa, spawns)
      PROVE  SecureInv'
  <2> DEFINE pc == IF doa THEN "accept" ELSE "none"
             j == [thread[r] EXCEPT !.pc = pc]
  <2>1. r \in Threads /\ thread[r] \in Jobs
    BY DEF Threads, RunnerTypes
  <2>2. thread' = [thread EXCEPT ![r] = j] /\ j.pc = pc /\ UNCHANGED <<db, upset>>
    BY <1>2, <2>1 DEF Run, RunnerTypes, Jobs
  <2>3. pc \in {"accept", "none"}
    OBVIOUS
  <2> HIDE DEF j, pc
  <2> QED BY <2>1, <2>2, <2>3, NewJobSecure
<1>3. ASSUME NEW data \in Data, Analyze(data) PROVE SecureInv'
  <2>1. /\ thread' = [thread EXCEPT ![Main] = At("file", data, Nothing)]
        /\ Main \in Threads /\ At("file", data, Nothing).pc = "file"
        /\ UNCHANGED <<db, upset>>
    BY <1>3 DEF Analyze, Threads, At
  <2> QED BY <2>1, NewJobSecure
<1>4. CASE \E r \in Runners : kill_process(r) \/ wait_process(r) \/ Joined(r)
  BY <1>1, <1>4 DEF kill_process, wait_process, Joined
<1>5. CASE \/ \E p \in Files, scopes \in SUBSET Scopes :
                 ChangeFile(p, scopes) \/ MakeFile(p, scopes)
           \/ \E p, q \in Files : MoveFile(p, q)
           \/ \E p \in Files : RemoveFile(p) \/ BreakFile(p)
  BY <1>1, <1>5 DEF ChangeFile, MakeFile, MoveFile, RemoveFile, BreakFile
<1> QED BY <1>2, <1>3, <1>4, <1>5 DEF User

LEMMA ProcessSecure ==
  ASSUME SecureInv, NEW r \in Runners, Process(r)
  PROVE  SecureInv'
<1>1. UNCHANGED <<db, thread, upset>>
  BY DEF Process, Connect, Exit, Send
<1> QED BY <1>1, AllStaySecure

(* add_callinfo leaves every other thread where it is, and fails only when  *)
(* the entry is not what the thread saw.                                   *)
LEMMA StoringDies ==
  ASSUME RunnerTypes, SecureInv, NEW t \in Threads, Storing(t), NEW u \in Threads,
         thread'[u].pc = "dead", thread[u].pc # "dead"
  PROVE  u \in upset
<1>1. /\ thread \in [Threads -> Jobs] /\ thread[t] \in Jobs /\ Secure(t)
  BY DEF RunnerTypes, SecureInv
<1>2. ASSUME NEW pc \in PCs \ {"dead"}, thread' = [thread EXCEPT ![t].pc = pc] PROVE FALSE
  BY <1>1, <1>2 DEF Jobs
<1>3. ASSUME NEW pc \in PCs \ {"dead"}, NEW threads,
             thread' = [Held(thread, threads, Gone) EXCEPT ![t].pc = pc]
      PROVE  FALSE
  <2> DEFINE held == Held(thread, threads, Gone)
  <2>1. held \in [Threads -> Jobs] /\ SameWork(thread, held)
    BY <1>1, HeldTypes
  <2>2. thread' = [held EXCEPT ![t].pc = pc]
    BY <1>3
  <2> HIDE DEF held
  <2>3. thread'[u].pc = IF u = t THEN pc ELSE held[u].pc
    BY <2>1, <2>2 DEF Jobs
  <2> QED BY <2>1, <2>3 DEF SameWork
<1>4. ASSUME Fails(t), t \in upset PROVE u \in upset
  BY <1>1, <1>4 DEF Fails
<1>5. CASE LookForFile(t)
  BY <1>2, <1>5 DEF LookForFile, Goes, PCs
<1>6. CASE CreateInfo(t)
  BY <1>3, <1>6 DEF CreateInfo, PCs
<1>7. CASE FileAdded(t)
  BY <1>2, <1>7 DEF FileAdded, Goes, PCs
<1>8. CASE LookForScope(t)
  BY <1>1, <1>2, <1>4, <1>8 DEF LookForScope, Goes, PCs, Secure
<1>9. CASE MakeScope(t)
  BY <1>1, <1>3, <1>4, <1>9 DEF MakeScope, PCs, Secure
<1>10. CASE Fetch(t)
  <2>1. CASE ~Has(db, File(t), Scope(t))
    BY <1>1, <1>4, <1>10, <2>1 DEF Fetch, Secure
  <2>2. CASE Has(db, File(t), Scope(t))
    <3>1. thread'[u].pc = IF u = t THEN "store" ELSE thread[u].pc
      BY <1>1, <1>10, <2>2 DEF Fetch, Jobs
    <3> QED BY <3>1
  <2> QED BY <2>1, <2>2
<1>11. CASE Store(t)
  <2>1. Stored(t).pc # "dead"
    BY DEF Stored, Off, At
  <2>2. thread'[u] = IF u = t THEN Stored(t) ELSE thread[u]
    BY <1>1, <1>11 DEF Store
  <2> QED BY <2>1, <2>2
<1> QED BY <1>5, <1>6, <1>7, <1>8, <1>9, <1>10, <1>11 DEF Storing

(* Calls of the main thread end no other thread. *)
LEMMA CallsDoNotKill ==
  ASSUME RunnerTypes, User \/ Tell, NEW u \in Threads, thread'[u].pc = "dead"
  PROVE  thread[u].pc = "dead"
<1>1. thread \in [Threads -> Jobs]
  BY DEF RunnerTypes
<1>2. CASE UNCHANGED thread
  BY <1>2
<1>3. ASSUME NEW r \in Runners, NEW doa \in BOOLEAN, NEW spawns \in BOOLEAN,
             Run(r, doa, spawns)
      PROVE  thread[u].pc = "dead"
  BY <1>1, <1>3 DEF Run, Jobs
<1>4. ASSUME NEW data \in Data, Analyze(data) PROVE thread[u].pc = "dead"
  BY <1>1, <1>4 DEF Analyze, At
<1>5. CASE User
  BY <1>2, <1>3, <1>4, <1>5 DEF User, kill_process, wait_process, Joined, ChangeFile,
     MakeFile, MoveFile, RemoveFile, BreakFile
<1>6. ASSUME NEW threads, NEW where \in Files \union {Gone},
             thread' = Held(thread, threads, where)
      PROVE  thread[u].pc = "dead"
  BY <1>1, <1>6, HeldTypes DEF SameWork
<1>7. CASE TellMoved
  <2>1. main.to \in Files
    BY <1>7 DEF RunnerTypes, MainInv, TellMoved
  <2>2. ASSUME NEW threads, NEW others,
               thread' = Held(Held(thread, threads, Gone), others, main.to)
        PROVE  thread[u].pc = "dead"
    <3> DEFINE held == Held(thread, threads, Gone)
    <3>1. held \in [Threads -> Jobs] /\ SameWork(thread, held)
      BY <1>1, HeldTypes
    <3>2. thread' = Held(held, others, main.to)
      BY <2>2
    <3> HIDE DEF held
    <3>3. SameWork(held, thread')
      BY <2>1, <3>1, <3>2, HeldTypes
    <3> QED BY <3>1, <3>3 DEF SameWork
  <2> QED BY <1>2, <1>7, <2>2 DEF TellMoved
<1>8. CASE TellChanged \/ TellRemoved
  BY <1>2, <1>6, <1>8 DEF TellChanged, TellRemoved
<1> QED BY <1>5, <1>7, <1>8 DEF Tell

(* A receiving thread dies of what it is told only when that is garbled, or *)
(* about a file no parser can have.                                        *)
LEMMA ReceiverDies ==
  ASSUME RunnerTypes, NEW r \in Runners, NEW u \in Threads,
         Accept(r) \/ Receive(r) \/ Parse(r) \/ EndOfStream(r) \/ Notify(r),
         thread'[u].pc = "dead", thread[u].pc # "dead"
  PROVE  \/ thread[u].pc = "read" /\ Garbled(u)
         \/ thread[u].pc = "parse" /\ Unreadable(File(u))
<1>1. thread \in [Threads -> Jobs] /\ r \in Threads /\ thread[r] \in Jobs
  BY DEF RunnerTypes, Threads
<1>2. CASE Accept(r) \/ EndOfStream(r) \/ Notify(r)
  BY <1>1, <1>2 DEF Accept, EndOfStream, Notify, Goes, Jobs
<1>3. CASE Receive(r)
  <2> DEFINE data == Head(link[r].sent)
             j == IF data = Garbage THEN At("dead", NoData, Nothing)
                  ELSE IF Exists(data.file) THEN At("parse", data, Nothing) ELSE thread[r]
  <2>1. /\ thread' = [thread EXCEPT ![r] = j]
        /\ thread[r].pc = "read" /\ link[r].sent # <<>>
    BY <1>1, <1>3 DEF Receive
  <2>2. j.pc = "dead" => data = Garbage
    BY <2>1 DEF At
  <2> HIDE DEF j
  <2>3. thread'[u] = IF u = r THEN j ELSE thread[u]
    BY <1>1, <2>1
  <2> QED BY <2>1, <2>2, <2>3 DEF Garbled
<1>4. CASE Parse(r)
  <2>1. u = r /\ thread[r].pc = "parse"
    <3>1. PICK j : thread' = [thread EXCEPT ![r] = j]
      BY <1>4, ParseSteps
    <3> QED BY <1>1, <1>4, <3>1 DEF Parse
  <2>2. CASE Unreadable(File(r))
    BY <2>1, <2>2
  <2>3. CASE \E found \in BOOLEAN :
              thread' = [thread EXCEPT ![r] = IF found THEN At("file", thread[r].data, Nothing)
                                              ELSE At("read", NoData, Nothing)]
    BY <1>1, <2>1, <2>3 DEF At
  <2> QED BY <1>4, <2>2, <2>3 DEF Parse
<1> QED BY <1>2, <1>3, <1>4

(* A receiving thread ends with an exception, and the finishing observers   *)
(* are not called, only when the stream is garbled, when the file it is    *)
(* told about is gone or does not parse at that moment, or when another     *)
(* thread or a notification has changed the entry of that file since the   *)
(* thread received what it works on: in all orders of the steps, every     *)
(* other check add_callinfo makes still holds when it is relied on.        *)
THEOREM DeathHasCause == Spec => DiesOfCauseOnly
<1>1. Init => SecureInv
  BY DEF Init, SecureInv, Secure, Off, At
<1>2. RunnerTypes /\ SecureInv /\ [Next]_vars => SecureInv'
  <2> SUFFICES ASSUME RunnerTypes, SecureInv, [Next]_vars PROVE SecureInv'
    OBVIOUS
  <2>1. CASE User \/ Tell
    BY <2>1, UserSecure, TellSecure
  <2>2. CASE Storing(Main)
    BY <2>2, StoringSecure DEF Threads
  <2>3. ASSUME NEW r \in Runners, Process(r) \/ Receiver(r) PROVE SecureInv'
    BY <2>3, ProcessSecure, ReceiverSecure, StoringSecure DEF Receiver, Threads
  <2>4. CASE UNCHANGED vars
    BY <2>4, AllStaySecure DEF vars
  <2> QED BY <2>1, <2>2, <2>3, <2>4 DEF Next
<1>3. ASSUME RunnerTypes, SecureInv, Next, NEW u \in Runners,
             thread'[u].pc = "dead", thread[u].pc # "dead"
      PROVE  \/ thread[u].pc = "read" /\ Garbled(u)
             \/ thread[u].pc = "parse" /\ Unreadable(File(u))
             \/ u \in upset
  <2>1. u \in Threads /\ Main \in Threads /\ \A r \in Runners : r \in Threads
    BY DEF Threads
  <2>2. CASE User \/ Tell
    BY <1>3, <2>1, <2>2, CallsDoNotKill
  <2>3. ASSUME NEW t \in Threads, Storing(t) PROVE u \in upset
    BY <1>3, <2>1, <2>3, StoringDies
  <2>4. ASSUME NEW r \in Runners, Process(r) PROVE FALSE
    <3>1. UNCHANGED thread
      BY <2>4 DEF Process, Connect, Exit, Send
    <3> QED BY <1>3, <3>1
  <2>5. ASSUME NEW r \in Runners,
               Accept(r) \/ Receive(r) \/ Parse(r) \/ EndOfStream(r) \/ Notify(r)
        PROVE  \/ thread[u].pc = "read" /\ Garbled(u)
               \/ thread[u].pc = "parse" /\ Unreadable(File(u))
    BY <1>3, <2>1, <2>5, ReceiverDies
  <2> QED BY <1>3, <2>1, <2>2, <2>3, <2>4, <2>5 DEF Next, Receiver
<1>4. RunnerTypes /\ SecureInv /\ [Next]_vars =>
        [\A r \in Runners :
           thread'[r].pc = "dead" /\ thread[r].pc # "dead" =>
             \/ thread[r].pc = "read" /\ Garbled(r)
             \/ thread[r].pc = "parse" /\ Unreadable(File(r))
             \/ r \in upset]_vars
  BY <1>3
<1> QED BY <1>1, <1>2, <1>4, RunnerTypesHold, PTL DEF Spec, DiesOfCauseOnly

-----------------------------------------------------------------------------
(* What is kept is watched *)

(* A path that a move or a removal has left is not used again, and what is *)
(* in the database or on its way there is about files that are there, or    *)
(* were.                                                                   *)
Seen(p) == Exists(p) \/ p \in used

SeenInv ==
  /\ \A p \in used : ~Exists(p)
  /\ \A p \in DOMAIN db : Seen(p)
  /\ \A t \in Threads : thread[t].pc \in Working => Seen(File(t))
  /\ main.pc \in {"moved", "removed"} => ~Exists(main.from)
  /\ main.pc = "moved" => Exists(main.to)

WatchInv == SeenInv /\ EntriesWatched

(* No entry and no announced one goes, and no watch. *)
LEMMA StaysWatched ==
  ASSUME EntriesWatched, table \subseteq table', DOMAIN db' \subseteq DOMAIN db,
         UNCHANGED source,
         \A t \in Threads : thread[t].pc = "added" => thread'[t] = thread[t]
  PROVE  EntriesWatched'
<1> SUFFICES ASSUME NEW p \in DOMAIN db', Exists(p)'
             PROVE  (p \in table \/ \E t \in Threads : thread[t].pc = "added" /\ File(t) = p)'
  BY DEF EntriesWatched
<1>1. p \in DOMAIN db /\ Exists(p)
  BY DEF Exists
<1>2. CASE p \in table
  BY <1>2
<1>3. CASE \E t \in Threads : thread[t].pc = "added" /\ File(t) = p
  BY <1>3 DEF File
<1> QED BY <1>1, <1>2, <1>3 DEF EntriesWatched

LEMMA StoringWatched ==
  ASSUME RunnerTypes, WatchInv, NEW t \in Threads, Storing(t)
  PROVE  WatchInv'
<1>1. /\ thread \in [Threads -> Jobs] /\ thread[t] \in Jobs
      /\ UNCHANGED <<source, used, main>>
  BY DEF RunnerTypes, Storing
<1>2. \A p : Exists(p)' = Exists(p) /\ Seen(p)' = Seen(p)
  BY <1>1 DEF Exists, Seen
<1>3. thread[t].pc \in Working => Seen(File(t))
  BY DEF WatchInv, SeenInv
<1>4. ASSUME /\ \A p \in DOMAIN db' : Seen(p)
             /\ \A u \in Threads : thread'[u].pc \in Working => Seen(File(u)')
      PROVE  SeenInv'
  BY <1>1, <1>2, <1>4 DEF WatchInv, SeenInv
<1>5. ASSUME UNCHANGED db, thread'[t].pc \in Working => thread[t].pc \in Working /\ File(t)' = File(t),
             \A u \in Threads : u # t => thread'[u] = thread[u]
      PROVE  SeenInv'
  BY <1>4, <1>5 DEF WatchInv, SeenInv, File
<1>6. CASE LookForFile(t) \/ LookForScope(t) \/ Fetch(t)
  <2>1. /\ UNCHANGED <<db, table>> /\ thread[t].pc \in Working /\ thread[t].pc # "added"
        /\ \A u \in Threads : u # t => thread'[u] = thread[u]
    BY <1>1, <1>6 DEF LookForFile, LookForScope, Fetch, Goes, Fails, Working
  <2>2. thread'[t].pc \in Working => File(t)' = File(t)
    BY <1>1, <1>6 DEF LookForFile, LookForScope, Fetch, Goes, Fails, File, Off, At, Working, Jobs
  <2> QED BY <1>1, <1>5, <2>1, <2>2, StaysWatched DEF WatchInv
<1>7. CASE CreateInfo(t)
  <2> DEFINE others == IF File(t) \in DOMAIN db THEN AtWork(File(t)) \ {t} ELSE {}
             held == Held(thread, others, Gone)
  <2>1. /\ thread[t].pc = "create" /\ db' = CreateFile(db, File(t)) /\ UNCHANGED table
        /\ thread' = [held EXCEPT ![t].pc = "added"]
    BY <1>7 DEF CreateInfo
  <2>2. held \in [Threads -> Jobs] /\ SameWork(thread, held)
    BY <1>1, HeldTypes
  <2> HIDE DEF held
  <2>3. ASSUME NEW u \in Threads, u # t, thread[u].pc # "store" PROVE thread'[u] = thread[u]
    BY <2>1, <2>2, <2>3 DEF SameWork
  <2>4. \A u \in Threads : u # t => thread'[u].pc = thread[u].pc
    BY <2>1, <2>2 DEF SameWork
  <2>5. thread'[t].pc = "added" /\ File(t)' = File(t)
    BY <2>1, <2>2 DEF SameWork, Jobs, File
  <2>6. DOMAIN db' = DOMAIN db \union {File(t)}
    BY <2>1, CreateFileKeeps
  <2>7. SeenInv'
    <3>1. Seen(File(t))
      BY <1>3, <2>1 DEF Working
    <3>2. \A u \in Threads : thread'[u].pc \in Working => Seen(File(u)')
      BY <2>3, <2>4, <2>5, <3>1 DEF WatchInv, SeenInv, File, Working
    <3> QED BY <1>4, <2>6, <3>1, <3>2 DEF WatchInv, SeenInv
  <2>8. EntriesWatched'
    <3> SUFFICES ASSUME NEW p \in DOMAIN db', Exists(p)'
                 PROVE  (p \in table \/ \E u \in Threads : thread[u].pc = "added" /\ File(u) = p)'
      BY DEF EntriesWatched
    <3>1. CASE p = File(t)
      BY <2>5, <3>1
    <3>2. CASE p # File(t)
      <4>1. p \in table \/ \E u \in Threads : thread[u].pc = "added" /\ File(u) = p
        BY <1>2, <2>6, <3>2 DEF WatchInv, EntriesWatched
      <4>2. ASSUME NEW u \in Threads, thread[u].pc = "added", File(u) = p
            PROVE  thread'[u].pc = "added" /\ File(u)' = p
        BY <2>1, <2>3, <4>2 DEF File
      <4> QED BY <2>1, <4>1, <4>2
    <3> QED BY <3>1, <3>2
  <2> QED BY <2>7, <2>8 DEF WatchInv
<1>8. CASE FileAdded(t)
  <2>1. /\ thread[t].pc = "added" /\ thread' = [thread EXCEPT ![t].pc = "scope"] /\ UNCHANGED db
        /\ table' = IF Exists(File(t)) THEN table \union {File(t)} ELSE table
    BY <1>8 DEF FileAdded, Goes
  <2>2. /\ \A u \in Threads : u # t => thread'[u] = thread[u]
        /\ File(t)' = File(t)
    BY <1>1, <2>1 DEF File, Jobs
  <2>3. SeenInv'
    BY <1>5, <2>1, <2>2 DEF Working
  <2>4. EntriesWatched'
    <3> SUFFICES ASSUME NEW p \in DOMAIN db, Exists(p)
                 PROVE  (p \in table \/ \E u \in Threads : thread[u].pc = "added" /\ File(u) = p)'
      BY <1>2, <2>1 DEF EntriesWatched
    <3>1. CASE p = File(t) \/ p \in table
      BY <2>1, <3>1
    <3>2. CASE ~(p = File(t) \/ p \in table)
      BY <2>2, <3>2 DEF WatchInv, EntriesWatched, File
    <3> QED BY <3>1, <3>2
  <2> QED BY <2>3, <2>4 DEF WatchInv
<1>9. CASE MakeScope(t)
  <2>1. CASE File(t) \notin DOMAIN db
    <3>1. /\ UNCHANGED <<db, table>> /\ thread[t].pc = "make"
          /\ \A u \in Threads : u # t => thread'[u] = thread[u]
      BY <1>1, <1>9, <2>1 DEF MakeScope, Fails
    <3>2. thread'[t].pc \notin Working
      BY <1>1, <1>9, <2>1 DEF MakeScope, Fails, Off, At, Working, Jobs
    <3> QED BY <1>1, <1>5, <3>1, <3>2, StaysWatched DEF WatchInv
  <2>2. CASE File(t) \in DOMAIN db
    <3> DEFINE others == {u \in AtWork(File(t)) : Scope(u) = Scope(t)}
               held == Held(thread, others, Gone)
    <3>1. /\ db' = CreateScope(db, File(t), Scope(t)) /\ UNCHANGED table
          /\ thread' = [held EXCEPT ![t].pc = "fetch"] /\ thread[t].pc = "make"
      BY <1>9, <2>2 DEF MakeScope
    <3>2. held \in [Threads -> Jobs] /\ SameWork(thread, held)
      BY <1>1, HeldTypes
    <3> HIDE DEF held
    <3>3. ASSUME NEW u \in Threads, u # t, thread[u].pc # "store" PROVE thread'[u] = thread[u]
      BY <3>1, <3>2, <3>3 DEF SameWork
    <3>4. \A u \in Threads : u # t => thread'[u].pc = thread[u].pc
      BY <3>1, <3>2 DEF SameWork
    <3>5. File(t)' = File(t)
      BY <3>1, <3>2 DEF SameWork, Jobs, File
    <3>6. DOMAIN db' = DOMAIN db
      BY <3>1, CreateScopeKeeps
    <3>7. SeenInv'
      <4>1. Seen(File(t))
        BY <1>3, <3>1 DEF Working
      <4>2. \A u \in Threads : thread'[u].pc \in Working => Seen(File(u)')
        BY <3>3, <3>4, <3>5, <4>1 DEF WatchInv, SeenInv, File, Working
      <4> QED BY <1>4, <3>6, <4>2 DEF WatchInv, SeenInv
    <3>8. EntriesWatched'
      BY <1>1, <3>1, <3>3, <3>6, StaysWatched DEF WatchInv
    <3> QED BY <3>7, <3>8 DEF WatchInv
  <2> QED BY <2>1, <2>2
<1>10. CASE Store(t)
  <2>1. /\ thread' = [thread EXCEPT ![t] = Stored(t)] /\ UNCHANGED table
        /\ Stored(t).pc \notin Working /\ thread[t].pc = "store"
        /\ \/ db' = db
           \/ db' = AddCall(db, thread[t].data.file, thread[t].data.scope, thread[t].data.returned)
    BY <1>10 DEF Store, Stored, Off, At, Working
  <2>2. DOMAIN db' = DOMAIN db
    BY <2>1, AddCallKeeps
  <2>3. \A u \in Threads : thread'[u] = IF u = t THEN Stored(t) ELSE thread[u]
    BY <1>1, <2>1
  <2>4. SeenInv'
    BY <1>4, <2>1, <2>2, <2>3 DEF WatchInv, SeenInv, File
  <2>5. EntriesWatched'
    BY <1>1, <2>1, <2>2, <2>3, StaysWatched DEF WatchInv
  <2> QED BY <2>4, <2>5 DEF WatchInv
<1> QED BY <1>6, <1>7, <1>8, <1>9, <1>10 DEF Storing

LEMMA TellWatched ==
  ASSUME RunnerTypes, WatchInv, Tell
  PROVE  WatchInv'
<1> DEFINE p == main.from
           q == main.to
<1>1. /\ thread \in [Threads -> Jobs] /\ UNCHANGED <<source, used>>
      /\ main'.pc = "idle"
  BY DEF RunnerTypes, Tell, TellChanged, TellMoved, TellRemoved, Idle
<1>2. \A x : Exists(x)' = Exists(x) /\ Seen(x)' = Seen(x)
  BY <1>1 DEF Exists, Seen
<1>3. SameWork(thread, thread')
  <2>1. SameWork(thread, thread)
    BY DEF SameWork
  <2>2. CASE TellChanged
    BY <1>1, <2>1, <2>2, HeldTypes DEF TellChanged
  <2>3. CASE TellMoved
    <3> DEFINE replaced == IF p \in DOMAIN db THEN AtWork(q) ELSE {}
               held == Held(thread, replaced, Gone)
    <3>1. held \in [Threads -> Jobs] /\ SameWork(thread, held)
      BY <1>1, HeldTypes
    <3>2. thread' = thread \/ (thread' = Held(held, AtWork(p), q) /\ q \in Files)
      BY <2>3 DEF TellMoved, RunnerTypes, MainInv
    <3> HIDE DEF held
    <3>3. thread' = thread \/ SameWork(held, thread')
      BY <3>1, <3>2, HeldTypes
    <3> QED BY <2>1, <3>1, <3>3 DEF SameWork
  <2>4. CASE TellRemoved
    BY <2>1, <2>4 DEF TellRemoved
  <2> QED BY <2>2, <2>3, <2>4 DEF Tell
<1>4. ASSUME \A x \in DOMAIN db' : Seen(x) PROVE SeenInv'
  <2>1. ASSUME NEW t \in Threads, thread'[t].pc \in Working PROVE Seen(File(t)')
    <3>1. thread'[t] = thread[t]
      BY <1>3, <2>1 DEF SameWork, Working
    <3> QED BY <2>1, <3>1 DEF WatchInv, SeenInv, File
  <2>2. \A x \in used' : ~Exists(x)'
    BY <1>1, <1>2 DEF WatchInv, SeenInv
  <2> QED BY <1>1, <1>2, <1>4, <2>1, <2>2 DEF SeenInv
<1>5. \A t \in Threads : thread[t].pc = "added" => thread'[t] = thread[t]
  BY <1>3 DEF SameWork
<1>6. CASE TellChanged
  <2>1. DOMAIN db' = DOMAIN db /\ UNCHANGED table
    BY <1>6, ValidateFileKeeps DEF TellChanged
  <2>2. EntriesWatched'
    BY <1>1, <1>5, <2>1, StaysWatched DEF WatchInv
  <2>3. SeenInv'
    BY <1>4, <2>1 DEF WatchInv, SeenInv
  <2> QED BY <2>2, <2>3 DEF WatchInv
<1>7. CASE TellMoved /\ p \notin table
  <2>1. UNCHANGED <<db, table>>
    BY <1>7 DEF TellMoved
  <2>2. EntriesWatched'
    BY <1>1, <1>5, <2>1, StaysWatched DEF WatchInv
  <2>3. SeenInv'
    BY <1>4, <2>1 DEF WatchInv, SeenInv
  <2> QED BY <2>2, <2>3 DEF WatchInv
<1>8. CASE TellMoved /\ p \in table
  <2>1. /\ db' = RenameFile(db, p, q) /\ table' = (table \ {p}) \union {q}
        /\ ~Exists(p) /\ Exists(q)
    BY <1>8 DEF TellMoved, WatchInv, SeenInv
  <2>2. DOMAIN db' \subseteq DOMAIN db \union {q}
    BY <2>1 DEF RenameFile
  <2>3. SeenInv'
    BY <1>4, <2>1, <2>2 DEF WatchInv, SeenInv, Seen
  <2>4. EntriesWatched'
    <3> SUFFICES ASSUME NEW x \in DOMAIN db', Exists(x)
                 PROVE  (x \in table \/ \E t \in Threads : thread[t].pc = "added" /\ File(t) = x)'
      BY <1>2 DEF EntriesWatched
    <3>1. CASE x = q
      BY <2>1, <3>1
    <3>2. CASE x # q
      <4>1. x \in DOMAIN db /\ x # p
        BY <2>1, <2>2, <3>2
      <4>2. x \in table \/ \E t \in Threads : thread[t].pc = "added" /\ File(t) = x
        BY <4>1 DEF WatchInv, EntriesWatched
      <4> QED BY <1>5, <2>1, <4>1, <4>2 DEF File
    <3> QED BY <3>1, <3>2
  <2> QED BY <2>3, <2>4 DEF WatchInv
<1>9. CASE TellRemoved
  <2>1. UNCHANGED <<db, thread>> /\ table' = table \ {p} /\ ~Exists(p)
    BY <1>9 DEF TellRemoved, WatchInv, SeenInv
  <2>2. SeenInv'
    BY <1>4, <2>1 DEF WatchInv, SeenInv
  <2>3. EntriesWatched'
    BY <1>2, <2>1 DEF WatchInv, EntriesWatched, File
  <2> QED BY <2>2, <2>3 DEF WatchInv
<1> QED BY <1>6, <1>7, <1>8, <1>9 DEF Tell

(* Calls of the main thread that leave the database alone. *)
LEMMA CallsWatched ==
  ASSUME RunnerTypes, WatchInv, UNCHANGED <<db, table, source, used>>,
         main' = main \/ main'.pc \in {"wait", "idle"},
         \A t \in Threads : \/ thread'[t] = thread[t]
                            \/ /\ thread[t].pc # "added"
                               /\ thread'[t].pc \in Working => Seen(thread'[t].data.file)
  PROVE  WatchInv'
<1>1. \A x : Exists(x)' = Exists(x) /\ Seen(x)' = Seen(x)
  BY DEF Exists, Seen
<1>2. EntriesWatched'
  BY StaysWatched DEF WatchInv
<1>3. ASSUME NEW t \in Threads, thread'[t].pc \in Working PROVE Seen(File(t)')
  <2>1. CASE thread'[t] = thread[t]
    BY <1>3, <2>1 DEF WatchInv, SeenInv, File
  <2>2. CASE thread'[t] # thread[t]
    BY <1>3, <2>2 DEF Seen, File
  <2> QED BY <2>1, <2>2
<1>4. SeenInv'
  BY <1>1, <1>3 DEF WatchInv, SeenInv
<1> QED BY <1>2, <1>4 DEF WatchInv

LEMMA ReceiverWatched ==
  ASSUME RunnerTypes, WatchInv, NEW r \in Runners,
         Accept(r) \/ Receive(r) \/ Parse(r) \/ EndOfStream(r) \/ Notify(r)
  PROVE  WatchInv'
<1>1. r \in Threads /\ thread \in [Threads -> Jobs] /\ thread[r] \in Jobs
  BY DEF Threads, RunnerTypes
<1>2. CASE Accept(r) \/ EndOfStream(r) \/ Notify(r)
  <2>1. /\ thread[r].pc # "added" /\ thread'[r].pc \notin Working
        /\ \A t \in Threads : t # r => thread'[t] = thread[t]
        /\ UNCHANGED <<db, table, source, used, main>>
    BY <1>1, <1>2 DEF Accept, EndOfStream, Notify, Goes, Working, Jobs
  <2> QED BY <2>1, CallsWatched
<1>3. CASE Receive(r)
  <2> DEFINE data == Head(link[r].sent)
             j == IF data = Garbage THEN At("dead", NoData, Nothing)
                  ELSE IF Exists(data.file) THEN At("parse", data, Nothing) ELSE thread[r]
  <2>1. /\ thread[r].pc = "read" /\ thread' = [thread EXCEPT ![r] = j]
        /\ UNCHANGED <<db, table, source, used, main>>
    BY <1>1, <1>3 DEF Receive
  <2>2. j.pc \in Working => Seen(j.data.file)
    BY <2>1 DEF At, Working, Seen
  <2> HIDE DEF j
  <2>3. \A t \in Threads : thread'[t] = IF t = r THEN j ELSE thread[t]
    BY <1>1, <2>1
  <2> QED BY <2>1, <2>2, <2>3, CallsWatched
<1>4. CASE Parse(r)
  <2>1. PICK j \in {At("file", thread[r].data, Nothing), At("read", NoData, Nothing),
                    [thread[r] EXCEPT !.pc = "dead"]} :
           thread' = [thread EXCEPT ![r] = j]
    BY <1>4, ParseSteps
  <2>2. /\ thread[r].pc = "parse" /\ UNCHANGED <<db, table, source, used, main>>
        /\ Seen(File(r))
    BY <1>1, <1>4 DEF Parse, WatchInv, SeenInv, Working
  <2>3. j.pc \in Working => Seen(j.data.file)
    <3>1. At("file", thread[r].data, Nothing).data.file = File(r)
      BY DEF At, File
    <3>2. At("read", NoData, Nothing).pc \notin Working
      BY DEF At, Working
    <3>3. [thread[r] EXCEPT !.pc = "dead"].pc \notin Working
      BY <1>1 DEF Jobs, Working
    <3> QED BY <2>1, <2>2, <3>1, <3>2, <3>3
  <2>4. \A t \in Threads : thread'[t] = IF t = r THEN j ELSE thread[t]
    BY <1>1, <2>1
  <2> QED BY <2>2, <2>3, <2>4, CallsWatched
<1> QED BY <1>2, <1>3, <1>4

LEMMA ProcessWatched ==
  ASSUME RunnerTypes, WatchInv, NEW r \in Runners,
         Process(r) \/ kill_process(r) \/ wait_process(r) \/ Joined(r)
  PROVE  WatchInv'
<1>1. UNCHANGED <<db, table, source, used, thread>>
  <2>1. CASE Process(r)
    BY <2>1 DEF Process, Connect, Exit, Send
  <2>2. CASE kill_process(r) \/ wait_process(r) \/ Joined(r)
    BY <2>2 DEF kill_process, wait_process, Joined
  <2> QED BY <2>1, <2>2
<1>2. main' = main \/ main'.pc \in {"wait", "idle"}
  <2>1. CASE Process(r)
    BY <2>1 DEF Process, Connect, Exit, Send
  <2>2. CASE kill_process(r)
    BY <2>2 DEF kill_process
  <2>3. CASE wait_process(r)
    BY <2>3 DEF wait_process, Idle
  <2>4. CASE Joined(r)
    BY <2>4 DEF Joined, Idle
  <2> QED BY <2>1, <2>2, <2>3, <2>4
<1> QED BY <1>1, <1>2, CallsWatched

(* A file that appears is not in the database, one that goes is not used    *)
(* again.                                                                  *)
LEMMA FilesWatched ==
  ASSUME RunnerTypes, WatchInv, "reuse" \notin Features,
         NEW p \in Files, NEW q \in Files, NEW scopes \in SUBSET Scopes,
         \/ ChangeFile(p, scopes) \/ MakeFile(p, scopes) \/ MoveFile(p, q)
         \/ RemoveFile(p) \/ BreakFile(p)
  PROVE  WatchInv'
<1>1. /\ UNCHANGED <<db, table, thread>> /\ main.pc = "idle"
      /\ source \in [Files -> {Gone} \union SUBSET Scopes]
      /\ DOMAIN db \subseteq Files /\ used \subseteq Files /\ scopes # Gone
      /\ \A t \in Threads : thread[t].pc \in Working => File(t) \in Files
      /\ \A t \in Threads : File(t)' = File(t)
  BY RunnerAssumption DEF MayChange, ChangeFile, MakeFile, MoveFile, RemoveFile, BreakFile, Idle,
     RunnerTypes, WorkInv, IsDB, File
<1>2. ASSUME /\ \A x \in Files : Seen(x) => Seen(x)'
             /\ \A x \in used' : ~Exists(x)'
             /\ \A x \in Files : Exists(x)' => Exists(x) \/ ~Seen(x)
             /\ main'.pc \in {"moved", "removed"} => ~Exists(main.from)'
             /\ main'.pc = "moved" => Exists(main.to)'
      PROVE  WatchInv'
  <2>1. \A x \in DOMAIN db : Seen(x)
    BY DEF WatchInv, SeenInv
  <2>2. \A t \in Threads : thread[t].pc \in Working => Seen(File(t))
    BY DEF WatchInv, SeenInv
  <2>3. (\A x \in DOMAIN db : Seen(x))'
    BY <1>1, <1>2, <2>1
  <2>4. (\A t \in Threads : thread[t].pc \in Working => Seen(File(t)))'
    BY <1>1, <1>2, <2>2
  <2>5. SeenInv'
    BY <1>2, <2>3, <2>4 DEF SeenInv
  <2>6. ASSUME NEW x \in DOMAIN db, Exists(x)'
        PROVE  (x \in table \/ \E t \in Threads : thread[t].pc = "added" /\ File(t) = x)'
    <3>1. Exists(x)
      BY <1>1, <1>2, <2>1, <2>6
    <3> QED BY <1>1, <3>1 DEF WatchInv, EntriesWatched
  <2> QED BY <1>1, <2>5, <2>6 DEF WatchInv, EntriesWatched
<1>3. CASE ChangeFile(p, scopes)
  <2>1. /\ source' = [source EXCEPT ![p] = scopes] /\ Exists(p) /\ used' = used
        /\ main'.pc = "changed"
    BY <1>3 DEF ChangeFile, Telling, Idle
  <2>2. \A x \in Files : Exists(x)' = Exists(x)
    BY <1>1, <2>1 DEF Exists
  <2> QED BY <1>1, <1>2, <2>1, <2>2 DEF WatchInv, SeenInv, Seen
<1>4. CASE MakeFile(p, scopes)
  <2>1. /\ source' = [source EXCEPT ![p] = scopes] /\ ~Exists(p) /\ p \notin used
        /\ UNCHANGED <<used, main>>
    BY <1>4 DEF MakeFile, Fresh
  <2>2. \A x \in Files : x # p => Exists(x)' = Exists(x)
    BY <1>1, <2>1 DEF Exists
  <2> QED BY <1>1, <1>2, <2>1, <2>2 DEF WatchInv, SeenInv, Seen
<1>5. CASE MoveFile(p, q)
  <2>1. /\ source' = [source EXCEPT ![p] = Gone, ![q] = source[p]]
        /\ Exists(p) /\ ~Exists(q) /\ q \notin used /\ used' = used \union {p}
        /\ main'.pc = "moved" /\ main'.from = p /\ main'.to = q
    BY <1>5 DEF MoveFile, Telling, Idle, Fresh
  <2>2. \A x \in Files : x \notin {p, q} => Exists(x)' = Exists(x)
    BY <1>1, <2>1 DEF Exists
  <2>3. ~Exists(p)' /\ Exists(q)'
    BY <1>1, <2>1 DEF Exists
  <2>4. ~Exists(main.from)' /\ Exists(main.to)'
    BY <2>1, <2>3 DEF Exists
  <2> QED BY <1>1, <1>2, <2>1, <2>2, <2>3, <2>4 DEF WatchInv, SeenInv, Seen
<1>6. CASE RemoveFile(p)
  <2>1. /\ source' = [source EXCEPT ![p] = Gone] /\ used' = used \union {p}
        /\ main'.pc = "removed" /\ main'.from = p
    BY <1>6 DEF RemoveFile, Telling, Idle
  <2>2. \A x \in Files : x # p => Exists(x)' = Exists(x)
    BY <1>1, <2>1 DEF Exists
  <2>3. ~Exists(p)' /\ ~Exists(main.from)'
    BY <1>1, <2>1 DEF Exists
  <2> QED BY <1>1, <1>2, <2>1, <2>2, <2>3 DEF WatchInv, SeenInv, Seen
<1>7. CASE BreakFile(p)
  <2>1. UNCHANGED <<source, used>> /\ main'.pc = "changed"
    BY <1>7 DEF BreakFile, Telling, Idle
  <2>2. \A x \in Files : Exists(x)' = Exists(x)
    BY <2>1 DEF Exists
  <2> QED BY <1>1, <1>2, <2>1, <2>2 DEF WatchInv, SeenInv, Seen
<1> QED BY <1>3, <1>4, <1>5, <1>6, <1>7

LEMMA UserWatched ==
  ASSUME RunnerTypes, WatchInv, "reuse" \notin Features, User
  PROVE  WatchInv'
<1>1. thread \in [Threads -> Jobs]
  BY DEF RunnerTypes
<1>2. ASSUME NEW r \in Runners, NEW doa \in BOOLEAN, NEW spawns \in BOOLEAN,
             Run(r, doa, spawns)
      PROVE  WatchInv'
  <2>1. r \in Threads /\ thread[r] = Off
    BY <1>2 DEF Run, Threads
  <2>2. /\ thread[r].pc # "added" /\ thread'[r].pc \notin Working
        /\ \A t \in Threads : t # r => thread'[t] = thread[t]
        /\ UNCHANGED <<db, table, source, used, main>>
    BY <1>1, <1>2, <2>1 DEF Run, Off, At, Working
  <2> QED BY <2>2, CallsWatched
<1>3. ASSUME NEW data \in Data, Analyze(data) PROVE WatchInv'
  <2> DEFINE j == At("file", data, Nothing)
  <2>1. /\ Main \in Threads /\ thread[Main] = Off /\ Seen(data.file)
        /\ thread' = [thread EXCEPT ![Main] = j]
        /\ UNCHANGED <<db, table, source, used, main>>
    BY <1>3 DEF Analyze, Threads, Unreadable, Seen
  <2>2. thread[Main].pc # "added" /\ j.data.file = data.file
    BY <2>1 DEF Off, At
  <2> HIDE DEF j
  <2>3. \A t \in Threads : thread'[t] = IF t = Main THEN j ELSE thread[t]
    BY <1>1, <2>1
  <2> QED BY <2>1, <2>2, <2>3, CallsWatched
<1>4. CASE \E r \in Runners : kill_process(r) \/ wait_process(r) \/ Joined(r)
  BY <1>4, ProcessWatched
<1>5. CASE \E p \in Files, scopes \in SUBSET Scopes : ChangeFile(p, scopes) \/ MakeFile(p, scopes)
  BY <1>5, FilesWatched
<1>6. CASE \E p, q \in Files : MoveFile(p, q)
  <2>1. {} \in SUBSET Scopes
    OBVIOUS
  <2> QED BY <1>6, <2>1, FilesWatched
<1>7. CASE \E p \in Files : RemoveFile(p) \/ BreakFile(p)
  <2>1. {} \in SUBSET Scopes
    OBVIOUS
  <2> QED BY <1>7, <2>1, FilesWatched
<1> QED BY <1>2, <1>3, <1>4, <1>5, <1>6, <1>7 DEF User

(* Every file information is kept about is watched, in every order of the  *)
(* steps of the receiving threads, of the notifications and of the moves of *)
(* files, while no path is used a second time: an entry that was stored    *)
(* for a file after it had moved away stays, unwatched, and would belong    *)
(* to the next file of this name.                                          *)
THEOREM EntriesAreWatched ==
  ASSUME "reuse" \notin Features
  PROVE  Spec => []EntriesWatched
<1>1. Init => WatchInv
  <2> SUFFICES ASSUME Init PROVE WatchInv
    OBVIOUS
  <2>1. DOMAIN db = {} /\ used = {} /\ main.pc = "idle"
    BY DEF Init, Idle
  <2>2. \A t \in Threads : thread[t].pc \notin Working
    BY DEF Init, Off, At, Working
  <2> QED BY <2>1, <2>2 DEF WatchInv, SeenInv, EntriesWatched
<1>2. RunnerTypes /\ WatchInv /\ [Next]_vars => WatchInv'
  <2> SUFFICES ASSUME RunnerTypes, WatchInv, [Next]_vars PROVE WatchInv'
    OBVIOUS
  <2>1. CASE User \/ Tell
    BY <2>1, UserWatched, TellWatched
  <2>2. CASE Storing(Main)
    BY <2>2, StoringWatched DEF Threads
  <2>3. ASSUME NEW r \in Runners, Process(r) \/ Receiver(r) PROVE WatchInv'
    BY <2>3, ProcessWatched, ReceiverWatched, StoringWatched DEF Receiver, Threads
  <2>4. CASE UNCHANGED vars
    <3>1. UNCHANGED <<db, table, source, used, thread, main>>
      BY <2>4 DEF vars
    <3> QED BY <3>1, CallsWatched
  <2> QED BY <2>1, <2>2, <2>3, <2>4 DEF Next
<1>3. WatchInv => EntriesWatched
  BY DEF WatchInv
<1> QED BY <1>1, <1>2, <1>3, RunnerTypesHold, PTL DEF Spec

-----------------------------------------------------------------------------
(* What is known stays known *)

(* What the operations of the database leave of what is known. *)
LEMMA CreateFileKnown ==
  ASSUME NEW d, NEW p, NEW x, NEW y, x # p, Known(d, x, y)
  PROVE  Known(CreateFile(d, p), x, y)
BY DEF CreateFile, Known, Has

LEMMA CreateScopeKnown ==
  ASSUME NEW d, NEW p, NEW k, NEW x, NEW y, x # p \/ y # k, Known(d, x, y)
  PROVE  Known(CreateScope(d, p, k), x, y)
BY DEF CreateScope, Known, Has

LEMMA AddCallKnown ==
  ASSUME NEW d, NEW p, NEW k, NEW v, NEW x, NEW y,
         x # p \/ y # k \/ v \in Values, Known(d, x, y)
  PROVE  Known(AddCall(d, p, k, v), x, y)
BY DEF AddCall, Known, Has

LEMMA ValidateFileKnown ==
  ASSUME NEW d, NEW p, NEW valid, NEW x, NEW y, x # p \/ y \in valid, Known(d, x, y)
  PROVE  Known(ValidateFile(d, p, valid), x, y)
BY DEF ValidateFile, Restrict, Known, Has

LEMMA RenameFileKnown ==
  ASSUME NEW d, NEW p, NEW q, NEW x, NEW y, x # q \/ p = q, Known(d, x, y)
  PROVE  Known(RenameFile(d, p, q), IF x = p THEN q ELSE x, y)
BY DEF RenameFile, Known, Has

(* One of the ways in which p's result of k may be lost. *)
Excused(p, k) ==
  \/ main.pc = "changed" /\ main.from = p /\ k \notin source[p] /\ p \notin broken
  \/ main.pc = "moved" /\ main.from = p /\ Known(db', main.to, k)
  \/ main.pc = "moved" /\ main.to = p
  \/ \E t \in Threads : SawOld(t, p, k) /\ thread'[t] # thread[t]

(* A thread that stores something loses only what it had not seen. *)
LEMMA StoringKnown ==
  ASSUME RunnerTypes, NEW t \in Threads, Storing(t),
         NEW p \in Files, NEW k \in Scopes, Known(db, p, k), ~Known(db', p, k)
  PROVE  SawOld(t, p, k) /\ thread'[t] # thread[t]
<1>0. thread[t] \in Jobs /\ thread \in [Threads -> Jobs]
  BY DEF RunnerTypes
<1>1. CASE LookForFile(t) \/ FileAdded(t) \/ LookForScope(t) \/ Fetch(t)
  BY <1>1 DEF LookForFile, FileAdded, LookForScope, Fetch
<1>2. CASE CreateInfo(t)
  <2> DEFINE others == IF File(t) \in DOMAIN db THEN AtWork(File(t)) \ {t} ELSE {}
             held == Held(thread, others, Gone)
  <2>1. /\ thread[t].pc = "create" /\ db' = CreateFile(db, File(t))
        /\ thread' = [held EXCEPT ![t].pc = "added"]
    BY <1>2 DEF CreateInfo
  <2>2. held \in [Threads -> Jobs]
    BY <1>0, HeldTypes
  <2> HIDE DEF held
  <2>3. thread'[t].pc = "added"
    BY <2>1, <2>2 DEF Jobs
  <2>4. File(t) = p
    BY <2>1, CreateFileKnown
  <2> QED BY <2>1, <2>3, <2>4 DEF SawOld
<1>3. CASE MakeScope(t)
  <2> DEFINE others == {u \in AtWork(File(t)) : Scope(u) = Scope(t)}
             held == Held(thread, others, Gone)
  <2>1. /\ thread[t].pc = "make" /\ db' = CreateScope(db, File(t), Scope(t))
        /\ thread' = [held EXCEPT ![t].pc = "fetch"]
    BY <1>3 DEF MakeScope
  <2>2. held \in [Threads -> Jobs]
    BY <1>0, HeldTypes
  <2> HIDE DEF held
  <2>3. thread'[t].pc = "fetch"
    BY <2>1, <2>2 DEF Jobs
  <2>4. File(t) = p /\ Scope(t) = k
    BY <2>1, CreateScopeKnown
  <2> QED BY <2>1, <2>3, <2>4 DEF SawOld
<1>4. CASE Store(t)
  <2> DEFINE data == thread[t].data
  <2>1. /\ thread[t].pc = "store" /\ IsMoreValid(data.returned, thread[t].old)
        /\ db' = AddCall(db, data.file, data.scope, data.returned)
        /\ thread' = [thread EXCEPT ![t] = Stored(t)]
    BY <1>4 DEF Store
  <2>2. File(t) = p /\ Scope(t) = k /\ data.returned \notin Values
    BY <2>1, AddCallKnown DEF File, Scope
  <2>3. data.returned = Unknown
    BY <1>0, <2>2 DEF Jobs, Works, Returned
  <2>4. thread[t].old = Nothing
    BY <2>1, <2>3 DEF IsMoreValid
  <2>5. thread[t].old # db[p][k]
    BY <2>4, ValuesAssumption DEF Known
  <2>6. thread'[t].pc # "store"
    BY <1>0, <2>1 DEF Stored, Off, At
  <2> QED BY <2>1, <2>2, <2>5, <2>6 DEF SawOld
<1> QED BY <1>1, <1>2, <1>3, <1>4 DEF Storing

(* A notification lets the entry follow its file. *)
LEMMA TellKnown ==
  ASSUME RunnerTypes, Tell,
         NEW p \in Files, NEW k \in Scopes, Known(db, p, k), ~Known(db', p, k)
  PROVE  Excused(p, k)
<1>1. CASE TellChanged
  <2>1. /\ main.pc = "changed" /\ db' = ValidateFile(db, main.from, source[main.from])
        /\ main.from \notin broken
    BY <1>1 DEF TellChanged
  <2>2. main.from = p /\ k \notin source[main.from]
    BY <2>1, ValidateFileKnown
  <2> QED BY <2>1, <2>2 DEF Excused
<1>2. CASE TellMoved
  <2>1. main.pc = "moved" /\ db' = RenameFile(db, main.from, main.to)
    BY <1>2 DEF TellMoved
  <2>2. CASE main.to = p
    BY <2>1, <2>2 DEF Excused
  <2>3. CASE main.to # p
    <3>1. Known(db', IF p = main.from THEN main.to ELSE p, k)
      BY <2>1, <2>3, RenameFileKnown
    <3>2. p = main.from
      BY <3>1
    <3> QED BY <2>1, <3>1, <3>2 DEF Excused
  <2> QED BY <2>2, <2>3
<1>3. CASE TellRemoved
  BY <1>3 DEF TellRemoved
<1> QED BY <1>1, <1>2, <1>3 DEF Tell

(* What is known of a function's results stays known until the function is *)
(* gone from its file, and follows a file that is moved, for any number of *)
(* runs, files and values; a thread that loses it looked for the entry, or *)
(* read it, before somebody else stored something, or the file is moved to *)
(* where an entry is already (add_callinfo, file_moved, validate_file).    *)
THEOREM KnownResultsStay == Spec => KnowledgeStays
<1>1. ASSUME RunnerTypes, [Next]_vars,
             NEW p \in Files, NEW k \in Scopes, Known(db, p, k)
      PROVE  Known(db', p, k) \/ Excused(p, k)
  <2>1. CASE db' = db
    BY <1>1, <2>1
  <2>2. CASE Tell
    BY <1>1, <2>2, TellKnown
  <2>3. ASSUME NEW t \in Threads, Storing(t) PROVE Known(db', p, k) \/ Excused(p, k)
    BY <1>1, <2>3, StoringKnown DEF Excused
  <2>4. CASE Storing(Main)
    BY <2>3, <2>4 DEF Threads
  <2>5. ASSUME NEW r \in Runners, Process(r) \/ Receiver(r)
        PROVE  Known(db', p, k) \/ Excused(p, k)
    <3>1. CASE Storing(r)
      BY <2>3, <3>1 DEF Threads
    <3>2. CASE ~Storing(r)
      <4>1. db' = db
        BY <2>5, <3>2 DEF Process, Connect, Exit, Send, Receiver, Accept, Receive,
                          Parse, EndOfStream, Notify
      <4> QED BY <2>1, <4>1
    <3> QED BY <3>1, <3>2
  <2>6. CASE User \/ UNCHANGED vars
    <3>1. db' = db
      BY <2>6 DEF User, Run, kill_process, wait_process, Joined, Analyze, ChangeFile,
                  MakeFile, MoveFile, RemoveFile, BreakFile, vars
    <3> QED BY <2>1, <3>1
  <2> QED BY <1>1, <2>2, <2>4, <2>5, <2>6 DEF Next
<1>2. RunnerTypes /\ [Next]_vars =>
        [\A p \in Files, k \in Scopes :
           Known(db, p, k) =>
             \/ Known(db', p, k)
             \/ main.pc = "changed" /\ main.from = p /\ k \notin source[p] /\ p \notin broken
             \/ main.pc = "moved" /\ main.from = p /\ Known(db', main.to, k)
             \/ main.pc = "moved" /\ main.to = p
             \/ \E t \in Threads : SawOld(t, p, k) /\ thread'[t] # thread[t]]_vars
  BY <1>1 DEF Excused
<1> QED BY <1>2, RunnerTypesHold, PTL DEF Spec, KnowledgeStays
=============================================================================
