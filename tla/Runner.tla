------------------------------- MODULE Runner -------------------------------
(***************************************************************************)
(* Running a module of the project (PyCore.run_module, doa.                *)
(* PythonFileRunner): a child process runs it and sends what its functions *)
(* return over a socket; a thread of rope receives this and stores it in   *)
(* the object information, beside the main thread, which waits for the     *)
(* child, kills it, or goes on changing the project's files and thereby    *)
(* the object information.                                                 *)
(*                                                                         *)
(* A step of a thread is what it does between two looks at the shared      *)
(* dictionaries; Python switches threads anywhere between bytecodes.       *)
(***************************************************************************)
EXTENDS Naturals, Sequences, ObjectDB

CONSTANTS Runners,   \* the runs of this instance
          Main,      \* the main thread as one that stores information
          Gone,      \* no file, no scope
          Garbage,   \* what pickle.load cannot read
          Ports,     \* bound: how many ports a receiver tries (3037..3999)
          MaxSent,   \* bound: what a child sends
          MaxOps,    \* bound: changes of the project's files
          Features   \* what may happen, see below

(* "broken": a file is changed to something that does not parse;           *)
(* "early_end": the child ends, or is killed, before it has connected;     *)
(* "garbage": threads of the child send at once and garble the stream;     *)
(* "overlap": a run begins before the one before it is over;                *)
(* "analysis": the main thread stores information, too;                    *)
(* "reuse": a path that was moved away or removed is used again.           *)
ASSUME RunnerAssumption ==
  /\ Main \notin Runners
  /\ Gone \notin Files \union Scopes /\ \A scopes \in SUBSET Scopes : scopes # Gone
  /\ Ports \in Nat /\ MaxSent \in Nat /\ MaxOps \in Nat
  /\ Features \subseteq {"broken", "early_end", "garbage", "overlap", "analysis", "reuse"}

VARIABLES source,   \* file -> the functions it defines, or Gone; of a broken
                    \* file, those it defined when it was last parsed
          broken,   \* the files that do not parse
          db,       \* the object information
          table,    \* the files the observer of the object information watches
          child,    \* run -> its process
          port,     \* run -> the port its receiver is bound to
          link,     \* run -> the connection and what is on its way
          thread,   \* thread -> what it stores and how far it is
          main,     \* what the main thread is at
          used,     \* paths that were gone once
          upset,    \* threads for whose file the entry was changed by
                    \* another since they received what they work on
          ops       \* changes of the project's files so far

vars == <<source, broken, db, table, child, port, link, thread, main, used, upset, ops>>

Data == [file : Files, scope : Scopes, returned : Returned]
Threads == Runners \union {Main}

NoData == [file |-> Gone, scope |-> Gone, returned |-> Unknown]
At(pc, data, old) == [pc |-> pc, data |-> data, old |-> old]
Off == At("none", NoData, Nothing)
NoLink == [connected |-> FALSE, sent |-> <<>>, count |-> 0]
Idle == [pc |-> "idle", run |-> Main, from |-> Gone, to |-> Gone]

Exists(p) == source[p] # Gone
File(t) == thread[t].data.file
Scope(t) == thread[t].data.scope
HasDoa(r) == thread[r].pc # "none"
Unused == Ports + 1    \* listen on a socket that no bind succeeded for

(* The child is over and its receiver waits for it to connect. *)
Unheard(r) == child[r] \in {"failed", "ended"} /\ ~link[r].connected /\ thread[r].pc = "accept"
Over(r) == thread[r].pc \in {"none", "done", "dead"} \/ Unheard(r)

-----------------------------------------------------------------------------
(* PythonFileRunner.run *)

(* The first port no other receiver is bound to: a receiver closes its     *)
(* socket when the child has connected.                                    *)
TakenPorts == {port[r] : r \in {s \in Runners : thread[s].pc = "accept"}}
(* Mutant: the last port is given up too early and one more is tried. *)
FreePort_Past ==
  LET free == (1..Ports) \ TakenPorts
  IN IF free = {} THEN Unused + 1 ELSE CHOOSE n \in free : \A m \in free : n <= m

FreePort ==
  LET free == (1..Ports) \ TakenPorts
  IN IF free = {} THEN Unused ELSE CHOOSE n \in free : \A m \in free : n <= m

(* run: with analyze_data the socket and the thread come before the child; *)
(* Popen raises when the folder of the file is gone.                       *)
Run(r, doa, spawns) ==
  /\ main = Idle /\ thread[Main] = Off
  /\ child[r] = "none" /\ thread[r] = Off
  /\ "overlap" \in Features \/ \A s \in Runners \ {r} : Over(s)
  /\ spawns \/ "early_end" \in Features
  /\ thread' = [thread EXCEPT ![r].pc = IF doa THEN "accept" ELSE "none"]
  /\ port' = [port EXCEPT ![r] = IF doa THEN FreePort ELSE 0]
  /\ child' = [child EXCEPT ![r] = IF spawns THEN "running" ELSE "failed"]
  /\ UNCHANGED <<source, broken, db, table, link, main, used, upset, ops>>

(* The child process, runmod.py. *)
Connect(r) ==
  /\ child[r] = "running" /\ HasDoa(r) /\ ~link[r].connected
  /\ IF port[r] = Unused THEN /\ child' = [child EXCEPT ![r] = "ended"] /\ UNCHANGED link
     ELSE link' = [link EXCEPT ![r].connected = TRUE] /\ UNCHANGED child
  /\ UNCHANGED <<source, broken, db, table, port, thread, main, used, upset, ops>>

Send(r, data) ==
  /\ child[r] = "running" /\ link[r].connected /\ link[r].count < MaxSent
  /\ data = Garbage => "garbage" \in Features
  /\ link' = [link EXCEPT ![r].sent = Append(@, data), ![r].count = @ + 1]
  /\ UNCHANGED <<source, broken, db, table, child, port, thread, main, used, upset, ops>>

(* The program ends, by itself or with an exception. *)
Exit(r) ==
  /\ child[r] = "running"
  /\ link[r].connected \/ ~HasDoa(r) \/ "early_end" \in Features
  /\ child' = [child EXCEPT ![r] = "ended"]
  /\ UNCHANGED <<source, broken, db, table, port, link, thread, main, used, upset, ops>>

(* kill_process: what the child has buffered is lost with it. *)
kill_process(r) ==
  /\ main = Idle /\ thread[Main] = Off /\ child[r] = "running"
  /\ link[r].connected \/ ~HasDoa(r) \/ "early_end" \in Features
  /\ child' = [child EXCEPT ![r] = "ended"]
  /\ \E n \in 0..Len(link[r].sent) :
       link' = [link EXCEPT ![r].sent = SubSeq(@, 1, n)]
  /\ UNCHANGED <<source, broken, db, table, port, thread, main, used, upset, ops>>

(* wait_process: wait for the child, then join the thread. *)
wait_process(r) ==
  /\ main = Idle /\ thread[Main] = Off /\ child[r] \in {"running", "ended"}
  /\ main' = [Idle EXCEPT !.pc = "wait", !.run = r]
  /\ UNCHANGED <<source, broken, db, table, child, port, link, thread, used, upset, ops>>

Joined(r) ==
  /\ main.pc = "wait" /\ main.run = r
  /\ child[r] = "ended" /\ thread[r].pc \in {"none", "done", "dead"}
  /\ main' = Idle
  /\ UNCHANGED <<source, broken, db, table, child, port, link, thread, used, upset, ops>>

-----------------------------------------------------------------------------
(* The receiving thread: _receive_information over receive_data. *)
Goes(t, pc) == thread' = [thread EXCEPT ![t].pc = pc]

Accept(r) ==
  /\ thread[r].pc = "accept" /\ link[r].connected
  /\ Goes(r, "read")
  /\ UNCHANGED <<source, broken, db, table, child, port, link, main, used, upset, ops>>

Garbled(r) == link[r].sent # <<>> /\ Head(link[r].sent) = Garbage

(* What pickle.load cannot read ends the thread with an exception.         *)
(* doa_data_received ignores what is about a file that is not there        *)
(* (get_resource raises ResourceNotFoundError, which path_to_resource      *)
(* catches).                                                               *)
Receive(r) ==
  LET data == Head(link[r].sent)
  IN /\ thread[r].pc = "read" /\ link[r].sent # <<>>
     /\ link' = [link EXCEPT ![r].sent = Tail(@)]
     /\ thread' = [thread EXCEPT ![r] =
          IF data = Garbage THEN At("dead", NoData, Nothing)
          ELSE IF Exists(data.file) THEN At("parse", data, Nothing) ELSE @]
     /\ upset' = upset \ {r}
     /\ UNCHANGED <<source, broken, db, table, child, port, main, used, ops>>

(* No parser can have the file: ModuleSyntaxError, or IOError when it went *)
(* after get_resource had seen it.                                         *)
Unreadable(p) == ~Exists(p) \/ p \in broken

(* Until the observers are told, the module cache may hold what was there. *)
Untold(p) == main.pc \in {"changed", "moved", "removed"} /\ main.from = p

(* resource_to_pyobject, from the module cache or by parsing the file; no  *)
(* handler is around it, so that what it raises ends the thread.  What is  *)
(* not about a function of the file is ignored.                            *)
Parse(r) ==
  LET p == File(r)
      with(found) == IF found THEN At("file", thread[r].data, Nothing)
                     ELSE At("read", NoData, Nothing)
  IN /\ thread[r].pc = "parse"
     /\ \/ /\ ~Unreadable(p)
           /\ thread' = [thread EXCEPT ![r] = with(Scope(r) \in source[p])]
        \/ Unreadable(p) /\ Goes(r, "dead")
        \/ Untold(p) /\ \E found \in BOOLEAN : thread' = [thread EXCEPT ![r] = with(found)]
     /\ UNCHANGED <<source, broken, db, table, child, port, link, main, used, upset, ops>>

(* Mutant: the end of the stream is not noticed. *)
EndOfStream_Missed(r) ==
  /\ thread[r].pc = "read" /\ link[r].sent = <<>> /\ child[r] = "ended"
  /\ UNCHANGED vars

(* EOFError: the loop is left. *)
EndOfStream(r) ==
  /\ thread[r].pc = "read" /\ link[r].sent = <<>> /\ child[r] = "ended"
  /\ Goes(r, "notify")
  /\ UNCHANGED <<source, broken, db, table, child, port, link, main, used, upset, ops>>

(* The finishing observers; the module cache's forgets concluded data. *)
Notify(r) ==
  /\ thread[r].pc = "notify" /\ Goes(r, "done")
  /\ UNCHANGED <<source, broken, db, table, child, port, link, main, used, upset, ops>>

-----------------------------------------------------------------------------
(* ObjectDB.add_callinfo, by a receiving thread or, for function_called    *)
(* during static analysis, by the main thread.                             *)
Stored(t) == IF t = Main THEN Off ELSE At("read", NoData, Nothing)

(* A KeyError: the receiving thread is dead, the main thread's call failed. *)
Fails(t) == thread' = [thread EXCEPT ![t] = IF t = Main THEN Off ELSE [@ EXCEPT !.pc = "dead"]]

(* The threads at work on the entry of file p, and those that hold a       *)
(* ScopeInfo: where it is now, Gone when it has left the database.         *)
AtWork(p) ==
  {t \in Threads : /\ File(t) = p
                   /\ thread[t].pc \notin {"none", "read", "parse", "notify", "done", "dead"}}
Held(now, threads, where) ==
  [t \in Threads |-> IF t \in threads /\ now[t].pc = "store"
                     THEN [now[t] EXCEPT !.data.file = where] ELSE now[t]]

LookForFile(t) ==
  /\ thread[t].pc = "file"
  /\ Goes(t, IF File(t) \in DOMAIN db THEN "scope" ELSE "create")
  /\ UNCHANGED <<db, table, upset>>

CreateInfo(t) ==
  LET others == IF File(t) \in DOMAIN db THEN AtWork(File(t)) \ {t} ELSE {}
  IN /\ thread[t].pc = "create"
     /\ db' = CreateFile(db, File(t))
     /\ thread' = [Held(thread, others, Gone) EXCEPT ![t].pc = "added"]
     /\ upset' = upset \union others /\ UNCHANGED table

(* _FileListObserver.added *)
FileAdded(t) ==
  /\ thread[t].pc = "added"
  /\ table' = IF Exists(File(t)) THEN table \union {File(t)} ELSE table
  /\ Goes(t, "scope") /\ UNCHANGED <<db, upset>>

LookForScope(t) ==
  /\ thread[t].pc = "scope"
  /\ IF File(t) \notin DOMAIN db THEN Fails(t)
     ELSE Goes(t, IF Has(db, File(t), Scope(t)) THEN "fetch" ELSE "make")
  /\ UNCHANGED <<db, table, upset>>

MakeScope(t) ==
  LET others == {u \in AtWork(File(t)) : Scope(u) = Scope(t)}
  IN /\ thread[t].pc = "make"
     /\ IF File(t) \notin DOMAIN db THEN Fails(t) /\ UNCHANGED db
        ELSE /\ db' = CreateScope(db, File(t), Scope(t))
             /\ thread' = [Held(thread, others, Gone) EXCEPT ![t].pc = "fetch"]
     /\ UNCHANGED <<table, upset>>

(* get_returned of the scope; the thread holds the ScopeInfo from here on. *)
Fetch(t) ==
  /\ thread[t].pc = "fetch"
  /\ IF ~Has(db, File(t), Scope(t)) THEN Fails(t)
     ELSE thread' = [thread EXCEPT ![t].pc = "store", ![t].old = db[File(t)][Scope(t)]]
  /\ UNCHANGED <<db, table, upset>>

(* add_call on the ScopeInfo, which may have left the database by now. *)
Store(t) ==
  LET data == thread[t].data
      here == File(t) # Gone /\ Has(db, File(t), Scope(t))
  IN /\ thread[t].pc = "store"
     /\ db' = IF here /\ IsMoreValid(data.returned, thread[t].old)
              THEN AddCall(db, data.file, data.scope, data.returned) ELSE db
     /\ thread' = [thread EXCEPT ![t] = Stored(t)]
     /\ UNCHANGED <<table, upset>>

Storing(t) ==
  /\ \/ LookForFile(t) \/ CreateInfo(t) \/ FileAdded(t) \/ LookForScope(t)
     \/ MakeScope(t) \/ Fetch(t) \/ Store(t)
  /\ UNCHANGED <<source, broken, child, port, link, main, used, ops>>

(* function_called, while a module is analysed. *)
Analyze(data) ==
  /\ "analysis" \in Features /\ main = Idle /\ thread[Main] = Off
  /\ ~Unreadable(data.file) /\ data.scope \in source[data.file]
  /\ thread' = [thread EXCEPT ![Main] = At("file", data, Nothing)]
  /\ ops < MaxOps /\ ops' = ops + 1
  /\ UNCHANGED <<source, broken, db, table, child, port, link, main, used, upset>>

-----------------------------------------------------------------------------
(* The main thread changes a file, and then tells the observer, who has    *)
(* the object information follow.                                          *)
MayChange == main = Idle /\ thread[Main] = Off /\ ops < MaxOps
Telling(pc, from, to) == main' = [Idle EXCEPT !.pc = pc, !.from = from, !.to = to]
Fresh(p) == ~Exists(p) /\ (p \notin used \/ "reuse" \in Features)

ChangeFile(p, scopes) ==
  /\ MayChange /\ Exists(p) /\ (scopes # source[p] \/ p \in broken)
  /\ source' = [source EXCEPT ![p] = scopes] /\ broken' = broken \ {p}
  /\ Telling("changed", p, p)
  /\ ops' = ops + 1
  /\ UNCHANGED <<db, table, child, port, link, thread, used, upset>>

BreakFile(p) ==
  /\ "broken" \in Features /\ MayChange /\ Exists(p) /\ p \notin broken
  /\ broken' = broken \union {p} /\ Telling("changed", p, p)
  /\ ops' = ops + 1
  /\ UNCHANGED <<source, db, table, child, port, link, thread, used, upset>>

MoveFile(p, q) ==
  /\ MayChange /\ Exists(p) /\ Fresh(q)
  /\ source' = [source EXCEPT ![p] = Gone, ![q] = source[p]]
  /\ broken' = IF p \in broken THEN (broken \ {p}) \union {q} ELSE broken
  /\ Telling("moved", p, q)
  /\ used' = used \union {p} /\ ops' = ops + 1
  /\ UNCHANGED <<db, table, child, port, link, thread, upset>>

RemoveFile(p) ==
  /\ MayChange /\ Exists(p)
  /\ source' = [source EXCEPT ![p] = Gone] /\ broken' = broken \ {p}
  /\ Telling("removed", p, p)
  /\ used' = used \union {p} /\ ops' = ops + 1
  /\ UNCHANGED <<db, table, child, port, link, thread, upset>>

(* resource_created is not among the calls the observer passes on.  A      *)
(* program that parses is written; BreakFile may follow.                   *)
MakeFile(p, scopes) ==
  /\ MayChange /\ Fresh(p)
  /\ source' = [source EXCEPT ![p] = scopes] /\ ops' = ops + 1
  /\ UNCHANGED <<broken, db, table, child, port, link, thread, main, used, upset>>

(* _resource_changed: only a file in the table is looked at, and nothing   *)
(* goes when it does not parse.  A scope that goes takes the ScopeInfo a   *)
(* thread holds out of the database.                                       *)
TellChanged ==
  LET p == main.from
      gone == {t \in AtWork(p) : Scope(t) \notin source[p]}
  IN /\ main.pc = "changed" /\ main' = Idle
     /\ IF p \in table \ broken
        THEN /\ db' = ValidateFile(db, p, source[p]) /\ upset' = upset \union gone
             /\ thread' = Held(thread, gone, Gone)
        ELSE UNCHANGED <<db, upset, thread>>
     /\ UNCHANGED <<source, broken, table, child, port, link, used, ops>>

(* Mutant: the observer stays behind. *)
TellMoved_Unwatched ==
  LET p == main.from
  IN /\ main.pc = "moved" /\ main' = Idle
     /\ IF p \in table
        THEN /\ db' = RenameFile(db, p, main.to) /\ table' = table \ {p}
             /\ upset' = upset \union AtWork(p) /\ UNCHANGED thread
        ELSE UNCHANGED <<db, table, upset, thread>>
     /\ UNCHANGED <<source, broken, child, port, link, used, ops>>

(* _resource_moved with a new resource: file_moved, and the observer goes  *)
(* along; so does the ScopeInfo a thread holds.  The entry that is at the  *)
(* new path already is replaced.                                           *)
TellMoved ==
  LET p == main.from
      q == main.to
      replaced == IF p \in DOMAIN db THEN AtWork(q) ELSE {}
  IN /\ main.pc = "moved" /\ main' = Idle
     /\ IF p \in table
        THEN /\ db' = RenameFile(db, p, q)
             /\ table' = (table \ {p}) \union {q}
             /\ upset' = upset \union AtWork(p) \union replaced
             /\ thread' = Held(Held(thread, replaced, Gone), AtWork(p), q)
        ELSE UNCHANGED <<db, table, upset, thread>>
     /\ UNCHANGED <<source, broken, child, port, link, used, ops>>

(* Mutant: the entry goes with the file. *)
TellRemoved_Forgets ==
  LET p == main.from
  IN /\ main.pc = "removed" /\ main' = Idle
     /\ table' = table \ {p} /\ db' = Restrict(db, DOMAIN db \ {p})
     /\ UNCHANGED <<source, broken, child, port, link, thread, used, upset, ops>>

(* _resource_moved without one: the entry stays. *)
TellRemoved ==
  /\ main.pc = "removed" /\ main' = Idle
  /\ table' = table \ {main.from}
  /\ UNCHANGED <<source, broken, db, child, port, link, thread, used, upset, ops>>

-----------------------------------------------------------------------------
Init ==
  /\ source \in [Files -> {Gone, Scopes}] /\ broken = {}
  /\ \E p \in Files : Exists(p)
  /\ db = [x \in {} |-> Empty] /\ table = {}
  /\ child = [r \in Runners |-> "none"] /\ port = [r \in Runners |-> 0]
  /\ link = [r \in Runners |-> NoLink]
  /\ thread = [t \in Threads |-> Off] /\ main = Idle
  /\ used = {} /\ upset = {} /\ ops = 0

Process(r) == Connect(r) \/ Exit(r) \/ \E data \in Data \union {Garbage} : Send(r, data)
Receiver(r) == Accept(r) \/ Receive(r) \/ Parse(r) \/ EndOfStream(r) \/ Notify(r) \/ Storing(r)
Tell == TellChanged \/ TellMoved \/ TellRemoved

User ==
  \/ \E r \in Runners, doa, spawns \in BOOLEAN : Run(r, doa, spawns)
  \/ \E r \in Runners : kill_process(r) \/ wait_process(r) \/ Joined(r)
  \/ \E data \in Data : Analyze(data)
  \/ \E p \in Files, scopes \in SUBSET Scopes : ChangeFile(p, scopes) \/ MakeFile(p, scopes)
  \/ \E p, q \in Files : MoveFile(p, q)
  \/ \E p \in Files : RemoveFile(p) \/ BreakFile(p)

Next ==
  \/ User
  \/ Tell
  \/ Storing(Main)
  \/ \E r \in Runners : Process(r) \/ Receiver(r)

Spec == Init /\ [][Next]_vars

(* The receiving thread and the main thread inside a call go on; the       *)
(* program that is run ends, which the user counts on who waits for it.    *)
FairSpec ==
  /\ Spec
  /\ \A r \in Runners : /\ WF_vars(Receiver(r)) /\ WF_vars(Connect(r))
                        /\ WF_vars(Exit(r)) /\ WF_vars(Joined(r))
  /\ WF_vars(Tell) /\ WF_vars(Storing(Main))

-----------------------------------------------------------------------------
TypeOK ==
  /\ source \in [Files -> {Gone} \union SUBSET Scopes] /\ broken \subseteq Files
  /\ IsDB(db) /\ table \subseteq Files
  /\ child \in [Runners -> {"none", "running", "ended", "failed"}]
  /\ port \in [Runners -> 0..Unused]
  /\ \A r \in Runners : /\ link[r].sent \in Seq(Data \union {Garbage})
                        /\ link[r].count \in 0..MaxSent /\ link[r].connected \in BOOLEAN
  /\ \A t \in Threads : thread[t].old \in Returned \union {Nothing}
  /\ main.pc \in {"idle", "wait", "changed", "moved", "removed"}
  /\ used \subseteq Files /\ upset \subseteq Threads /\ ops \in 0..MaxOps

(* wait_process comes back, whatever the child sends and however it ends,  *)
(* unless the child ended before it connected (wait_process, kill_process, *)
(* _SocketReceiver).                                                       *)
WaitReturns ==
  \A r \in Runners : main.pc = "wait" /\ main.run = r ~> main = Idle \/ Unheard(r)

(* wait_process says that it waits "for the process to finish": it does    *)
(* not wait for ever once the process has.                                 *)
WaitsForProcessOnly ==
  \A r \in Runners : main.pc = "wait" /\ main.run = r ~> main = Idle

(* A thread acts on what it saw before somebody else stored something. *)
SawOld(t, p, k) ==
  /\ File(t) = p
  /\ \/ thread[t].pc = "create"
     \/ thread[t].pc = "make" /\ Scope(t) = k
     \/ thread[t].pc = "store" /\ Scope(t) = k /\ thread[t].old # db[p][k]

(* What is known of a function's results stays known until the function is *)
(* gone from its file, and follows a file that is moved.  Two interleavings *)
(* lose it: a thread looks for the entry, or reads it, before another one  *)
(* stores it, and makes or replaces it afterwards; and something is stored *)
(* for a file that was moved, before the entry follows it (add_callinfo,   *)
(* _get_scope_info, file_moved, validate_file).                            *)
KnowledgeStays ==
  [][\A p \in Files, k \in Scopes :
       Known(db, p, k) =>
         \/ Known(db', p, k)
         \/ main.pc = "changed" /\ main.from = p /\ k \notin source[p] /\ p \notin broken
         \/ main.pc = "moved" /\ main.from = p /\ Known(db', main.to, k)
         \/ main.pc = "moved" /\ main.to = p
         \/ \E t \in Threads : SawOld(t, p, k) /\ thread'[t] # thread[t]]_vars

(* Every file information is kept about is watched, so that it is checked  *)
(* when it changes and moved when it moves, except while the thread that   *)
(* created the entry has still to say so, and in no order of this and of a *)
(* move of the file (_get_scope_info, _file_added, _resource_moved).       *)
EntriesWatched ==
  \A p \in DOMAIN db :
    Exists(p) => \/ p \in table
                 \/ \E t \in Threads : thread[t].pc = "added" /\ File(t) = p

(* A receiving thread ends with an exception, the rest of the stream unread *)
(* and the finishing observers uncalled, only when the stream is garbled,   *)
(* when the file it is told about is gone or does not parse at that moment, *)
(* or when another thread or a notification has changed the entry of that   *)
(* file since the thread received what it stores: no check it makes of the  *)
(* object information is outdated by anything else (receive_data,           *)
(* doa_data_received, add_callinfo, _get_scope_info).                       *)
DiesOfCauseOnly ==
  [][\A r \in Runners :
       thread'[r].pc = "dead" /\ thread[r].pc # "dead" =>
         \/ thread[r].pc = "read" /\ Garbled(r)
         \/ thread[r].pc = "parse" /\ Unreadable(File(r))
         \/ r \in upset]_vars
=============================================================================
