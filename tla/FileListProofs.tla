---------------------------- MODULE FileListProofs ----------------------------
(***************************************************************************)
(* Theorems about FileList for every project directory, every set of calls *)
(* and every interleaving with another program: its type invariant; that   *)
(* the folders the cacher does not walk through again, because it knows    *)
(* them, are all in the table of some observer, also after exceptions that *)
(* left a report half done; for which calls an observer raises; and that   *)
(* between calls get_files lists what is in the directory, and nothing     *)
(* escapes the next validate.                                              *)
(***************************************************************************)
EXTENDS FileList, ChangesProofs, TLAPS

\* What the tables of the cacher's observers are about: folders, never files.
Folders == [path : Places, folder : {TRUE}]
AnyResource == [path : Places, folder : BOOLEAN]

Tables == UNION {[S -> Nat \cup {None}] : S \in SUBSET Folders}

DiskInv == clock \in Nat /\ mtime \in [Places -> Nat]

Kinds == {"changed", "created", "moved", "removed", "validate"}

EventInv ==
    /\ event.kind \in Kinds \cup {"none"}
    /\ event.res \in AnyResource
    /\ event.kind = "moved" => event.new \in AnyResource
    /\ pc \in {"deliver", "perform", "record"} => event.kind # "none"

TodoInv ==
    /\ todo.changed \subseteq Folders /\ todo.created \subseteq Folders
    /\ DOMAIN todo.moved \subseteq Folders
    /\ \A r \in DOMAIN todo.moved : todo.moved[r] \in AnyResource \cup {None}

TablesInv ==
    /\ tables \in Seq(Tables) /\ Len(tables) >= 1
    /\ folders \subseteq Places

ObservedInv == DiskInv /\ EventInv /\ TodoInv /\ TablesInv /\ KnownAreObserved

-----------------------------------------------------------------------------
(* Tables *)

\* A table is a function on its domain, which has folders only.
LEMMA TableFacts ==
    ASSUME NEW t \in Tables
    PROVE  /\ DOMAIN t \subseteq Folders
           /\ t = [r \in DOMAIN t |-> t[r]]
           /\ \A r \in DOMAIN t : t[r] \in Nat \cup {None}
BY DEF Tables

\* Giving a resource another indicator keeps the resources of the table.
LEMMA SetIndicator ==
    ASSUME NEW t \in Tables, NEW r, NEW v \in Nat \cup {None}
    PROVE  /\ [t EXCEPT ![r] = v] \in Tables
           /\ DOMAIN [t EXCEPT ![r] = v] = DOMAIN t
<1>1. PICK S \in SUBSET Folders : t \in [S -> Nat \cup {None}]
  BY DEF Tables
<1>2. [t EXCEPT ![r] = v] \in [S -> Nat \cup {None}]
  BY <1>1
<1> QED BY <1>1, <1>2 DEF Tables

\* add_resource adds the resources and keeps the others.
LEMMA WatchTable ==
    ASSUME NEW t \in Tables, NEW new \in SUBSET Folders, DiskInv
    PROVE  /\ Watch(t, new, mtime) \in Tables
           /\ DOMAIN Watch(t, new, mtime) = DOMAIN t \cup new
<1> DEFINE S == DOMAIN t \cup new
           f(r) == IF r \in new THEN mtime[r.path] ELSE t[r]
<1>1. S \in SUBSET Folders
  BY TableFacts
<1>2. \A r \in S : f(r) \in Nat \cup {None}
  BY TableFacts DEF Folders, DiskInv
<1>3. [r \in S |-> f(r)] \in [S -> Nat \cup {None}]
  BY <1>2
<1>4. Watch(t, new, mtime) = [r \in S |-> f(r)]
  BY DEF Watch
<1> QED BY <1>1, <1>3, <1>4 DEF Tables

\* remove_resource keeps the others.
LEMMA UnwatchTable ==
    ASSUME NEW t \in Tables, NEW gone
    PROVE  /\ Unwatch(t, gone) \in Tables
           /\ DOMAIN Unwatch(t, gone) = DOMAIN t \ gone
<1> DEFINE S == DOMAIN t \ gone
<1>1. S \in SUBSET Folders /\ \A r \in S : t[r] \in Nat \cup {None}
  BY TableFacts
<1>2. [r \in S |-> t[r]] \in [S -> Nat \cup {None}]
  BY <1>1
<1> QED BY <1>1, <1>2 DEF Unwatch, Tables

-----------------------------------------------------------------------------
(* _update_folder *)

\* What the cacher and its own observer have after a walk of a folder: the
\* known folders grow, and the observer has those that were added.
Grown(c, d) ==
    /\ d.own \in Tables /\ d.folders \subseteq Places
    /\ DOMAIN c.own \subseteq DOMAIN d.own
    /\ c.folders \subseteq d.folders
    /\ \A p \in d.folders \ c.folders : FolderAt(p) \in DOMAIN d.own

LEMMA WalkedPlaces ==
    ASSUME NEW p \in Places, NEW known
    PROVE  Walked(p, known) \subseteq Places
BY DEF Walked, Places

\* _update_folder observes every folder it adds.
LEMMA UpdateFolderGrows ==
    ASSUME DiskInv, NEW c, c.own \in Tables, c.folders \subseteq Places,
           NEW r \in AnyResource
    PROVE  Grown(c, UpdateFolder(c, r))
<1> DEFINE walked == Walked(r.path, c.folders)
           new == {FolderAt(p) : p \in walked \ c.folders}
<1>1. walked \subseteq Places
  BY WalkedPlaces DEF AnyResource
<1>2. new \subseteq Folders
  <2>1. \A p \in Places : FolderAt(p) \in Folders
    BY DEF FolderAt, Folders
  <2> HIDE DEF walked
  <2> QED BY <1>1, <2>1
<1>3. /\ Watch(c.own, new, mtime) \in Tables
      /\ DOMAIN Watch(c.own, new, mtime) = DOMAIN c.own \cup new
  BY <1>2, WatchTable
<1>4. CASE ~There(tree, r)
  BY <1>4 DEF UpdateFolder, Grown
<1>5. CASE There(tree, r)
  <2>1. /\ UpdateFolder(c, r).own = Watch(c.own, new, mtime)
        /\ UpdateFolder(c, r).folders = c.folders \cup walked
    BY <1>5 DEF UpdateFolder
  <2> HIDE DEF walked
  <2>2. \A p \in walked \ c.folders : FolderAt(p) \in new
    OBVIOUS
  <2> QED BY <1>1, <1>3, <2>1, <2>2 DEF Grown
<1> QED BY <1>4, <1>5

\* Two walks, one after the other.
LEMMA GrownTwice ==
    ASSUME NEW c, NEW d, NEW e, Grown(c, d), Grown(d, e)
    PROVE  Grown(c, e)
BY DEF Grown

\* A report leaves every known folder observed, when the tables it starts
\* from have the same resources.
LEMMA BecomesObserved ==
    ASSUME TablesInv, KnownAreObserved,
           NEW ts \in Seq(Tables), Len(ts) = Len(tables),
           \A i \in 1..Len(tables) : DOMAIN ts[i] = DOMAIN tables[i],
           NEW c, Grown(Cacher(ts), c), Shows(c, ts)
    PROVE  TablesInv' /\ KnownAreObserved'
<1>1. /\ 1 \in 1..Len(ts) /\ DOMAIN ts = 1..Len(ts) /\ DOMAIN tables = 1..Len(tables)
      /\ Len(ts) \in Nat
  BY LenProperties DEF TablesInv
<1>2. c.own \in Tables /\ DOMAIN ts[1] \subseteq DOMAIN c.own
  BY DEF Grown, Cacher
<1>3. /\ tables' \in Seq(Tables) /\ Len(tables') = Len(tables)
      /\ DOMAIN tables' = 1..Len(tables)
      /\ tables'[1] = c.own
      /\ \A i \in 1..Len(tables) : i # 1 => tables'[i] = ts[i]
  BY <1>1, <1>2, ExceptSeq, LenProperties DEF Shows
<1>4. folders' = c.folders /\ c.folders \subseteq Places
  BY DEF Grown, Shows
<1>5. ASSUME NEW p \in folders'
      PROVE  \E i \in DOMAIN tables' : FolderAt(p) \in DOMAIN tables'[i]
  <2>1. CASE p \in folders
    <3>1. PICK i \in DOMAIN tables : FolderAt(p) \in DOMAIN tables[i]
      BY <2>1 DEF KnownAreObserved
    <3>2. FolderAt(p) \in DOMAIN tables'[i]
      BY <1>1, <1>2, <1>3, <3>1
    <3> QED BY <1>1, <1>3, <3>2
  <2>2. CASE p \notin folders
    <3>1. FolderAt(p) \in DOMAIN c.own
      BY <1>4, <1>5, <2>2 DEF Grown, Cacher
    <3> QED BY <1>1, <1>3, <3>1
  <2> QED BY <2>1, <2>2
<1> QED BY <1>3, <1>4, <1>5 DEF TablesInv, KnownAreObserved

-----------------------------------------------------------------------------
(* What an observer finds to report *)

\* A resource of the table is a folder of the project.
LEMMA WatchedResources ==
    ASSUME TablesInv, NEW i \in DOMAIN tables
    PROVE  tables[i] \in Tables /\ DOMAIN tables[i] \subseteq Folders
<1>1. tables[i] \in Tables
  BY ElementOfSeq DEF TablesInv
<1> QED BY <1>1, TableFacts

\* What is reported is about resources of the table; what they became is a
\* resource of the project.
LEMMA CauseType ==
    ASSUME EventInv, NEW t \in Tables, ~CannotCause(t),
           event.kind # "none", todo' = Cause(t)
    PROVE  TodoInv'
<1>1. DOMAIN t \subseteq Folders
  BY TableFacts
<1>2. \A r : ChangedParent(t, r) \subseteq Folders
  BY <1>1 DEF ChangedParent
<1>3. DOMAIN NoMoves = {}
  BY DEF NoMoves
<1>4. CASE event.kind = "changed"
  BY <1>1, <1>2, <1>3, <1>4 DEF Cause, CausedByChanged, NoChanges, TodoInv
<1>5. CASE event.kind = "created"
  BY <1>1, <1>2, <1>3, <1>5 DEF Cause, CausedByCreated, NoChanges, TodoInv
<1>6. CASE event.kind = "moved"
  <2> DEFINE r == event.res
             new == event.new
             S == ({r} \cap DOMAIN t) \cup Inside(t, r)
             g(s) == IF s = r THEN new ELSE NewResource(tree, r, new, s)
  <2>1. todo' = CausedByMoved(tree, t, r, new)
    BY <1>6 DEF Cause
  <2>2. S \subseteq Folders
    BY <1>1 DEF Inside
  <2>3. ASSUME NEW s \in Inside(t, r) PROVE NewResource(tree, r, new, s) \in AnyResource
    <3>1. Rebased(r.path, new.path, s.path) \in Paths
      BY <1>6 DEF CannotCause, CannotFollow
    <3> QED BY <3>1 DEF NewResource, AnyResource, Places
  <2>4. \A s \in S : g(s) \in AnyResource
    BY <1>6, <2>3 DEF EventInv
  <2>5. todo'.moved = [s \in S |-> g(s)]
    BY <2>1 DEF CausedByMoved
  <2>6. todo'.changed \subseteq Folders /\ todo'.created \subseteq Folders
    BY <1>1, <1>2, <2>1 DEF CausedByMoved
  <2> QED BY <2>2, <2>4, <2>5, <2>6 DEF TodoInv
<1>7. ASSUME NEW gone
      PROVE  /\ CausedByRemoved(t, gone).changed \subseteq Folders
             /\ CausedByRemoved(t, gone).created = {}
             /\ DOMAIN CausedByRemoved(t, gone).moved \subseteq Folders
             /\ \A r \in DOMAIN CausedByRemoved(t, gone).moved :
                    CausedByRemoved(t, gone).moved[r] = None
  BY <1>1, <1>2 DEF CausedByRemoved, Inside
<1>8. CASE event.kind = "removed"
  <2>1. todo' = CausedByRemoved(t, {event.res})
    BY <1>8 DEF Cause
  <2> QED BY <1>7, <2>1 DEF TodoInv
<1>9. CASE event.kind = "validate"
  <2>1. todo' = CausedByValidate(tree, mtime, t, event.res)
    BY <1>9 DEF Cause
  <2>2. InScope(t, event.res) \subseteq Folders
    BY <1>1 DEF InScope, Inside
  <2>3. /\ Altered(tree, mtime, t, event.res) \subseteq Folders
        /\ Appeared(tree, t, event.res) \subseteq Folders
    BY <2>2 DEF Altered, Appeared
  <2>4. /\ todo'.moved = CausedByRemoved(t, Vanished(tree, t, event.res)).moved
        /\ todo'.created = Appeared(tree, t, event.res)
        /\ todo'.changed \subseteq Folders
    BY <1>2, <1>7, <2>1, <2>3 DEF CausedByValidate
  <2> QED BY <1>7, <2>3, <2>4 DEF TodoInv
<1> QED BY <1>4, <1>5, <1>6, <1>8, <1>9 DEF EventInv, Kinds

-----------------------------------------------------------------------------
(* The steps *)

\* A change of the directory gives it a new time.
LEMMA ChangeDiskType ==
    ASSUME DiskInv, NEW t, ChangeDisk(t)
    PROVE  DiskInv'
<1>1. clock' = clock + 1 /\ clock' \in Nat /\ clock + 1 \in Nat
  BY DEF ChangeDisk, DiskInv
<1>2. \A p \in Places : mtime[p] \in Nat
  BY DEF DiskInv
<1>3. mtime' \in [Places -> Nat]
  BY <1>1, <1>2 DEF ChangeDisk
<1> QED BY <1>1, <1>3 DEF DiskInv

\* Telling the observers leaves what they have as it is.
LEMMA TellKeeps ==
    ASSUME ObservedInv, NEW kind \in Kinds, NEW r \in AnyResource, NEW new,
           kind = "moved" => new \in AnyResource,
           Tell(kind, r, new)
    PROVE  EventInv' /\ TodoInv' /\ TablesInv' /\ KnownAreObserved'
<1>1. EventInv'
  BY DEF Tell, EventInv, Kinds
<1>2. UNCHANGED <<tables, folders, todo>>
  BY DEF Tell, cacher
<1> QED BY <1>1, <1>2 DEF ObservedInv, TodoInv, TablesInv, KnownAreObserved

\* A call of rope that reaches the observers.
LEMMA CallKeeps ==
    ASSUME ObservedInv,
           \/ CreateResource \/ RemoveResource \/ MoveResource \/ WriteResource
           \/ Validate
    PROVE  ObservedInv'
<1>0. /\ DiskInv /\ FilePaths \subseteq Paths /\ FolderPaths \subseteq Paths
      /\ MovePairs \subseteq Paths \X Paths
      /\ Paths \subseteq Places /\ Root \in Places
  BY FileListAssumption DEF ObservedInv, Places
<1>1. CASE CreateResource
  <2>1. PICK r \in {FileAt(p) : p \in FilePaths} \cup {FolderAt(p) : p \in FolderPaths} :
            /\ ChangeDisk(DoChange(Create(r.path, r.folder), tree).tree)
            /\ Tell("created", r, None)
    BY <1>1 DEF CreateResource
  <2>2. r \in AnyResource
    <3>1. \A p \in Places : FileAt(p) \in AnyResource /\ FolderAt(p) \in AnyResource
      BY DEF FileAt, FolderAt, AnyResource
    <3> QED BY <1>0, <3>1
  <2> QED BY <1>0, <2>1, <2>2, TellKeeps, ChangeDiskType DEF ObservedInv, Kinds
<1>2. CASE RemoveResource
  <2>1. PICK p \in Paths :
            LET r == [path |-> p, folder |-> tree[p] = Dir]
            IN  ChangeDisk(DoChange(Delete(p, r.folder), tree).tree) /\ Tell("removed", r, None)
    BY <1>2 DEF RemoveResource
  <2> DEFINE r == [path |-> p, folder |-> tree[p] = Dir]
  <2>2. r \in AnyResource
    BY <1>0 DEF AnyResource
  <2> QED BY <1>0, <2>1, <2>2, TellKeeps, ChangeDiskType DEF ObservedInv, Kinds
<1>3. CASE MoveResource
  <2>1. PICK pair \in MovePairs :
            LET p == pair[1]
                change == BuiltOne(Move(p, pair[2], tree[p] = Dir), tree)
                r == [path |-> p, folder |-> change.folder]
                new == [path |-> change.dest, folder |-> change.folder]
            IN  /\ change.dest \in Paths
                /\ ChangeDisk(DoChange(change, tree).tree)
                /\ Tell("moved", r, new)
    BY <1>3 DEF MoveResource
  <2> DEFINE p == pair[1]
             change == BuiltOne(Move(p, pair[2], tree[p] = Dir), tree)
             r == [path |-> p, folder |-> change.folder]
             new == [path |-> change.dest, folder |-> change.folder]
  <2>2. change.folder = (tree[p] = Dir)
    BY DEF BuiltOne, Move
  <2>3. p \in Places /\ change.dest \in Places
    BY <1>0, <2>1
  <2>4. r \in AnyResource /\ new \in AnyResource
    BY <2>2, <2>3 DEF AnyResource
  <2>5. ChangeDisk(DoChange(change, tree).tree) /\ Tell("moved", r, new)
    BY <2>1
  <2> HIDE DEF r, new, change
  <2> QED BY <1>0, <2>4, <2>5, TellKeeps, ChangeDiskType DEF ObservedInv, Kinds
<1>4. CASE WriteResource
  <2>1. PICK p \in FilePaths : Tell("changed", FileAt(p), None) /\ UNCHANGED disk
    BY <1>4 DEF WriteResource
  <2>2. FileAt(p) \in AnyResource
    BY <1>0 DEF FileAt, AnyResource
  <2>3. DiskInv'
    BY <1>0, <2>1 DEF DiskInv, disk
  <2> QED BY <2>1, <2>2, <2>3, TellKeeps DEF ObservedInv, Kinds
<1>5. CASE Validate
  <2>1. PICK p \in FolderPaths \cup {Root} :
            Tell("validate", FolderAt(p), None) /\ UNCHANGED disk
    BY <1>5 DEF Validate
  <2>2. FolderAt(p) \in AnyResource
    BY <1>0 DEF FolderAt, AnyResource
  <2>3. DiskInv'
    BY <1>0, <2>1 DEF DiskInv, disk
  <2> QED BY <2>1, <2>2, <2>3, TellKeeps DEF ObservedInv, Kinds
<1> QED BY <1>1, <1>2, <1>3, <1>4, <1>5

\* The first get_files gives every folder it finds to one of its observers.
LEMMA StartKeeps ==
    ASSUME ObservedInv, ObserveDeeper \/ StartGetFiles
    PROVE  ObservedInv'
<1>0. /\ DiskInv /\ EventInv /\ TodoInv /\ TablesInv /\ KnownAreObserved
      /\ DOMAIN tables = 1..Len(tables) /\ Len(tables) \in Nat
  BY LenProperties DEF ObservedInv, TablesInv
<1>1. CASE ObserveDeeper
  <2> DEFINE S == {FolderAt(q) : q \in Left}
             t == [r \in S |-> mtime[r.path]]
  <2>1. PICK p \in Left : folders' = folders \cup {p}
    BY <1>1 DEF ObserveDeeper
  <2>2. tables' = Append(tables, t)
    BY <1>1 DEF ObserveDeeper
  <2>3. Left \subseteq Places
    BY WalkedPlaces DEF Left, Places
  <2>4. S \subseteq Folders
    <3>1. \A q \in Places : FolderAt(q) \in Folders
      BY DEF FolderAt, Folders
    <3> QED BY <2>3, <3>1
  <2>5. t \in Tables /\ DOMAIN t = S
    <3>1. \A r \in S : mtime[r.path] \in Nat
      BY <1>0, <2>4 DEF Folders, DiskInv
    <3>2. t \in [S -> Nat \cup {None}]
      BY <3>1
    <3> QED BY <2>4, <3>2 DEF Tables
  <2> HIDE DEF t
  <2>6. /\ tables' \in Seq(Tables) /\ Len(tables') = Len(tables) + 1
        /\ \A i \in 1..Len(tables) : tables'[i] = tables[i]
        /\ tables'[Len(tables) + 1] = t
        /\ DOMAIN tables' = 1..(Len(tables) + 1)
    BY <1>0, <2>2, <2>5, AppendProperties, LenProperties DEF TablesInv
  <2>7. TablesInv'
    BY <1>0, <2>1, <2>3, <2>6 DEF TablesInv
  <2>8. ASSUME NEW q \in folders'
        PROVE  \E i \in DOMAIN tables' : FolderAt(q) \in DOMAIN tables'[i]
    <3>1. CASE q \in folders
      <4>1. PICK i \in DOMAIN tables : FolderAt(q) \in DOMAIN tables[i]
        BY <1>0, <3>1 DEF KnownAreObserved
      <4> QED BY <1>0, <2>6, <4>1
    <3>2. CASE q = p
      <4>1. FolderAt(q) \in DOMAIN tables'[Len(tables) + 1]
        BY <2>1, <2>5, <2>6, <3>2
      <4> QED BY <1>0, <2>6, <4>1
    <3> QED BY <2>1, <3>1, <3>2
  <2>9. UNCHANGED <<clock, mtime, pc, event, todo>>
    BY <1>1 DEF ObserveDeeper, disk, report
  <2> QED BY <1>0, <2>7, <2>8, <2>9
          DEF ObservedInv, DiskInv, EventInv, TodoInv, KnownAreObserved
<1>2. CASE StartGetFiles
  <2>1. /\ folders' = folders \cup {r.path : r \in UNION {DOMAIN tables[i] : i \in DOMAIN tables}}
        /\ UNCHANGED <<clock, mtime, tables, event, todo>> /\ pc' = "idle"
    BY <1>2 DEF StartGetFiles, disk, report
  <2>2. \A i \in DOMAIN tables : DOMAIN tables[i] \subseteq Folders
    BY <1>0, WatchedResources
  <2>3. \A r \in Folders : r = FolderAt(r.path) /\ r.path \in Places
    <3>1. ASSUME NEW r \in Folders PROVE r.path \in Places /\ r.folder = TRUE
      BY DEF Folders
    <3>2. ASSUME NEW r \in Folders PROVE r = [path |-> r.path, folder |-> r.folder]
      BY DEF Folders
    <3> QED BY <3>1, <3>2 DEF FolderAt
  <2>4. TablesInv'
    BY <1>0, <2>1, <2>2, <2>3 DEF TablesInv
  <2>5. ASSUME NEW p \in folders'
        PROVE  \E i \in DOMAIN tables : FolderAt(p) \in DOMAIN tables[i]
    <3>1. CASE p \in folders
      BY <1>0, <3>1 DEF KnownAreObserved
    <3>2. CASE p \notin folders
      <4>1. PICK i \in DOMAIN tables : \E r \in DOMAIN tables[i] : p = r.path
        BY <2>1, <3>2
      <4> QED BY <2>2, <2>3, <4>1
    <3> QED BY <3>1, <3>2
  <2> QED BY <1>0, <2>1, <2>4, <2>5
          DEF ObservedInv, DiskInv, EventInv, TodoInv, KnownAreObserved
<1> QED BY <1>1, <1>2

\* get_files forgets what is gone, in the list and in the observer alike.
LEMMA GetFilesKeeps == ObservedInv /\ GetFiles => ObservedInv'
<1> SUFFICES ASSUME ObservedInv, GetFiles PROVE ObservedInv'
  OBVIOUS
<1> DEFINE gone == {p \in folders : ~There(tree, FolderAt(p))}
           lost == {FolderAt(p) : p \in gone}
<1>0. /\ DiskInv /\ EventInv /\ TodoInv /\ TablesInv /\ KnownAreObserved
      /\ DOMAIN tables = 1..Len(tables) /\ Len(tables) \in Nat /\ 1 \in 1..Len(tables)
  BY LenProperties DEF ObservedInv, TablesInv
<1>1. /\ folders' = folders \ gone
      /\ tables' = [tables EXCEPT ![1] = Unwatch(@, lost)]
      /\ UNCHANGED <<clock, mtime, pc, event, todo>>
  BY DEF GetFiles, disk, report
<1>2. /\ Unwatch(tables[1], lost) \in Tables
      /\ DOMAIN Unwatch(tables[1], lost) = DOMAIN tables[1] \ lost
  BY <1>0, WatchedResources, UnwatchTable
<1>3. /\ tables' \in Seq(Tables) /\ Len(tables') = Len(tables)
      /\ DOMAIN tables' = 1..Len(tables)
      /\ tables'[1] = Unwatch(tables[1], lost)
      /\ \A i \in 1..Len(tables) : i # 1 => tables'[i] = tables[i]
  BY <1>0, <1>1, <1>2, ExceptSeq, LenProperties DEF TablesInv
<1>4. ASSUME NEW p \in folders'
      PROVE  \E i \in DOMAIN tables' : FolderAt(p) \in DOMAIN tables'[i]
  <2>1. PICK i \in DOMAIN tables : FolderAt(p) \in DOMAIN tables[i]
    BY <1>0, <1>1 DEF KnownAreObserved
  <2>2. \A q : FolderAt(q) = FolderAt(p) => q = p
    BY DEF FolderAt
  <2>3. FolderAt(p) \notin lost
    BY <1>1, <2>2
  <2>4. FolderAt(p) \in DOMAIN tables'[i]
    BY <1>0, <1>2, <1>3, <2>1, <2>3
  <2> QED BY <1>0, <1>3, <2>1, <2>4
<1>5. TablesInv'
  BY <1>0, <1>1, <1>3 DEF TablesInv
<1> QED BY <1>0, <1>1, <1>4, <1>5
        DEF ObservedInv, DiskInv, EventInv, TodoInv, KnownAreObserved

\* Working out what to report leaves the tables as they are.
LEMMA DeliverKeeps == ObservedInv /\ Deliver => ObservedInv'
<1> SUFFICES ASSUME ObservedInv, Deliver PROVE ObservedInv'
  OBVIOUS
<1>1. /\ pc = "deliver" /\ at \in DOMAIN tables /\ ~CannotCause(tables[at])
      /\ todo' = Cause(tables[at]) /\ pc' \in {"deliver", "perform"}
      /\ UNCHANGED <<clock, mtime, tables, folders, event>>
  BY DEF Deliver, disk, cacher
<1>2. EventInv /\ event.kind # "none" /\ TablesInv
  BY <1>1 DEF ObservedInv, EventInv
<1>3. TodoInv'
  BY <1>1, <1>2, WatchedResources, CauseType
<1> QED BY <1>1, <1>2, <1>3
        DEF ObservedInv, DiskInv, EventInv, TablesInv, KnownAreObserved

\* What all the reports leave alone.
LEMMA ReportFrame ==
    ASSUME ObservedInv, pc = "perform", pc' \in {"perform", "record", "raised"},
           UNCHANGED <<disk, event>>
    PROVE  DiskInv' /\ EventInv'
BY DEF ObservedInv, DiskInv, EventInv, disk

\* The cacher hears of a folder that changed or was created.
LEMMA ReportOneKeeps == ObservedInv /\ (ReportChanged \/ ReportCreated) => ObservedInv'
<1> SUFFICES ASSUME ObservedInv, ReportChanged \/ ReportCreated PROVE ObservedInv'
  OBVIOUS
<1>0. /\ DiskInv /\ TodoInv /\ TablesInv /\ KnownAreObserved
      /\ DOMAIN tables = 1..Len(tables) /\ Len(tables) \in Nat /\ 1 \in 1..Len(tables)
  BY LenProperties DEF ObservedInv, TablesInv
<1>1. PICK r \in todo.changed \cup todo.created :
          /\ Becomes(UpdateFolder(Cacher(tables), r), tables)
          /\ \/ todo' = [todo EXCEPT !.changed = @ \ {r}]
             \/ todo' = [todo EXCEPT !.created = @ \ {r}]
  BY DEF ReportChanged, ReportCreated
<1>2. pc = "perform" /\ pc' = "record" /\ UNCHANGED <<disk, event>>
  BY DEF ReportChanged, ReportCreated
<1>3. r \in AnyResource
  BY <1>0 DEF TodoInv, Folders, AnyResource
<1>4. Cacher(tables).own \in Tables /\ Cacher(tables).folders \subseteq Places
  BY <1>0, WatchedResources DEF Cacher, TablesInv
<1>5. Grown(Cacher(tables), UpdateFolder(Cacher(tables), r))
  BY <1>0, <1>3, <1>4, UpdateFolderGrows
<1>6. TablesInv' /\ KnownAreObserved'
  BY <1>0, <1>1, <1>5, BecomesObserved DEF TablesInv, Becomes
<1>7. TodoInv'
  <2>1. /\ todo'.changed \subseteq todo.changed /\ todo'.created \subseteq todo.created
        /\ todo'.moved = todo.moved
    <3>1. CASE todo' = [todo EXCEPT !.changed = @ \ {r}]
      BY <3>1
    <3>2. CASE todo' = [todo EXCEPT !.created = @ \ {r}]
      BY <3>2
    <3> QED BY <1>1, <3>1, <3>2
  <2> QED BY <1>0, <2>1 DEF TodoInv
<1> QED BY <1>2, <1>6, <1>7, ReportFrame DEF ObservedInv

\* Writing None changes what a table says, not what it is about.
LEMMA ForgottenTables ==
    ASSUME TablesInv, NEW r
    PROVE  LET ts == [tables EXCEPT ![at][r] = None]
           IN  /\ ts \in Seq(Tables) /\ Len(ts) = Len(tables)
               /\ \A i \in 1..Len(tables) : DOMAIN ts[i] = DOMAIN tables[i]
<1> DEFINE ts == [tables EXCEPT ![at][r] = None]
<1>0. DOMAIN tables = 1..Len(tables)
  BY LenProperties DEF TablesInv
<1>1. CASE at \in DOMAIN tables
  <2>1. /\ [tables[at] EXCEPT ![r] = None] \in Tables
        /\ DOMAIN [tables[at] EXCEPT ![r] = None] = DOMAIN tables[at]
    BY <1>0, <1>1, WatchedResources, SetIndicator
  <2>2. ts = [tables EXCEPT ![at] = [tables[at] EXCEPT ![r] = None]]
    OBVIOUS
  <2> QED BY <1>0, <1>1, <2>1, <2>2, ExceptSeq DEF TablesInv
<1>2. CASE at \notin DOMAIN tables
  <2>1. ts = tables
    BY <1>0, <1>2 DEF TablesInv
  <2> QED BY <1>0, <2>1 DEF TablesInv
<1> QED BY <1>1, <1>2

\* The cacher raises when it hears of a folder that is somewhere else or gone,
\* maybe after it has looked at the place where the folder was.
LEMMA ReportMovedRaisesKeeps == ObservedInv /\ ReportMovedRaises => ObservedInv'
<1> SUFFICES ASSUME ObservedInv, ReportMovedRaises PROVE ObservedInv'
  OBVIOUS
<1>0. /\ DiskInv /\ TodoInv /\ TablesInv /\ KnownAreObserved
      /\ DOMAIN tables = 1..Len(tables) /\ Len(tables) \in Nat /\ 1 \in 1..Len(tables)
  BY LenProperties DEF ObservedInv, TablesInv
<1> DEFINE forgotten(r) == [tables EXCEPT ![at][r] = None]
           left(r) == IF CannotList(r) THEN Cacher(forgotten(r))
                      ELSE UpdateFolder(Cacher(forgotten(r)), r)
<1>1. PICK r \in DOMAIN todo.moved : Shows(left(r), forgotten(r))
  BY DEF ReportMovedRaises
<1>2. pc = "perform" /\ pc' = "raised" /\ UNCHANGED <<disk, event, todo>>
  BY DEF ReportMovedRaises, report
<1> DEFINE ts == forgotten(r)
<1>3. /\ ts \in Seq(Tables) /\ Len(ts) = Len(tables)
      /\ \A i \in 1..Len(tables) : DOMAIN ts[i] = DOMAIN tables[i]
  BY <1>0, ForgottenTables
<1>4. r \in AnyResource
  BY <1>0 DEF TodoInv, Folders, AnyResource
<1> HIDE DEF forgotten
<1>5. Cacher(ts).own \in Tables /\ Cacher(ts).folders \subseteq Places
  <2>1. ts[1] \in Tables
    BY <1>0, <1>3, ElementOfSeq
  <2> QED BY <1>0, <2>1 DEF Cacher, TablesInv
<1>6. Grown(Cacher(ts), left(r))
  <2>1. Grown(Cacher(ts), UpdateFolder(Cacher(ts), r))
    BY <1>0, <1>4, <1>5, UpdateFolderGrows
  <2>2. Grown(Cacher(ts), Cacher(ts))
    BY <1>5 DEF Grown
  <2> QED BY <2>1, <2>2
<1> HIDE DEF left
<1>7. TablesInv' /\ KnownAreObserved'
  BY <1>0, <1>1, <1>3, <1>6, BecomesObserved
<1>8. TodoInv'
  BY <1>0, <1>2 DEF TodoInv
<1> QED BY <1>2, <1>7, <1>8, ReportFrame DEF ObservedInv

\* The cacher hears of a folder that is somewhere else or gone; the observer
\* has written None for it before.
LEMMA ReportMovedKeeps == ObservedInv /\ ReportMoved => ObservedInv'
<1> SUFFICES ASSUME ObservedInv, ReportMoved PROVE ObservedInv'
  OBVIOUS
<1>0. /\ DiskInv /\ TodoInv /\ TablesInv /\ KnownAreObserved
      /\ DOMAIN tables = 1..Len(tables) /\ Len(tables) \in Nat /\ 1 \in 1..Len(tables)
  BY LenProperties DEF ObservedInv, TablesInv
<1> DEFINE forgotten(r) == [tables EXCEPT ![at][r] = None]
           left(r) == UpdateFolder(Cacher(forgotten(r)), r)
           here(r) == IF todo.moved[r] = None THEN left(r)
                      ELSE UpdateFolder(left(r), todo.moved[r])
<1>1. PICK r \in DOMAIN todo.moved :
          /\ Becomes(here(r), forgotten(r))
          /\ todo' = [todo EXCEPT !.moved = [s \in DOMAIN @ \ {r} |-> @[s]]]
  BY DEF ReportMoved
<1>2. pc = "perform" /\ pc' = "perform" /\ UNCHANGED <<disk, event>>
  BY DEF ReportMoved
<1> DEFINE ts == forgotten(r)
<1>3. /\ ts \in Seq(Tables) /\ Len(ts) = Len(tables)
      /\ \A i \in 1..Len(tables) : DOMAIN ts[i] = DOMAIN tables[i]
  BY <1>0, ForgottenTables
<1>4. r \in AnyResource /\ todo.moved[r] \in AnyResource \cup {None}
  BY <1>0 DEF TodoInv, Folders, AnyResource
<1>5. Cacher(ts).own \in Tables /\ Cacher(ts).folders \subseteq Places
  <2>1. ts[1] \in Tables
    BY <1>0, <1>3, ElementOfSeq
  <2> QED BY <1>0, <2>1 DEF Cacher, TablesInv
<1> HIDE DEF forgotten
<1>6. Grown(Cacher(ts), left(r))
  BY <1>0, <1>4, <1>5, UpdateFolderGrows
<1>7. Grown(Cacher(ts), here(r))
  <2>1. CASE todo.moved[r] = None
    BY <1>6, <2>1
  <2>2. CASE todo.moved[r] # None
    <3>1. left(r).own \in Tables /\ left(r).folders \subseteq Places
      BY <1>6 DEF Grown
    <3>2. Grown(left(r), UpdateFolder(left(r), todo.moved[r]))
      BY <1>0, <1>4, <2>2, <3>1, UpdateFolderGrows
    <3> QED BY <1>6, <2>2, <3>2, GrownTwice
  <2> QED BY <2>1, <2>2
<1> HIDE DEF here
<1>8. TablesInv' /\ KnownAreObserved'
  BY <1>0, <1>1, <1>3, <1>7, BecomesObserved DEF Becomes
<1>9. TodoInv'
  <2> DEFINE rest == [s \in DOMAIN todo.moved \ {r} |-> todo.moved[s]]
  <2>1. /\ DOMAIN rest \subseteq DOMAIN todo.moved
        /\ \A s \in DOMAIN rest : rest[s] = todo.moved[s]
    OBVIOUS
  <2>2. todo' = [todo EXCEPT !.moved = rest]
    BY <1>1
  <2> HIDE DEF rest
  <2>3. /\ todo'.changed = todo.changed /\ todo'.created = todo.created
        /\ todo'.moved = rest \/ todo'.moved = todo.moved
    BY <2>2
  <2> QED BY <1>0, <2>1, <2>3 DEF TodoInv
<1> QED BY <1>2, <1>8, <1>9, ReportFrame DEF ObservedInv

\* Reading the indicator changes what the table says, not what it is about.
LEMMA RecordKeeps == ObservedInv /\ Record => ObservedInv'
<1> SUFFICES ASSUME ObservedInv, Record PROVE ObservedInv'
  OBVIOUS
<1>0. /\ DiskInv /\ EventInv /\ TodoInv /\ TablesInv /\ KnownAreObserved
      /\ DOMAIN tables = 1..Len(tables) /\ Len(tables) \in Nat
  BY LenProperties DEF ObservedInv, TablesInv
<1>1. /\ pc = "record" /\ pc' = "perform"
      /\ tables' = [tables EXCEPT ![at][cur] = mtime[cur.path]]
      /\ UNCHANGED <<clock, mtime, folders, event, todo>>
  BY DEF Record, disk, cacher
<1>2. /\ tables' \in Seq(Tables) /\ Len(tables') = Len(tables)
      /\ \A i \in 1..Len(tables) : DOMAIN tables'[i] = DOMAIN tables[i]
  <2> DEFINE t == [tables[at] EXCEPT ![cur] = mtime[cur.path]]
  <2>0. tables' = [tables EXCEPT ![at] = t]
    BY <1>1
  <2>1. CASE at \in DOMAIN tables
    <3>1. tables[at] \in Tables /\ DOMAIN tables[at] \subseteq Folders
      BY <1>0, <2>1, WatchedResources
    <3>2. t \in Tables /\ DOMAIN t = DOMAIN tables[at]
      <4>1. CASE cur \in DOMAIN tables[at]
        <5>1. mtime[cur.path] \in Nat
          BY <1>0, <3>1, <4>1 DEF Folders, DiskInv
        <5> QED BY <3>1, <5>1, SetIndicator
      <4>2. CASE cur \notin DOMAIN tables[at]
        <5>1. t = tables[at]
          BY <3>1, <4>2, TableFacts
        <5> QED BY <3>1, <5>1
      <4> QED BY <4>1, <4>2
    <3> HIDE DEF t
    <3> QED BY <1>0, <2>0, <2>1, <3>2, ExceptSeq DEF TablesInv
  <2>2. CASE at \notin DOMAIN tables
    <3> HIDE DEF t
    <3>1. tables' = tables
      BY <1>0, <2>0, <2>2 DEF TablesInv
    <3> QED BY <1>0, <3>1 DEF TablesInv
  <2> QED BY <2>1, <2>2
<1>3. DOMAIN tables' = 1..Len(tables)
  BY <1>2, LenProperties
<1> QED BY <1>0, <1>1, <1>2, <1>3
        DEF ObservedInv, DiskInv, EventInv, TodoInv, TablesInv, KnownAreObserved

\* The other steps leave the tables and the list of folders alone.
LEMMA OthersKeep ==
    ObservedInv /\ (\/ Outside \/ DeliverRaises \/ ReportRaises \/ RecordRaises
                   \/ NextObserver \/ Return \/ CallRaises \/ UNCHANGED vars)
    => ObservedInv'
<1> SUFFICES ASSUME ObservedInv,
                    \/ Outside \/ DeliverRaises \/ ReportRaises \/ RecordRaises
                    \/ NextObserver \/ Return \/ CallRaises \/ UNCHANGED vars
             PROVE  ObservedInv'
  OBVIOUS
<1>0. Root \in Places /\ FolderAt(Root) \in AnyResource
  BY DEF Places, FolderAt, AnyResource
<1>1. UNCHANGED <<tables, folders>>
  BY DEF Outside, DeliverRaises, ReportRaises, RecordRaises, NextObserver, Return,
         CallRaises, Raise, vars, cacher
<1>2. DiskInv'
  <2>1. CASE Outside
    <3>1. PICK t : ChangeDisk(t)
      BY <2>1 DEF Outside
    <3> QED BY <3>1, ChangeDiskType DEF ObservedInv
  <2>2. CASE UNCHANGED disk
    BY <2>2 DEF ObservedInv, DiskInv, disk
  <2> QED BY <2>1, <2>2 DEF DeliverRaises, ReportRaises, RecordRaises, NextObserver,
                            Return, CallRaises, Raise, vars
<1>3. EventInv'
  <2>1. CASE event' = NoEvent /\ pc' = "idle"
    BY <1>0, <2>1 DEF EventInv, NoEvent
  <2>2. CASE event' = event /\ (pc' = pc \/ pc' = "raised"
                               \/ (pc = "perform" /\ pc' = "deliver"))
    BY <2>2 DEF ObservedInv, EventInv
  <2> QED BY <2>1, <2>2 DEF Outside, DeliverRaises, ReportRaises, RecordRaises,
                            NextObserver, Return, CallRaises, Raise, vars, report
<1>4. TodoInv'
  <2>1. CASE todo' = NoChanges
    <3>1. DOMAIN NoMoves = {}
      BY DEF NoMoves
    <3> QED BY <2>1, <3>1 DEF TodoInv, NoChanges
  <2>2. CASE todo' = todo
    BY <2>2 DEF ObservedInv, TodoInv
  <2> QED BY <2>1, <2>2 DEF Outside, DeliverRaises, ReportRaises, RecordRaises,
                            NextObserver, Return, CallRaises, Raise, vars, report
<1> QED BY <1>1, <1>2, <1>3, <1>4 DEF ObservedInv, TablesInv, KnownAreObserved

-----------------------------------------------------------------------------
\* Known folders are observed in tables that hold folders only, told of events
\* and reports about resources of the project; the later theorems rest on this.
LEMMA AlwaysObserved == Spec => []ObservedInv
<1>1. Init => ObservedInv
  <2> SUFFICES ASSUME Init PROVE ObservedInv
    OBVIOUS
  <2>1. DiskInv
    BY DEF Init, DiskInv
  <2>2. EventInv
    <3>1. FolderAt(Root) \in AnyResource
      BY DEF Places, FolderAt, AnyResource
    <3> QED BY <3>1 DEF Init, EventInv, NoEvent
  <2>3. TodoInv
    <3>1. DOMAIN NoMoves = {}
      BY DEF NoMoves
    <3> QED BY <3>1 DEF Init, TodoInv, NoChanges
  <2>4. TablesInv
    <3> DEFINE t == [r \in {} |-> None]
    <3>1. t \in [{} -> Nat \cup {None}]
      OBVIOUS
    <3>2. t \in Tables
      BY <3>1 DEF Tables
    <3> HIDE DEF t
    <3>3. << t >> \in Seq(Tables) /\ Len(<< t >>) = 1
      BY <3>2
    <3> QED BY <3>3 DEF Init, TablesInv, t
  <2>5. KnownAreObserved
    BY DEF Init, KnownAreObserved
  <2> QED BY <2>1, <2>2, <2>3, <2>4, <2>5 DEF ObservedInv
<1>2. ObservedInv /\ [Next]_vars => ObservedInv'
  BY CallKeeps, StartKeeps, GetFilesKeeps, DeliverKeeps, ReportOneKeeps,
     ReportMovedKeeps, ReportMovedRaisesKeeps, RecordKeeps, OthersKeep DEF Next, Call, Step
<1> QED BY <1>1, <1>2, PTL DEF Spec

\* Whatever rope is asked to do, whatever another program does in between and
\* whatever raises: a folder that _FileListCacher knows, and will not walk
\* through again, is in the table of one of its observers.
THEOREM KnownFoldersObserved == Spec => []KnownAreObserved
<1>1. ObservedInv => KnownAreObserved
  BY DEF ObservedInv
<1> QED BY <1>1, AlwaysObserved, PTL

-----------------------------------------------------------------------------
(* The types *)

\* The indicators of a table are times the clock has shown.
Past(t, now) == \A r \in DOMAIN t : t[r] \in (0..now) \cup {None}

AllPast(ts, now) == \A i \in DOMAIN ts : Past(ts[i], now)

DiskTypes ==
    /\ tree \in Trees
    /\ clock \in 0..MaxChanges /\ mtime \in [Places -> 0..clock]

FlagTypes == files \subseteq Paths /\ needs_gc \in BOOLEAN /\ unseen \in BOOLEAN

AtTypes ==
    /\ pc \in PCs
    /\ at \in 1..(Len(tables) + 1)
    /\ pc \in {"perform", "record"} => at \in DOMAIN tables

TypeInv == DiskTypes /\ AllPast(tables, clock) /\ FlagTypes /\ AtTypes

\* With the folders that the tables are about, these are the types.
LEMMA TypeInvSuffices == ObservedInv /\ TypeInv => TypeOK
<1> SUFFICES ASSUME ObservedInv, TypeInv PROVE TypeOK
  OBVIOUS
<1>1. ASSUME NEW i \in DOMAIN tables PROVE IsTable(tables[i])
  <2>1. tables[i] \in Tables /\ DOMAIN tables[i] \subseteq Folders
    BY WatchedResources DEF ObservedInv
  <2>2. Past(tables[i], clock)
    BY DEF TypeInv, AllPast
  <2>3. tables[i] = [r \in DOMAIN tables[i] |-> tables[i][r]]
    BY <2>1, TableFacts
  <2>4. tables[i] \in [DOMAIN tables[i] -> (0..clock) \cup {None}]
    BY <2>2, <2>3 DEF Past
  <2> QED BY <2>1, <2>4 DEF IsTable, Folders
<1> QED BY <1>1 DEF ObservedInv, TablesInv, TypeInv, DiskTypes, FlagTypes, AtTypes, TypeOK

\* A change of the directory to another one: its time is the clock's, and
\* what the tables say stays in the past.
LEMMA ChangeDiskTypes ==
    ASSUME TypeInv, ObservedInv, NEW t \in Trees, ChangeDisk(t)
    PROVE  /\ DiskTypes' /\ clock \in Nat /\ clock' \in Nat /\ clock <= clock'
           /\ tables' = tables => AllPast(tables, clock)'
<1>1. clock \in Nat /\ clock' = clock + 1 /\ clock' \in 0..MaxChanges /\ tree' = t
  BY FileListAssumption DEF TypeInv, DiskTypes, ChangeDisk
<1>2. 0..clock \subseteq 0..clock' /\ clock + 1 \in 0..clock'
  BY <1>1
<1>3. mtime' \in [Places -> 0..clock']
  <2>1. \A p \in Places : mtime[p] \in 0..clock'
    BY <1>2 DEF TypeInv, DiskTypes
  <2> QED BY <1>2, <2>1 DEF ChangeDisk
<1>4. ASSUME tables' = tables PROVE AllPast(tables, clock)'
  BY <1>2, <1>4 DEF TypeInv, AllPast, Past
<1> QED BY <1>1, <1>3, <1>4 DEF DiskTypes

\* Telling the observers starts with the first.
LEMMA TellTypes ==
    ASSUME TypeInv, ObservedInv, NEW kind, NEW r, NEW new, Tell(kind, r, new)
    PROVE  /\ AtTypes' /\ tables' = tables
           /\ files' = files /\ needs_gc' = needs_gc
<1>1. Len(tables) \in Nat /\ Len(tables) >= 1
  BY LenProperties DEF ObservedInv, TablesInv
<1>2. at' = 1 /\ pc' = "deliver" /\ UNCHANGED <<tables, cacher>>
  BY DEF Tell
<1> QED BY <1>1, <1>2 DEF AtTypes, PCs, cacher

\* What the operations of rope leave in the directory is a directory.
LEMMA DoneType ==
    ASSUME NEW t \in Trees, NEW c \in Changes
    PROVE  DoChange(c, t).tree \in Trees
<1>1. Perform("do", c, t).tree \in Trees
  BY PerformType
<1> QED BY <1>1 DEF Perform

\* The changes that the operations are built as.
LEMMA MadeChanges ==
    ASSUME NEW p \in Paths, NEW b \in BOOLEAN
    PROVE  Create(p, b) \in Changes /\ Delete(p, b) \in Changes
BY FileTreeAssumption DEF Create, Delete, Changes

LEMMA MadeMove ==
    ASSUME NEW p \in Paths, NEW q \in Paths, NEW b \in BOOLEAN, NEW t,
           BuiltOne(Move(p, q, b), t).dest \in Paths
    PROVE  BuiltOne(Move(p, q, b), t) \in Changes
<1>1. Move(p, q, b) \in Changes
  BY FileTreeAssumption DEF Move, Changes
<1>2. CASE Move(p, q, b).kind = "move" /\ t[Move(p, q, b).dest] = Dir
  BY <1>1, <1>2 DEF BuiltOne, Changes
<1>3. CASE ~(Move(p, q, b).kind = "move" /\ t[Move(p, q, b).dest] = Dir)
  BY <1>1, <1>3 DEF BuiltOne
<1> QED BY <1>2, <1>3

\* A walk reads indicators of the directory and adds paths of the project.
LEMMA UpdateFolderTypes ==
    ASSUME DiskTypes, NEW c, Past(c.own, clock), c.files \subseteq Paths,
           NEW r \in AnyResource
    PROVE  /\ Past(UpdateFolder(c, r).own, clock)
           /\ UpdateFolder(c, r).files \subseteq Paths
<1> DEFINE walked == Walked(r.path, c.folders)
           new == {FolderAt(p) : p \in walked \ c.folders}
<1>1. \A s \in new : s.path \in Places
  <2>1. walked \subseteq Places
    BY WalkedPlaces DEF AnyResource
  <2>2. \A p \in walked : FolderAt(p).path \in Places
    BY <2>1 DEF FolderAt
  <2> HIDE DEF walked
  <2> QED BY <2>2
<1>2. Past(Watch(c.own, new, mtime), clock)
  <2> HIDE DEF new
  <2>1. ASSUME NEW s \in DOMAIN Watch(c.own, new, mtime)
        PROVE  Watch(c.own, new, mtime)[s] \in (0..clock) \cup {None}
    <3>1. s \in DOMAIN c.own \cup new
      BY <2>1 DEF Watch
    <3>2. CASE s \in new
      BY <1>1, <3>1, <3>2 DEF Watch, DiskTypes
    <3>3. CASE s \notin new
      BY <3>1, <3>3 DEF Watch, Past
    <3> QED BY <3>2, <3>3
  <2> QED BY <2>1 DEF Past
<1>3. CASE ~There(tree, r)
  BY <1>3 DEF UpdateFolder
<1>4. CASE There(tree, r)
  <2>1. /\ UpdateFolder(c, r).own = Watch(c.own, new, mtime)
        /\ UpdateFolder(c, r).files = c.files \cup FilesIn(walked)
    BY <1>4 DEF UpdateFolder
  <2> QED BY <1>2, <2>1 DEF FilesIn
<1> QED BY <1>3, <1>4

\* The report changes the first table only.
LEMMA BecomesTypes ==
    ASSUME DiskTypes, NEW ts \in Seq(Tables), Len(ts) >= 1, AllPast(ts, clock),
           NEW c, c.own \in Tables, Past(c.own, clock), c.files \subseteq Paths,
           Shows(c, ts), needs_gc' \in BOOLEAN, UNCHANGED disk
    PROVE  /\ DiskTypes' /\ AllPast(tables, clock)' /\ Len(tables') = Len(ts)
           /\ files' \subseteq Paths /\ needs_gc' \in BOOLEAN
<1>1. Len(ts) \in Nat /\ 1 \in 1..Len(ts) /\ DOMAIN ts = 1..Len(ts)
  BY LenProperties
<1>2. /\ tables' \in Seq(Tables) /\ Len(tables') = Len(ts)
      /\ tables'[1] = c.own
      /\ \A i \in 1..Len(ts) : i # 1 => tables'[i] = ts[i]
  BY <1>1, ExceptSeq, LenProperties DEF Shows
<1>3. DOMAIN tables' = 1..Len(ts)
  BY <1>2, LenProperties
<1>4. ASSUME NEW i \in 1..Len(ts) PROVE Past(tables'[i], clock)
  BY <1>1, <1>2 DEF AllPast
<1>5. clock' = clock
  BY DEF disk
<1> QED BY <1>2, <1>3, <1>4, <1>5 DEF AllPast, DiskTypes, disk, Shows

\* A call of rope that reaches the observers.
LEMMA CallTypes ==
    ASSUME ObservedInv, TypeInv,
           \/ CreateResource \/ RemoveResource \/ MoveResource \/ WriteResource
           \/ Validate
    PROVE  TypeInv'
<1>0. /\ tree \in Trees /\ FlagTypes /\ AllPast(tables, clock)
      /\ FilePaths \subseteq Paths /\ FolderPaths \subseteq Paths
      /\ MovePairs \subseteq Paths \X Paths
  BY FileListAssumption DEF TypeInv, DiskTypes
<1>1. ASSUME NEW t \in Trees, ChangeDisk(t), UNCHANGED unseen,
             NEW kind, NEW r, NEW new, Tell(kind, r, new)
      PROVE  TypeInv'
  BY <1>0, <1>1, ChangeDiskTypes, TellTypes DEF TypeInv, FlagTypes
<1>2. ASSUME UNCHANGED disk, unseen' \in BOOLEAN,
             NEW kind, NEW r, NEW new, Tell(kind, r, new)
      PROVE  TypeInv'
  <2>1. /\ AtTypes' /\ tables' = tables /\ files' = files /\ needs_gc' = needs_gc
    BY <1>2, TellTypes
  <2> QED BY <1>0, <1>2, <2>1 DEF TypeInv, FlagTypes, DiskTypes, AllPast, Past, disk
<1>3. CASE CreateResource
  <2>1. PICK r \in {FileAt(p) : p \in FilePaths} \cup {FolderAt(p) : p \in FolderPaths} :
            /\ ChangeDisk(DoChange(Create(r.path, r.folder), tree).tree)
            /\ Tell("created", r, None)
    BY <1>3 DEF CreateResource
  <2>2. r.path \in Paths /\ r.folder \in BOOLEAN
    <3>1. PICK p \in Paths : r \in {FileAt(p), FolderAt(p)}
      BY <1>0, <2>1
    <3>2. r = FileAt(p) => r.path = p /\ r.folder = FALSE
      BY DEF FileAt
    <3>3. r = FolderAt(p) => r.path = p /\ r.folder = TRUE
      BY DEF FolderAt
    <3> QED BY <3>1, <3>2, <3>3
  <2>3. DoChange(Create(r.path, r.folder), tree).tree \in Trees
    BY <1>0, <2>2, MadeChanges, DoneType
  <2> QED BY <1>1, <1>3, <2>1, <2>3 DEF CreateResource
<1>4. CASE RemoveResource
  <2>1. PICK p \in Paths :
            LET r == [path |-> p, folder |-> tree[p] = Dir]
            IN  ChangeDisk(DoChange(Delete(p, r.folder), tree).tree) /\ Tell("removed", r, None)
    BY <1>4 DEF RemoveResource
  <2> DEFINE r == [path |-> p, folder |-> tree[p] = Dir]
  <2>2. DoChange(Delete(p, r.folder), tree).tree \in Trees
    BY <1>0, MadeChanges, DoneType
  <2> QED BY <1>1, <1>4, <2>1, <2>2 DEF RemoveResource
<1>5. CASE MoveResource
  <2>1. PICK pair \in MovePairs :
            LET p == pair[1]
                change == BuiltOne(Move(p, pair[2], tree[p] = Dir), tree)
                r == [path |-> p, folder |-> change.folder]
                new == [path |-> change.dest, folder |-> change.folder]
            IN  /\ change.dest \in Paths
                /\ ChangeDisk(DoChange(change, tree).tree)
                /\ Tell("moved", r, new)
    BY <1>5 DEF MoveResource
  <2> DEFINE p == pair[1]
             change == BuiltOne(Move(p, pair[2], tree[p] = Dir), tree)
             r == [path |-> p, folder |-> change.folder]
             new == [path |-> change.dest, folder |-> change.folder]
  <2>2. pair[1] \in Paths /\ pair[2] \in Paths
    BY <1>0
  <2>3. change \in Changes
    BY <2>1, <2>2, MadeMove
  <2>4. DoChange(change, tree).tree \in Trees
    BY <1>0, <2>3, DoneType
  <2>5. ChangeDisk(DoChange(change, tree).tree) /\ Tell("moved", r, new)
    BY <2>1
  <2>6. UNCHANGED unseen
    BY <1>5 DEF MoveResource
  <2> HIDE DEF change, r, new
  <2> QED BY <1>1, <2>4, <2>5, <2>6
<1>6. CASE WriteResource
  <2>1. PICK p \in FilePaths : Tell("changed", FileAt(p), None)
    BY <1>6 DEF WriteResource
  <2> QED BY <1>0, <1>2, <1>6, <2>1 DEF WriteResource, FlagTypes
<1>7. CASE Validate
  <2>1. PICK p \in FolderPaths \cup {Root} :
            Tell("validate", FolderAt(p), None) /\ unseen' = (unseen /\ p # Root)
    BY <1>7 DEF Validate
  <2>2. unseen' \in BOOLEAN
    BY <2>1
  <2> QED BY <1>2, <1>7, <2>1, <2>2 DEF Validate
<1> QED BY <1>3, <1>4, <1>5, <1>6, <1>7

\* Another program leaves a directory, too.
LEMMA OutsideTypes == ObservedInv /\ TypeInv /\ Outside => TypeInv'
<1> SUFFICES ASSUME ObservedInv, TypeInv, Outside PROVE TypeInv'
  OBVIOUS
<1>1. PICK p \in FilePaths \cup FolderPaths :
          \E result \in {CreateNode(tree, p, Empty) : q \in FilePaths \cap {p}} \cup
                        {CreateNode(tree, p, Dir) : q \in FolderPaths \cap {p}} \cup
                        {RemoveNode(tree, p)} : ChangeDisk(result.tree)
  BY DEF Outside
<1>2. p \in Paths /\ tree \in Trees /\ Empty \in Nodes /\ Dir \in Nodes
  BY FileListAssumption, FileTreeAssumption DEF TypeInv, DiskTypes, Nodes, Data
<1>3. PICK t \in Trees : ChangeDisk(t)
  BY <1>1, <1>2, CreateType, RemoveType
<1>4. UNCHANGED <<tables, cacher, pc, report>> /\ unseen' = TRUE
  BY DEF Outside
<1> QED BY <1>3, <1>4, ChangeDiskTypes DEF TypeInv, FlagTypes, AtTypes, cacher, report

\* The first get_files.
LEMMA StartTypes == ObservedInv /\ TypeInv /\ (ObserveDeeper \/ StartGetFiles) => TypeInv'
<1> SUFFICES ASSUME ObservedInv, TypeInv, ObserveDeeper \/ StartGetFiles PROVE TypeInv'
  OBVIOUS
<1>0. /\ DiskTypes /\ AllPast(tables, clock) /\ FlagTypes /\ AtTypes
      /\ tables \in Seq(Tables) /\ DOMAIN tables = 1..Len(tables) /\ Len(tables) \in Nat
  BY LenProperties DEF TypeInv, ObservedInv, TablesInv
<1>1. CASE ObserveDeeper
  <2> DEFINE S == {FolderAt(q) : q \in Left}
             t == [r \in S |-> mtime[r.path]]
  <2>1. /\ tables' = Append(tables, t) /\ files' = files \cup FilesIn(Walked(Root, folders))
        /\ pc = "start" /\ UNCHANGED <<disk, needs_gc, pc, report, unseen>>
    BY <1>1 DEF ObserveDeeper
  <2>2. Past(t, clock)
    <3>1. Left \subseteq Places
      BY WalkedPlaces DEF Left, Places
    <3>2. \A r \in S : r.path \in Places
      BY <3>1 DEF FolderAt
    <3> QED BY <1>0, <3>2 DEF Past, DiskTypes
  <2> HIDE DEF t
  <2>3. /\ DOMAIN tables' = 1..(Len(tables) + 1) /\ Len(tables') = Len(tables) + 1
        /\ \A i \in 1..Len(tables) : tables'[i] = tables[i]
        /\ tables'[Len(tables) + 1] = t
    BY <1>0, <2>1
  <2>4. AllPast(tables, clock)'
    <3>1. \A i \in 1..(Len(tables) + 1) : Past(tables'[i], clock)
      BY <1>0, <2>2, <2>3 DEF AllPast
    <3>2. clock' = clock
      BY <2>1 DEF disk
    <3> QED BY <2>3, <3>1, <3>2 DEF AllPast
  <2>5. AtTypes'
    BY <1>0, <2>1, <2>3 DEF AtTypes, report
  <2> QED BY <1>0, <2>1, <2>4, <2>5 DEF TypeInv, DiskTypes, FlagTypes, FilesIn, disk
<1>2. CASE StartGetFiles
  BY <1>0, <1>2 DEF StartGetFiles, TypeInv, DiskTypes, FlagTypes, AtTypes, AllPast, Past,
                    FilesIn, PCs, disk, report
<1> QED BY <1>1, <1>2

\* What get_files drops leaves the rest as it was.
LEMMA GetFilesTypes == ObservedInv /\ TypeInv /\ GetFiles => TypeInv'
<1> SUFFICES ASSUME ObservedInv, TypeInv, GetFiles PROVE TypeInv'
  OBVIOUS
<1> DEFINE lost == {FolderAt(p) : p \in {q \in folders : ~There(tree, FolderAt(q))}}
<1>0. /\ DiskTypes /\ AllPast(tables, clock) /\ FlagTypes /\ AtTypes
      /\ tables \in Seq(Tables) /\ DOMAIN tables = 1..Len(tables)
      /\ Len(tables) \in Nat /\ 1 \in 1..Len(tables)
  BY LenProperties DEF TypeInv, ObservedInv, TablesInv
<1>1. /\ files' \subseteq files /\ tables' = [tables EXCEPT ![1] = Unwatch(@, lost)]
      /\ needs_gc' = FALSE /\ UNCHANGED <<disk, pc, report, unseen>>
  BY DEF GetFiles
<1> HIDE DEF lost
<1>2. Unwatch(tables[1], lost) \in Tables /\ Past(Unwatch(tables[1], lost), clock)
  <2>1. Past(tables[1], clock)
    BY <1>0 DEF AllPast
  <2> QED BY <1>0, <2>1, WatchedResources, UnwatchTable DEF ObservedInv, Past, Unwatch
<1>3. /\ Len(tables') = Len(tables) /\ DOMAIN tables' = 1..Len(tables)
      /\ tables'[1] = Unwatch(tables[1], lost)
      /\ \A i \in 1..Len(tables) : i # 1 => tables'[i] = tables[i]
  BY <1>0, <1>1, <1>2, ExceptSeq, LenProperties
<1>4. AllPast(tables, clock)'
  <2>1. \A i \in 1..Len(tables) : Past(tables'[i], clock)
    BY <1>0, <1>2, <1>3 DEF AllPast
  <2>2. clock' = clock
    BY <1>1 DEF disk
  <2> QED BY <1>3, <2>1, <2>2 DEF AllPast
<1>5. AtTypes'
  BY <1>0, <1>1, <1>3 DEF AtTypes, report
<1> QED BY <1>0, <1>1, <1>4, <1>5 DEF TypeInv, DiskTypes, FlagTypes, disk

\* The reports to the cacher.
LEMMA ReportTypes ==
    ObservedInv /\ TypeInv /\ (\/ ReportChanged \/ ReportMoved \/ ReportCreated
                                  \/ ReportMovedRaises)
    => TypeInv'
<1> SUFFICES ASSUME ObservedInv, TypeInv,
                    \/ ReportChanged \/ ReportMoved \/ ReportCreated \/ ReportMovedRaises
             PROVE  TypeInv'
  OBVIOUS
<1>0. /\ DiskTypes /\ AllPast(tables, clock) /\ FlagTypes /\ AtTypes /\ TodoInv /\ DiskInv
      /\ tables \in Seq(Tables) /\ DOMAIN tables = 1..Len(tables)
      /\ Len(tables) \in Nat /\ 1 \in 1..Len(tables) /\ folders \subseteq Places
  BY LenProperties DEF TypeInv, ObservedInv, TablesInv
<1>1. /\ UNCHANGED <<disk, at, unseen>> /\ pc = "perform"
      /\ pc' \in {"perform", "record", "raised"}
  BY DEF ReportChanged, ReportMoved, ReportCreated, ReportMovedRaises, report
<1>2. ASSUME NEW ts \in Seq(Tables), Len(ts) = Len(tables), AllPast(ts, clock),
             NEW c, c.own \in Tables, Past(c.own, clock), c.files \subseteq Paths,
             Shows(c, ts), needs_gc' \in BOOLEAN
      PROVE  TypeInv'
  <2>1. /\ DiskTypes' /\ AllPast(tables, clock)' /\ Len(tables') = Len(tables)
        /\ files' \subseteq Paths /\ needs_gc' \in BOOLEAN
    BY <1>0, <1>1, <1>2, BecomesTypes
  <2>2. tables' \in Seq(Tables)
    BY <1>0, <1>2, ExceptSeq DEF Shows
  <2>3. DOMAIN tables' = 1..Len(tables)
    BY <2>1, <2>2, LenProperties
  <2> QED BY <1>0, <1>1, <2>1, <2>3 DEF TypeInv, FlagTypes, AtTypes, PCs
<1>3. ASSUME NEW ts \in Seq(Tables), Len(ts) = Len(tables), AllPast(ts, clock)
      PROVE  /\ Cacher(ts).own \in Tables /\ Past(Cacher(ts).own, clock)
             /\ Cacher(ts).files \subseteq Paths /\ Cacher(ts).folders \subseteq Places
  <2>1. ts[1] \in Tables /\ 1 \in DOMAIN ts
    BY <1>0, <1>3, ElementOfSeq, LenProperties
  <2> QED BY <1>0, <1>3, <2>1 DEF Cacher, AllPast, FlagTypes
<1>4. ASSUME NEW c, c.own \in Tables, Past(c.own, clock), c.files \subseteq Paths,
             c.folders \subseteq Places, NEW r \in AnyResource
      PROVE  LET d == UpdateFolder(c, r)
             IN  /\ d.own \in Tables /\ Past(d.own, clock) /\ d.files \subseteq Paths
                 /\ d.folders \subseteq Places
  BY <1>0, <1>4, UpdateFolderTypes, UpdateFolderGrows DEF Grown
<1>5. CASE ReportChanged \/ ReportCreated
  <2>1. PICK r \in todo.changed \cup todo.created :
            Becomes(UpdateFolder(Cacher(tables), r), tables)
    BY <1>5 DEF ReportChanged, ReportCreated
  <2>2. r \in AnyResource
    BY <1>0 DEF TodoInv, Folders, AnyResource
  <2> QED BY <1>0, <1>2, <1>3, <1>4, <2>1, <2>2 DEF Becomes
<1> DEFINE forgotten(r) == [tables EXCEPT ![at][r] = None]
<1>6. ASSUME NEW r
      PROVE  /\ forgotten(r) \in Seq(Tables) /\ Len(forgotten(r)) = Len(tables)
             /\ AllPast(forgotten(r), clock)
  <2> DEFINE t == [tables[at] EXCEPT ![r] = None]
  <2>1. at \in 1..Len(tables)
    BY <1>0, <1>1 DEF AtTypes
  <2>2. tables[at] \in Tables /\ Past(tables[at], clock)
    BY <1>0, <2>1, WatchedResources DEF ObservedInv, AllPast
  <2>3. t \in Tables /\ DOMAIN t = DOMAIN tables[at]
    BY <2>2, SetIndicator
  <2>4. Past(t, clock)
    BY <2>2 DEF Past
  <2>5. forgotten(r) = [tables EXCEPT ![at] = t]
    OBVIOUS
  <2> HIDE DEF t
  <2>6. /\ forgotten(r) \in Seq(Tables) /\ Len(forgotten(r)) = Len(tables)
        /\ forgotten(r)[at] = t
        /\ \A i \in 1..Len(tables) : i # at => forgotten(r)[i] = tables[i]
    BY <1>0, <2>1, <2>3, <2>5, ExceptSeq
  <2> HIDE DEF forgotten
  <2>7. DOMAIN forgotten(r) = 1..Len(tables)
    BY <2>6, LenProperties
  <2> QED BY <1>0, <2>4, <2>6, <2>7 DEF AllPast
<1>7. CASE ReportMoved
  <2> DEFINE left(r) == UpdateFolder(Cacher(forgotten(r)), r)
             here(r) == IF todo.moved[r] = None THEN left(r)
                        ELSE UpdateFolder(left(r), todo.moved[r])
  <2>1. PICK r \in DOMAIN todo.moved : Becomes(here(r), forgotten(r))
    BY <1>7 DEF ReportMoved
  <2>2. r \in AnyResource /\ todo.moved[r] \in AnyResource \cup {None}
    BY <1>0 DEF TodoInv, Folders, AnyResource
  <2>3. /\ forgotten(r) \in Seq(Tables) /\ Len(forgotten(r)) = Len(tables)
        /\ AllPast(forgotten(r), clock)
    BY <1>6
  <2> HIDE DEF forgotten
  <2>4. /\ left(r).own \in Tables /\ Past(left(r).own, clock)
        /\ left(r).files \subseteq Paths /\ left(r).folders \subseteq Places
    BY <1>3, <1>4, <2>2, <2>3
  <2> HIDE DEF left
  <2>5. here(r).own \in Tables /\ Past(here(r).own, clock) /\ here(r).files \subseteq Paths
    BY <1>4, <2>2, <2>4
  <2> HIDE DEF here
  <2> QED BY <1>2, <2>1, <2>3, <2>5 DEF Becomes
<1>8. CASE ReportMovedRaises
  <2> DEFINE left(r) == IF CannotList(r) THEN Cacher(forgotten(r))
                        ELSE UpdateFolder(Cacher(forgotten(r)), r)
  <2>1. PICK r \in DOMAIN todo.moved : Shows(left(r), forgotten(r))
    BY <1>8 DEF ReportMovedRaises
  <2>2. r \in AnyResource /\ needs_gc' \in BOOLEAN
    BY <1>0, <1>8 DEF TodoInv, Folders, AnyResource, ReportMovedRaises, FlagTypes
  <2>3. /\ forgotten(r) \in Seq(Tables) /\ Len(forgotten(r)) = Len(tables)
        /\ AllPast(forgotten(r), clock)
    BY <1>6
  <2> HIDE DEF forgotten
  <2>4. left(r).own \in Tables /\ Past(left(r).own, clock) /\ left(r).files \subseteq Paths
    BY <1>3, <1>4, <2>2, <2>3
  <2> HIDE DEF left
  <2> QED BY <1>2, <2>1, <2>2, <2>3, <2>4
<1> QED BY <1>5, <1>7, <1>8

\* The indicator that is read after a report is one of now.
LEMMA RecordTypes == ObservedInv /\ TypeInv /\ Record => TypeInv'
<1> SUFFICES ASSUME ObservedInv, TypeInv, Record PROVE TypeInv'
  OBVIOUS
<1> DEFINE t == [tables[at] EXCEPT ![cur] = mtime[cur.path]]
<1>0. /\ DiskTypes /\ AllPast(tables, clock) /\ FlagTypes /\ AtTypes
      /\ tables \in Seq(Tables) /\ DOMAIN tables = 1..Len(tables) /\ Len(tables) \in Nat
  BY LenProperties DEF TypeInv, ObservedInv, TablesInv
<1>1. /\ pc = "record" /\ pc' = "perform" /\ tables' = [tables EXCEPT ![at] = t]
      /\ UNCHANGED <<disk, cacher, at, unseen>>
  BY DEF Record
<1>2. at \in 1..Len(tables) /\ tables[at] \in Tables /\ DOMAIN tables[at] \subseteq Folders
  BY <1>0, <1>1, WatchedResources DEF ObservedInv, AtTypes
<1>3. Past(t, clock)
  <2>1. Past(tables[at], clock)
    BY <1>0, <1>2 DEF AllPast
  <2>2. ASSUME NEW r \in DOMAIN tables[at] PROVE t[r] \in (0..clock) \cup {None}
    <3>1. r.path \in Places
      BY <1>2 DEF Folders
    <3>2. CASE r = cur
      BY <1>0, <3>1, <3>2 DEF DiskTypes
    <3>3. CASE r # cur
      BY <2>1, <3>3 DEF Past
    <3> QED BY <3>2, <3>3
  <2>3. DOMAIN t = DOMAIN tables[at]
    OBVIOUS
  <2> QED BY <2>2, <2>3 DEF Past
<1> HIDE DEF t
<1>4. /\ DOMAIN tables' = 1..Len(tables) /\ tables'[at] = t
      /\ \A i \in 1..Len(tables) : i # at => tables'[i] = tables[i]
  BY <1>0, <1>1, <1>2
<1>5. Len(tables') = Len(tables)
  BY <1>0, <1>1
<1>6. AllPast(tables, clock)'
  <2>1. \A i \in 1..Len(tables) : Past(tables'[i], clock)
    BY <1>0, <1>3, <1>4 DEF AllPast
  <2>2. clock' = clock
    BY <1>1 DEF disk
  <2> QED BY <1>4, <2>1, <2>2 DEF AllPast
<1> QED BY <1>0, <1>1, <1>2, <1>4, <1>5, <1>6
        DEF TypeInv, DiskTypes, FlagTypes, AtTypes, PCs, disk, cacher

\* The other steps move on to another observer, or out of the call.
LEMMA OthersTypes ==
    ObservedInv /\ TypeInv
    /\ (\/ Deliver \/ DeliverRaises \/ ReportRaises \/ RecordRaises
        \/ NextObserver \/ Return \/ CallRaises \/ UNCHANGED vars)
    => TypeInv'
<1> SUFFICES ASSUME ObservedInv, TypeInv,
                    \/ Deliver \/ DeliverRaises \/ ReportRaises \/ RecordRaises
                    \/ NextObserver \/ Return \/ CallRaises \/ UNCHANGED vars
             PROVE  TypeInv'
  OBVIOUS
<1>0. /\ AtTypes /\ FlagTypes /\ Len(tables) \in Nat /\ Len(tables) >= 1
      /\ DOMAIN tables = 1..Len(tables)
  BY LenProperties DEF TypeInv, ObservedInv, TablesInv
<1>1. UNCHANGED <<disk, tables, cacher>> /\ unseen' \in BOOLEAN
  BY <1>0 DEF Deliver, DeliverRaises, ReportRaises, RecordRaises, NextObserver, Return,
              CallRaises, Raise, vars, FlagTypes
<1>2. AtTypes'
  <2>1. CASE Deliver
    BY <1>0, <1>1, <2>1 DEF Deliver, AtTypes, PCs
  <2>2. CASE DeliverRaises \/ ReportRaises \/ RecordRaises
    BY <1>0, <1>1, <2>2 DEF DeliverRaises, ReportRaises, RecordRaises, Raise, AtTypes, PCs,
                            report
  <2>3. CASE NextObserver
    BY <1>0, <1>1, <2>3 DEF NextObserver, AtTypes, PCs
  <2>4. CASE Return \/ CallRaises
    BY <1>0, <1>1, <2>4 DEF Return, CallRaises, AtTypes, PCs
  <2>5. CASE UNCHANGED vars
    BY <1>0, <2>5 DEF vars, report, AtTypes
  <2> QED BY <2>1, <2>2, <2>3, <2>4, <2>5
<1> QED BY <1>1, <1>2 DEF TypeInv, DiskTypes, FlagTypes, AllPast, Past, disk, cacher

\* Type correctness: the directory stays one, the tables keep indicators the
\* clock has shown, and the observer that is told is one of those there are,
\* also after exceptions and whatever another program does in between.
THEOREM FileListTypes == Spec => []TypeOK
<1>1. Init => TypeInv
  <2> SUFFICES ASSUME Init PROVE TypeInv
    OBVIOUS
  <2>1. DiskTypes
    BY FileListAssumption DEF Init, DiskTypes
  <2>2. AllPast(tables, clock)
    <3> DEFINE t == [r \in {} |-> None]
    <3>1. Past(t, clock)
      BY DEF Past
    <3> HIDE DEF t
    <3>2. DOMAIN << t >> = {1} /\ << t >>[1] = t
      OBVIOUS
    <3> QED BY <3>1, <3>2 DEF Init, AllPast, t
  <2>3. AtTypes
    <3>1. Len(tables) = 1
      BY DEF Init
    <3> QED BY <3>1 DEF Init, AtTypes, PCs
  <2> QED BY <2>1, <2>2, <2>3 DEF Init, TypeInv, FlagTypes
<1>2. ObservedInv /\ TypeInv /\ [Next]_vars => TypeInv'
  BY CallTypes, OutsideTypes, StartTypes, GetFilesTypes, ReportTypes, RecordTypes,
     OthersTypes DEF Next, Call, Step
<1> QED BY <1>1, <1>2, AlwaysObserved, TypeInvSuffices, PTL DEF Spec

-----------------------------------------------------------------------------
(* Names that tell folders from files *)

\* The names of folders, when names tell.
FolderNames == CHOOSE N \in SUBSET {LastName(p) : p \in Paths} : NamesTell(N)

LEMMA FolderNamesTell == NamesTellKinds => NamesTell(FolderNames)
BY DEF NamesTellKinds, FolderNames

\* A folder could be at p, and no file.
Folderish(p) == p = Root \/ LastName(p) \in FolderNames

Named(t) ==
    \A p \in Paths : /\ t[p] = Dir => Folderish(p)
                     /\ t[p] \in Data => ~Folderish(p)

\* What the names say of the paths that the operations work on.
LEMMA PathNames ==
    ASSUME NamesTellKinds
    PROVE  /\ \A t \in InitTrees : Named(t)
           /\ \A p, q \in Paths : Within(p, q) => Folderish(p)
           /\ \A p \in FolderPaths : Folderish(p)
           /\ \A p \in FilePaths : ~Folderish(p)
           /\ \A pair \in MovePairs : Folderish(pair[1]) <=> Folderish(pair[2])
<1>1. \A p \in Paths : Folderish(p) <=> LastName(p) \in FolderNames
  BY PathsType DEF Folderish, Root
<1>2. NamesTell(FolderNames)
  BY FolderNamesTell
<1>3. /\ \A pair \in MovePairs : pair[1] \in Paths /\ pair[2] \in Paths
      /\ FolderPaths \subseteq Paths /\ FilePaths \subseteq Paths
  BY FileListAssumption
<1>4. ASSUME NEW t \in InitTrees PROVE Named(t)
  <2>1. ASSUME NEW p \in Paths
        PROVE  /\ t[p] = Dir => LastName(p) \in FolderNames
               /\ t[p] \in Data => LastName(p) \notin FolderNames
    BY <1>2 DEF NamesTell
  <2> QED BY <1>1, <2>1, Zenon DEF Named
<1>5. \A pair \in MovePairs : Folderish(pair[1]) <=> Folderish(pair[2])
  BY <1>1, <1>2, <1>3 DEF NamesTell
<1> QED BY <1>1, <1>2, <1>3, <1>4, <1>5 DEF NamesTell

\* What is inside a moved folder keeps its name.
LEMMA RebasedName ==
    ASSUME NEW p \in Sequence, NEW q \in Sequence, NEW r \in Sequence, Within(p, r)
    PROVE  /\ Rebased(p, q, r) \in Sequence /\ Rebased(p, q, r) # <<>>
           /\ LastName(Rebased(p, q, r)) = LastName(r)
<1> DEFINE x == Rebased(p, q, r)
<1>1. /\ Len(p) \in Nat /\ Len(q) \in Nat /\ Len(r) \in Nat /\ Len(p) < Len(r)
  BY LenProperties, WithinMeans DEF Sequence
<1>2. /\ x \in Sequence /\ Len(x) = Len(q) + Len(r) - Len(p)
      /\ \A i \in (Len(q) + 1)..(Len(q) + Len(r) - Len(p)) : x[i] = r[i - Len(q) + Len(p)]
  BY RebasedMeans DEF Under
<1> HIDE DEF x
<1>3. Len(x) \in (Len(q) + 1)..(Len(q) + Len(r) - Len(p)) /\ Len(x) - Len(q) + Len(p) = Len(r)
  BY <1>1, <1>2
<1>4. x[Len(x)] = r[Len(r)]
  BY <1>2, <1>3
<1>5. x # <<>>
  BY <1>1, <1>2, EmptySeq
<1> QED BY <1>2, <1>4, <1>5 DEF x, LastName

LEMMA RebasedFolderish ==
    ASSUME NEW p \in Paths, NEW q \in Paths, NEW r \in Paths, Within(p, r)
    PROVE  Folderish(Rebased(p, q, r)) <=> Folderish(r)
<1>1. Rebased(p, q, r) # <<>> /\ LastName(Rebased(p, q, r)) = LastName(r) /\ r # <<>>
  BY PathsType, RebasedName
<1> QED BY <1>1 DEF Folderish, Root

\* What is taken in by a folder keeps its name.
LEMMA AppendFolderish ==
    ASSUME NEW p \in Paths, NEW q \in Paths, Append(q, LastName(p)) \in Paths
    PROVE  Folderish(Append(q, LastName(p))) <=> Folderish(p)
<1> DEFINE name == LastName(p)
           x == Append(q, name)
<1>1. q \in Sequence /\ x \in Sequence /\ p # <<>> /\ x # <<>>
  BY PathsType
<1>2. LastName(x) = name
  <2> HIDE DEF name
  <2> QED BY <1>1, LastOfAppend DEF LastName
<1> QED BY <1>1, <1>2 DEF Folderish, Root

\* Something new, or nothing any more, at one path.
LEMMA NamedPut ==
    ASSUME NEW t \in Trees, Named(t), NEW p \in Paths, NEW node,
           node = Dir => Folderish(p), node \in Data => ~Folderish(p)
    PROVE  Named([t EXCEPT ![p] = node])
<1>1. \A x \in Paths : [t EXCEPT ![p] = node][x] = IF x = p THEN node ELSE t[x]
  BY DEF Trees
<1> QED BY <1>1 DEF Named

LEMMA NamedRemove ==
    ASSUME NEW t \in Trees, Named(t), NEW p \in Paths
    PROVE  Named(RemoveNode(t, p).tree)
<1>1. \A x \in Paths : RemoveNode(t, p).tree[x] \in {t[x], Absent}
  BY DEF RemoveNode, Raises, Leaves
<1> QED BY <1>1, FileTreeAssumption DEF Named

\* A move to a name of the same kind.
LEMMA NamedMove ==
    ASSUME NamesTellKinds, NEW t \in Trees, Nested(t), Named(t),
           NEW p \in Paths, NEW q \in Paths, Folderish(p) <=> Folderish(q),
           MovePath(t, p, q).ok
    PROVE  Named(MovePath(t, p, q).tree)
<1> DEFINE real == Target(t, p, q)
           u == Renamed(t, p, real)
<1>1. CanMove(t, p, q)
  BY DEF MovePath, Raises
<1>2. CASE p = q
  BY <1>1, <1>2 DEF MovePath, Leaves
<1>3. CASE p # q
  <2>1. MovePath(t, p, q).tree = u
    BY <1>1, <1>3 DEF MovePath, Leaves
  <2>2. real \in Paths
    BY <1>1, <1>3, TargetMeans
  <2>3. Folderish(real) <=> Folderish(p)
    BY <2>2, AppendFolderish DEF Target, LastName
  <2>4. \A x \in Paths :
          u[x] = IF Under(real, x) THEN Arrived(t, p, real, x)
                 ELSE IF Under(p, x) THEN Absent
                 ELSE IF Within(x, real) THEN Dir ELSE t[x]
    BY DEF Renamed, Under
  <2> HIDE DEF real
  <2>5. ASSUME NEW x \in Paths
        PROVE  (u[x] = Dir => Folderish(x)) /\ (u[x] \in Data => ~Folderish(x))
    <3>1. CASE x = real
      <4>1. Rebased(real, p, x) = p
        BY <2>2, <3>1, PathsType, RebasedSelf
      <4>2. u[x] = t[p]
        BY <2>4, <3>1, <4>1 DEF Under, Arrived
      <4> QED BY <2>3, <3>1, <4>2 DEF Named
    <3>2. CASE Within(real, x)
      <4> DEFINE old == Rebased(real, p, x)
      <4>1. u[x] = IF old \in Paths THEN t[old] ELSE Absent
        BY <2>4, <3>2 DEF Under, Arrived
      <4>2. Folderish(old) <=> Folderish(x)
        BY <2>2, <3>2, RebasedFolderish
      <4> QED BY <4>1, <4>2, FileTreeAssumption DEF Named
    <3>3. CASE ~Under(real, x)
      <4>1. u[x] \in {Absent, t[x]} \/ (u[x] = Dir /\ Within(x, real))
        BY <2>4, <3>3
      <4>2. Within(x, real) => Folderish(x)
        BY <2>2, PathNames
      <4> QED BY <4>1, <4>2, FileTreeAssumption DEF Named
    <3> QED BY <3>1, <3>2, <3>3 DEF Under
  <2> HIDE DEF u
  <2> QED BY <2>1, <2>5 DEF Named
<1> QED BY <1>2, <1>3

-----------------------------------------------------------------------------
(* What the operations leave in the directory *)

\* The folder that holds a place; the project folder holds itself.
LEMMA PlaceParent ==
    /\ Parent(Root) = Root
    /\ \A p \in Paths : Parent(p) \in Places /\ Within(Parent(p), p)
<1>1. Parent(Root) = Root
  <2>1. SubSeq(<<>>, 1, Len(<<>>) - 1) = <<>>
    OBVIOUS
  <2> QED BY <2>1 DEF Parent, Root
<1>2. ASSUME NEW p \in Paths PROVE Parent(p) \in Places /\ Within(Parent(p), p)
  <2>1. p \in Sequence /\ p # <<>>
    BY PathsType
  <2>2. Parent(p) \in Sequence /\ Within(Parent(p), p)
    BY <2>1, ParentType
  <2>3. Parent(p) # <<>> => Parent(p) \in Paths
    BY <2>2, WithinPath
  <2> QED BY <2>2, <2>3 DEF Places, Root
<1> QED BY <1>1, <1>2

\* What is there is in a folder.
LEMMA ParentThere ==
    ASSUME NEW t, Nested(t), NEW p \in Places, NodeAt(t, p) # Absent
    PROVE  Parent(p) \in Places /\ NodeAt(t, Parent(p)) = Dir
<1>1. CASE p = Root
  BY <1>1, PlaceParent DEF Places, NodeAt
<1>2. CASE p # Root
  <2>1. p \in Paths /\ Exists(t, p)
    BY <1>2 DEF Places, NodeAt, Exists
  <2>2. Parent(p) \in Places /\ Within(Parent(p), p)
    BY <2>1, PlaceParent
  <2>3. Parent(p) # Root => t[Parent(p)] = Dir
    BY <2>1, <2>2 DEF Nested, Places
  <2> QED BY <2>2, <2>3 DEF NodeAt
<1> QED BY <1>1, <1>2

\* The folder of what is gone stays.
LEMMA ParentLeft ==
    ASSUME NEW t, Nested(t), NEW p \in Paths, Exists(t, p), NEW u,
           \A x \in Paths : t[x] = Dir /\ ~Under(p, x) => u[x] = Dir
    PROVE  NodeAt(u, Parent(p)) = Dir
<1>1. Parent(p) \in Places /\ Within(Parent(p), p) /\ NodeAt(t, Parent(p)) = Dir
  <2>1. p \in Places /\ NodeAt(t, p) # Absent
    BY PathsType DEF Places, NodeAt, Exists, Root
  <2> QED BY <2>1, PlaceParent, ParentThere
<1>2. CASE Parent(p) = Root
  BY <1>2 DEF NodeAt
<1>3. CASE Parent(p) # Root
  <2>1. Parent(p) \in Paths /\ t[Parent(p)] = Dir
    BY <1>1, <1>3 DEF Places, NodeAt
  <2>2. ~Under(p, Parent(p))
    BY <1>1, <2>1, PathsType, WithinSelf DEF Under
  <2> QED BY <1>3, <2>1, <2>2 DEF NodeAt
<1> QED BY <1>2, <1>3

\* After a move: the folder it was moved out of is there, and so is something
\* at the place it was asked to go to.
LEMMA MoveLeaves ==
    ASSUME NEW t \in Trees, Nested(t), NEW p \in Paths, NEW q \in Paths,
           MovePath(t, p, q).ok
    PROVE  LET u == MovePath(t, p, q).tree
           IN  NodeAt(u, Parent(p)) = Dir /\ Exists(u, q)
<1> DEFINE real == Target(t, p, q)
           u == MovePath(t, p, q).tree
<1>1. CanMove(t, p, q) /\ Exists(t, p)
  BY DEF MovePath, Raises, CanMove
<1>2. CASE p = q
  <2>1. u = t
    BY <1>1, <1>2 DEF MovePath, Leaves
  <2> QED BY <1>1, <1>2, <2>1, ParentLeft
<1>3. CASE p # q
  <2>1. u = Renamed(t, p, real)
    BY <1>1, <1>3 DEF MovePath, Leaves
  <2>2. /\ real \in Paths /\ t[real] # Dir
        /\ \A r \in Paths : Within(real, r) => t[r] = Absent
        /\ \A x \in Paths : ~Under(p, x) /\ ~Under(real, x) => Quiet(t, u, x)
    BY <1>1, <1>3, <2>1, TargetMeans, MoveKinds
  <2>3. \A x \in Paths : t[x] = Dir /\ ~Under(p, x) => u[x] = Dir
    BY <2>2, FileTreeAssumption DEF Under, Quiet, Exists
  <2>4. Exists(u, real)
    <3>1. Rebased(real, p, real) = p
      BY <2>2, PathsType, RebasedSelf
    <3>2. u[real] = t[p]
      BY <2>1, <2>2, <3>1 DEF Renamed, Arrived
    <3> QED BY <1>1, <3>2 DEF Exists
  <2>5. Exists(u, q)
    <3>1. CASE real = q
      BY <2>4, <3>1
    <3>2. CASE real # q
      <4>1. real = Append(q, LastName(p)) /\ real \in Sequence /\ q \in Sequence
        BY <2>2, <3>2, PathsType DEF Target, LastName
      <4>2. Within(q, real)
        <5> DEFINE name == LastName(p)
        <5> HIDE DEF name
        <5>1. real = Append(q, name)
          BY <4>1 DEF name
        <5> HIDE DEF real
        <5> QED BY <4>1, <5>1, LastOfAppend
      <4>3. Nested(u)
        BY NestedMove
      <4>4. u[q] = Dir
        BY <2>2, <2>4, <4>2, <4>3 DEF Nested
      <4> QED BY <4>4, FileTreeAssumption DEF Exists
    <3> QED BY <3>1, <3>2
  <2> HIDE DEF u, real
  <2>6. NodeAt(u, Parent(p)) = Dir
    BY <1>1, <2>3, ParentLeft
  <2> QED BY <2>5, <2>6 DEF u
<1> QED BY <1>2, <1>3

-----------------------------------------------------------------------------
(* What is true while the observers are told *)

DiskNamed == Nested(tree) /\ Named(tree)

TableNamed(t) == \A r \in DOMAIN t : Folderish(r.path)

TablesNamed == \A i \in DOMAIN tables : TableNamed(tables[i])

\* What is to be reported has the name of a folder, and so has what it became.
TodoNamed ==
    /\ \A r \in todo.changed \cup todo.created \cup DOMAIN todo.moved : Folderish(r.path)
    /\ \A r \in DOMAIN todo.moved :
          todo.moved[r] # None => Folderish(todo.moved[r].path)

\* What the observers are told is so in the directory t.
Happened(t, kind, r, new) ==
    /\ kind \in {"changed", "created"} => There(t, r)
    /\ kind \in {"moved", "removed"} => There(t, ParentFolder(r))
    /\ kind = "moved" => There(t, new) /\ (Folderish(r.path) <=> Folderish(new.path))
    /\ kind = "validate" => r.folder

EventTrue ==
    pc \in {"deliver", "perform", "record"} =>
        Happened(tree, event.kind, event.res, event.new)

ValidatesGone == event.kind = "validate" /\ ~There(tree, event.res)

\* What is to be looked at after its report is there.
TodoThere ==
    /\ pc \in {"perform", "record"} =>
          ValidatesGone \/ \A r \in todo.changed \cup todo.created : There(tree, r)
    /\ pc = "record" => ValidatesGone \/ There(tree, cur)

RaiseInv ==
    DiskNamed /\ TablesNamed /\ TodoNamed /\ EventTrue /\ TodoThere /\ OnlyMissingRaise

\* Telling the observers what is so.
LEMMA TellTrue ==
    ASSUME RaiseInv, NEW kind, NEW r, NEW new, Tell(kind, r, new),
           Nested(tree'), Named(tree'), Happened(tree', kind, r, new)
    PROVE  RaiseInv'
<1>1. /\ event' = [kind |-> kind, res |-> r, new |-> new]
      /\ pc' = "deliver" /\ UNCHANGED <<tables, todo>>
  BY DEF Tell
<1>2. EventTrue'
  BY <1>1 DEF EventTrue
<1>3. TablesNamed' /\ TodoNamed'
  BY <1>1 DEF RaiseInv, TablesNamed, TodoNamed
<1> QED BY <1>1, <1>2, <1>3 DEF RaiseInv, DiskNamed, TodoThere, OnlyMissingRaise

\* A file, or a folder, is created.
LEMMA CreateTrue ==
    ASSUME NamesTellKinds, TypeOK, RaiseInv, CreateResource
    PROVE  RaiseInv'
<1>1. PICK r \in {FileAt(p) : p \in FilePaths} \cup {FolderAt(p) : p \in FolderPaths} :
          LET result == DoChange(Create(r.path, r.folder), tree)
          IN  result.ok /\ ChangeDisk(result.tree) /\ Tell("created", r, None)
  BY DEF CreateResource
<1> DEFINE node == IF r.folder THEN Dir ELSE Empty
           p == r.path
           u == [tree EXCEPT ![p] = node]
<1>2. p \in Paths /\ (node = Dir => Folderish(p)) /\ (node \in Data => ~Folderish(p)) /\ node # Absent
  <2>1. FilePaths \subseteq Paths /\ FolderPaths \subseteq Paths
    BY FileListAssumption
  <2>2. CASE r \in {FileAt(q) : q \in FilePaths}
    <3>1. PICK q \in FilePaths : r = FileAt(q)
      BY <2>2
    <3>2. p = q /\ node = Empty
      BY <3>1 DEF FileAt
    <3> QED BY <2>1, <3>2, PathNames, FileTreeAssumption DEF Data
  <2>3. CASE r \in {FolderAt(q) : q \in FolderPaths}
    <3>1. PICK q \in FolderPaths : r = FolderAt(q)
      BY <2>3
    <3>2. p = q /\ node = Dir
      BY <3>1 DEF FolderAt
    <3> QED BY <2>1, <3>2, PathNames, FileTreeAssumption DEF Data
  <2> QED BY <1>1, <2>2, <2>3
<1>3. DoChange(Create(p, r.folder), tree) = CreateNode(tree, p, node)
  BY DEF DoChange, Create
<1> HIDE DEF node, p
<1>4. ~Exists(tree, p) /\ HasParent(tree, p) /\ CreateNode(tree, p, node).tree = u
  BY <1>1, <1>3 DEF p, CreateNode, Raises, Leaves
<1>5. tree \in Trees /\ Nested(tree) /\ Named(tree)
  BY DEF TypeOK, RaiseInv, DiskNamed
<1>6. tree' = u
  BY <1>1, <1>3, <1>4 DEF p, ChangeDisk
<1>7. Nested(u)
  BY <1>2, <1>4, <1>5, NestedPut, FileTreeAssumption DEF Exists
<1>8. Named(u)
  BY <1>2, <1>5, NamedPut
<1>9. There(u, r)
  <2>1. u[p] = node /\ p # Root
    BY <1>2, <1>5, PathsType DEF Trees, Root
  <2> QED BY <1>2, <2>1 DEF There, NodeAt, p
<1>10. Happened(tree', "created", r, None)
  BY <1>6, <1>9 DEF Happened
<1> QED BY <1>1, <1>6, <1>7, <1>8, <1>10, TellTrue

\* A resource is removed with everything inside it.
LEMMA RemoveTrue ==
    ASSUME TypeOK, RaiseInv, RemoveResource
    PROVE  RaiseInv'
<1>1. PICK p \in Paths :
          LET r == [path |-> p, folder |-> tree[p] = Dir]
              result == DoChange(Delete(p, r.folder), tree)
          IN  result.ok /\ ChangeDisk(result.tree) /\ Tell("removed", r, None)
  BY DEF RemoveResource
<1> DEFINE r == [path |-> p, folder |-> tree[p] = Dir]
           u == RemoveNode(tree, p).tree
<1>2. DoChange(Delete(p, r.folder), tree) = RemoveNode(tree, p)
  BY DEF DoChange, Delete
<1>3. RemoveNode(tree, p).ok /\ tree' = u /\ Tell("removed", r, None)
  BY <1>1, <1>2 DEF ChangeDisk
<1>4. tree \in Trees /\ Nested(tree) /\ Named(tree)
  BY DEF TypeOK, RaiseInv, DiskNamed
<1>5. Nested(u) /\ Named(u)
  BY <1>3, <1>4, NestedRemove, NamedRemove
<1>6. There(u, ParentFolder(r))
  <2>1. Exists(tree, p)
    BY <1>3 DEF RemoveNode, Raises
  <2>2. \A x \in Paths : tree[x] = Dir /\ ~Under(p, x) => u[x] = Dir
    BY <2>1 DEF RemoveNode, Leaves, Under
  <2> HIDE DEF u
  <2>3. NodeAt(u, Parent(p)) = Dir
    BY <1>4, <2>1, <2>2, ParentLeft
  <2> QED BY <2>3, FileTreeAssumption DEF There, ParentFolder, FolderAt
<1> HIDE DEF u, r
<1>7. Happened(tree', "removed", r, None)
  BY <1>3, <1>6 DEF Happened
<1> QED BY <1>3, <1>5, <1>7, TellTrue

\* A resource is moved; its new name is of the kind of the old one.
LEMMA MoveTrue ==
    ASSUME NamesTellKinds, TypeOK, RaiseInv, MoveResource
    PROVE  RaiseInv'
<1>1. PICK pair \in MovePairs :
          LET p == pair[1]
              change == BuiltOne(Move(p, pair[2], tree[p] = Dir), tree)
              r == [path |-> p, folder |-> change.folder]
              new == [path |-> change.dest, folder |-> change.folder]
              result == DoChange(change, tree)
          IN  /\ change.dest \in Paths
              /\ result.ok /\ ChangeDisk(result.tree) /\ Tell("moved", r, new)
  BY DEF MoveResource
<1> DEFINE p == pair[1]
           q == pair[2]
           change == BuiltOne(Move(p, q, tree[p] = Dir), tree)
           dest == IF tree[q] = Dir THEN Append(q, LastName(p)) ELSE q
           r == [path |-> p, folder |-> change.folder]
           new == [path |-> change.dest, folder |-> change.folder]
           u == MovePath(tree, p, dest).tree
<1>2. p \in Paths /\ q \in Paths /\ (Folderish(p) <=> Folderish(q))
  BY FileListAssumption, PathNames
<1>3. change.dest = dest /\ change.kind = "move" /\ change.res = p
  BY DEF BuiltOne, Move, LastName
<1>4. dest \in Paths /\ DoChange(change, tree).ok /\ ChangeDisk(DoChange(change, tree).tree)
      /\ Tell("moved", r, new)
  BY <1>1, <1>3
<1>5. DoChange(change, tree) = MovePath(tree, p, dest)
  BY <1>3 DEF DoChange
<1>6. Folderish(p) <=> Folderish(dest)
  <2> HIDE DEF p, q
  <2> QED BY <1>2, <1>4, AppendFolderish
<1>7. new.path = dest /\ r.path = p
  BY <1>3
<1> HIDE DEF p, q, change, dest, r, new
<1>8. tree \in Trees /\ Nested(tree) /\ Named(tree)
  BY DEF TypeOK, RaiseInv, DiskNamed
<1>9. MovePath(tree, p, dest).ok /\ tree' = u
  BY <1>4, <1>5 DEF ChangeDisk
<1>10. Nested(u) /\ Named(u)
  BY <1>2, <1>4, <1>6, <1>8, <1>9, NestedMove, NamedMove
<1>11. NodeAt(u, Parent(p)) = Dir /\ Exists(u, dest)
  BY <1>2, <1>4, <1>8, <1>9, MoveLeaves
<1> HIDE DEF u
<1>12. There(u, ParentFolder(r)) /\ There(u, new)
  BY <1>4, <1>7, <1>11, PathsType, FileTreeAssumption
     DEF There, ParentFolder, FolderAt, NodeAt, Exists, Root
<1>13. Happened(tree', "moved", r, new)
  BY <1>6, <1>7, <1>9, <1>12 DEF Happened
<1> QED BY <1>4, <1>9, <1>10, <1>13, TellTrue

\* A file is written, or a folder is validated: the directory is as it was.
LEMMA StillTrue ==
    ASSUME RaiseInv, WriteResource \/ Validate
    PROVE  RaiseInv'
<1>1. tree' = tree /\ Nested(tree) /\ Named(tree)
  BY DEF WriteResource, Validate, RaiseInv, DiskNamed, disk
<1>2. CASE WriteResource
  <2>1. PICK p \in FilePaths : IsFile(tree, p) /\ Tell("changed", FileAt(p), None)
    BY <1>2 DEF WriteResource
  <2>2. There(tree, FileAt(p))
    BY <2>1, FileListAssumption, FileTreeAssumption, PathsType
       DEF There, NodeAt, FileAt, IsFile, Root
  <2>3. Happened(tree', "changed", FileAt(p), None)
    BY <1>1, <2>2 DEF Happened
  <2> QED BY <1>1, <2>1, <2>3, TellTrue
<1>3. CASE Validate
  <2>1. PICK p \in FolderPaths \cup {Root} : Tell("validate", FolderAt(p), None)
    BY <1>3 DEF Validate
  <2>2. Happened(tree', "validate", FolderAt(p), None)
    BY DEF Happened, FolderAt
  <2> QED BY <1>1, <2>1, <2>2, TellTrue
<1> QED BY <1>2, <1>3

\* The other program works between the calls only, and keeps to the names.
LEMMA OutsideTrue ==
    ASSUME "race" \notin Features, NamesTellKinds, TypeOK, RaiseInv, Outside
    PROVE  RaiseInv'
<1>1. pc = "idle" /\ UNCHANGED <<tables, pc, event, todo, cur>>
  BY DEF Outside, report
<1>2. tree \in Trees /\ Nested(tree) /\ Named(tree)
  BY DEF TypeOK, RaiseInv, DiskNamed
<1>3. FilePaths \subseteq Paths /\ FolderPaths \subseteq Paths
  BY FileListAssumption
<1>4. ASSUME NEW p \in Paths, NEW node, node \in {Empty, Dir},
             node = Dir => Folderish(p), node = Empty => ~Folderish(p),
             CreateNode(tree, p, node).ok, tree' = CreateNode(tree, p, node).tree
      PROVE  Nested(tree') /\ Named(tree')
  <2>1. /\ ~Exists(tree, p) /\ HasParent(tree, p) /\ tree' = [tree EXCEPT ![p] = node]
    BY <1>4 DEF CreateNode, Raises, Leaves
  <2>2. (node = Dir => Folderish(p)) /\ (node \in Data => ~Folderish(p))
    BY <1>4, FileTreeAssumption DEF Data
  <2>3. tree[p] # Dir
    BY <2>1, FileTreeAssumption DEF Exists
  <2>4. Nested(tree')
    BY <1>2, <2>1, <2>3, NestedPut
  <2>5. Named(tree')
    <3>1. Named([tree EXCEPT ![p] = node])
      BY <1>2, <2>2, NamedPut, Zenon
    <3> QED BY <2>1, <3>1
  <2> QED BY <2>4, <2>5
<1>5. PICK p \in FilePaths \cup FolderPaths :
          \E result \in {CreateNode(tree, p, Empty) : q \in FilePaths \cap {p}} \cup
                        {CreateNode(tree, p, Dir) : q \in FolderPaths \cap {p}} \cup
                        {RemoveNode(tree, p)} : result.ok /\ tree' = result.tree
  BY DEF Outside, ChangeDisk
<1>6. Nested(tree') /\ Named(tree')
  <2>1. CASE p \in FilePaths /\ CreateNode(tree, p, Empty).ok
             /\ tree' = CreateNode(tree, p, Empty).tree
    BY <1>3, <1>4, <2>1, PathNames, FileTreeAssumption DEF Data
  <2>2. CASE p \in FolderPaths /\ CreateNode(tree, p, Dir).ok
             /\ tree' = CreateNode(tree, p, Dir).tree
    BY <1>3, <1>4, <2>2, PathNames, FileTreeAssumption DEF Data
  <2>3. CASE RemoveNode(tree, p).ok /\ tree' = RemoveNode(tree, p).tree
    BY <1>2, <1>3, <2>3, NestedRemove, NamedRemove
  <2> QED BY <1>5, <2>1, <2>2, <2>3
<1>7. TablesNamed' /\ TodoNamed'
  BY <1>1 DEF RaiseInv, TablesNamed, TodoNamed
<1> QED BY <1>1, <1>6, <1>7
        DEF RaiseInv, DiskNamed, EventTrue, TodoThere, OnlyMissingRaise

-----------------------------------------------------------------------------
(* What is reported is there *)

\* What an observer finds to report, part by part.
LEMMA CauseParts ==
    ASSUME NEW table
    PROVE  /\ event.kind = "changed" =>
                /\ Cause(table).changed =
                      ({event.res} \cap DOMAIN table) \cup ChangedParent(table, event.res)
                /\ Cause(table).created = {}
           /\ event.kind = "created" =>
                /\ Cause(table).changed = ChangedParent(table, event.res)
                /\ Cause(table).created = {event.res} \cap DOMAIN table
           /\ event.kind = "moved" =>
                /\ Cause(table).changed = ChangedParent(table, event.res)
                                             \cup ChangedParent(table, event.new)
                /\ Cause(table).created = {event.new} \cap DOMAIN table
           /\ event.kind = "removed" =>
                /\ Cause(table).changed = ChangedParent(table, event.res)
                /\ Cause(table).created = {}
           /\ event.kind = "validate" =>
                LET gone == Vanished(tree, table, event.res)
                    altered == Altered(tree, mtime, table, event.res)
                IN  /\ Cause(table).changed =
                          (UNION {ChangedParent(table, r) : r \in gone}) \cup altered
                              \cup UNION {ChangedParent(table, r) : r \in altered}
                    /\ Cause(table).created = Appeared(tree, table, event.res)
<1>1. \A r : /\ CausedByChanged(table, r).changed = ({r} \cap DOMAIN table) \cup ChangedParent(table, r)
             /\ CausedByChanged(table, r).created = {}
  BY DEF CausedByChanged, NoChanges
<1>2. \A r : /\ CausedByCreated(table, r).changed = ChangedParent(table, r)
             /\ CausedByCreated(table, r).created = {r} \cap DOMAIN table
  BY DEF CausedByCreated, NoChanges
<1>3. \A r, n : LET c == CausedByMoved(tree, table, r, n)
                IN  /\ c.changed = ChangedParent(table, r) \cup ChangedParent(table, n)
                    /\ c.created = {n} \cap DOMAIN table
  BY DEF CausedByMoved
<1>4. \A R : /\ CausedByRemoved(table, R).changed = UNION {ChangedParent(table, r) : r \in R}
             /\ CausedByRemoved(table, R).created = {}
  BY DEF CausedByRemoved
<1>5. CASE event.kind = "changed"
  BY <1>1, <1>5 DEF Cause
<1>6. CASE event.kind = "created"
  BY <1>2, <1>6 DEF Cause
<1>7. CASE event.kind = "moved"
  BY <1>3, <1>7 DEF Cause
<1>8. CASE event.kind = "removed"
  <2>1. Cause(table) = CausedByRemoved(table, {event.res})
    BY <1>8 DEF Cause
  <2>2. UNION {ChangedParent(table, r) : r \in {event.res}} = ChangedParent(table, event.res)
    OBVIOUS
  <2> QED BY <1>4, <1>8, <2>1, <2>2
<1>9. CASE event.kind = "validate"
  <2>1. Cause(table) = CausedByValidate(tree, mtime, table, event.res)
    BY <1>9 DEF Cause
  <2> QED BY <1>4, <1>9, <2>1 DEF CausedByValidate
<1> QED BY <1>5, <1>6, <1>7, <1>8, <1>9

\* The folder of what is there, when an observer has it.
LEMMA ParentReported ==
    ASSUME Nested(tree), NEW table, NEW r \in AnyResource, There(tree, r),
           NEW s \in ChangedParent(table, r)
    PROVE  There(tree, s)
<1>1. s = ParentFolder(r) /\ r.path \in Places
  BY DEF ChangedParent, AnyResource
<1>2. NodeAt(tree, Parent(r.path)) = Dir
  BY <1>1, ParentThere DEF There
<1> QED BY <1>1, <1>2, FileTreeAssumption DEF There, ParentFolder, FolderAt

\* What vanished was in a folder that is there, unless the folder that is
\* validated is gone: a folder between the two would be gone, too, and be told
\* instead.
LEMMA VanishedParent ==
    ASSUME EventInv, event.kind = "validate", event.res.folder, There(tree, event.res),
           NEW table \in Tables, NEW r \in Vanished(tree, table, event.res),
           NEW s \in ChangedParent(table, r)
    PROVE  There(tree, s)
<1> DEFINE v == event.res
<1>1. /\ r \in InScope(table, v) /\ ~There(tree, r)
      /\ \A x \in InScope(table, v) : ~There(tree, x) => ~Covers(x, r)
  BY DEF Vanished
<1>2. r \in Inside(table, v) /\ Within(v.path, r.path) /\ r \in DOMAIN table
  BY <1>1 DEF InScope, Inside, Covers
<1>3. r.path \in Places /\ r.path # Root /\ v.path \in Places
  <2>1. r.path \in Places /\ v.path \in Places
    BY <1>2, TableFacts DEF Folders, AnyResource, EventInv
  <2>2. v.path \in Sequence
    BY <2>1, PathsType DEF Places, Root
  <2>3. ~Within(v.path, <<>>)
    BY <2>2, WithinSelf
  <2> QED BY <1>2, <2>1, <2>3 DEF Root
<1>4. r.path \in Paths /\ r.path \in Sequence /\ r.path # <<>> /\ v.path \in Sequence
  BY <1>3, PathsType DEF Places, Root
<1>5. s = FolderAt(Parent(r.path)) /\ s \in DOMAIN table
  BY DEF ChangedParent, ParentFolder
<1>6. s.path = Parent(r.path) /\ s.folder = TRUE
  BY <1>5 DEF FolderAt
<1>7. Covers(s, r)
  BY <1>4, <1>6, PlaceParent DEF Covers
<1>8. v.path = s.path \/ Within(v.path, s.path)
  BY <1>2, <1>4, <1>6, ParentLast
<1>9. CASE v.path = s.path
  BY <1>9 DEF There
<1>10. CASE Within(v.path, s.path)
  <2>1. s \in InScope(table, v)
    BY <1>5, <1>10 DEF InScope, Inside, Covers
  <2> QED BY <1>1, <1>7, <2>1
<1> QED BY <1>8, <1>9, <1>10

\* Everything an observer is to look at is there, unless a folder that is gone
\* is validated.
LEMMA CauseThere ==
    ASSUME EventInv, Nested(tree), Happened(tree, event.kind, event.res, event.new),
           event.kind # "none", ~ValidatesGone, NEW table \in Tables,
           NEW s \in Cause(table).changed \cup Cause(table).created
    PROVE  There(tree, s)
<1>1. event.res \in AnyResource /\ (event.kind = "moved" => event.new \in AnyResource)
  BY DEF EventInv
<1>2. DOMAIN table \subseteq AnyResource
  BY TableFacts DEF Folders, AnyResource
<1>3. CASE event.kind \in {"changed", "created"}
  <2>1. There(tree, event.res)
    BY <1>3 DEF Happened
  <2>2. s = event.res \/ s \in ChangedParent(table, event.res)
    BY <1>3, CauseParts
  <2> QED BY <1>1, <2>1, <2>2, ParentReported
<1>4. CASE event.kind \in {"moved", "removed"}
  <2>1. There(tree, ParentFolder(event.res)) /\ (event.kind = "moved" => There(tree, event.new))
    BY <1>4 DEF Happened
  <2>2. \/ s = ParentFolder(event.res)
        \/ event.kind = "moved" /\ (s = event.new \/ s \in ChangedParent(table, event.new))
    BY <1>4, CauseParts DEF ChangedParent
  <2> QED BY <1>1, <2>1, <2>2, ParentReported
<1>5. CASE event.kind = "validate"
  <2>1. There(tree, event.res) /\ event.res.folder
    BY <1>5 DEF ValidatesGone, Happened
  <2>2. \A r \in Altered(tree, mtime, table, event.res) \cup Appeared(tree, table, event.res) :
            r \in AnyResource /\ There(tree, r)
    BY <1>2 DEF Altered, Appeared, InScope, Inside
  <2>3. \/ s \in Altered(tree, mtime, table, event.res) \cup Appeared(tree, table, event.res)
        \/ \E r \in Altered(tree, mtime, table, event.res) : s \in ChangedParent(table, r)
        \/ \E r \in Vanished(tree, table, event.res) : s \in ChangedParent(table, r)
    BY <1>5, CauseParts
  <2>4. CASE \E r \in Altered(tree, mtime, table, event.res) : s \in ChangedParent(table, r)
    BY <2>2, <2>4, ParentReported
  <2>5. CASE \E r \in Vanished(tree, table, event.res) : s \in ChangedParent(table, r)
    BY <1>5, <2>1, <2>5, VanishedParent
  <2> QED BY <2>2, <2>3, <2>4, <2>5
<1> QED BY <1>3, <1>4, <1>5 DEF EventInv, Kinds

\* What is to be reported has the name of a folder, for it comes from the
\* table; what it became has one, for the move keeps the kind.
LEMMA CauseNamed ==
    ASSUME EventInv, Happened(tree, event.kind, event.res, event.new), event.kind # "none",
           NEW table \in Tables, TableNamed(table), ~CannotCause(table),
           todo' = Cause(table)
    PROVE  TodoNamed'
<1>1. DOMAIN table \subseteq Folders
  BY TableFacts
<1>2. \A r : ChangedParent(table, r) \subseteq DOMAIN table /\ Inside(table, r) \subseteq DOMAIN table
  BY DEF ChangedParent, Inside
<1>3. todo'.changed \cup todo'.created \subseteq DOMAIN table
  <2>1. InScope(table, event.res) \subseteq DOMAIN table
    BY <1>2 DEF InScope
  <2>2. /\ Altered(tree, mtime, table, event.res) \subseteq DOMAIN table
        /\ Appeared(tree, table, event.res) \subseteq DOMAIN table
    BY <2>1 DEF Altered, Appeared
  <2>3. CASE event.kind # "validate"
    BY <1>2, <2>3, CauseParts DEF EventInv, Kinds
  <2>4. CASE event.kind = "validate"
    BY <1>2, <2>2, <2>4, CauseParts
  <2> QED BY <2>3, <2>4
<1>4. ASSUME NEW s \in DOMAIN todo'.moved
      PROVE  s \in DOMAIN table /\ (todo'.moved[s] # None => Folderish(todo'.moved[s].path))
  <2>1. \A gone : /\ DOMAIN CausedByRemoved(table, gone).moved \subseteq DOMAIN table
                  /\ \A r \in DOMAIN CausedByRemoved(table, gone).moved :
                        CausedByRemoved(table, gone).moved[r] = None
    BY <1>2 DEF CausedByRemoved
  <2>2. CASE event.kind \in {"changed", "created"}
    <3>1. DOMAIN todo'.moved = {}
      BY <2>2 DEF Cause, CausedByChanged, CausedByCreated, NoChanges, NoMoves
    <3> QED BY <1>4, <3>1
  <2>3. CASE event.kind = "removed"
    <3>1. todo' = CausedByRemoved(table, {event.res})
      BY <2>3 DEF Cause
    <3> QED BY <1>4, <2>1, <3>1
  <2>4. CASE event.kind = "validate"
    <3>1. todo'.moved = CausedByRemoved(table, Vanished(tree, table, event.res)).moved
      BY <2>4 DEF Cause, CausedByValidate
    <3> QED BY <1>4, <2>1, <3>1
  <2>5. CASE event.kind = "moved"
    <3> DEFINE r == event.res
               new == event.new
               S == ({r} \cap DOMAIN table) \cup Inside(table, r)
               g(x) == IF x = r THEN new ELSE NewResource(tree, r, new, x)
    <3>1. todo'.moved = [x \in S |-> g(x)]
      BY <2>5 DEF Cause, CausedByMoved
    <3>2. s \in S /\ todo'.moved[s] = g(s)
      BY <1>4, <3>1
    <3>3. s \in DOMAIN table /\ Folderish(s.path)
      BY <1>2, <3>2 DEF TableNamed
    <3>4. CASE s = r
      <4>1. Folderish(new.path)
        BY <2>5, <3>3, <3>4 DEF Happened
      <4> QED BY <3>2, <3>3, <3>4, <4>1
    <3>5. CASE s # r
      <4> DEFINE p == Rebased(r.path, new.path, s.path)
      <4>1. s \in Inside(table, r) /\ Within(r.path, s.path)
        BY <3>2, <3>5 DEF Inside, Covers
      <4>2. p \in Paths /\ g(s).path = p
        BY <2>5, <3>5, <4>1 DEF CannotCause, CannotFollow, NewResource
      <4>3. r.path \in Sequence /\ new.path \in Sequence /\ s.path \in Sequence
        <5>1. r.path \in Places /\ new.path \in Places /\ s.path \in Places
          BY <1>1, <2>5, <3>3 DEF EventInv, AnyResource, Folders
        <5> QED BY <5>1, PathsType DEF Places, Root
      <4>4. LastName(p) = LastName(s.path) /\ s.path # <<>>
        BY <4>1, <4>3, RebasedName, WithinSelf
      <4>5. Folderish(p)
        BY <3>3, <4>4 DEF Folderish, Root
      <4> QED BY <3>2, <3>3, <4>2, <4>5
    <3> QED BY <3>4, <3>5
  <2> QED BY <2>2, <2>3, <2>4, <2>5 DEF EventInv, Kinds
<1> QED BY <1>3, <1>4 DEF TodoNamed, TableNamed

-----------------------------------------------------------------------------
(* The steps of telling them *)

\* What has the name of a folder is never found to be a file.
LEMMA CanList ==
    ASSUME TypeOK, Named(tree), NEW r \in AnyResource, Folderish(r.path)
    PROVE  ~CannotList(r)
<1>1. r.path \in Places
  BY DEF AnyResource
<1>2. CASE r.path = Root
  BY <1>2 DEF CannotList, NodeAt
<1>3. CASE r.path # Root
  <2>1. r.path \in Paths /\ tree[r.path] \in Nodes
    BY <1>1, <1>3 DEF TypeOK, Trees, Places
  <2>2. tree[r.path] \in {Absent, Dir}
    BY <2>1 DEF Named, Nodes
  <2> QED BY <1>3, <2>2 DEF CannotList, There, NodeAt
<1> QED BY <1>2, <1>3

\* A walk of a folder finds folders.
LEMMA UpdateFolderNamed ==
    ASSUME Named(tree), NEW c, TableNamed(c.own), NEW r, Folderish(r.path)
    PROVE  TableNamed(UpdateFolder(c, r).own)
<1> DEFINE walked == Walked(r.path, c.folders)
           new == {FolderAt(p) : p \in walked \ c.folders}
<1>1. \A p \in walked : Folderish(p)
  BY DEF Walked, Named
<1>2. \A s \in new : Folderish(s.path)
  <2>1. \A p \in walked : Folderish(FolderAt(p).path)
    BY <1>1 DEF FolderAt
  <2> HIDE DEF walked
  <2> QED BY <2>1
<1>3. CASE ~There(tree, r)
  BY <1>3 DEF UpdateFolder
<1>4. CASE There(tree, r)
  <2>1. UpdateFolder(c, r).own = Watch(c.own, new, mtime)
    BY <1>4 DEF UpdateFolder
  <2> HIDE DEF new
  <2>2. DOMAIN Watch(c.own, new, mtime) = DOMAIN c.own \cup new
    BY DEF Watch
  <2> QED BY <1>2, <2>1, <2>2 DEF TableNamed
<1> QED BY <1>3, <1>4

\* The report changes the first table only.
LEMMA BecomesNamed ==
    ASSUME NEW ts \in Seq(Tables), Len(ts) >= 1,
           \A i \in 1..Len(ts) : TableNamed(ts[i]),
           NEW c, c.own \in Tables, TableNamed(c.own), Becomes(c, ts)
    PROVE  TablesNamed'
<1>1. Len(ts) \in Nat /\ 1 \in 1..Len(ts)
  BY LenProperties
<1>2. /\ tables' \in Seq(Tables) /\ Len(tables') = Len(ts)
      /\ tables'[1] = c.own
      /\ \A i \in 1..Len(ts) : i # 1 => tables'[i] = ts[i]
  BY <1>1, ExceptSeq, LenProperties DEF Becomes, Shows
<1>3. DOMAIN tables' = 1..Len(ts)
  BY <1>2, LenProperties
<1>4. ASSUME NEW i \in 1..Len(ts) PROVE TableNamed(tables'[i])
  BY <1>1, <1>2
<1> QED BY <1>3, <1>4 DEF TablesNamed, TableNamed

\* The observer works out what to report.
LEMMA DeliverTrue ==
    ASSUME ObservedInv, RaiseInv, Deliver
    PROVE  RaiseInv'
<1>1. /\ pc = "deliver" /\ at \in DOMAIN tables /\ ~CannotCause(tables[at])
      /\ todo' = Cause(tables[at]) /\ pc' \in {"deliver", "perform"}
      /\ UNCHANGED <<tree, tables, event>>
  BY DEF Deliver, disk
<1>2. /\ EventInv /\ event.kind # "none" /\ Nested(tree)
      /\ Happened(tree, event.kind, event.res, event.new)
      /\ TableNamed(tables[at])
  BY <1>1 DEF ObservedInv, EventInv, RaiseInv, DiskNamed, EventTrue, TablesNamed
<1>3. tables[at] \in Tables
  BY <1>1, WatchedResources DEF ObservedInv
<1>4. TodoNamed'
  BY <1>1, <1>2, <1>3, CauseNamed
<1>5. ValidatesGone \/ \A r \in todo'.changed \cup todo'.created : There(tree, r)
  BY <1>1, <1>2, <1>3, CauseThere
<1>6. TodoThere'
  BY <1>1, <1>5 DEF TodoThere, ValidatesGone
<1>7. EventTrue' /\ OnlyMissingRaise'
  BY <1>1, <1>2 DEF EventTrue, OnlyMissingRaise
<1> QED BY <1>1, <1>4, <1>6, <1>7 DEF RaiseInv, DiskNamed, TablesNamed, TableNamed

\* The observer that cannot work it out.
LEMMA DeliverRaisesTrue ==
    ASSUME ObservedInv, RaiseInv, DeliverRaises
    PROVE  RaiseInv'
<1>1. /\ CannotCause(tables[at]) /\ pc = "deliver" /\ pc' = "raised"
      /\ UNCHANGED <<tree, tables, event, at, todo, cur>>
  BY DEF DeliverRaises, Raise, disk, report
<1>2. event.kind \in Kinds
  BY <1>1 DEF ObservedInv, EventInv
<1>3. OnlyMissingRaise'
  BY <1>1, <1>2 DEF OnlyMissingRaise, CannotCause, CannotCompare, Kinds
<1> QED BY <1>1, <1>3
        DEF RaiseInv, DiskNamed, TablesNamed, TableNamed, TodoNamed, EventTrue, TodoThere

\* What a report leaves alone.
LEMMA ReportSame ==
    ASSUME RaiseInv, pc = "perform", pc' \in {"perform", "record"},
           UNCHANGED <<disk, event>>
    PROVE  DiskNamed' /\ EventTrue' /\ OnlyMissingRaise' /\ (ValidatesGone' = ValidatesGone)
BY DEF RaiseInv, DiskNamed, EventTrue, OnlyMissingRaise, ValidatesGone, disk

\* The cacher hears of a folder that changed or was created.
LEMMA ReportOneTrue ==
    ASSUME ObservedInv, RaiseInv, ReportChanged \/ ReportCreated
    PROVE  RaiseInv'
<1>0. /\ DiskInv /\ TodoInv /\ TablesInv /\ TablesNamed /\ TodoNamed /\ TodoThere /\ Named(tree)
      /\ DOMAIN tables = 1..Len(tables) /\ Len(tables) \in Nat /\ 1 \in 1..Len(tables)
  BY LenProperties DEF ObservedInv, TablesInv, RaiseInv, DiskNamed
<1>1. PICK r \in todo.changed \cup todo.created :
          /\ Becomes(UpdateFolder(Cacher(tables), r), tables) /\ cur' = r
          /\ \/ todo' = [todo EXCEPT !.changed = @ \ {r}]
             \/ todo' = [todo EXCEPT !.created = @ \ {r}]
  BY DEF ReportChanged, ReportCreated
<1>2. pc = "perform" /\ pc' = "record" /\ UNCHANGED <<disk, event>>
  BY DEF ReportChanged, ReportCreated
<1>3. r \in AnyResource /\ Folderish(r.path)
  BY <1>0, <1>1 DEF TodoInv, Folders, AnyResource, TodoNamed
<1>4. Cacher(tables).own \in Tables /\ Cacher(tables).folders \subseteq Places
      /\ TableNamed(Cacher(tables).own)
  BY <1>0, WatchedResources DEF Cacher, TablesInv, TablesNamed
<1>5. /\ UpdateFolder(Cacher(tables), r).own \in Tables
      /\ TableNamed(UpdateFolder(Cacher(tables), r).own)
  BY <1>0, <1>3, <1>4, UpdateFolderGrows, UpdateFolderNamed DEF Grown
<1>6. TablesNamed'
  BY <1>0, <1>1, <1>5, BecomesNamed DEF TablesInv, TablesNamed
<1>7. /\ todo'.changed \subseteq todo.changed /\ todo'.created \subseteq todo.created
      /\ todo'.moved = todo.moved
  <2>1. CASE todo' = [todo EXCEPT !.changed = @ \ {r}]
    BY <2>1
  <2>2. CASE todo' = [todo EXCEPT !.created = @ \ {r}]
    BY <2>2
  <2> QED BY <1>1, <2>1, <2>2
<1>8. TodoNamed'
  BY <1>0, <1>7 DEF TodoNamed
<1>9. TodoThere'
  <2>1. ValidatesGone \/ \A s \in todo.changed \cup todo.created : There(tree, s)
    BY <1>0, <1>2 DEF TodoThere
  <2> QED BY <1>1, <1>2, <1>7, <2>1 DEF TodoThere, ValidatesGone, disk
<1> QED BY <1>2, <1>6, <1>8, <1>9, ReportSame DEF RaiseInv

\* The cacher hears of a folder that is somewhere else or gone.
LEMMA ReportMovedTrue ==
    ASSUME ObservedInv, TypeOK, RaiseInv, ReportMoved
    PROVE  RaiseInv'
<1>0. /\ DiskInv /\ TodoInv /\ TablesInv /\ TablesNamed /\ TodoNamed /\ TodoThere /\ Named(tree)
      /\ DOMAIN tables = 1..Len(tables) /\ Len(tables) \in Nat /\ 1 \in 1..Len(tables)
  BY LenProperties DEF ObservedInv, TablesInv, RaiseInv, DiskNamed
<1> DEFINE forgotten(r) == [tables EXCEPT ![at][r] = None]
           left(r) == UpdateFolder(Cacher(forgotten(r)), r)
           here(r) == IF todo.moved[r] = None THEN left(r)
                      ELSE UpdateFolder(left(r), todo.moved[r])
<1>1. PICK r \in DOMAIN todo.moved :
          /\ Becomes(here(r), forgotten(r))
          /\ todo' = [todo EXCEPT !.moved = [s \in DOMAIN @ \ {r} |-> @[s]]]
  BY DEF ReportMoved
<1>2. pc = "perform" /\ pc' = "perform" /\ UNCHANGED <<disk, event>>
  BY DEF ReportMoved
<1>3. /\ r \in AnyResource /\ Folderish(r.path)
      /\ todo.moved[r] \in AnyResource \cup {None}
      /\ todo.moved[r] # None => Folderish(todo.moved[r].path)
  BY <1>0 DEF TodoInv, Folders, AnyResource, TodoNamed
<1> DEFINE ts == forgotten(r)
<1>4. /\ ts \in Seq(Tables) /\ Len(ts) = Len(tables)
      /\ \A i \in 1..Len(tables) : TableNamed(ts[i])
  <2> DEFINE t == [tables[at] EXCEPT ![r] = None]
  <2>1. at \in 1..Len(tables)
    BY <1>0, <1>2 DEF TypeOK
  <2>2. tables[at] \in Tables /\ TableNamed(tables[at])
    BY <1>0, <2>1, WatchedResources DEF TablesNamed
  <2>3. t \in Tables /\ DOMAIN t = DOMAIN tables[at]
    BY <2>2, SetIndicator
  <2>4. TableNamed(t)
    BY <2>2, <2>3 DEF TableNamed
  <2>5. ts = [tables EXCEPT ![at] = t]
    OBVIOUS
  <2> HIDE DEF t
  <2>6. /\ ts \in Seq(Tables) /\ Len(ts) = Len(tables) /\ ts[at] = t
        /\ \A i \in 1..Len(tables) : i # at => ts[i] = tables[i]
    BY <1>0, <2>1, <2>3, <2>5, ExceptSeq DEF TablesInv
  <2> HIDE DEF forgotten
  <2> QED BY <1>0, <2>4, <2>6 DEF TablesNamed
<1>5. /\ Cacher(ts).own \in Tables /\ Cacher(ts).folders \subseteq Places
      /\ TableNamed(Cacher(ts).own)
  <2>1. ts[1] \in Tables
    BY <1>0, <1>4, ElementOfSeq
  <2> QED BY <1>0, <1>4, <2>1 DEF Cacher, TablesInv
<1> HIDE DEF forgotten
<1>6. left(r).own \in Tables /\ left(r).folders \subseteq Places /\ TableNamed(left(r).own)
  BY <1>0, <1>3, <1>5, UpdateFolderGrows, UpdateFolderNamed DEF Grown
<1> HIDE DEF left
<1>7. here(r).own \in Tables /\ TableNamed(here(r).own)
  <2>1. CASE todo.moved[r] = None
    BY <1>6, <2>1
  <2>2. CASE todo.moved[r] # None
    BY <1>0, <1>3, <1>6, <2>2, UpdateFolderGrows, UpdateFolderNamed DEF Grown
  <2> QED BY <2>1, <2>2
<1> HIDE DEF here
<1>8. TablesNamed'
  BY <1>0, <1>1, <1>4, <1>7, BecomesNamed DEF TablesInv
<1>9. /\ todo'.changed = todo.changed /\ todo'.created = todo.created
      /\ \/ todo'.moved = todo.moved
         \/ /\ DOMAIN todo'.moved \subseteq DOMAIN todo.moved
            /\ \A s \in DOMAIN todo'.moved : todo'.moved[s] = todo.moved[s]
  <2> DEFINE rest == [s \in DOMAIN todo.moved \ {r} |-> todo.moved[s]]
  <2>1. /\ DOMAIN rest \subseteq DOMAIN todo.moved
        /\ \A s \in DOMAIN rest : rest[s] = todo.moved[s]
    OBVIOUS
  <2>2. todo' = [todo EXCEPT !.moved = rest]
    BY <1>1
  <2> HIDE DEF rest
  <2>3. /\ todo'.changed = todo.changed /\ todo'.created = todo.created
        /\ todo'.moved = rest \/ todo'.moved = todo.moved
    BY <2>2
  <2> QED BY <2>1, <2>3
<1>10. TodoNamed'
  BY <1>0, <1>9 DEF TodoNamed
<1>11. TodoThere'
  BY <1>0, <1>2, <1>9 DEF TodoThere, ValidatesGone, disk
<1> QED BY <1>2, <1>8, <1>10, <1>11, ReportSame DEF RaiseInv

\* The cacher never raises: what it is to list is a folder or not there.
LEMMA ReportNeverRaises ==
    ASSUME ObservedInv, TypeOK, RaiseInv
    PROVE  ~ReportRaises /\ ~ReportMovedRaises
<1>1. TodoInv /\ TodoNamed /\ Named(tree)
  BY DEF ObservedInv, RaiseInv, DiskNamed
<1>2. \A r \in todo.changed \cup todo.created \cup DOMAIN todo.moved : ~CannotList(r)
  BY <1>1, CanList DEF TodoInv, TodoNamed, Folders, AnyResource
<1>3. \A r \in DOMAIN todo.moved : ~CannotFind(r, todo.moved[r])
  <2> TAKE r \in DOMAIN todo.moved
  <2>1. todo.moved[r] # None => todo.moved[r] \in AnyResource /\ Folderish(todo.moved[r].path)
    BY <1>1 DEF TodoInv, TodoNamed
  <2> QED BY <1>1, <1>2, <2>1, CanList DEF CannotFind
<1> QED BY <1>2, <1>3 DEF ReportRaises, ReportMovedRaises

\* The indicator is read, or what has it is gone.
LEMMA RecordTrue ==
    ASSUME ObservedInv, RaiseInv, Record \/ RecordRaises
    PROVE  RaiseInv'
<1>0. /\ TablesInv /\ TablesNamed /\ TodoThere
      /\ DOMAIN tables = 1..Len(tables) /\ Len(tables) \in Nat
  BY LenProperties DEF ObservedInv, TablesInv, RaiseInv
<1>1. CASE Record
  <2>1. /\ tables' = [tables EXCEPT ![at][cur] = mtime[cur.path]]
        /\ pc = "record" /\ pc' = "perform" /\ UNCHANGED <<tree, event, todo>>
    BY <1>1 DEF Record, disk
  <2>2. DOMAIN tables' = DOMAIN tables /\ \A i \in DOMAIN tables : DOMAIN tables'[i] = DOMAIN tables[i]
    BY <1>0, <2>1
  <2>3. TablesNamed'
    BY <1>0, <2>2 DEF TablesNamed, TableNamed
  <2>4. TodoThere'
    BY <1>0, <2>1 DEF TodoThere, ValidatesGone
  <2> QED BY <2>1, <2>3, <2>4
          DEF RaiseInv, DiskNamed, TodoNamed, EventTrue, OnlyMissingRaise
<1>2. CASE RecordRaises
  <2>1. /\ pc = "record" /\ ~There(tree, cur) /\ pc' = "raised"
        /\ UNCHANGED <<tree, tables, event, todo>>
    BY <1>2 DEF RecordRaises, Raise, disk, report
  <2>2. OnlyMissingRaise'
    BY <1>0, <2>1 DEF TodoThere, ValidatesGone, OnlyMissingRaise
  <2> QED BY <2>1, <2>2
          DEF RaiseInv, DiskNamed, TablesNamed, TableNamed, TodoNamed, EventTrue, TodoThere
<1> QED BY <1>1, <1>2

\* The first get_files finds folders; a later one forgets some.
LEMMA FilesTrue ==
    ASSUME ObservedInv, RaiseInv, ObserveDeeper \/ StartGetFiles \/ GetFiles
    PROVE  RaiseInv'
<1>0. /\ TablesInv /\ TablesNamed /\ Named(tree)
      /\ DOMAIN tables = 1..Len(tables) /\ Len(tables) \in Nat /\ 1 \in 1..Len(tables)
  BY LenProperties DEF ObservedInv, TablesInv, RaiseInv, DiskNamed
<1>1. /\ UNCHANGED <<tree, event, todo>> /\ pc \in {"start", "idle"} /\ pc' \in {"start", "idle"}
  BY DEF ObserveDeeper, StartGetFiles, GetFiles, disk, report
<1>2. TablesNamed'
  <2>1. CASE ObserveDeeper
    <3> DEFINE S == {FolderAt(q) : q \in Left}
               t == [r \in S |-> mtime[r.path]]
    <3>1. tables' = Append(tables, t)
      BY <2>1 DEF ObserveDeeper
    <3>2. TableNamed(t)
      <4>1. \A q \in Left : Folderish(FolderAt(q).path)
        BY <1>0 DEF Left, Walked, Named, Folderish, FolderAt
      <4> QED BY <4>1 DEF TableNamed
    <3> HIDE DEF t
    <3>3. /\ DOMAIN tables' = 1..(Len(tables) + 1)
          /\ \A i \in 1..Len(tables) : tables'[i] = tables[i]
          /\ tables'[Len(tables) + 1] = t
      BY <1>0, <3>1 DEF TablesInv
    <3> QED BY <1>0, <3>2, <3>3 DEF TablesNamed, TableNamed
  <2>2. CASE StartGetFiles
    BY <1>0, <2>2 DEF StartGetFiles, TablesNamed, TableNamed
  <2>3. CASE GetFiles
    <3> DEFINE lost == {FolderAt(p) : p \in {q \in folders : ~There(tree, FolderAt(q))}}
    <3>1. tables' = [tables EXCEPT ![1] = Unwatch(@, lost)]
      BY <2>3 DEF GetFiles
    <3> HIDE DEF lost
    <3>2. DOMAIN Unwatch(tables[1], lost) \subseteq DOMAIN tables[1]
      BY DEF Unwatch
    <3>3. /\ DOMAIN tables' = 1..Len(tables)
          /\ \A i \in 1..Len(tables) : DOMAIN tables'[i] \subseteq DOMAIN tables[i]
      BY <1>0, <3>1, <3>2
    <3> QED BY <1>0, <3>3 DEF TablesNamed, TableNamed
  <2> QED BY <2>1, <2>2, <2>3
<1> QED BY <1>1, <1>2
        DEF RaiseInv, DiskNamed, TodoNamed, EventTrue, TodoThere, OnlyMissingRaise

\* On to the next observer, or out of the call.
LEMMA MovesOnTrue ==
    ASSUME RaiseInv, NextObserver \/ Return \/ CallRaises \/ UNCHANGED vars
    PROVE  RaiseInv'
<1>1. UNCHANGED <<tree, tables>>
  BY DEF NextObserver, Return, CallRaises, vars, disk
<1>2. DiskNamed' /\ TablesNamed'
  BY <1>1 DEF RaiseInv, DiskNamed, TablesNamed, TableNamed
<1>3. CASE NextObserver
  BY <1>1, <1>2, <1>3 DEF NextObserver, RaiseInv, TodoNamed, EventTrue, TodoThere, OnlyMissingRaise
<1>4. CASE Return
  BY <1>1, <1>2, <1>4 DEF Return, RaiseInv, TodoNamed, EventTrue, TodoThere, OnlyMissingRaise
<1>5. CASE CallRaises
  <2>1. DOMAIN NoMoves = {}
    BY DEF NoMoves
  <2>2. TodoNamed'
    BY <1>5, <2>1 DEF CallRaises, TodoNamed, NoChanges
  <2> QED BY <1>2, <1>5, <2>2 DEF CallRaises, RaiseInv, EventTrue, TodoThere, OnlyMissingRaise
<1>6. CASE UNCHANGED vars
  BY <1>1, <1>2, <1>6
     DEF vars, report, RaiseInv, TodoNamed, EventTrue, TodoThere, ValidatesGone, OnlyMissingRaise
<1> QED BY <1>3, <1>4, <1>5, <1>6

LEMMA RaiseKept ==
    ASSUME "race" \notin Features, NamesTellKinds, ObservedInv, TypeOK, RaiseInv, [Next]_vars
    PROVE  RaiseInv'
BY CreateTrue, RemoveTrue, MoveTrue, StillTrue, OutsideTrue, FilesTrue, DeliverTrue,
   DeliverRaisesTrue, ReportOneTrue, ReportMovedTrue, ReportNeverRaises, RecordTrue,
   MovesOnTrue DEF Next, Call, Step

LEMMA RaiseAtStart ==
    ASSUME NamesTellKinds, Init
    PROVE  RaiseInv
<1>1. Nested(tree) /\ Named(tree)
  BY FileListAssumption, NestedWell, PathNames DEF Init
<1>2. TablesNamed
  <2> DEFINE t == [r \in {} |-> None]
  <2>1. TableNamed(t)
    BY DEF TableNamed
  <2> HIDE DEF t
  <2>2. DOMAIN << t >> = {1} /\ << t >>[1] = t
    OBVIOUS
  <2> QED BY <2>1, <2>2 DEF Init, TablesNamed, t
<1>3. DOMAIN NoMoves = {}
  BY DEF NoMoves
<1> QED BY <1>1, <1>2, <1>3
        DEF Init, RaiseInv, DiskNamed, TodoNamed, NoChanges, EventTrue, TodoThere,
            OnlyMissingRaise

\* When nobody works while the observers are told, and the names of the project
\* tell folders from files, an exception in an observer comes out of two calls
\* only: of the move of a folder of which the observer still has a part that is
\* gone, and of validate for something that is gone.  Every other operation of
\* rope has told all observers when it returns.
THEOREM OnlyMissingRaiseHolds ==
    ASSUME "race" \notin Features, NamesTellKinds
    PROVE  Spec => []OnlyMissingRaise
<1>1. Init => RaiseInv
  BY RaiseAtStart
<1>2. ObservedInv /\ TypeOK /\ RaiseInv /\ [Next]_vars => RaiseInv'
  BY RaiseKept
<1>3. RaiseInv => OnlyMissingRaise
  BY DEF RaiseInv
<1> QED BY <1>1, <1>2, <1>3, AlwaysObserved, FileListTypes, PTL DEF Spec

-----------------------------------------------------------------------------
(* Places *)

LEMMA PlacesType == Places \subseteq Sequence /\ Paths \subseteq Places /\ Root \in Places
BY PathsType DEF Places, Root

\* Of two places that lead to a third, one leads to the other.
LEMMA UnderChain ==
    ASSUME NEW a \in Sequence, NEW b \in Sequence, NEW c \in Sequence,
           Under(a, c), Under(b, c)
    PROVE  Under(a, b) \/ Under(b, a)
BY WithinChain DEF Under

LEMMA UnderTrans ==
    ASSUME NEW a \in Sequence, NEW b \in Sequence, NEW c \in Sequence
    PROVE  /\ Under(a, b) /\ Under(b, c) => Under(a, c)
           /\ Within(a, b) /\ Under(b, c) => Within(a, c)
           /\ Under(a, b) /\ Within(b, c) => Within(a, c)
BY WithinTrans DEF Under

\* What leads to a path leads to its folder.
LEMMA UnderParent ==
    ASSUME NEW p \in Paths, NEW a \in Sequence
    PROVE  Within(a, p) <=> Under(a, Parent(p))
<1>1. p \in Sequence /\ p # <<>> /\ Parent(p) \in Sequence /\ Within(Parent(p), p)
  BY PathsType, ParentType
<1>2. Within(a, p) => Under(a, Parent(p))
  BY <1>1, ParentLast DEF Under
<1>3. Under(a, Parent(p)) => Within(a, p)
  BY <1>1, UnderTrans
<1> QED BY <1>2, <1>3

\* Around what is there are folders.
LEMMA FoldersAround ==
    ASSUME NEW t, Nested(t), NEW a \in Places, NEW p \in Places, Within(a, p),
           NodeAt(t, p) # Absent
    PROVE  NodeAt(t, a) = Dir
<1>1. p # Root
  BY PlacesType, WithinSelf DEF Root
<1>2. p \in Paths /\ Exists(t, p)
  BY <1>1 DEF Places, NodeAt, Exists
<1> QED BY <1>2 DEF Places, NodeAt, Nested

\* What is in an ignored folder is ignored; the project folder is not.
LEMMA IgnoredInside ==
    /\ ~IsIgnored(Root)
    /\ \A a, p \in Places : Under(a, p) /\ IsIgnored(a) => IsIgnored(p)
<1>1. Ignored \subseteq Sequence /\ Root \notin Ignored
  BY FileListAssumption, PathsType DEF Root
<1>2. ~IsIgnored(Root)
  BY <1>1, WithinSelf DEF IsIgnored, Root
<1>3. ASSUME NEW a \in Places, NEW p \in Places, Under(a, p), IsIgnored(a)
      PROVE  IsIgnored(p)
  <2>1. PICK q \in Ignored : Under(q, a)
    BY <1>3 DEF IsIgnored, Under
  <2>2. Under(q, p)
    BY <1>1, <1>3, <2>1, PlacesType, UnderTrans
  <2> QED BY <2>2 DEF IsIgnored, Under
<1> QED BY <1>2, <1>3

\* No known folder is on the way from a down to p, and p itself is not known
\* unless it is a: the walk of a comes to p.
OpenFrom(known, a, p) ==
    Under(a, p) /\ \A b \in known : ~(Within(a, b) /\ Under(b, p))

\* The way to p is open from the last known folder on it.
LEMMA LastKnown ==
    ASSUME NEW known \in SUBSET Places, NEW p \in Places, NEW b \in known, Under(b, p)
    PROVE  \E k \in known : Under(b, k) /\ OpenFrom(known, k, p)
<1>1. \A x \in Places : Len(x) \in Nat
  BY PlacesType, LenProperties DEF Sequence
<1> DEFINE Far == {n \in Nat : \E k \in known : Under(b, k) /\ Under(k, p) /\ Len(k) + n = Len(p)}
<1>2. \A k \in known : Under(k, p) => Len(k) <= Len(p)
  BY <1>1, PlacesType, WithinMeans DEF Under
<1>3. \A k \in known : Under(b, k) /\ Under(k, p) => Len(p) - Len(k) \in Far
  <2> TAKE k \in known
  <2> HAVE Under(b, k) /\ Under(k, p)
  <2>1. Len(k) \in Nat /\ Len(p) \in Nat /\ Len(k) <= Len(p)
    BY <1>1, <1>2
  <2> QED BY <2>1
<1>4. Far # {} /\ Far \in SUBSET Nat
  <2>1. Under(b, b)
    BY DEF Under
  <2> QED BY <1>3, <2>1
<1> HIDE DEF Far
<1>5. PICK n \in Far : \A m \in Far : n <= m
  BY <1>4, LeastNatural
<1>6. PICK k \in known : Under(b, k) /\ Under(k, p) /\ Len(k) + n = Len(p)
  BY <1>5 DEF Far
<1>7. ASSUME NEW c \in known, Within(k, c), Under(c, p) PROVE FALSE
  <2>1. Under(b, c)
    BY <1>6, <1>7, PlacesType, UnderTrans DEF Under
  <2>2. n <= Len(p) - Len(c)
    BY <1>3, <1>5, <1>7, <2>1
  <2>3. Len(k) < Len(c)
    BY <1>7, PlacesType, WithinMeans
  <2>4. Len(k) \in Nat /\ Len(c) \in Nat /\ Len(p) \in Nat /\ n \in Nat
    BY <1>1, <1>4, <1>5
  <2> QED BY <1>6, <2>2, <2>3, <2>4
<1> QED BY <1>6, <1>7 DEF OpenFrom

-----------------------------------------------------------------------------
(* What a walk shows *)

\* A folder that a walk could go through.
Visible(t, p) == NodeAt(t, p) = Dir /\ ~IsIgnored(p)

\* All that is in the folder p is in the lists of the cacher.
Shown(t, listed, known, p) ==
    \A q \in Paths : Parent(q) = p /\ ~IsIgnored(q) =>
        /\ IsFile(t, q) => q \in listed
        /\ t[q] = Dir => q \in known

LEMMA ShownMore ==
    ASSUME NEW t, NEW c, NEW d, NEW p, Shown(t, c.files, c.folders, p),
           c.files \subseteq d.files, c.folders \subseteq d.folders
    PROVE  Shown(t, d.files, d.folders, p)
BY DEF Shown

\* Around what is visible all is visible.
LEMMA VisibleAround ==
    ASSUME NEW t, Nested(t), NEW p \in Places, Visible(t, p), NEW a \in Places, Under(a, p)
    PROVE  Visible(t, a)
<1>1. NodeAt(t, p) # Absent
  BY FileTreeAssumption DEF Visible
<1>2. NodeAt(t, a) = Dir
  BY <1>1, FoldersAround DEF Under, Visible
<1> QED BY <1>2, IgnoredInside DEF Visible

\* The folder that has what a walk could list or go through.
LEMMA VisibleParent ==
    ASSUME NEW t, Nested(t), NEW q \in Paths, Exists(t, q), ~IsIgnored(q)
    PROVE  Parent(q) \in Places /\ Visible(t, Parent(q))
<1>1. q \in Places /\ NodeAt(t, q) # Absent
  BY PathsType DEF Places, NodeAt, Exists, Root
<1>2. Parent(q) \in Places /\ NodeAt(t, Parent(q)) = Dir
  BY <1>1, ParentThere
<1>3. Under(Parent(q), q)
  BY PlaceParent DEF Under
<1> QED BY <1>1, <1>2, <1>3, IgnoredInside DEF Visible

\* The walk of a folder goes through the visible folders to which the way is open.
LEMMA WalkedMeans ==
    ASSUME NEW a \in Places, NEW known \in SUBSET Places, NEW p \in Places, Visible(tree, p),
           OpenFrom(known, a, p)
    PROVE  p = a \/ p \notin known => p \in Walked(a, known)
<1>1. CASE p = a
  BY <1>1 DEF Walked
<1>2. CASE p # a /\ p \notin known
  <2>1. Within(a, p)
    BY <1>2 DEF OpenFrom, Under
  <2>2. p \in Paths /\ tree[p] = Dir
    <3>1. p # Root
      BY <2>1, PlacesType, WithinSelf DEF Root
    <3> QED BY <3>1 DEF Places, Visible, NodeAt
  <2> QED BY <1>2, <2>1, <2>2 DEF Walked, OpenFrom, Under, Visible
<1> QED BY <1>1, <1>2

\* What a walk goes through is open.
LEMMA WalkedOpen ==
    ASSUME NEW a \in Places, NEW known \in SUBSET Places, NEW p \in Walked(a, known)
    PROVE  p \in Places /\ OpenFrom(known, a, p) /\ (p = a \/ (tree[p] = Dir /\ p \notin known))
<1>1. CASE p = a
  <2>1. \A b \in known : ~(Within(a, b) /\ Under(b, a))
    BY PlacesType, WithinSelf DEF Under
  <2>2. OpenFrom(known, a, a)
    BY <2>1, Zenon DEF OpenFrom, Under
  <2> QED BY <1>1, <2>2
<1>2. CASE p # a
  <2>1. /\ p \in Paths /\ Within(a, p) /\ tree[p] = Dir
        /\ \A b \in known : ~(Within(a, b) /\ (b = p \/ Within(b, p)))
    BY <1>2 DEF Walked
  <2>2. \A b \in known : ~(Within(a, b) /\ Under(b, p))
    BY <2>1 DEF Under
  <2>3. p \notin known
    BY <2>1
  <2> QED BY <2>1, <2>2, <2>3, PlacesType DEF OpenFrom, Under
<1> QED BY <1>1, <1>2

\* What a walk, or several, make of the cacher c and the table of its observer.
Walks(c, d) ==
    /\ c.files \subseteq d.files /\ c.folders \subseteq d.folders
    /\ \A f \in d.files \ c.files :
          f \in Paths /\ IsFile(tree, f) /\ ~IsIgnored(f) /\ Parent(f) \in d.folders
    /\ DOMAIN c.own \subseteq DOMAIN d.own
    /\ \A s \in DOMAIN d.own :
          \/ s \in DOMAIN c.own /\ d.own[s] = c.own[s]
          \/ /\ There(tree, s) /\ d.own[s] = mtime[s.path]
             /\ Visible(tree, s.path) => Shown(tree, d.files, d.folders, s.path)
    /\ \A a, p \in Places : Visible(tree, p) /\ OpenFrom(c.folders, a, p) =>
          OpenFrom(d.folders, a, p) \/ Shown(tree, d.files, d.folders, p)

LEMMA WalksTwice ==
    ASSUME NEW c, NEW d, NEW e, Walks(c, d), Walks(d, e)
    PROVE  Walks(c, e)
<1>1. /\ c.files \subseteq d.files /\ c.folders \subseteq d.folders
      /\ d.files \subseteq e.files /\ d.folders \subseteq e.folders
      /\ DOMAIN c.own \subseteq DOMAIN d.own /\ DOMAIN d.own \subseteq DOMAIN e.own
  BY DEF Walks
<1>2. \A p : Shown(tree, d.files, d.folders, p) => Shown(tree, e.files, e.folders, p)
  BY <1>1, ShownMore
<1>3. \A f \in e.files \ c.files :
          f \in Paths /\ IsFile(tree, f) /\ ~IsIgnored(f) /\ Parent(f) \in e.folders
  BY <1>1 DEF Walks
<1>4. ASSUME NEW s \in DOMAIN e.own
      PROVE  \/ s \in DOMAIN c.own /\ e.own[s] = c.own[s]
             \/ /\ There(tree, s) /\ e.own[s] = mtime[s.path]
                /\ Visible(tree, s.path) => Shown(tree, e.files, e.folders, s.path)
  <2>1. CASE s \in DOMAIN d.own /\ e.own[s] = d.own[s]
    BY <1>2, <2>1 DEF Walks
  <2>2. CASE ~(s \in DOMAIN d.own /\ e.own[s] = d.own[s])
    BY <1>4, <2>2 DEF Walks
  <2> QED BY <2>1, <2>2
<1>5. ASSUME NEW a \in Places, NEW p \in Places, Visible(tree, p), OpenFrom(c.folders, a, p)
      PROVE  OpenFrom(e.folders, a, p) \/ Shown(tree, e.files, e.folders, p)
  <2>1. OpenFrom(d.folders, a, p) \/ Shown(tree, d.files, d.folders, p)
    BY <1>5 DEF Walks
  <2>2. OpenFrom(d.folders, a, p) =>
            OpenFrom(e.folders, a, p) \/ Shown(tree, e.files, e.folders, p)
    BY <1>5 DEF Walks
  <2> QED BY <1>2, <2>1, <2>2
<1> QED BY <1>1, <1>3, <1>4, <1>5 DEF Walks

\* A walk of the folder a shows every visible folder to which the way was open.
LEMMA WalkShows ==
    ASSUME Nested(tree), NEW c, c.folders \subseteq Places, NEW r, r.path \in Places, There(tree, r),
           NEW p \in Places, Visible(tree, p), OpenFrom(c.folders, r.path, p)
    PROVE  p = r.path \/ p \notin c.folders =>
              LET d == UpdateFolder(c, r) IN Shown(tree, d.files, d.folders, p)
<1> DEFINE a == r.path
           walked == Walked(a, c.folders)
           d == UpdateFolder(c, r)
<1>1. d.files = c.files \cup FilesIn(walked) /\ d.folders = c.folders \cup walked
  BY DEF UpdateFolder
<1> SUFFICES ASSUME p = r.path \/ p \notin c.folders,
                    NEW q \in Paths, Parent(q) = p, ~IsIgnored(q)
             PROVE  (IsFile(tree, q) => q \in d.files) /\ (tree[q] = Dir => q \in d.folders)
  BY DEF Shown
<1> HIDE DEF d
<1>2. p \in walked
  BY WalkedMeans
<1>3. IsFile(tree, q) => q \in FilesIn(walked)
  BY <1>2 DEF FilesIn
<1>4. ASSUME tree[q] = Dir, q \notin c.folders PROVE q \in walked
  <2>1. q \in Places /\ Visible(tree, q)
    BY <1>4, PathsType DEF Places, Visible, NodeAt, Root
  <2>2. Under(a, q)
    <3>1. Under(a, Parent(q))
      BY DEF OpenFrom
    <3> QED BY <3>1, PlacesType, UnderParent DEF Under
  <2>3. ASSUME NEW b \in c.folders, Within(a, b), Under(b, q) PROVE FALSE
    <3>1. Within(b, q)
      BY <1>4, <2>3 DEF Under
    <3>2. Under(b, p)
      BY <2>3, <3>1, PlacesType, UnderParent
    <3> QED BY <2>3, <3>2 DEF OpenFrom
  <2>4. OpenFrom(c.folders, a, q)
    BY <2>2, <2>3 DEF OpenFrom
  <2> QED BY <1>4, <2>1, <2>4, WalkedMeans
<1> QED BY <1>1, <1>3, <1>4

\* What _update_folder adds, of a folder that is there or is not.
LEMMA UpdateFolderWalks ==
    ASSUME Nested(tree), NEW c, c.folders \subseteq Places, NEW r, r.path \in Places
    PROVE  Walks(c, UpdateFolder(c, r))
<1> DEFINE a == r.path
           walked == Walked(a, c.folders)
           new == {FolderAt(p) : p \in walked \ c.folders}
           d == UpdateFolder(c, r)
<1>1. CASE ~There(tree, r)
  BY <1>1 DEF UpdateFolder, Walks
<1>2. CASE There(tree, r)
  <2>1. /\ d.files = c.files \cup FilesIn(walked) /\ d.folders = c.folders \cup walked
        /\ d.own = Watch(c.own, new, mtime)
    BY <1>2 DEF UpdateFolder
  <2>2. /\ DOMAIN d.own = DOMAIN c.own \cup new
        /\ \A s \in DOMAIN d.own : d.own[s] = IF s \in new THEN mtime[s.path] ELSE c.own[s]
    BY <2>1 DEF Watch
  <2>3. \A p \in walked : /\ p \in Places /\ OpenFrom(c.folders, a, p)
                          /\ p = a \/ (tree[p] = Dir /\ p \notin c.folders)
    BY WalkedOpen
  <2>4. ASSUME NEW p \in Places, Visible(tree, p), OpenFrom(c.folders, a, p),
               p = a \/ p \notin c.folders
        PROVE  Shown(tree, d.files, d.folders, p)
    BY <1>2, <2>4, WalkShows
  <2> HIDE DEF d, walked
  <2>5. ASSUME NEW f \in d.files \ c.files
        PROVE  f \in Paths /\ IsFile(tree, f) /\ ~IsIgnored(f) /\ Parent(f) \in d.folders
    BY <2>1 DEF FilesIn
  <2>6. ASSUME NEW s \in new
        PROVE  /\ There(tree, s)
               /\ Visible(tree, s.path) => Shown(tree, d.files, d.folders, s.path)
    <3>1. PICK p \in walked \ c.folders : s = FolderAt(p)
      OBVIOUS
    <3>2. s.path = p
      BY <3>1 DEF FolderAt
    <3>3. There(tree, s)
      <4>1. CASE p = a
        BY <1>2, <3>2, <4>1 DEF There
      <4>2. CASE p # a
        BY <2>3, <3>1, <3>2, <4>2, FileTreeAssumption DEF There, NodeAt
      <4> QED BY <4>1, <4>2
    <3> QED BY <2>3, <2>4, <3>1, <3>2, <3>3
  <2>7. ASSUME NEW b \in Places, NEW p \in Places, Visible(tree, p), OpenFrom(c.folders, b, p),
               ~OpenFrom(d.folders, b, p)
        PROVE  Shown(tree, d.files, d.folders, p)
    <3>1. PICK x \in d.folders : Within(b, x) /\ Under(x, p)
      BY <2>7 DEF OpenFrom
    <3>2. x \notin c.folders
      BY <2>7, <3>1 DEF OpenFrom
    <3>3. x \in walked /\ x \in Places /\ OpenFrom(c.folders, a, x)
      BY <2>1, <2>3, <3>1, <3>2
    <3>4. Under(a, p)
      BY <3>1, <3>3, PlacesType, UnderTrans DEF OpenFrom
    <3>5. ASSUME NEW y \in c.folders, Within(a, y), Under(y, p) PROVE FALSE
      <4>1. y \in Sequence /\ x \in Sequence /\ b \in Sequence /\ p \in Sequence
        BY <2>7, <3>3, PlacesType
      <4>2. Under(y, x) \/ Under(x, y)
        BY <3>1, <3>5, <4>1, UnderChain
      <4>3. CASE Under(y, x)
        BY <3>3, <3>5, <4>3 DEF OpenFrom
      <4>4. CASE Under(x, y)
        <5>1. Within(b, y)
          BY <3>1, <4>1, <4>4, UnderTrans
        <5> QED BY <2>7, <3>5, <5>1 DEF OpenFrom
      <4> QED BY <4>2, <4>3, <4>4
    <3>6. OpenFrom(c.folders, a, p)
      BY <3>4, <3>5 DEF OpenFrom
    <3>7. p = a \/ p \notin c.folders
      <4>1. CASE p \in c.folders
        <5>1. b \in Sequence /\ x \in Sequence /\ p \in Sequence
          BY <2>7, <3>3, PlacesType
        <5>2. Within(b, p)
          BY <3>1, <5>1, UnderTrans
        <5>3. Under(p, p)
          BY DEF Under
        <5> QED BY <2>7, <4>1, <5>2, <5>3 DEF OpenFrom
      <4> QED BY <4>1
    <3> QED BY <2>4, <2>7, <3>6, <3>7
  <2> HIDE DEF new
  <2>8. \A s \in DOMAIN d.own :
          \/ s \in DOMAIN c.own /\ d.own[s] = c.own[s]
          \/ /\ There(tree, s) /\ d.own[s] = mtime[s.path]
             /\ Visible(tree, s.path) => Shown(tree, d.files, d.folders, s.path)
    BY <2>2, <2>6
  <2>9. DOMAIN c.own \subseteq DOMAIN d.own
    BY <2>2
  <2> QED BY <2>1, <2>5, <2>7, <2>8, <2>9 DEF Walks, d
<1> QED BY <1>1, <1>2

\* A walk shows the folders it was asked for, and those it was to come to.
LEMMA WalkArrives ==
    ASSUME Nested(tree), NEW c, c.folders \subseteq Places, NEW r, r.path \in Places,
           NEW p \in Places, Visible(tree, p), OpenFrom(c.folders, r.path, p)
    PROVE  LET d == UpdateFolder(c, r) IN Shown(tree, d.files, d.folders, p)
<1>1. Visible(tree, r.path)
  BY VisibleAround DEF OpenFrom
<1>2. There(tree, r)
  BY <1>1, FileTreeAssumption DEF There, Visible
<1>3. p = r.path \/ p \notin c.folders
  <2>1. Under(p, p)
    BY DEF Under
  <2> QED BY <2>1 DEF OpenFrom, Under
<1> QED BY <1>2, <1>3, WalkShows

-----------------------------------------------------------------------------
(* What is true whoever was in the directory *)

\* While the first get_files makes its observers: each has the folders with the
\* times they have, and the second has all of them.
StartInv ==
    pc = "start" =>
        /\ ~unseen
        /\ \A f \in files : IsFile(tree, f)
        /\ \A i \in DOMAIN tables : \A s \in DOMAIN tables[i] :
              There(tree, s) /\ tables[i][s] = mtime[s.path]
        /\ Len(tables) = 1 => folders = {}
        /\ Len(tables) > 1 => /\ OnDisk \subseteq files
                              /\ \A p \in Places : Visible(tree, p) => FolderAt(p) \in DOMAIN tables[2]

\* What is listed has the name of a file and was found in a folder that is known.
ListedKnown ==
    /\ \A f \in files : f \in Paths /\ ~IsIgnored(f) /\ ~Folderish(f)
    /\ pc # "start" => Root \in folders /\ \A f \in files : Parent(f) \in folders

\* What is in a folder is known before its indicator is read.
CurShown ==
    pc = "record" =>
        /\ needs_gc
        /\ cur.path \in Places
        /\ Visible(tree, cur.path) => Shown(tree, files, folders, cur.path)

\* The table has the indicator that the folder has.
Clean(table, p) == FolderAt(p) \in DOMAIN table /\ table[FolderAt(p)] = mtime[p]

\* The folder is in the table and a validate would find something to report.
Unclean(table, p) ==
    /\ FolderAt(p) \in DOMAIN table
    /\ There(tree, FolderAt(p)) => table[FolderAt(p)] # mtime[p]

\* An indicator that is up to date says that the list is.
CleanShown ==
    pc # "start" =>
        \A i \in DOMAIN tables, p \in Places :
            Visible(tree, p) /\ Clean(tables[i], p) => Shown(tree, files, folders, p)

\* A listed file that is gone is dropped by the next get_files, or a validate
\* finds its folder changed or gone.
GoneUnclean ==
    pc # "start" /\ ~needs_gc =>
        \A f \in files : ~Exists(tree, f) => \E i \in DOMAIN tables : Unclean(tables[i], Parent(f))

ListInv == StartInv /\ ListedKnown /\ CurShown /\ CleanShown /\ GoneUnclean

\* A change of the directory gives a new time to the folders it changes.
LEMMA NewTimes ==
    ASSUME TypeOK, NEW t, ChangeDisk(t)
    PROVE  /\ \A p \in Places :
                IF NodeAt(t, p) # NodeAt(tree, p) \/ Listing(t, p) # Listing(tree, p)
                THEN mtime'[p] = clock + 1 ELSE mtime'[p] = mtime[p]
           /\ \A i \in DOMAIN tables : \A s \in DOMAIN tables[i] : tables[i][s] # clock + 1
           /\ \A p \in Places : mtime[p] # clock + 1
<1>1. clock \in Nat /\ clock + 1 # None
  BY FileListAssumption DEF TypeOK
<1>2. ASSUME NEW i \in DOMAIN tables, NEW s \in DOMAIN tables[i]
      PROVE  tables[i][s] # clock + 1
  <2>1. tables[i] \in [DOMAIN tables[i] -> (0..clock) \cup {None}]
    BY <1>2 DEF TypeOK, IsTable
  <2>2. tables[i][s] \in (0..clock) \cup {None}
    BY <1>2, <2>1
  <2> QED BY <1>1, <2>2
<1>3. \A p \in Places : mtime[p] # clock + 1
  BY <1>1 DEF TypeOK
<1>4. mtime' = [p \in Places |->
                    IF NodeAt(t, p) # NodeAt(tree, p) \/ Listing(t, p) # Listing(tree, p)
                    THEN clock + 1 ELSE mtime[p]]
  BY DEF ChangeDisk
<1> QED BY <1>2, <1>3, <1>4

\* What is in a folder stays shown when the folder lists what it listed.
LEMMA SameListing ==
    ASSUME NEW t \in Trees, NEW u \in Trees, KindKept(t, u), NEW p, Listing(u, p) = Listing(t, p),
           NEW listed, NEW known, Shown(t, listed, known, p)
    PROVE  Shown(u, listed, known, p)
<1> SUFFICES ASSUME NEW q \in Paths, Parent(q) = p, ~IsIgnored(q)
             PROVE  (IsFile(u, q) => q \in listed) /\ (u[q] = Dir => q \in known)
  BY DEF Shown
<1>1. Exists(u, q) <=> Exists(t, q)
  <2>1. q \in Listing(u, p) <=> Exists(u, q)
    BY DEF Listing
  <2>2. q \in Listing(t, p) <=> Exists(t, q)
    BY DEF Listing
  <2> QED BY <2>1, <2>2
<1>2. t[q] \in Nodes /\ u[q] \in Nodes
  BY DEF Trees
<1>3. IsFile(u, q) => IsFile(t, q)
  BY <1>1, <1>2, FileTreeAssumption DEF IsFile, Exists, KindKept, Nodes
<1>4. u[q] = Dir => t[q] = Dir
  BY <1>1, FileTreeAssumption DEF Exists, KindKept
<1> QED BY <1>3, <1>4 DEF Shown

\* A change of the directory, by rope or by another program.
LEMMA DiskList ==
    ASSUME TypeOK, KnownAreObserved, ListInv,
           NEW t \in Trees, KindKept(tree, t), ChangeDisk(t),
           pc = "idle", pc' \in {"idle", "deliver"},
           UNCHANGED <<tables, files, folders, needs_gc>>
    PROVE  ListInv'
<1>1. tree' = t /\ tree \in Trees
  BY DEF ChangeDisk, TypeOK
<1>2. StartInv' /\ ListedKnown' /\ CurShown'
  BY DEF ListInv, StartInv, ListedKnown, CurShown
<1>3. ASSUME NEW i \in DOMAIN tables, NEW p \in Places, Visible(t, p),
             FolderAt(p) \in DOMAIN tables[i], tables[i][FolderAt(p)] = mtime'[p]
      PROVE  Shown(t, files, folders, p)
  <2>1. NodeAt(t, p) = NodeAt(tree, p) /\ Listing(t, p) = Listing(tree, p) /\ mtime'[p] = mtime[p]
    BY <1>3, NewTimes
  <2>2. Visible(tree, p) /\ Clean(tables[i], p)
    BY <1>3, <2>1 DEF Visible, Clean
  <2>3. Shown(tree, files, folders, p)
    BY <2>2 DEF ListInv, CleanShown
  <2> QED BY <1>1, <2>1, <2>3, SameListing
<1>4. CleanShown'
  BY <1>1, <1>3 DEF CleanShown, Clean
<1>5. ASSUME ~needs_gc, NEW f \in files, ~Exists(t, f)
      PROVE  \E i \in DOMAIN tables :
                 /\ FolderAt(Parent(f)) \in DOMAIN tables[i]
                 /\ There(t, FolderAt(Parent(f))) => tables[i][FolderAt(Parent(f))] # mtime'[Parent(f)]
  <2> DEFINE P == Parent(f)
  <2>1. f \in Paths /\ P \in folders /\ P \in Places
    BY PlaceParent DEF ListInv, ListedKnown
  <2> HIDE DEF P
  <2>2. CASE Exists(tree, f)
    <3>1. PICK i \in DOMAIN tables : FolderAt(P) \in DOMAIN tables[i]
      BY <2>1 DEF KnownAreObserved
    <3>2. f \in Listing(tree, P) /\ f \notin Listing(t, P)
      BY <1>5, <2>1, <2>2 DEF Listing, P
    <3>3. mtime'[P] = clock + 1
      BY <2>1, <3>2, NewTimes
    <3> QED BY <3>1, <3>3, NewTimes DEF P
  <2>3. CASE ~Exists(tree, f)
    <3>1. PICK i \in DOMAIN tables : Unclean(tables[i], P)
      BY <1>5, <2>3 DEF ListInv, GoneUnclean, P
    <3>2. CASE NodeAt(t, P) = NodeAt(tree, P)
      <4>1. There(tree, FolderAt(P)) <=> There(t, FolderAt(P))
        BY <3>2 DEF There, FolderAt
      <4>2. mtime'[P] \in {mtime[P], clock + 1}
        BY <2>1, NewTimes
      <4> QED BY <3>1, <4>1, <4>2, NewTimes DEF P, Unclean
    <3>3. CASE NodeAt(t, P) # NodeAt(tree, P)
      <4>1. mtime'[P] = clock + 1
        BY <2>1, <3>3, NewTimes
      <4> QED BY <3>1, <4>1, NewTimes DEF P, Unclean
    <3> QED BY <3>2, <3>3
  <2> QED BY <2>2, <2>3
<1>6. GoneUnclean'
  BY <1>1, <1>5 DEF GoneUnclean, Unclean
<1> QED BY <1>2, <1>4, <1>6 DEF ListInv

\* Nothing but the place of the thread changes.
LEMMA StillList ==
    ASSUME ListInv, UNCHANGED <<disk, tables, cacher>>, pc # "start", pc' \notin {"start", "record"}
    PROVE  ListInv'
<1>1. UNCHANGED <<tree, mtime, tables, files, folders, needs_gc>>
  BY DEF disk, cacher
<1>2. StartInv' /\ CurShown' /\ ListedKnown'
  BY <1>1 DEF ListInv, StartInv, CurShown, ListedKnown
<1>3. CleanShown'
  BY <1>1 DEF ListInv, CleanShown, Clean
<1>4. GoneUnclean'
  BY <1>1 DEF ListInv, GoneUnclean, Unclean
<1> QED BY <1>2, <1>3, <1>4 DEF ListInv

-----------------------------------------------------------------------------
(* What the calls do to the directory *)

\* What is created was not there, and its folder is.
LEMMA CreateMeans ==
    ASSUME TypeOK, CreateResource
    PROVE  \E p \in Paths, node \in {Empty, Dir} :
              /\ ~Exists(tree, p) /\ HasParent(tree, p)
              /\ ChangeDisk([tree EXCEPT ![p] = node])
              /\ Tell("created", [path |-> p, folder |-> node = Dir], None)
              /\ UNCHANGED unseen /\ pc = "idle"
<1>1. PICK r \in {FileAt(p) : p \in FilePaths} \cup {FolderAt(p) : p \in FolderPaths} :
          LET result == DoChange(Create(r.path, r.folder), tree)
          IN  result.ok /\ ChangeDisk(result.tree) /\ Tell("created", r, None)
  BY DEF CreateResource
<1> DEFINE node == IF r.folder THEN Dir ELSE Empty
<1>2. r.path \in Paths /\ r = [path |-> r.path, folder |-> node = Dir]
  <2>1. FilePaths \subseteq Paths /\ FolderPaths \subseteq Paths /\ Empty # Dir
    BY FileListAssumption, FileTreeAssumption DEF Data
  <2>2. PICK p \in Paths : r \in {FileAt(p), FolderAt(p)}
    BY <1>1, <2>1
  <2>3. CASE r = FileAt(p)
    BY <2>1, <2>3 DEF FileAt
  <2>4. CASE r = FolderAt(p)
    BY <2>4 DEF FolderAt
  <2> QED BY <2>2, <2>3, <2>4
<1>3. DoChange(Create(r.path, r.folder), tree) = CreateNode(tree, r.path, node)
  BY DEF DoChange, Create
<1>4. /\ ~Exists(tree, r.path) /\ HasParent(tree, r.path)
      /\ ChangeDisk([tree EXCEPT ![r.path] = node])
  <2> HIDE DEF node
  <2> QED BY <1>1, <1>3 DEF CreateNode, Raises, Leaves
<1>5. node \in {Empty, Dir}
  OBVIOUS
<1>6. Tell("created", [path |-> r.path, folder |-> node = Dir], None)
  BY <1>1, <1>2
<1>7. UNCHANGED unseen /\ pc = "idle"
  BY DEF CreateResource
<1> HIDE DEF node
<1> QED BY <1>2, <1>4, <1>5, <1>6, <1>7

LEMMA RemoveMeans ==
    ASSUME RemoveResource
    PROVE  \E p \in Paths :
              /\ RemoveNode(tree, p).ok /\ ChangeDisk(RemoveNode(tree, p).tree)
              /\ Tell("removed", [path |-> p, folder |-> tree[p] = Dir], None)
              /\ UNCHANGED unseen /\ pc = "idle"
<1>1. PICK p \in Paths :
          LET r == [path |-> p, folder |-> tree[p] = Dir]
              result == DoChange(Delete(p, r.folder), tree)
          IN  result.ok /\ ChangeDisk(result.tree) /\ Tell("removed", r, None)
  BY DEF RemoveResource
<1>2. DoChange(Delete(p, tree[p] = Dir), tree) = RemoveNode(tree, p)
  BY DEF DoChange, Delete
<1> QED BY <1>1, <1>2 DEF RemoveResource

LEMMA MoveMeans ==
    ASSUME NamesTellKinds, MoveResource
    PROVE  \E p \in Paths, q \in Paths :
              /\ MovePath(tree, p, q).ok /\ ChangeDisk(MovePath(tree, p, q).tree)
              /\ Tell("moved", [path |-> p, folder |-> tree[p] = Dir],
                               [path |-> q, folder |-> tree[p] = Dir])
              /\ Folderish(p) <=> Folderish(q)
              /\ UNCHANGED unseen /\ pc = "idle"
<1>1. PICK pair \in MovePairs :
          LET p == pair[1]
              change == BuiltOne(Move(p, pair[2], tree[p] = Dir), tree)
              r == [path |-> p, folder |-> change.folder]
              new == [path |-> change.dest, folder |-> change.folder]
              result == DoChange(change, tree)
          IN  /\ change.dest \in Paths
              /\ result.ok /\ ChangeDisk(result.tree) /\ Tell("moved", r, new)
  BY DEF MoveResource
<1> DEFINE p == pair[1]
           q == pair[2]
           change == BuiltOne(Move(p, q, tree[p] = Dir), tree)
           dest == IF tree[q] = Dir THEN Append(q, LastName(p)) ELSE q
<1>2. p \in Paths /\ q \in Paths /\ (Folderish(p) <=> Folderish(q))
  BY FileListAssumption, PathNames
<1>3. change.dest = dest /\ change.kind = "move" /\ change.res = p /\ change.folder = (tree[p] = Dir)
  BY DEF BuiltOne, Move, LastName
<1>4. /\ change.dest \in Paths /\ DoChange(change, tree).ok
      /\ ChangeDisk(DoChange(change, tree).tree)
      /\ Tell("moved", [path |-> p, folder |-> change.folder],
                       [path |-> change.dest, folder |-> change.folder])
  BY <1>1
<1>5. DoChange(change, tree) = MovePath(tree, p, change.dest)
  BY <1>3 DEF DoChange
<1> HIDE DEF p, q, change
<1>6. change.dest \in Paths /\ (Folderish(p) <=> Folderish(change.dest))
  BY <1>2, <1>3, <1>4, AppendFolderish
<1>7. UNCHANGED unseen /\ pc = "idle"
  BY DEF MoveResource
<1> HIDE DEF dest
<1> QED BY <1>2, <1>3, <1>4, <1>5, <1>6, <1>7

\* The kinds of what is there stay, whoever changes the directory.
LEMMA CallDisk ==
    ASSUME NamesTellKinds, TypeOK, Nested(tree),
           CreateResource \/ RemoveResource \/ MoveResource \/ Outside
    PROVE  \E t \in Trees : KindKept(tree, t) /\ ChangeDisk(t)
<1>1. tree \in Trees /\ Empty \in Nodes /\ Dir \in Nodes
  BY FileTreeAssumption DEF TypeOK, Nodes, Data
<1>2. ASSUME NEW p \in Paths, NEW node \in {Empty, Dir}, ~Exists(tree, p),
             ChangeDisk([tree EXCEPT ![p] = node])
      PROVE  \E t \in Trees : KindKept(tree, t) /\ ChangeDisk(t)
  <2>1. [tree EXCEPT ![p] = node] \in Trees
    BY <1>1 DEF Trees
  <2>2. KindKept(tree, [tree EXCEPT ![p] = node])
    BY <1>1, <1>2, PutKinds
  <2> QED BY <1>2, <2>1, <2>2
<1>3. ASSUME NEW p \in Paths, RemoveNode(tree, p).ok, ChangeDisk(RemoveNode(tree, p).tree)
      PROVE  \E t \in Trees : KindKept(tree, t) /\ ChangeDisk(t)
  <2>1. RemoveNode(tree, p).tree \in Trees
    BY <1>1, RemoveType
  <2> QED BY <1>1, <1>3, <2>1, RemoveKinds
<1>4. CASE CreateResource
  BY <1>2, <1>4, CreateMeans
<1>5. CASE RemoveResource
  BY <1>3, <1>5, RemoveMeans
<1>6. CASE MoveResource
  <2>1. PICK p \in Paths, q \in Paths :
            MovePath(tree, p, q).ok /\ ChangeDisk(MovePath(tree, p, q).tree)
    BY <1>6, MoveMeans
  <2>2. MovePath(tree, p, q).tree \in Trees
    BY <1>1, MoveType
  <2>3. KindKept(tree, MovePath(tree, p, q).tree)
    <3>1. CanMove(tree, p, q)
      BY <2>1 DEF MovePath, Raises
    <3>2. CASE p = q
      BY <3>1, <3>2 DEF MovePath, Leaves, KindKept
    <3>3. CASE p # q
      <4>1. MovePath(tree, p, q).tree = Renamed(tree, p, Target(tree, p, q))
        BY <3>1, <3>3 DEF MovePath, Leaves
      <4> QED BY <1>1, <3>1, <3>3, <4>1, MoveKinds
    <3> QED BY <3>2, <3>3
  <2> QED BY <2>1, <2>2, <2>3
<1>7. CASE Outside
  <2>1. PICK p \in FilePaths \cup FolderPaths :
            \E result \in {CreateNode(tree, p, Empty) : q \in FilePaths \cap {p}} \cup
                          {CreateNode(tree, p, Dir) : q \in FolderPaths \cap {p}} \cup
                          {RemoveNode(tree, p)} : result.ok /\ ChangeDisk(result.tree)
    BY <1>7 DEF Outside
  <2>2. p \in Paths
    BY FileListAssumption
  <2>3. ASSUME NEW node \in {Empty, Dir}, CreateNode(tree, p, node).ok,
               ChangeDisk(CreateNode(tree, p, node).tree)
        PROVE  ~Exists(tree, p) /\ ChangeDisk([tree EXCEPT ![p] = node])
    BY <2>3 DEF CreateNode, Raises, Leaves
  <2> QED BY <1>2, <1>3, <2>1, <2>2, <2>3
<1> QED BY <1>4, <1>5, <1>6, <1>7
-----------------------------------------------------------------------------
(* What is listed and known is kept by every step *)

LEMMA ListAtStart == Init => ListInv
<1> SUFFICES ASSUME Init PROVE ListInv
  OBVIOUS
<1>1. pc = "start" /\ ~unseen /\ files = {} /\ folders = {} /\ tables = << [r \in {} |-> None] >>
  BY DEF Init
<1>2. Len(tables) = 1 /\ \A i \in DOMAIN tables : DOMAIN tables[i] = {}
  BY <1>1
<1> QED BY <1>1, <1>2 DEF ListInv, StartInv, ListedKnown, CurShown, CleanShown, GoneUnclean

\* The directory is changed, or looked at.
LEMMA CallList ==
    ASSUME "race" \notin Features, NamesTellKinds, ObservedInv, TypeOK, RaiseInv, ListInv,
           \/ CreateResource \/ RemoveResource \/ MoveResource \/ WriteResource
           \/ Validate \/ Outside
    PROVE  ListInv'
<1>1. CASE CreateResource \/ RemoveResource \/ MoveResource \/ Outside
  <2>1. PICK t \in Trees : KindKept(tree, t) /\ ChangeDisk(t)
    BY <1>1, CallDisk DEF RaiseInv, DiskNamed
  <2>2. /\ pc = "idle" /\ pc' \in {"idle", "deliver"}
        /\ UNCHANGED <<tables, files, folders, needs_gc>>
    BY <1>1 DEF CreateResource, RemoveResource, MoveResource, Outside, Tell, cacher
  <2> QED BY <2>1, <2>2, DiskList DEF ObservedInv
<1>2. CASE WriteResource \/ Validate
  <2>1. UNCHANGED <<disk, tables, cacher>> /\ pc = "idle" /\ pc' = "deliver"
    BY <1>2 DEF WriteResource, Validate, Tell
  <2> QED BY <2>1, StillList
<1> QED BY <1>1, <1>2

\* Everything is in the project folder.
LEMMA RootWithin == \A p \in Places : Under(Root, p)
<1>1. Root \in Sequence /\ Len(Root) = 0
  BY EmptySeq DEF Root, Sequence
<1>2. ASSUME NEW p \in Paths PROVE Within(Root, p)
  <2>1. p \in Sequence /\ Len(p) \in Nat /\ Len(p) # 0
    BY PathsType, LenProperties, EmptySeq DEF Sequence
  <2> QED BY <1>1, <2>1, WithinMeans
<1> QED BY <1>2 DEF Places, Under

\* What the walk of the project folder finds when nothing is known.
LEMMA FirstWalk ==
    ASSUME Nested(tree)
    PROVE  /\ \A p \in Places : Visible(tree, p) => p \in Walked(Root, {})
           /\ OnDisk \subseteq FilesIn(Walked(Root, {}))
<1>1. ASSUME NEW p \in Places, Visible(tree, p) PROVE p \in Walked(Root, {})
  <2>1. p # Root => p \in Paths /\ tree[p] = Dir /\ ~IsIgnored(p)
    BY <1>1 DEF Places, Visible, NodeAt
  <2>2. p # Root => Within(Root, p)
    BY RootWithin DEF Under
  <2> QED BY <2>1, <2>2 DEF Walked
<1>2. ASSUME NEW f \in OnDisk PROVE f \in FilesIn(Walked(Root, {}))
  <2>1. f \in Paths /\ IsFile(tree, f) /\ ~IsIgnored(f) /\ Exists(tree, f)
    BY FileTreeAssumption DEF OnDisk, IsFile, Exists
  <2>2. Parent(f) \in Places /\ Visible(tree, Parent(f))
    BY <2>1, VisibleParent
  <2> QED BY <1>1, <2>1, <2>2 DEF FilesIn
<1> QED BY <1>1, <1>2
\* The first get_files goes one observer deeper.
LEMMA DeeperList ==
    ASSUME ObservedInv, TypeOK, RaiseInv, ListInv, ObserveDeeper
    PROVE  ListInv'
<1> DEFINE S == {FolderAt(q) : q \in Left}
           t == [r \in S |-> mtime[r.path]]
<1>1. /\ pc = "start" /\ pc' = "start" /\ UNCHANGED <<tree, mtime, unseen>>
      /\ tables' = Append(tables, t)
      /\ files' = files \cup FilesIn(Walked(Root, folders))
  BY DEF ObserveDeeper, disk
<1>2. /\ tables \in Seq(Tables) /\ Len(tables) \in Nat /\ Len(tables) >= 1
      /\ folders \subseteq Places /\ Nested(tree) /\ Named(tree)
  BY LenProperties DEF ObservedInv, TablesInv, RaiseInv, DiskNamed
<1>3. t \in Tables
  <2>1. Left \subseteq Places
    BY WalkedPlaces DEF Left, Places
  <2>2. S \subseteq Folders
    <3>1. \A q \in Places : FolderAt(q) \in Folders
      BY DEF FolderAt, Folders
    <3> QED BY <2>1, <3>1
  <2>3. \A r \in S : mtime[r.path] \in Nat
    BY <2>2 DEF ObservedInv, DiskInv, Folders
  <2>4. t \in [S -> Nat \cup {None}]
    BY <2>3
  <2> QED BY <2>2, <2>4 DEF Tables
<1> HIDE DEF t
<1>4. /\ Len(tables') = Len(tables) + 1 /\ DOMAIN tables' = 1..(Len(tables) + 1)
      /\ \A i \in 1..Len(tables) : tables'[i] = tables[i]
      /\ tables'[Len(tables) + 1] = t
  BY <1>1, <1>2, <1>3, AppendProperties, LenProperties
<1>5. \A f \in FilesIn(Walked(Root, folders)) :
          f \in Paths /\ IsFile(tree, f) /\ ~IsIgnored(f) /\ ~Folderish(f)
  BY <1>2 DEF FilesIn, Named, IsFile
<1>6. \A f \in files' : IsFile(tree, f)
  BY <1>1, <1>5 DEF ListInv, StartInv
<1>7. \A s \in S : There(tree, s) /\ t[s] = mtime[s.path]
  <2>1. ASSUME NEW q \in Left PROVE There(tree, FolderAt(q))
    <3>1. q = Root \/ tree[q] = Dir
      BY DEF Left, Walked
    <3> QED BY <3>1, FileTreeAssumption DEF There, FolderAt, NodeAt
  <2> QED BY <2>1 DEF t
<1>8. \A i \in DOMAIN tables' : \A s \in DOMAIN tables'[i] :
          There(tree, s) /\ tables'[i][s] = mtime[s.path]
  <2>1. \A i \in 1..Len(tables) : \A s \in DOMAIN tables[i] :
            There(tree, s) /\ tables[i][s] = mtime[s.path]
    BY <1>1, <1>2 DEF ListInv, StartInv
  <2>2. DOMAIN t = S
    BY DEF t
  <2> QED BY <1>2, <1>4, <1>7, <2>1, <2>2
<1>9. /\ OnDisk \subseteq files'
      /\ \A p \in Places : Visible(tree, p) => FolderAt(p) \in DOMAIN tables'[2]
  <2>1. CASE Len(tables) = 1
    <3>1. folders = {} /\ Left = Walked(Root, {})
      BY <1>1, <2>1 DEF ListInv, StartInv, Left
    <3>2. tables'[2] = t /\ DOMAIN t = S
      BY <1>4, <2>1 DEF t
    <3>3. \A p \in Places : Visible(tree, p) => FolderAt(p) \in S
      BY <1>2, <3>1, FirstWalk
    <3>4. OnDisk \subseteq files'
      BY <1>1, <1>2, <3>1, FirstWalk
    <3> QED BY <3>2, <3>3, <3>4
  <2>2. CASE Len(tables) > 1
    <3>1. /\ OnDisk \subseteq files
          /\ \A p \in Places : Visible(tree, p) => FolderAt(p) \in DOMAIN tables[2]
      BY <1>1, <2>2 DEF ListInv, StartInv
    <3>2. tables'[2] = tables[2]
      BY <1>2, <1>4, <2>2
    <3> QED BY <1>1, <3>1, <3>2
  <2> DEFINE n == Len(tables)
  <2>3. n \in Nat /\ n >= 1
    BY <1>2
  <2> HIDE DEF n
  <2>4. n = 1 \/ n > 1
    BY <2>3
  <2> QED BY <2>1, <2>2, <2>4 DEF n
<1>10. StartInv'
  <2>1. ~unseen /\ OnDisk' = OnDisk
    BY <1>1 DEF ListInv, StartInv, OnDisk
  <2> QED BY <1>1, <1>2, <1>4, <1>6, <1>8, <1>9, <2>1 DEF StartInv
<1>11. ListedKnown'
  BY <1>1, <1>5 DEF ListInv, ListedKnown
<1> QED BY <1>1, <1>10, <1>11 DEF ListInv, CurShown, CleanShown, GoneUnclean

\* After the first get_files the list is complete and every indicator true.
LEMMA StartedList ==
    ASSUME ObservedInv, TypeOK, RaiseInv, ListInv, StartGetFiles
    PROVE  /\ \A p \in Places : Visible(tree, p) => Shown(tree, files', folders', p)
           /\ \A i \in DOMAIN tables : \A s \in DOMAIN tables[i] :
                 There(tree, s) /\ tables[i][s] = mtime[s.path]
           /\ \A f \in files' : f \in Paths /\ IsFile(tree, f) /\ ~IsIgnored(f) /\ ~Folderish(f)
           /\ Root \in folders' /\ \A f \in files' : Parent(f) \in folders'
           /\ ~unseen
<1>1. /\ pc = "start" /\ Left = {}
      /\ folders' = folders \cup {r.path : r \in UNION {DOMAIN tables[i] : i \in DOMAIN tables}}
      /\ files' = files \cup FilesIn({Root})
  BY DEF StartGetFiles
<1>2. /\ tables \in Seq(Tables) /\ Len(tables) \in Nat /\ Len(tables) >= 1
      /\ Nested(tree) /\ Named(tree)
  BY LenProperties DEF ObservedInv, TablesInv, RaiseInv, DiskNamed
<1>3. Root \in folders
  BY <1>1 DEF Left, Walked
<1>4. /\ Len(tables) > 1 /\ OnDisk \subseteq files
      /\ \A p \in Places : Visible(tree, p) => FolderAt(p) \in DOMAIN tables[2]
  <2>1. Len(tables) # 1
    BY <1>1, <1>3 DEF ListInv, StartInv
  <2> DEFINE n == Len(tables)
  <2>2. n \in Nat /\ n >= 1 /\ n # 1
    BY <1>2, <2>1
  <2> HIDE DEF n
  <2>3. n > 1
    BY <2>2
  <2>4. StartInv
    BY DEF ListInv
  <2> QED BY <1>1, <2>3, <2>4 DEF StartInv, n
<1>5. \A p \in Places : Visible(tree, p) => p \in folders'
  <2>1. 2 \in DOMAIN tables
    BY <1>2, <1>4, LenProperties
  <2>2. ASSUME NEW p \in Places, Visible(tree, p) PROVE p \in folders'
    <3>1. FolderAt(p) \in DOMAIN tables[2] /\ FolderAt(p).path = p
      BY <1>4, <2>2 DEF FolderAt
    <3> QED BY <1>1, <2>1, <3>1
  <2> QED BY <2>2
<1>6. \A f \in files' : f \in Paths /\ IsFile(tree, f) /\ ~IsIgnored(f) /\ ~Folderish(f)
  <2>1. \A f \in FilesIn({Root}) : f \in Paths /\ IsFile(tree, f) /\ ~IsIgnored(f)
    BY DEF FilesIn
  <2>2. \A f \in files : f \in Paths /\ IsFile(tree, f) /\ ~IsIgnored(f)
    BY <1>1 DEF ListInv, StartInv, ListedKnown
  <2> QED BY <1>1, <1>2, <2>1, <2>2 DEF Named, IsFile
<1>7. ASSUME NEW f \in files' PROVE Parent(f) \in folders'
  <2>1. Exists(tree, f) /\ f \in Paths /\ ~IsIgnored(f)
    BY <1>6, FileTreeAssumption DEF IsFile, Exists
  <2> QED BY <1>2, <1>5, <2>1, VisibleParent
<1>8. ASSUME NEW p \in Places, Visible(tree, p) PROVE Shown(tree, files', folders', p)
  <2> SUFFICES ASSUME NEW q \in Paths, Parent(q) = p, ~IsIgnored(q)
               PROVE  (IsFile(tree, q) => q \in files') /\ (tree[q] = Dir => q \in folders')
    BY DEF Shown
  <2>1. IsFile(tree, q) => q \in files'
    BY <1>1, <1>4 DEF OnDisk
  <2>2. tree[q] = Dir => q \in folders'
    BY <1>5, PathsType DEF Places, Visible, NodeAt, Root
  <2> QED BY <2>1, <2>2
<1>9. Root \in folders' /\ ~unseen
  BY <1>1, <1>3 DEF ListInv, StartInv
<1>10. \A i \in DOMAIN tables : \A s \in DOMAIN tables[i] :
                 There(tree, s) /\ tables[i][s] = mtime[s.path]
  BY <1>1 DEF ListInv, StartInv
<1> QED BY <1>6, <1>7, <1>8, <1>9, <1>10

LEMMA StartList ==
    ASSUME ObservedInv, TypeOK, RaiseInv, ListInv, StartGetFiles
    PROVE  ListInv'
<1>1. /\ UNCHANGED <<tree, mtime, tables, unseen>> /\ pc' = "idle"
  BY DEF StartGetFiles, disk
<1>2. StartInv' /\ CurShown'
  BY <1>1 DEF StartInv, CurShown
<1>3. ListedKnown'
  BY StartedList DEF ListedKnown
<1>4. CleanShown'
  BY <1>1, StartedList DEF CleanShown, Visible
<1>5. GoneUnclean'
  <2>1. \A f \in files' : Exists(tree, f)
    BY StartedList, FileTreeAssumption DEF IsFile, Exists
  <2> QED BY <1>1, <2>1 DEF GoneUnclean
<1> QED BY <1>2, <1>3, <1>4, <1>5 DEF ListInv

\* get_files drops what is gone, and nothing else.
LEMMA GetMeans ==
    ASSUME ObservedInv, TypeOK, GetFiles
    PROVE  /\ files' \subseteq files /\ \A f \in files' : Exists(tree, f)
           /\ \A p \in folders : p \in Places /\ NodeAt(tree, p) = Dir => p \in folders'
           /\ \A p : Shown(tree, files, folders, p) => Shown(tree, files', folders', p)
           /\ DOMAIN tables' = DOMAIN tables
           /\ \A i \in DOMAIN tables : \A s \in DOMAIN tables'[i] :
                 s \in DOMAIN tables[i] /\ tables'[i][s] = tables[i][s]
<1> DEFINE gone == {p \in folders : ~There(tree, FolderAt(p))}
           lost == {FolderAt(p) : p \in gone}
<1>1. /\ files' = {p \in files : There(tree, FileAt(p))}
      /\ folders' = folders \ gone
      /\ tables' = [tables EXCEPT ![1] = Unwatch(@, lost)]
      /\ files \subseteq Paths
  BY DEF GetFiles, TypeOK
<1>2. \A p \in Paths : There(tree, FileAt(p)) <=> Exists(tree, p)
  BY PathsType DEF There, FileAt, NodeAt, Root, Exists
<1>3. \A p \in Places : NodeAt(tree, p) = Dir => p \notin gone
  BY FileTreeAssumption DEF There, FolderAt
<1> HIDE DEF gone, lost
<1>4. \A p : Shown(tree, files, folders, p) => Shown(tree, files', folders', p)
  <2> SUFFICES ASSUME NEW p, Shown(tree, files, folders, p),
                      NEW q \in Paths, Parent(q) = p, ~IsIgnored(q)
               PROVE  (IsFile(tree, q) => q \in files') /\ (tree[q] = Dir => q \in folders')
    BY DEF Shown
  <2>1. (IsFile(tree, q) => q \in files) /\ (tree[q] = Dir => q \in folders)
    BY DEF Shown
  <2>2. IsFile(tree, q) => Exists(tree, q)
    BY FileTreeAssumption DEF IsFile, Exists
  <2>3. tree[q] = Dir => q \notin gone
    BY <1>3, PathsType DEF Places, NodeAt, Root
  <2> QED BY <1>1, <1>2, <2>1, <2>2, <2>3
<1>5. DOMAIN tables' = DOMAIN tables
  BY <1>1
<1>6. \A i \in DOMAIN tables : \A s \in DOMAIN tables'[i] :
          s \in DOMAIN tables[i] /\ tables'[i][s] = tables[i][s]
  <2>1. \A i \in DOMAIN tables : tables'[i] = IF i = 1 THEN Unwatch(tables[1], lost) ELSE tables[i]
    BY <1>1 DEF ObservedInv, TablesInv
  <2>2. \A t : \A s \in DOMAIN Unwatch(t, lost) :
            s \in DOMAIN t /\ Unwatch(t, lost)[s] = t[s]
    BY DEF Unwatch
  <2> QED BY <2>1, <2>2
<1> QED BY <1>1, <1>2, <1>3, <1>4, <1>5, <1>6

LEMMA GetList ==
    ASSUME ObservedInv, TypeOK, RaiseInv, ListInv, GetFiles
    PROVE  ListInv'
<1>1. pc = "idle" /\ pc' = "idle" /\ UNCHANGED <<tree, mtime>>
  BY DEF GetFiles, disk
<1>2. /\ \A f \in files : f \in Paths /\ ~IsIgnored(f) /\ ~Folderish(f) /\ Parent(f) \in folders
      /\ Root \in folders /\ Nested(tree)
  BY <1>1 DEF ListInv, ListedKnown, RaiseInv, DiskNamed
<1>3. ASSUME NEW f \in files' PROVE Parent(f) \in folders'
  <2>1. f \in Paths /\ Exists(tree, f) /\ ~IsIgnored(f) /\ Parent(f) \in folders
    BY <1>2, GetMeans
  <2>2. Parent(f) \in Places /\ NodeAt(tree, Parent(f)) = Dir
    BY <1>2, <2>1, VisibleParent DEF Visible
  <2> QED BY <2>1, <2>2, GetMeans
<1>4. ListedKnown'
  <2>1. Root \in folders'
    BY <1>2, PlacesType, GetMeans DEF NodeAt
  <2>2. \A f \in files' : f \in Paths /\ ~IsIgnored(f) /\ ~Folderish(f)
    BY <1>2, GetMeans
  <2> QED BY <1>3, <2>1, <2>2 DEF ListedKnown
<1>5. CleanShown'
  <2>1. ASSUME NEW i \in DOMAIN tables', NEW p \in Places, Visible(tree, p),
               FolderAt(p) \in DOMAIN tables'[i], tables'[i][FolderAt(p)] = mtime[p]
        PROVE  Shown(tree, files', folders', p)
    <3>1. i \in DOMAIN tables /\ Clean(tables[i], p)
      BY <2>1, GetMeans DEF Clean
    <3>2. Shown(tree, files, folders, p)
      BY <1>1, <2>1, <3>1 DEF ListInv, CleanShown
    <3> QED BY <3>2, GetMeans
  <2> QED BY <1>1, <2>1 DEF CleanShown, Clean
<1>6. GoneUnclean'
  BY <1>1, GetMeans DEF GoneUnclean
<1> QED BY <1>1, <1>4, <1>5, <1>6 DEF ListInv, StartInv, CurShown

\* A report leaves the list right when it starts from tables that have the
\* indicators of before, or None.
LEMMA BecomesList ==
    ASSUME ObservedInv, TypeOK, RaiseInv, ListInv, pc # "start", pc' # "start",
           NEW ts \in Seq(Tables), Len(ts) = Len(tables),
           \A i \in 1..Len(tables) : /\ DOMAIN ts[i] = DOMAIN tables[i]
                                     /\ \A s \in DOMAIN ts[i] : ts[i][s] \in {tables[i][s], None},
           NEW d, Walks(Cacher(ts), d), Becomes(d, ts), UNCHANGED disk
    PROVE  /\ StartInv' /\ ListedKnown' /\ CleanShown' /\ GoneUnclean'
           /\ files \subseteq files' /\ folders \subseteq folders' /\ needs_gc'
           /\ files' = d.files /\ folders' = d.folders
<1>1. /\ DOMAIN ts = 1..Len(tables) /\ DOMAIN tables = 1..Len(tables)
      /\ Len(tables) \in Nat /\ 1 \in 1..Len(tables) /\ tables \in Seq(Tables)
  BY LenProperties DEF ObservedInv, TablesInv
<1>2. /\ files' = d.files /\ folders' = d.folders /\ needs_gc' /\ tables' = [ts EXCEPT ![1] = d.own]
      /\ UNCHANGED <<tree, mtime>>
  BY DEF Becomes, Shows, disk
<1>3. /\ DOMAIN tables' = 1..Len(tables)
      /\ tables'[1] = d.own /\ \A i \in 1..Len(tables) : i # 1 => tables'[i] = ts[i]
  BY <1>1, <1>2
<1>4. /\ files \subseteq d.files /\ folders \subseteq d.folders
      /\ \A f \in d.files \ files :
            f \in Paths /\ IsFile(tree, f) /\ ~IsIgnored(f) /\ Parent(f) \in d.folders
      /\ \A s \in DOMAIN d.own :
            \/ s \in DOMAIN ts[1] /\ d.own[s] = ts[1][s]
            \/ Visible(tree, s.path) => Shown(tree, d.files, d.folders, s.path)
  BY DEF Walks, Cacher
<1>5. ListedKnown'
  <2>1. \A f \in d.files \ files : ~Folderish(f)
    BY <1>4 DEF RaiseInv, DiskNamed, Named, IsFile
  <2>2. /\ Root \in folders /\ \A f \in files : Parent(f) \in folders
        /\ \A f \in files : f \in Paths /\ ~IsIgnored(f) /\ ~Folderish(f)
    BY DEF ListInv, ListedKnown
  <2> QED BY <1>2, <1>4, <2>1, <2>2 DEF ListedKnown
<1>6. ASSUME NEW i \in 1..Len(tables), NEW p \in Places, Visible(tree, p),
             FolderAt(p) \in DOMAIN ts[i], ts[i][FolderAt(p)] = mtime[p]
      PROVE  Shown(tree, d.files, d.folders, p)
  <2>1. mtime[p] # None
    BY FileListAssumption DEF ObservedInv, DiskInv
  <2>2. Clean(tables[i], p)
    BY <1>6, <2>1 DEF Clean
  <2>3. Shown(tree, files, folders, p)
    BY <1>1, <1>6, <2>2 DEF ListInv, CleanShown
  <2> QED BY <1>4, <2>3 DEF Shown
<1>7. ASSUME NEW i \in DOMAIN tables', NEW p \in Places, Visible(tree, p),
             FolderAt(p) \in DOMAIN tables'[i], tables'[i][FolderAt(p)] = mtime[p]
      PROVE  Shown(tree, d.files, d.folders, p)
  <2>1. CASE i # 1
    BY <1>3, <1>6, <1>7, <2>1
  <2>2. CASE i = 1
    <3>1. FolderAt(p) \in DOMAIN d.own /\ FolderAt(p).path = p /\ d.own[FolderAt(p)] = mtime[p]
      BY <1>3, <1>7, <2>2 DEF FolderAt
    <3>2. CASE FolderAt(p) \in DOMAIN ts[1] /\ d.own[FolderAt(p)] = ts[1][FolderAt(p)]
      BY <1>1, <1>6, <1>7, <3>1, <3>2
    <3>3. CASE ~(FolderAt(p) \in DOMAIN ts[1] /\ d.own[FolderAt(p)] = ts[1][FolderAt(p)])
      BY <1>4, <1>7, <3>1, <3>3
    <3> QED BY <3>2, <3>3
  <2> QED BY <2>1, <2>2
<1>8. CleanShown'
  BY <1>2, <1>7 DEF CleanShown, Clean
<1> QED BY <1>2, <1>4, <1>5, <1>8 DEF StartInv, GoneUnclean

\* A folder is reported changed or created: the walk of it comes first.
LEMMA ReportOneList ==
    ASSUME ObservedInv, TypeOK, RaiseInv, ListInv, ReportChanged \/ ReportCreated
    PROVE  ListInv'
<1>1. PICK r \in todo.changed \cup todo.created :
          Becomes(UpdateFolder(Cacher(tables), r), tables) /\ cur' = r
  BY DEF ReportChanged, ReportCreated
<1>2. pc = "perform" /\ pc' = "record" /\ UNCHANGED disk
  BY DEF ReportChanged, ReportCreated
<1>3. /\ r.path \in Places /\ Nested(tree) /\ tables \in Seq(Tables)
      /\ Cacher(tables).folders = folders /\ folders \subseteq Places
  BY <1>1 DEF ObservedInv, TodoInv, Folders, RaiseInv, DiskNamed, TablesInv, Cacher
<1> DEFINE d == UpdateFolder(Cacher(tables), r)
<1>4. Walks(Cacher(tables), d)
  BY <1>3, UpdateFolderWalks
<1>5. Visible(tree, r.path) => Shown(tree, d.files, d.folders, r.path)
  <2>1. There(tree, r) <=> NodeAt(tree, r.path) # Absent
    BY DEF There
  <2>2. OpenFrom(folders, r.path, r.path)
    <3>1. \A b \in folders : ~(Within(r.path, b) /\ Under(b, r.path))
      BY <1>3, PlacesType, WithinSelf DEF Under
    <3> QED BY <3>1 DEF OpenFrom, Under
  <2> QED BY <1>3, <2>1, <2>2, WalkShows, FileTreeAssumption DEF Visible
<1> HIDE DEF d
<1>6. /\ StartInv' /\ ListedKnown' /\ CleanShown' /\ GoneUnclean'
      /\ needs_gc' /\ files' = d.files /\ folders' = d.folders
  BY <1>1, <1>2, <1>3, <1>4, BecomesList DEF d
<1>7. CurShown'
  BY <1>1, <1>2, <1>3, <1>5, <1>6 DEF CurShown, disk
<1> QED BY <1>6, <1>7 DEF ListInv
\* A folder is reported gone: its indicator is None, the walk of the place where
\* it was and the walk of the place where it is now follow.
LEMMA MovedMeans ==
    ASSUME ObservedInv, RaiseInv, ReportMoved
    PROVE  \E r \in DOMAIN todo.moved : \E ts, d :
              /\ ts \in Seq(Tables) /\ Len(ts) = Len(tables)
              /\ \A i \in 1..Len(tables) :
                    /\ DOMAIN ts[i] = DOMAIN tables[i]
                    /\ \A s \in DOMAIN ts[i] :
                          ts[i][s] = IF i = at /\ s = r THEN None ELSE tables[i][s]
              /\ Walks(Cacher(ts), d) /\ Becomes(d, ts)
              /\ todo.moved[r] # None =>
                    \A p \in Places : Visible(tree, p) /\ OpenFrom(folders, todo.moved[r].path, p)
                                          => Shown(tree, d.files, d.folders, p)
              /\ todo' = [todo EXCEPT !.moved = [s \in DOMAIN @ \ {r} |-> @[s]]]
<1>0. /\ DiskInv /\ TodoInv /\ TablesInv /\ Nested(tree)
      /\ tables \in Seq(Tables) /\ folders \subseteq Places
      /\ DOMAIN tables = 1..Len(tables) /\ Len(tables) \in Nat /\ 1 \in 1..Len(tables)
  BY LenProperties DEF ObservedInv, TablesInv, RaiseInv, DiskNamed
<1> DEFINE forgotten(r) == [tables EXCEPT ![at][r] = None]
           left(r) == UpdateFolder(Cacher(forgotten(r)), r)
           here(r) == IF todo.moved[r] = None THEN left(r)
                      ELSE UpdateFolder(left(r), todo.moved[r])
<1>1. PICK r \in DOMAIN todo.moved :
          /\ Becomes(here(r), forgotten(r))
          /\ todo' = [todo EXCEPT !.moved = [s \in DOMAIN @ \ {r} |-> @[s]]]
  BY DEF ReportMoved
<1> DEFINE ts == forgotten(r)
<1>3. /\ ts \in Seq(Tables) /\ Len(ts) = Len(tables)
      /\ \A i \in 1..Len(tables) :
                    /\ DOMAIN ts[i] = DOMAIN tables[i]
                    /\ \A s \in DOMAIN ts[i] :
                          ts[i][s] = IF i = at /\ s = r THEN None ELSE tables[i][s]
  <2>1. CASE at \in DOMAIN tables
    <3> DEFINE t == [tables[at] EXCEPT ![r] = None]
    <3>1. tables[at] \in Tables
      BY <1>0, <2>1, WatchedResources
    <3>2. t \in Tables /\ DOMAIN t = DOMAIN tables[at]
      BY <3>1, SetIndicator
    <3>3. \A s \in DOMAIN tables[at] : t[s] = IF s = r THEN None ELSE tables[at][s]
      OBVIOUS
    <3>4. ts = [tables EXCEPT ![at] = t]
      OBVIOUS
    <3> HIDE DEF t, ts
    <3>5. /\ ts \in Seq(Tables) /\ Len(ts) = Len(tables)
          /\ \A i \in 1..Len(tables) : ts[i] = IF i = at THEN t ELSE tables[i]
      BY <1>0, <2>1, <3>2, <3>4, ExceptSeq
    <3>6. ASSUME NEW i \in 1..Len(tables)
          PROVE  /\ DOMAIN ts[i] = DOMAIN tables[i]
                 /\ \A s \in DOMAIN ts[i] :
                          ts[i][s] = IF i = at /\ s = r THEN None ELSE tables[i][s]
      <4>1. CASE i = at
        BY <3>2, <3>3, <3>5, <4>1
      <4>2. CASE i # at
        BY <3>5, <4>2
      <4> QED BY <4>1, <4>2
    <3> QED BY <3>5, <3>6
  <2>2. CASE at \notin DOMAIN tables
    <3>1. ts = tables
      BY <1>0, <2>2 DEF TablesInv
    <3> HIDE DEF ts
    <3> QED BY <1>0, <2>2, <3>1 DEF TablesInv
  <2> QED BY <2>1, <2>2
<1>4. r.path \in Places /\ todo.moved[r] \in AnyResource \cup {None}
  BY <1>0 DEF TodoInv, Folders
<1>5. Cacher(ts).folders = folders
  BY DEF Cacher
<1> HIDE DEF forgotten
<1>6. Walks(Cacher(ts), left(r))
  BY <1>0, <1>4, <1>5, UpdateFolderWalks
<1>7. CASE todo.moved[r] = None
  <2>1. here(r) = left(r)
    BY <1>7
  <2> HIDE DEF here, left
  <2> QED BY <1>1, <1>3, <1>6, <1>7, <2>1
<1>8. CASE todo.moved[r] # None
  <2> DEFINE new == todo.moved[r]
             d == UpdateFolder(left(r), new)
  <2>1. here(r) = d /\ new.path \in Places
    BY <1>4, <1>8 DEF AnyResource
  <2>2. left(r).folders \subseteq Places
    <3>1. left(r).folders = folders \cup Walked(r.path, folders) \/ left(r).folders = folders
      BY <1>5 DEF UpdateFolder
    <3> HIDE DEF left
    <3> QED BY <1>0, <1>4, <3>1, WalkedPlaces
  <2> HIDE DEF here, left
  <2>3. Walks(left(r), d)
    BY <1>0, <2>1, <2>2, UpdateFolderWalks
  <2>4. ASSUME NEW p \in Places, Visible(tree, p), OpenFrom(folders, new.path, p)
        PROVE  Shown(tree, d.files, d.folders, p)
    <3>1. OpenFrom(left(r).folders, new.path, p) \/ Shown(tree, left(r).files, left(r).folders, p)
      BY <1>5, <1>6, <2>1, <2>4 DEF Walks
    <3>2. CASE OpenFrom(left(r).folders, new.path, p)
      BY <1>0, <2>1, <2>2, <2>4, <3>2, WalkArrives
    <3>3. CASE Shown(tree, left(r).files, left(r).folders, p)
      <4>1. left(r).files \subseteq d.files /\ left(r).folders \subseteq d.folders
        BY <2>3 DEF Walks
      <4> HIDE DEF d
      <4> QED BY <3>3, <4>1, ShownMore
    <3> QED BY <3>1, <3>2, <3>3
  <2> HIDE DEF d
  <2>5. Walks(Cacher(ts), d)
    BY <1>6, <2>3, WalksTwice
  <2> HIDE DEF ts
  <2> QED BY <1>1, <1>3, <1>8, <2>1, <2>4, <2>5 DEF ts
<1> QED BY <1>7, <1>8

LEMMA ReportMovedList ==
    ASSUME ObservedInv, TypeOK, RaiseInv, ListInv, ReportMoved
    PROVE  ListInv'
<1>1. pc = "perform" /\ pc' = "perform" /\ UNCHANGED disk
  BY DEF ReportMoved
<1>2. PICK r \in DOMAIN todo.moved : \E ts, d :
              /\ ts \in Seq(Tables) /\ Len(ts) = Len(tables)
              /\ \A i \in 1..Len(tables) :
                    /\ DOMAIN ts[i] = DOMAIN tables[i]
                    /\ \A s \in DOMAIN ts[i] :
                          ts[i][s] = IF i = at /\ s = r THEN None ELSE tables[i][s]
              /\ Walks(Cacher(ts), d) /\ Becomes(d, ts)
  BY MovedMeans
<1>3. PICK ts, d :
              /\ ts \in Seq(Tables) /\ Len(ts) = Len(tables)
              /\ \A i \in 1..Len(tables) :
                    /\ DOMAIN ts[i] = DOMAIN tables[i]
                    /\ \A s \in DOMAIN ts[i] :
                          ts[i][s] = IF i = at /\ s = r THEN None ELSE tables[i][s]
              /\ Walks(Cacher(ts), d) /\ Becomes(d, ts)
  BY <1>2
<1>4. \A i \in 1..Len(tables) : /\ DOMAIN ts[i] = DOMAIN tables[i]
                                /\ \A s \in DOMAIN ts[i] : ts[i][s] \in {tables[i][s], None}
  BY <1>3
<1>5. StartInv' /\ ListedKnown' /\ CleanShown' /\ GoneUnclean'
  BY <1>1, <1>3, <1>4, BecomesList
<1> QED BY <1>1, <1>5 DEF ListInv, CurShown
\* What Record does to the tables.
LEMMA RecordMeans ==
    ASSUME ObservedInv, Record
    PROVE  /\ tables' \in Seq(Tables) /\ DOMAIN tables' = DOMAIN tables
           /\ \A i \in DOMAIN tables :
                 /\ DOMAIN tables'[i] = DOMAIN tables[i]
                 /\ \A s \in DOMAIN tables[i] :
                       tables'[i][s] = IF i = at /\ s = cur THEN mtime[cur.path] ELSE tables[i][s]
<1>1. tables' = [tables EXCEPT ![at][cur] = mtime[cur.path]]
  BY DEF Record
<1>2. tables' \in Seq(Tables)
  <2>1. ObservedInv'
    BY RecordKeeps
  <2> QED BY <2>1 DEF ObservedInv, TablesInv
<1>3. \A i \in DOMAIN tables : tables'[i] =
          IF i = at THEN [tables[i] EXCEPT ![cur] = mtime[cur.path]] ELSE tables[i]
  BY <1>1 DEF ObservedInv, TablesInv
<1>4. DOMAIN tables' = DOMAIN tables
  BY <1>1
<1>5. ASSUME NEW i \in DOMAIN tables
      PROVE  /\ DOMAIN tables'[i] = DOMAIN tables[i]
             /\ \A s \in DOMAIN tables[i] :
                   tables'[i][s] = IF i = at /\ s = cur THEN mtime[cur.path] ELSE tables[i][s]
  <2>1. CASE i = at
    BY <1>3, <2>1
  <2>2. CASE i # at
    BY <1>3, <2>2
  <2> QED BY <2>1, <2>2
<1> QED BY <1>2, <1>4, <1>5

\* The indicator of a folder is read after its report.
LEMMA RecordList ==
    ASSUME ObservedInv, TypeOK, RaiseInv, ListInv, Record
    PROVE  ListInv'
<1>1. /\ pc = "record" /\ pc' = "perform"
      /\ UNCHANGED <<tree, mtime, files, folders, needs_gc>>
  BY DEF Record, disk, cacher
<1>2. needs_gc /\ ListedKnown
  BY <1>1 DEF ListInv, CurShown
<1>3. ASSUME NEW i \in DOMAIN tables', NEW p \in Places, Visible(tree, p),
             FolderAt(p) \in DOMAIN tables'[i], tables'[i][FolderAt(p)] = mtime[p]
      PROVE  Shown(tree, files, folders, p)
  <2>1. FolderAt(p).path = p
    BY DEF FolderAt
  <2>2. CASE FolderAt(p) = cur
    BY <1>1, <1>3, <2>1, <2>2 DEF ListInv, CurShown
  <2>3. CASE FolderAt(p) # cur
    <3>1. i \in DOMAIN tables /\ Clean(tables[i], p)
      BY <1>3, <2>3, RecordMeans DEF Clean
    <3> QED BY <1>1, <1>3, <3>1 DEF ListInv, CleanShown
  <2> QED BY <2>2, <2>3
<1>4. CleanShown'
  BY <1>1, <1>3 DEF CleanShown, Clean
<1> QED BY <1>1, <1>2, <1>4
        DEF ListInv, StartInv, ListedKnown, CurShown, GoneUnclean

\* The steps that only move the thread on.
LEMMA MovesOnList ==
    ASSUME ListInv,
           \/ Deliver \/ DeliverRaises \/ ReportRaises \/ RecordRaises
           \/ NextObserver \/ Return \/ CallRaises \/ UNCHANGED vars
    PROVE  ListInv'
<1>1. CASE UNCHANGED vars
  <2>1. UNCHANGED <<tree, mtime, tables, files, folders, needs_gc, pc, cur, unseen>>
    BY <1>1 DEF vars, disk, cacher, report
  <2>2. StartInv'
    BY <2>1 DEF ListInv, StartInv, OnDisk
  <2>3. ListedKnown' /\ CurShown' /\ CleanShown'
    BY <2>1 DEF ListInv, ListedKnown, CurShown, CleanShown, Clean
  <2>4. GoneUnclean'
    BY <2>1 DEF ListInv, GoneUnclean, Unclean
  <2> QED BY <2>2, <2>3, <2>4 DEF ListInv
<1>2. CASE \/ Deliver \/ DeliverRaises \/ ReportRaises \/ RecordRaises
           \/ NextObserver \/ Return \/ CallRaises
  <2>1. UNCHANGED <<disk, tables, cacher>> /\ pc # "start"
    BY <1>2 DEF Deliver, DeliverRaises, ReportRaises, RecordRaises, NextObserver, Return,
                CallRaises, Raise
  <2>2. pc' \notin {"start", "record"}
    BY <1>2 DEF Deliver, DeliverRaises, ReportRaises, RecordRaises, NextObserver, Return,
                CallRaises, Raise
  <2> QED BY <2>1, <2>2, StillList
<1> QED BY <1>1, <1>2

LEMMA ListKept ==
    ASSUME "race" \notin Features, NamesTellKinds, ObservedInv, TypeOK, RaiseInv, ListInv,
           [Next]_vars
    PROVE  ListInv'
BY CallList, DeeperList, StartList, GetList, ReportOneList, ReportMovedList, RecordList,
   ReportNeverRaises, MovesOnList DEF Next, Call, Step
-----------------------------------------------------------------------------
(* What is true once a validate has looked at everything *)

\* Nobody else was in the directory, and no observer has raised.
Live == ~unseen /\ pc \in {"idle", "deliver", "perform", "record"}

\* What the observer i has still to report of the event.
ToCome(i) ==
    IF (pc = "deliver" /\ i >= at) \/ (pc \in {"perform", "record"} /\ i > at) THEN Cause(tables[i])
    ELSE IF pc \in {"perform", "record"} /\ i = at THEN todo
    ELSE NoChanges

\* The resources that are walked through for a report, and those whose
\* indicator it sets.
Targets(ch) == ch.changed \cup ch.created \cup {ch.moved[r] : r \in DOMAIN ch.moved}
Reach(ch) == ch.changed \cup ch.created \cup DOMAIN ch.moved

\* The table has the indicator that the resource has, or None, which validate
\* takes for one that appears.
Fresh(table, r) ==
    IF There(tree, r) THEN table[r] \in {None, mtime[r.path]} ELSE table[r] = None

\* What is in a folder is in the lists, or a walk to come will find it.
ShownInTime ==
    Live => \A p \in Places : Visible(tree, p) =>
        \/ Shown(tree, files, folders, p)
        \/ \E i \in DOMAIN tables, a \in Places :
              FolderAt(a) \in Targets(ToCome(i)) /\ OpenFrom(folders, a, p)

\* An indicator is right, or a report to come will set it.
FreshInTime ==
    Live => \A i \in DOMAIN tables : \A r \in DOMAIN tables[i] :
        \/ Fresh(tables[i], r)
        \/ r \in Reach(ToCome(i))
        \/ pc = "record" /\ i = at /\ r = cur

\* A listed file that is gone is dropped by the next get_files, or a report
\* to come will see to that.
GoneInTime ==
    Live /\ ~needs_gc =>
        \A f \in files : ~Exists(tree, f) => \E i \in DOMAIN tables : ToCome(i) # NoChanges

InTime == ShownInTime /\ FreshInTime /\ GoneInTime

\* Nothing is left to do.
AllDone(listed, known) ==
    /\ \A p \in Places : Visible(tree, p) => Shown(tree, listed, known, p)
    /\ \A i \in DOMAIN tables : \A r \in DOMAIN tables[i] : Fresh(tables[i], r)
    /\ ~needs_gc => \A f \in listed : Exists(tree, f)

LEMMA NothingToCome ==
    /\ Targets(NoChanges) = {} /\ Reach(NoChanges) = {}
    /\ NoChanges.changed = {} /\ NoChanges.created = {} /\ DOMAIN NoChanges.moved = {}
<1>1. DOMAIN NoMoves = {}
  BY DEF NoMoves
<1>2. /\ NoChanges.changed = {} /\ NoChanges.created = {} /\ NoChanges.moved = NoMoves
  BY DEF NoChanges
<1> QED BY <1>1, <1>2 DEF Targets, Reach

\* Between the calls everything is done.
LEMMA IdleDone == InTime /\ pc = "idle" /\ ~unseen => AllDone(files, folders)
<1> SUFFICES ASSUME InTime, pc = "idle", ~unseen PROVE AllDone(files, folders)
  OBVIOUS
<1>1. Live /\ \A i : ToCome(i) = NoChanges
  BY DEF Live, ToCome
<1>2. \A p \in Places : Visible(tree, p) => Shown(tree, files, folders, p)
  BY <1>1, NothingToCome DEF InTime, ShownInTime
<1>3. \A i \in DOMAIN tables : \A r \in DOMAIN tables[i] : Fresh(tables[i], r)
  BY <1>1, NothingToCome DEF InTime, FreshInTime
<1>4. ~needs_gc => \A f \in files : Exists(tree, f)
  BY <1>1 DEF InTime, GoneInTime
<1> QED BY <1>2, <1>3, <1>4 DEF AllDone

\* When everything is done nothing has to come.
LEMMA DoneInTime == AllDone(files, folders) => InTime
BY DEF AllDone, InTime, ShownInTime, FreshInTime, GoneInTime

\* A step after which nobody but the others has been there, or an observer
\* has raised, leaves nothing to show.
LEMMA NotLive == ~Live => InTime
BY DEF InTime, ShownInTime, FreshInTime, GoneInTime

\* What is found in a table depends on the directory and the event.
LEMMA CauseSame ==
    ASSUME UNCHANGED <<tree, mtime, event>>, NEW i, tables'[i] = tables[i]
    PROVE  Cause(tables[i])' = Cause(tables[i])
BY DEF Cause

\* The thread goes on, and what is to come stays the same.
LEMMA OnInTime ==
    ASSUME InTime, UNCHANGED <<disk, tables, cacher, unseen>>, pc \in {"deliver", "perform"},
           pc' \in {"idle", "deliver", "perform"},
           \A i \in DOMAIN tables : ToCome(i)' = ToCome(i)
    PROVE  InTime'
<1>1. UNCHANGED <<tree, mtime, tables, files, folders, needs_gc, unseen>>
  BY DEF disk, cacher
<1>2. Live' => Live
  BY <1>1 DEF Live
<1>3. ShownInTime'
  BY <1>1, <1>2 DEF InTime, ShownInTime
<1>4. FreshInTime'
  BY <1>1, <1>2 DEF InTime, FreshInTime, Fresh
<1>5. GoneInTime'
  BY <1>1, <1>2 DEF InTime, GoneInTime
<1> QED BY <1>3, <1>4, <1>5 DEF InTime

LEMMA StepInTime ==
    ASSUME ObservedInv, TypeOK, InTime, Deliver \/ NextObserver \/ Return
    PROVE  InTime'
<1>0. /\ DOMAIN tables = 1..Len(tables) /\ Len(tables) \in Nat /\ at \in 1..(Len(tables) + 1)
  BY LenProperties DEF ObservedInv, TablesInv, TypeOK
<1>1. CASE Deliver
  <2>1. /\ pc = "deliver" /\ todo' = Cause(tables[at])
        /\ \/ todo' = NoChanges /\ at' = at + 1 /\ pc' = "deliver"
           \/ pc' = "perform" /\ at' = at
        /\ UNCHANGED <<tree, mtime, tables, event>>
    BY <1>1 DEF Deliver, disk
  <2>2. ASSUME NEW i \in DOMAIN tables PROVE ToCome(i)' = ToCome(i)
    <3>1. Cause(tables[i])' = Cause(tables[i])
      BY <2>1, CauseSame
    <3>2. i \in Nat /\ at \in Nat
      BY <1>0, <2>2
    <3>3. CASE todo' = NoChanges /\ at' = at + 1 /\ pc' = "deliver"
      <4>1. CASE i = at
        <5>1. ~(i >= at') /\ i >= at
          BY <3>2, <3>3, <4>1
        <5>2. ToCome(i)' = NoChanges
          BY <3>3, <5>1 DEF ToCome
        <5>3. ToCome(i) = Cause(tables[i])
          BY <2>1, <5>1 DEF ToCome
        <5> QED BY <2>1, <3>3, <4>1, <5>2, <5>3
      <4>2. CASE i # at
        <5>1. i >= at <=> i >= at'
          BY <3>2, <3>3, <4>2
        <5>2. CASE i >= at
          <6>1. ToCome(i) = Cause(tables[i])
            BY <2>1, <5>2 DEF ToCome
          <6>2. ToCome(i)' = Cause(tables[i])'
            BY <3>3, <5>1, <5>2 DEF ToCome
          <6> QED BY <3>1, <6>1, <6>2
        <5>3. CASE ~(i >= at)
          BY <2>1, <3>3, <5>1, <5>3 DEF ToCome
        <5> QED BY <5>2, <5>3
      <4> QED BY <4>1, <4>2
    <3>4. CASE pc' = "perform" /\ at' = at
      BY <2>1, <3>1, <3>2, <3>4 DEF ToCome
    <3> QED BY <2>1, <3>3, <3>4
  <2> QED BY <1>1, <2>1, <2>2, OnInTime DEF Deliver
<1>2. CASE NextObserver
  <2>1. /\ pc = "perform" /\ todo = NoChanges /\ at' = at + 1 /\ pc' = "deliver"
        /\ UNCHANGED <<tree, mtime, tables, event, todo>>
    BY <1>2 DEF NextObserver, disk
  <2>2. ASSUME NEW i \in DOMAIN tables PROVE ToCome(i)' = ToCome(i)
    <3>1. Cause(tables[i])' = Cause(tables[i])
      BY <2>1, CauseSame
    <3>2. i \in Nat /\ at \in Nat
      BY <1>0, <2>2
    <3> QED BY <2>1, <3>1, <3>2 DEF ToCome
  <2> QED BY <1>2, <2>1, <2>2, OnInTime DEF NextObserver
<1>3. CASE Return
  <2>1. pc = "deliver" /\ pc' = "idle" /\ at \notin DOMAIN tables
    BY <1>3 DEF Return
  <2>2. ASSUME NEW i \in DOMAIN tables PROVE ToCome(i)' = ToCome(i)
    <3>1. i \in Nat /\ at \in Nat /\ ~(i >= at)
      BY <1>0, <2>1, <2>2
    <3> QED BY <2>1, <3>1 DEF ToCome
  <2> QED BY <1>3, <2>1, <2>2, OnInTime DEF Return
<1> QED BY <1>1, <1>2, <1>3
\* None is a right indicator wherever the resource is.
LEMMA FreshMeans ==
    ASSUME NEW t, NEW r
    PROVE  /\ t[r] = None => Fresh(t, r)
           /\ There(tree, r) /\ t[r] = mtime[r.path] => Fresh(t, r)
           /\ \A u : u[r] = t[r] /\ Fresh(t, r) => Fresh(u, r)
BY DEF Fresh

\* A report keeps what is to come, but for what it walks through and what it
\* sets.
LEMMA ReportInTime ==
    ASSUME ObservedInv, TypeOK, InTime,
           pc = "perform", pc' \in {"perform", "record"}, UNCHANGED <<disk, at, event, unseen>>,
           NEW ts \in Seq(Tables), Len(ts) = Len(tables),
           \A i \in 1..Len(tables) :
              /\ DOMAIN ts[i] = DOMAIN tables[i]
              /\ \A s \in DOMAIN ts[i] : ts[i][s] = tables[i][s] \/ (i = at /\ ts[i][s] = None),
           NEW d, Walks(Cacher(ts), d), Becomes(d, ts),
           \A a \in Places : FolderAt(a) \in Targets(todo) =>
              \/ FolderAt(a) \in Targets(todo')
              \/ \A p \in Places : Visible(tree, p) /\ OpenFrom(folders, a, p)
                                      => Shown(tree, d.files, d.folders, p),
           \A s \in Reach(todo) :
              \/ s \in Reach(todo')
              \/ pc' = "record" /\ s = cur'
              \/ s \in DOMAIN tables[at] => ts[at][s] = None
    PROVE  InTime'
<1>0. /\ DOMAIN tables = 1..Len(tables) /\ Len(tables) \in Nat /\ 1 \in 1..Len(tables)
      /\ DOMAIN ts = 1..Len(tables) /\ at \in 1..Len(tables)
  BY LenProperties DEF ObservedInv, TablesInv, TypeOK
<1>1. /\ files' = d.files /\ folders' = d.folders /\ needs_gc' /\ tables' = [ts EXCEPT ![1] = d.own]
      /\ UNCHANGED <<tree, mtime>> /\ files \subseteq d.files /\ folders \subseteq d.folders
  BY DEF Becomes, Shows, disk, Walks, Cacher
<1>2. /\ DOMAIN tables' = 1..Len(tables)
      /\ tables'[1] = d.own /\ \A i \in 1..Len(tables) : i # 1 => tables'[i] = ts[i]
  BY <1>0, <1>1
<1>3. ASSUME NEW i \in 1..Len(tables), i # at PROVE ts[i] = tables[i]
  <2>1. ts[i] \in Tables /\ tables[i] \in Tables
    BY <1>0, ElementOfSeq DEF ObservedInv, TablesInv
  <2>2. \A s \in DOMAIN ts[i] : ts[i][s] = tables[i][s]
    BY <1>3
  <2>3. ts[i] = [s \in DOMAIN ts[i] |-> ts[i][s]] /\ tables[i] = [s \in DOMAIN tables[i] |-> tables[i][s]]
    BY <2>1, TableFacts
  <2>4. DOMAIN ts[i] = DOMAIN tables[i]
    OBVIOUS
  <2> QED BY <2>2, <2>3, <2>4
<1>4. ASSUME NEW i \in 1..Len(tables), i # at PROVE ToCome(i)' = ToCome(i)
  <2>1. i \in Nat /\ at \in Nat /\ i >= 1 /\ at >= 1
    BY <1>0
  <2>2. CASE i > at
    <3>1. i # 1
      BY <2>1, <2>2
    <3>2. tables'[i] = tables[i]
      BY <1>2, <1>3, <1>4, <3>1
    <3>3. Cause(tables[i])' = Cause(tables[i])
      BY <1>1, <3>2, CauseSame
    <3>4. ToCome(i) = Cause(tables[i]) /\ ToCome(i)' = Cause(tables[i])'
      BY <2>2 DEF ToCome
    <3> QED BY <3>3, <3>4
  <2>3. CASE ~(i > at)
    BY <1>4, <2>3 DEF ToCome
  <2> QED BY <2>2, <2>3
<1>5. ToCome(at) = todo /\ ToCome(at)' = todo'
  BY <1>0 DEF ToCome
<1>6. Live' => Live
  BY DEF Live
<1>7. ASSUME Live, NEW p \in Places, Visible(tree, p)
      PROVE  \/ Shown(tree, d.files, d.folders, p)
             \/ \E i \in 1..Len(tables), a \in Places :
                   FolderAt(a) \in Targets(ToCome(i)') /\ OpenFrom(d.folders, a, p)
  <2>1. CASE Shown(tree, files, folders, p)
    BY <1>1, <2>1 DEF Shown
  <2>2. CASE ~Shown(tree, files, folders, p)
    <3>1. PICK i \in DOMAIN tables, a \in Places :
              FolderAt(a) \in Targets(ToCome(i)) /\ OpenFrom(folders, a, p)
      BY <1>7, <2>2 DEF InTime, ShownInTime
    <3>2. OpenFrom(d.folders, a, p) \/ Shown(tree, d.files, d.folders, p)
      BY <1>7, <3>1 DEF Walks, Cacher
    <3>3. CASE i = at
      BY <1>0, <1>5, <1>7, <3>1, <3>2, <3>3
    <3>4. CASE i # at
      BY <1>0, <1>4, <3>1, <3>2, <3>4
    <3> QED BY <3>3, <3>4
  <2> QED BY <2>1, <2>2
<1>8. ShownInTime'
  <2>1. \A p : Visible(tree, p)' <=> Visible(tree, p)
    BY <1>1 DEF Visible
  <2> QED BY <1>1, <1>2, <1>6, <1>7 DEF ShownInTime
<1>9. ASSUME Live, NEW i \in 1..Len(tables), NEW s \in DOMAIN tables[i]
      PROVE  \/ Fresh(ts[i], s)
             \/ s \in Reach(ToCome(i)')
             \/ pc' = "record" /\ i = at /\ s = cur'
  <2>1. Fresh(tables[i], s) \/ s \in Reach(ToCome(i))
    BY <1>0, <1>9 DEF InTime, FreshInTime
  <2>2. CASE i # at
    BY <1>3, <1>4, <2>1, <2>2
  <2>3. CASE i = at
    <3>1. ts[i][s] = tables[i][s] \/ ts[i][s] = None
      BY <1>9
    <3>2. CASE Fresh(tables[i], s)
      BY <3>1, <3>2, FreshMeans
    <3>3. CASE s \in Reach(todo)
      BY <1>5, <1>9, <2>3, <3>3, FreshMeans
    <3> QED BY <1>5, <2>1, <2>3, <3>2, <3>3
  <2> QED BY <2>2, <2>3
<1>10. ASSUME Live, NEW i \in 1..Len(tables), NEW s \in DOMAIN tables'[i]
       PROVE  \/ Fresh(tables'[i], s)
              \/ s \in Reach(ToCome(i)')
              \/ pc' = "record" /\ i = at /\ s = cur'
  <2>1. CASE s \in DOMAIN ts[i] /\ tables'[i][s] = ts[i][s]
    <3>1. s \in DOMAIN tables[i]
      BY <2>1
    <3> QED BY <1>9, <1>10, <2>1, <3>1, FreshMeans
  <2>2. CASE ~(s \in DOMAIN ts[i] /\ tables'[i][s] = ts[i][s])
    <3>1. i = 1 /\ s \in DOMAIN d.own
      BY <1>2, <1>10, <2>2
    <3>2. There(tree, s) /\ d.own[s] = mtime[s.path]
      BY <1>2, <2>2, <3>1 DEF Walks, Cacher
    <3> QED BY <1>2, <3>1, <3>2, FreshMeans
  <2> QED BY <2>1, <2>2
<1>11. FreshInTime'
  <2>1. \A t, s : Fresh(t, s)' <=> Fresh(t, s)
    BY <1>1 DEF Fresh
  <2> QED BY <1>2, <1>6, <1>10, <2>1 DEF FreshInTime
<1> QED BY <1>1, <1>8, <1>11 DEF InTime, GoneInTime
LEMMA ReportOneInTime ==
    ASSUME ObservedInv, TypeOK, RaiseInv, InTime, ReportChanged \/ ReportCreated
    PROVE  InTime'
<1>1. PICK r \in todo.changed \cup todo.created :
          /\ Becomes(UpdateFolder(Cacher(tables), r), tables) /\ cur' = r
          /\ \/ todo' = [todo EXCEPT !.changed = @ \ {r}]
             \/ todo' = [todo EXCEPT !.created = @ \ {r}]
  BY DEF ReportChanged, ReportCreated
<1>2. pc = "perform" /\ pc' = "record" /\ UNCHANGED <<disk, at, event, unseen>>
  BY DEF ReportChanged, ReportCreated
<1>3. /\ r.path \in Places /\ Nested(tree) /\ tables \in Seq(Tables)
      /\ Cacher(tables).folders = folders /\ folders \subseteq Places
  BY <1>1 DEF ObservedInv, TodoInv, Folders, RaiseInv, DiskNamed, TablesInv, Cacher
<1> DEFINE d == UpdateFolder(Cacher(tables), r)
<1>4. Walks(Cacher(tables), d)
  BY <1>3, UpdateFolderWalks
<1>5. \A p \in Places : Visible(tree, p) /\ OpenFrom(folders, r.path, p)
                           => Shown(tree, d.files, d.folders, p)
  BY <1>3, WalkArrives
<1> HIDE DEF d
<1>6. /\ \A x : x \in todo.changed => x \in todo'.changed \/ x = r
      /\ \A x : x \in todo.created => x \in todo'.created \/ x = r
      /\ todo'.moved = todo.moved
  <2>1. CASE todo' = [todo EXCEPT !.changed = @ \ {r}]
    BY <2>1
  <2>2. CASE todo' = [todo EXCEPT !.created = @ \ {r}]
    BY <2>2
  <2> QED BY <1>1, <2>1, <2>2
<1>7. ASSUME NEW a \in Places, FolderAt(a) \in Targets(todo)
      PROVE  \/ FolderAt(a) \in Targets(todo')
             \/ \A p \in Places : Visible(tree, p) /\ OpenFrom(folders, a, p)
                                      => Shown(tree, d.files, d.folders, p)
  <2>1. FolderAt(a) \in Targets(todo') \/ FolderAt(a) = r
    BY <1>6, <1>7 DEF Targets
  <2>2. FolderAt(a).path = a
    BY DEF FolderAt
  <2> QED BY <1>5, <2>1, <2>2
<1>8. \A s \in Reach(todo) : s \in Reach(todo') \/ (pc' = "record" /\ s = cur')
  BY <1>1, <1>2, <1>6 DEF Reach
<1> QED BY <1>1, <1>2, <1>3, <1>4, <1>7, <1>8, ReportInTime DEF d

LEMMA ReportMovedInTime ==
    ASSUME ObservedInv, TypeOK, RaiseInv, InTime, ReportMoved
    PROVE  InTime'
<1>1. pc = "perform" /\ pc' = "perform" /\ UNCHANGED <<disk, at, event, unseen>>
  BY DEF ReportMoved
<1>2. PICK r \in DOMAIN todo.moved : \E ts, d :
              /\ ts \in Seq(Tables) /\ Len(ts) = Len(tables)
              /\ \A i \in 1..Len(tables) :
                    /\ DOMAIN ts[i] = DOMAIN tables[i]
                    /\ \A s \in DOMAIN ts[i] :
                          ts[i][s] = IF i = at /\ s = r THEN None ELSE tables[i][s]
              /\ Walks(Cacher(ts), d) /\ Becomes(d, ts)
              /\ todo.moved[r] # None =>
                    \A p \in Places : Visible(tree, p) /\ OpenFrom(folders, todo.moved[r].path, p)
                                          => Shown(tree, d.files, d.folders, p)
              /\ todo' = [todo EXCEPT !.moved = [s \in DOMAIN @ \ {r} |-> @[s]]]
  BY MovedMeans
<1>3. PICK ts, d :
              /\ ts \in Seq(Tables) /\ Len(ts) = Len(tables)
              /\ \A i \in 1..Len(tables) :
                    /\ DOMAIN ts[i] = DOMAIN tables[i]
                    /\ \A s \in DOMAIN ts[i] :
                          ts[i][s] = IF i = at /\ s = r THEN None ELSE tables[i][s]
              /\ Walks(Cacher(ts), d) /\ Becomes(d, ts)
              /\ todo.moved[r] # None =>
                    \A p \in Places : Visible(tree, p) /\ OpenFrom(folders, todo.moved[r].path, p)
                                          => Shown(tree, d.files, d.folders, p)
              /\ todo' = [todo EXCEPT !.moved = [s \in DOMAIN @ \ {r} |-> @[s]]]
  BY <1>2
<1>4. /\ DOMAIN tables = 1..Len(tables) /\ at \in DOMAIN tables
      /\ todo.moved[r] \in AnyResource \cup {None}
  BY <1>1, LenProperties DEF ObservedInv, TablesInv, TypeOK, TodoInv
<1>5. \A i \in 1..Len(tables) :
        /\ DOMAIN ts[i] = DOMAIN tables[i]
        /\ \A s \in DOMAIN ts[i] : ts[i][s] = tables[i][s] \/ (i = at /\ ts[i][s] = None)
  BY <1>3
<1> DEFINE rest == [s \in DOMAIN todo.moved \ {r} |-> todo.moved[s]]
<1>6. /\ todo'.changed = todo.changed /\ todo'.created = todo.created
      /\ todo'.moved = rest \/ todo'.moved = todo.moved
  <2> HIDE DEF rest
  <2>1. todo' = [todo EXCEPT !.moved = rest]
    BY <1>3 DEF rest
  <2> QED BY <2>1
<1>7. \A s \in DOMAIN todo.moved : s # r => s \in DOMAIN todo'.moved /\ todo'.moved[s] = todo.moved[s]
  BY <1>6
<1>8. ASSUME NEW a \in Places, FolderAt(a) \in Targets(todo)
      PROVE  \/ FolderAt(a) \in Targets(todo')
             \/ \A p \in Places : Visible(tree, p) /\ OpenFrom(folders, a, p)
                                      => Shown(tree, d.files, d.folders, p)
  <2>1. FolderAt(a).path = a
    BY DEF FolderAt
  <2>2. FolderAt(a) \in Targets(todo') \/ FolderAt(a) = todo.moved[r]
    BY <1>6, <1>7, <1>8 DEF Targets
  <2>3. CASE FolderAt(a) = todo.moved[r]
    <3>1. CASE todo.moved[r] # None
      BY <1>3, <2>1, <2>3, <3>1
    <3>2. CASE todo.moved[r] = None
      <4>1. FolderAt(a) \in [path : Places, folder : BOOLEAN]
        BY DEF FolderAt
      <4>2. None \notin [path : Places, folder : BOOLEAN]
        BY FileListAssumption
      <4> HIDE DEF rest
      <4> QED BY <2>3, <3>2, <4>1, <4>2
    <3> QED BY <3>1, <3>2
  <2> QED BY <2>2, <2>3
<1>9. ASSUME NEW s \in Reach(todo)
      PROVE  s \in Reach(todo') \/ (s \in DOMAIN tables[at] => ts[at][s] = None)
  <2>1. CASE s = r
    BY <1>3, <1>4, <2>1
  <2>2. CASE s # r
    BY <1>6, <1>7, <1>9, <2>2 DEF Reach
  <2> QED BY <2>1, <2>2
<1> HIDE DEF rest
<1> QED BY <1>1, <1>3, <1>5, <1>8, <1>9, ReportInTime
LEMMA RecordInTime ==
    ASSUME ObservedInv, TypeOK, ListInv, InTime, Record
    PROVE  InTime'
<1>1. /\ pc = "record" /\ pc' = "perform" /\ There(tree, cur)
      /\ UNCHANGED <<tree, mtime, files, folders, needs_gc, event, at, todo, unseen>>
  BY DEF Record, disk, cacher
<1>2. /\ DOMAIN tables' = DOMAIN tables
      /\ \A i \in DOMAIN tables : DOMAIN tables'[i] = DOMAIN tables[i]
      /\ \A i \in DOMAIN tables : \A s \in DOMAIN tables[i] :
            tables'[i][s] = IF i = at /\ s = cur THEN mtime[cur.path] ELSE tables[i][s]
      /\ needs_gc /\ at \in DOMAIN tables
  BY <1>1, RecordMeans DEF ListInv, CurShown, TypeOK
<1>3. ASSUME NEW i \in DOMAIN tables, i # at PROVE tables'[i] = tables[i]
  BY <1>3 DEF Record, ObservedInv, TablesInv
<1>4. ASSUME NEW i \in DOMAIN tables PROVE ToCome(i)' = ToCome(i)
  <2>1. CASE i > at
    <3>1. i # at
      BY <2>1, <1>2, LenProperties DEF ObservedInv, TablesInv, TypeOK
    <3>2. Cause(tables[i])' = Cause(tables[i])
      BY <1>1, <1>3, <3>1, CauseSame
    <3>3. ToCome(i) = Cause(tables[i]) /\ ToCome(i)' = Cause(tables[i])'
      BY <1>1, <2>1 DEF ToCome
    <3> QED BY <3>2, <3>3
  <2>2. CASE ~(i > at)
    BY <1>1, <2>2 DEF ToCome
  <2> QED BY <2>1, <2>2
<1>5. Live' => Live
  BY <1>1 DEF Live
<1>6. ShownInTime'
  <2>1. \A p : Visible(tree, p)' <=> Visible(tree, p)
    BY <1>1 DEF Visible
  <2> QED BY <1>1, <1>2, <1>4, <1>5, <2>1 DEF InTime, ShownInTime
<1>7. ASSUME Live, NEW i \in DOMAIN tables, NEW s \in DOMAIN tables[i]
      PROVE  Fresh(tables'[i], s) \/ s \in Reach(ToCome(i)')
  <2>1. CASE i = at /\ s = cur
    BY <1>1, <1>2, <2>1, FreshMeans
  <2>2. CASE ~(i = at /\ s = cur)
    <3>1. tables'[i][s] = tables[i][s]
      BY <1>2, <2>2
    <3>2. Fresh(tables[i], s) \/ s \in Reach(ToCome(i))
      BY <1>7, <2>2 DEF InTime, FreshInTime
    <3> QED BY <1>4, <3>1, <3>2, FreshMeans
  <2> QED BY <2>1, <2>2
<1>8. FreshInTime'
  <2>1. \A t, s : Fresh(t, s)' <=> Fresh(t, s)
    BY <1>1 DEF Fresh
  <2> QED BY <1>2, <1>5, <1>7, <2>1 DEF FreshInTime
<1> QED BY <1>1, <1>2, <1>6, <1>8 DEF InTime, GoneInTime

\* The first get_files leaves nothing to do, and so does every later one.
LEMMA StartInTime ==
    ASSUME ObservedInv, TypeOK, RaiseInv, ListInv, StartGetFiles
    PROVE  InTime'
<1>1. UNCHANGED <<tree, mtime, tables>>
  BY DEF StartGetFiles, disk
<1>2. \A p \in Places : Visible(tree, p)' => Shown(tree, files, folders, p)'
  BY <1>1, StartedList DEF Visible
<1>3. \A i \in DOMAIN tables : \A r \in DOMAIN tables[i] : Fresh(tables[i], r)'
  BY <1>1, StartedList DEF Fresh
<1>4. \A f \in files' : Exists(tree, f)'
  BY <1>1, StartedList, FileTreeAssumption DEF IsFile, Exists
<1> QED BY <1>1, <1>2, <1>3, <1>4
        DEF AllDone, InTime, ShownInTime, FreshInTime, GoneInTime
LEMMA GetInTime ==
    ASSUME ObservedInv, TypeOK, InTime, GetFiles
    PROVE  InTime'
<1>1. pc = "idle" /\ UNCHANGED <<tree, mtime, pc, unseen>>
  BY DEF GetFiles, disk
<1>2. CASE unseen
  <2>1. ~Live'
    BY <1>1, <1>2 DEF Live
  <2> QED BY <2>1 DEF InTime, ShownInTime, FreshInTime, GoneInTime
<1>3. CASE ~unseen
  <2>1. AllDone(files, folders)
    BY <1>1, <1>3, IdleDone
  <2>2. \A p \in Places : Visible(tree, p) => Shown(tree, files', folders', p)
    BY <2>1, GetMeans DEF AllDone
  <2>3. \A i \in DOMAIN tables' : \A r \in DOMAIN tables'[i] : Fresh(tables'[i], r)
    <3>1. \A i \in DOMAIN tables : \A r \in DOMAIN tables[i] : Fresh(tables[i], r)
      BY <2>1 DEF AllDone
    <3> QED BY <3>1, GetMeans, FreshMeans
  <2>4. \A f \in files' : Exists(tree, f)
    BY GetMeans
  <2>5. \A p \in Places : Visible(tree, p)' => Shown(tree, files, folders, p)'
    BY <1>1, <2>2 DEF Visible
  <2>6. \A i \in DOMAIN tables' : \A r \in DOMAIN tables'[i] : Fresh(tables[i], r)'
    BY <1>1, <2>3 DEF Fresh
  <2> QED BY <1>1, <2>4, <2>5, <2>6 DEF InTime, ShownInTime, FreshInTime, GoneInTime
<1> QED BY <1>2, <1>3

\* When all is done and nothing happens to the directory, all stays done.
LEMMA TellInTime ==
    ASSUME InTime, pc = "idle", ~unseen, pc' = "deliver", UNCHANGED <<disk, tables, cacher>>
    PROVE  InTime'
<1>1. AllDone(files, folders) /\ UNCHANGED <<tree, mtime, tables, files, folders, needs_gc>>
  BY IdleDone DEF disk, cacher
<1>2. \A p \in Places : Visible(tree, p)' => Shown(tree, files, folders, p)'
  BY <1>1 DEF AllDone, Visible
<1>3. \A i \in DOMAIN tables' : \A r \in DOMAIN tables'[i] : Fresh(tables[i], r)'
  BY <1>1 DEF AllDone, Fresh
<1>4. ~needs_gc' => \A f \in files' : Exists(tree, f)'
  BY <1>1 DEF AllDone
<1> QED BY <1>2, <1>3, <1>4 DEF InTime, ShownInTime, FreshInTime, GoneInTime

\* The steps after which another program was there, or an observer has raised.
LEMMA EndInTime ==
    ASSUME \/ Outside \/ ObserveDeeper \/ DeliverRaises \/ ReportRaises \/ ReportMovedRaises
           \/ RecordRaises \/ CallRaises
    PROVE  InTime'
<1>1. ASSUME unseen' = TRUE \/ pc' \in {"raised", "start"} PROVE InTime'
  <2>1. ~Live'
    BY <1>1 DEF Live
  <2> QED BY <2>1 DEF InTime, ShownInTime, FreshInTime, GoneInTime
<1> QED BY <1>1 DEF Outside, ObserveDeeper, DeliverRaises, ReportRaises, ReportMovedRaises,
                    RecordRaises, CallRaises, Raise
-----------------------------------------------------------------------------
(* What is to come when the observers are told *)

\* Every observer has to report what the event means for its table.
LEMMA TellCause ==
    ASSUME ObservedInv, NEW kind, NEW r, NEW new, Tell(kind, r, new), NEW i \in DOMAIN tables
    PROVE  /\ kind = "created" => ToCome(i)' = CausedByCreated(tables[i], r)
           /\ kind = "removed" => ToCome(i)' = CausedByRemoved(tables[i], {r})
           /\ kind = "moved" => ToCome(i)' = CausedByMoved(tree', tables[i], r, new)
           /\ kind = "validate" =>
                  ToCome(i)' = CausedByValidate(tree', mtime', tables[i], r)
<1>1. /\ event' = [kind |-> kind, res |-> r, new |-> new] /\ tables' = tables
      /\ pc' = "deliver" /\ at' = 1
  BY DEF Tell
<1>2. i \in Nat /\ i >= 1
  BY LenProperties DEF ObservedInv, TablesInv
<1>3. ToCome(i)' = Cause(tables[i])'
  BY <1>1, <1>2 DEF ToCome
<1>4. /\ event'.kind = kind /\ event'.res = r /\ event'.new = new
  BY <1>1
<1> QED BY <1>1, <1>3, <1>4 DEF Cause

\* The folder of what appears or goes is walked through, its indicator is set.
LEMMA CausedParts ==
    ASSUME NEW table, NEW r
    PROVE  /\ LET c == CausedByCreated(table, r)
              IN  ChangedParent(table, r) \subseteq Targets(c) \cap Reach(c)
           /\ LET c == CausedByRemoved(table, {r})
              IN  /\ ChangedParent(table, r) \subseteq Targets(c) \cap Reach(c)
                  /\ ({r} \cap DOMAIN table) \cup Inside(table, r) \subseteq Reach(c)
           /\ \A t, new :
                LET c == CausedByMoved(t, table, r, new)
                IN  /\ ChangedParent(table, r) \cup ChangedParent(table, new)
                          \subseteq Targets(c) \cap Reach(c)
                    /\ ({r} \cap DOMAIN table) \cup Inside(table, r) \subseteq Reach(c)
                    /\ r \in DOMAIN table => new \in Targets(c)
                    /\ \A s \in Inside(table, r) : s # r => NewResource(t, r, new, s) \in Targets(c)
<1>1. LET c == CausedByCreated(table, r)
      IN  ChangedParent(table, r) \subseteq Targets(c) \cap Reach(c)
  <2>1. CausedByCreated(table, r).changed = ChangedParent(table, r)
    BY DEF CausedByCreated, NoChanges
  <2> QED BY <2>1 DEF Targets, Reach
<1>2. LET c == CausedByRemoved(table, {r})
      IN  /\ ChangedParent(table, r) \subseteq Targets(c) \cap Reach(c)
          /\ ({r} \cap DOMAIN table) \cup Inside(table, r) \subseteq Reach(c)
  <2> DEFINE c == CausedByRemoved(table, {r})
  <2>1. /\ c.changed = UNION {ChangedParent(table, x) : x \in {r}}
        /\ DOMAIN c.moved = ({r} \cap DOMAIN table) \cup UNION {Inside(table, x) : x \in {r}}
    BY DEF CausedByRemoved
  <2> HIDE DEF c
  <2> QED BY <2>1 DEF Targets, Reach, c
<1>3. ASSUME NEW t, NEW new
      PROVE LET c == CausedByMoved(t, table, r, new)
            IN  /\ ChangedParent(table, r) \cup ChangedParent(table, new)
                          \subseteq Targets(c) \cap Reach(c)
                /\ ({r} \cap DOMAIN table) \cup Inside(table, r) \subseteq Reach(c)
                /\ r \in DOMAIN table => new \in Targets(c)
                /\ \A s \in Inside(table, r) : s # r => NewResource(t, r, new, s) \in Targets(c)
  <2> DEFINE c == CausedByMoved(t, table, r, new)
             S == ({r} \cap DOMAIN table) \cup Inside(table, r)
  <2>1. /\ c.changed = ChangedParent(table, r) \cup ChangedParent(table, new)
        /\ DOMAIN c.moved = S
        /\ \A s \in S : c.moved[s] = IF s = r THEN new ELSE NewResource(t, r, new, s)
    BY DEF CausedByMoved
  <2> HIDE DEF c
  <2>2. r \in DOMAIN table => new \in Targets(c)
    BY <2>1 DEF Targets
  <2>3. \A s \in Inside(table, r) : s # r => NewResource(t, r, new, s) \in Targets(c)
    BY <2>1 DEF Targets
  <2>4. /\ ChangedParent(table, r) \cup ChangedParent(table, new) \subseteq Targets(c) \cap Reach(c)
        /\ S \subseteq Reach(c)
    BY <2>1 DEF Targets, Reach
  <2> QED BY <2>2, <2>3, <2>4 DEF c
<1> QED BY <1>1, <1>2, <1>3

\* The folder of a resource is reported when the table has it.
LEMMA ParentTold ==
    ASSUME NEW table, NEW r, FolderAt(Parent(r.path)) \in DOMAIN table
    PROVE  FolderAt(Parent(r.path)) \in ChangedParent(table, r)
BY DEF ChangedParent, ParentFolder

\* Every folder that can be seen is known, and observed, when all is done.
LEMMA VisibleKnown ==
    ASSUME Nested(tree), KnownAreObserved, Root \in folders,
           \A p \in Places : Visible(tree, p) => Shown(tree, files, folders, p),
           NEW p \in Places, Visible(tree, p)
    PROVE  p \in folders /\ \E i \in DOMAIN tables : FolderAt(p) \in DOMAIN tables[i]
<1>1. p \in folders
  <2>1. CASE p # Root
    <3>1. p \in Paths /\ tree[p] = Dir /\ ~IsIgnored(p) /\ Exists(tree, p)
      BY <2>1, FileTreeAssumption DEF Places, Visible, NodeAt, Exists
    <3>2. Parent(p) \in Places /\ Visible(tree, Parent(p))
      BY <3>1, VisibleParent
    <3> QED BY <3>1, <3>2 DEF Shown
  <2> QED BY <2>1
<1> QED BY <1>1 DEF KnownAreObserved
\* A change of the directory that rope tells of, when all was done before: what
\* it changes has to be walked through, what it sets has to be set.
LEMMA ChangeInTime ==
    ASSUME ObservedInv, TypeOK, ListInv, Nested(tree), InTime, pc = "idle", ~unseen,
           NEW t \in Trees, KindKept(tree, t), ChangeDisk(t),
           pc' = "deliver", UNCHANGED <<tables, cacher>>,
           \A p \in Places :
              Visible(t, p) /\ ~(NodeAt(tree, p) = Dir /\ Listing(t, p) = Listing(tree, p)) =>
                \/ Shown(t, files, folders, p)
                \/ \E i \in DOMAIN tables, a \in Places :
                      FolderAt(a) \in Targets(ToCome(i)') /\ OpenFrom(folders, a, p),
           \A p \in Places :
              /\ There(tree, FolderAt(p))
              /\ NodeAt(t, p) # NodeAt(tree, p) \/ Listing(t, p) # Listing(tree, p)
              => \A i \in DOMAIN tables :
                    FolderAt(p) \in DOMAIN tables[i] => FolderAt(p) \in Reach(ToCome(i)')
    PROVE  InTime'
<1>1. /\ tree' = t /\ tree \in Trees /\ UNCHANGED <<tables, files, folders, needs_gc>>
      /\ AllDone(files, folders)
  BY IdleDone DEF ChangeDisk, TypeOK, cacher
<1>2. ASSUME NEW p \in Places, Visible(t, p)
      PROVE  \/ Shown(t, files, folders, p)
             \/ \E i \in DOMAIN tables, a \in Places :
                   FolderAt(a) \in Targets(ToCome(i)') /\ OpenFrom(folders, a, p)
  <2>1. CASE NodeAt(tree, p) = Dir /\ Listing(t, p) = Listing(tree, p)
    <3>1. Shown(tree, files, folders, p)
      BY <1>1, <1>2, <2>1 DEF AllDone, Visible
    <3> QED BY <1>1, <2>1, <3>1, SameListing
  <2>2. CASE ~(NodeAt(tree, p) = Dir /\ Listing(t, p) = Listing(tree, p))
    BY <1>2, <2>2
  <2> QED BY <2>1, <2>2
<1>3. ShownInTime'
  BY <1>1, <1>2 DEF ShownInTime
<1>4. ASSUME NEW i \in DOMAIN tables, NEW r \in DOMAIN tables[i]
      PROVE  \/ IF There(t, r) THEN tables[i][r] \in {None, mtime'[r.path]} ELSE tables[i][r] = None
             \/ r \in Reach(ToCome(i)')
  <2>1. r \in Folders /\ r.path \in Places
    BY WatchedResources DEF ObservedInv, Folders
  <2>2. r = FolderAt(r.path)
    <3>1. r = [path |-> r.path, folder |-> r.folder] /\ r.folder = TRUE
      BY <2>1 DEF Folders
    <3> QED BY <3>1 DEF FolderAt
  <2>3. Fresh(tables[i], r)
    BY <1>1 DEF AllDone
  <2>4. CASE ~There(tree, r)
    BY <2>3, <2>4 DEF Fresh
  <2>5. CASE There(tree, r) /\ NodeAt(t, r.path) = NodeAt(tree, r.path)
                           /\ Listing(t, r.path) = Listing(tree, r.path)
    <3>1. mtime'[r.path] = mtime[r.path]
      BY <2>1, <2>5, NewTimes
    <3>2. There(t, r)
      BY <2>5 DEF There
    <3> QED BY <2>3, <2>5, <3>1, <3>2 DEF Fresh
  <2>6. CASE There(tree, r) /\ (NodeAt(t, r.path) # NodeAt(tree, r.path)
                               \/ Listing(t, r.path) # Listing(tree, r.path))
    <3> DEFINE p == r.path
    <3>1. p \in Places /\ FolderAt(p) = r /\ There(tree, FolderAt(p))
      BY <2>1, <2>2, <2>6
    <3> HIDE DEF p
    <3>2. FolderAt(p) \in Reach(ToCome(i)')
      BY <2>6, <3>1 DEF p
    <3> QED BY <3>1, <3>2
  <2> QED BY <2>4, <2>5, <2>6
<1>5. FreshInTime'
  BY <1>1, <1>4 DEF FreshInTime, Fresh
<1>6. ASSUME ~needs_gc, NEW f \in files, ~Exists(t, f)
      PROVE  \E i \in DOMAIN tables : ToCome(i)' # NoChanges
  <2> DEFINE P == Parent(f)
  <2>1. f \in Paths /\ P \in folders /\ P \in Places /\ Exists(tree, f) /\ ~IsIgnored(f)
    BY <1>1, <1>6, PlaceParent DEF ListInv, ListedKnown, AllDone
  <2>2. f \in Listing(tree, P) /\ f \notin Listing(t, P)
    BY <1>6, <2>1 DEF Listing
  <2>3. There(tree, FolderAt(P))
    <3>1. Visible(tree, P)
      BY <2>1, VisibleParent
    <3> QED BY <3>1, FileTreeAssumption DEF There, FolderAt, Visible
  <2> HIDE DEF P
  <2>4. PICK i \in DOMAIN tables : FolderAt(P) \in DOMAIN tables[i]
    BY <2>1 DEF ObservedInv, KnownAreObserved
  <2>5. FolderAt(P) \in Reach(ToCome(i)')
    BY <2>1, <2>2, <2>3, <2>4
  <2> QED BY <2>5, NothingToCome
<1>7. GoneInTime'
  BY <1>1, <1>6 DEF GoneInTime
<1> QED BY <1>3, <1>5, <1>7 DEF InTime
\* The walk of a folder comes to the folder.
LEMMA OpenSelf ==
    ASSUME NEW known \in SUBSET Places, NEW a \in Places
    PROVE  OpenFrom(known, a, a)
<1>1. \A b \in known : ~(Within(a, b) /\ Under(b, a))
  BY PlacesType, WithinSelf DEF Under
<1> QED BY <1>1, Zenon DEF OpenFrom, Under

\* What is there is so for the folder that has it.
LEMMA ListingMeans ==
    ASSUME NEW t, NEW u, NEW p \in Places, Listing(t, p) # Listing(u, p)
    PROVE  \E y \in Paths : Parent(y) = p /\ (Exists(t, y) # Exists(u, y))
<1> SUFFICES ASSUME \A y \in Paths : Parent(y) = p => (Exists(t, y) <=> Exists(u, y))
             PROVE  Listing(t, p) = Listing(u, p)
  BY DEF Exists
<1> QED BY DEF Listing

\* The folder of what is there is a folder that can be seen, or is ignored.
LEMMA HasParentMeans ==
    ASSUME NEW t, NEW p \in Paths, HasParent(t, p)
    PROVE  Parent(p) \in Places /\ NodeAt(t, Parent(p)) = Dir
<1>1. Parent(p) \in Places /\ Parent(p) \in Sequence /\ p \in Sequence /\ Len(p) \in Nat
  BY PlaceParent, PlacesType, PathsType, LenProperties DEF Sequence
<1>2. CASE Len(p) = 1
  <2>1. Len(Parent(p)) = Len(p) - 1
    BY <1>1, PathsType, ParentType
  <2>2. Parent(p) = Root
    BY <1>1, <1>2, <2>1, EmptySeq DEF Root, Sequence
  <2> QED BY <1>1, <2>2 DEF NodeAt
<1>3. CASE Parent(p) \in Paths /\ t[Parent(p)] = Dir
  BY <1>1, <1>3, PathsType DEF NodeAt
<1> QED BY <1>2, <1>3 DEF HasParent

LEMMA CreateInTime ==
    ASSUME ObservedInv, TypeOK, ListInv, RaiseInv, InTime, ~unseen, CreateResource
    PROVE  InTime'
<1>1. PICK p \in Paths, node \in {Empty, Dir} :
          /\ ~Exists(tree, p) /\ HasParent(tree, p)
          /\ ChangeDisk([tree EXCEPT ![p] = node])
          /\ Tell("created", [path |-> p, folder |-> node = Dir], None)
          /\ pc = "idle"
  BY CreateMeans
<1> DEFINE t == [tree EXCEPT ![p] = node]
           r == [path |-> p, folder |-> node = Dir]
           P == Parent(p)
<1>2. /\ tree \in Trees /\ Nested(tree) /\ node \in Nodes /\ Root \in folders /\ KnownAreObserved
      /\ AllDone(files, folders)
  BY <1>1, IdleDone, FileTreeAssumption
     DEF TypeOK, RaiseInv, DiskNamed, Nodes, Data, ListInv, ListedKnown, ObservedInv
<1>3. /\ t \in Trees /\ KindKept(tree, t)
      /\ \A x \in Paths : t[x] = IF x = p THEN node ELSE tree[x]
  BY <1>1, <1>2, PutKinds DEF Trees
<1>4. P \in Places /\ NodeAt(tree, P) = Dir /\ Within(P, p)
  BY <1>1, HasParentMeans, PlaceParent
<1>5. r.path = p /\ Tell("created", r, None)
  BY <1>1
<1>6. \A i \in DOMAIN tables : FolderAt(P) \in DOMAIN tables[i] =>
          FolderAt(P) \in Targets(ToCome(i)') \cap Reach(ToCome(i)')
  <2> HIDE DEF r
  <2> TAKE i \in DOMAIN tables
  <2> HAVE FolderAt(P) \in DOMAIN tables[i]
  <2>1. ToCome(i)' = CausedByCreated(tables[i], r)
    BY <1>5, TellCause
  <2>2. FolderAt(P) \in ChangedParent(tables[i], r)
    BY <1>5, ParentTold
  <2> QED BY <2>1, <2>2, CausedParts
<1>7. ChangeDisk(t) /\ pc' = "deliver" /\ UNCHANGED <<tables, cacher>>
  BY <1>1 DEF Tell
<1> HIDE DEF t, r, P
<1>8. \A x \in Places : x # p => NodeAt(t, x) = NodeAt(tree, x)
  BY <1>3 DEF Places, NodeAt
<1>9. \A x \in Places : x # P => Listing(t, x) = Listing(tree, x)
  <2>1. \A y \in Paths : Parent(y) # P => Exists(t, y) = Exists(tree, y)
    BY <1>3 DEF Exists, P
  <2> QED BY <2>1, ListingMeans
<1>10. p \in Places /\ p # P
  BY <1>4, PlacesType, WithinSelf
<1>11. ASSUME NEW x \in Places, Visible(t, x),
              ~(NodeAt(tree, x) = Dir /\ Listing(t, x) = Listing(tree, x))
       PROVE  \/ Shown(t, files, folders, x)
              \/ \E i \in DOMAIN tables, a \in Places :
                    FolderAt(a) \in Targets(ToCome(i)') /\ OpenFrom(folders, a, x)
  <2>1. CASE x = p
    <3>1. ASSUME NEW y \in Paths, Parent(y) = p PROVE t[y] = Absent
      <4>1. y # p /\ Within(p, y)
        BY <3>1, PlaceParent, PlacesType, WithinSelf
      <4>2. tree[y] = Absent
        BY <1>1, <1>2, <4>1, FileTreeAssumption DEF Nested, Exists
      <4> QED BY <1>3, <4>1, <4>2
    <3>2. Shown(t, files, folders, x)
      BY <2>1, <3>1, FileTreeAssumption DEF Shown, IsFile
    <3> QED BY <3>2
  <2>2. CASE x # p
    <3>1. NodeAt(tree, x) = Dir /\ x = P
      BY <1>8, <1>9, <1>11, <2>2 DEF Visible
    <3>2. Visible(tree, P)
      BY <1>11, <3>1 DEF Visible
    <3>3. PICK i \in DOMAIN tables : FolderAt(P) \in DOMAIN tables[i]
      BY <1>2, <1>4, <3>2, VisibleKnown DEF AllDone
    <3>4. OpenFrom(folders, P, P)
      BY <1>4, OpenSelf DEF TypeOK
    <3> QED BY <1>4, <1>6, <3>1, <3>3, <3>4
  <2> QED BY <2>1, <2>2
<1>12. ASSUME NEW x \in Places, There(tree, FolderAt(x)),
              NodeAt(t, x) # NodeAt(tree, x) \/ Listing(t, x) # Listing(tree, x),
              NEW i \in DOMAIN tables, FolderAt(x) \in DOMAIN tables[i]
       PROVE  FolderAt(x) \in Reach(ToCome(i)')
  <2>1. x # p
    BY <1>1, <1>12, PathsType DEF There, FolderAt, NodeAt, Root, Exists
  <2>2. x = P
    BY <1>8, <1>9, <1>12, <2>1
  <2> QED BY <1>6, <1>12, <2>2
<1> QED BY <1>1, <1>2, <1>3, <1>7, <1>11, <1>12, ChangeInTime
\* A folder in a table is at a place where folders are.
LEMMA TableFolder ==
    ASSUME ObservedInv, TypeOK, RaiseInv, NEW i \in DOMAIN tables, NEW x \in Paths,
           FolderAt(x) \in DOMAIN tables[i]
    PROVE  ~IsFile(tree, x)
<1>1. TableNamed(tables[i]) /\ Named(tree)
  BY DEF RaiseInv, TablesNamed, DiskNamed
<1>2. Folderish(x)
  BY <1>1 DEF TableNamed, FolderAt
<1> QED BY <1>1, <1>2 DEF Named, IsFile

\* The folders of a table that go with a folder, and the folder itself.
LEMMA GoesAlong ==
    ASSUME ObservedInv, TypeOK, RaiseInv, NEW i \in DOMAIN tables, NEW p \in Paths,
           Exists(tree, p), NEW r, r = [path |-> p, folder |-> tree[p] = Dir],
           NEW x \in Places, Under(p, x), There(tree, FolderAt(x)),
           FolderAt(x) \in DOMAIN tables[i]
    PROVE  IF x = p THEN FolderAt(x) = r ELSE FolderAt(x) \in Inside(tables[i], r) /\ FolderAt(x) # r
<1>1. tree \in Trees /\ Nested(tree) /\ r.path = p /\ FolderAt(x).path = x
  BY DEF TypeOK, RaiseInv, DiskNamed, FolderAt
<1>2. CASE x = p
  <2>1. ~IsFile(tree, p)
    BY <1>2, TableFolder
  <2>2. tree[p] = Dir
    BY <1>1, <2>1 DEF Trees, Nodes, IsFile, Exists
  <2> QED BY <1>2, <2>2 DEF FolderAt
<1>3. CASE x # p
  <2>1. Within(p, x)
    BY <1>3 DEF Under
  <2>2. NodeAt(tree, p) = Dir
    BY <1>1, <2>1, PlacesType, FoldersAround DEF There, FolderAt
  <2>3. tree[p] = Dir
    BY <2>2, PathsType DEF NodeAt, Root
  <2>4. r.folder = TRUE
    BY <2>3
  <2> QED BY <1>1, <1>3, <2>1, <2>4 DEF Inside, Covers
<1> QED BY <1>2, <1>3

LEMMA RemoveInTime ==
    ASSUME ObservedInv, TypeOK, ListInv, RaiseInv, InTime, ~unseen, RemoveResource
    PROVE  InTime'
<1>1. PICK p \in Paths :
          /\ RemoveNode(tree, p).ok /\ ChangeDisk(RemoveNode(tree, p).tree)
          /\ Tell("removed", [path |-> p, folder |-> tree[p] = Dir], None)
          /\ pc = "idle"
  BY RemoveMeans
<1> DEFINE t == RemoveNode(tree, p).tree
           r == [path |-> p, folder |-> tree[p] = Dir]
           P == Parent(p)
<1>2. /\ tree \in Trees /\ Nested(tree) /\ Root \in folders /\ KnownAreObserved
      /\ AllDone(files, folders)
  BY <1>1, IdleDone DEF TypeOK, RaiseInv, DiskNamed, ListInv, ListedKnown, ObservedInv
<1>3. /\ t \in Trees /\ KindKept(tree, t) /\ Exists(tree, p)
      /\ \A x \in Paths : t[x] = IF Under(p, x) THEN Absent ELSE tree[x]
  <2>1. Exists(tree, p)
    BY <1>1 DEF RemoveNode, Raises
  <2>2. t = [q \in Paths |-> IF q = p \/ Within(p, q) THEN Absent ELSE tree[q]]
    BY <2>1 DEF RemoveNode, Leaves
  <2>3. t \in Trees /\ KindKept(tree, t)
    BY <1>1, <1>2, RemoveType, RemoveKinds
  <2> HIDE DEF t
  <2> QED BY <2>1, <2>2, <2>3 DEF Under
<1>4. P \in Places /\ Within(P, p)
  BY PlaceParent
<1>5. r.path = p /\ r.folder = (tree[p] = Dir) /\ Tell("removed", r, None)
  BY <1>1
<1>6. /\ \A i \in DOMAIN tables : FolderAt(P) \in DOMAIN tables[i] =>
            FolderAt(P) \in Targets(ToCome(i)') \cap Reach(ToCome(i)')
      /\ \A i \in DOMAIN tables :
            ({r} \cap DOMAIN tables[i]) \cup Inside(tables[i], r) \subseteq Reach(ToCome(i)')
  <2> HIDE DEF r
  <2>1. \A i \in DOMAIN tables : ToCome(i)' = CausedByRemoved(tables[i], {r})
    BY <1>5, TellCause
  <2>2. ASSUME NEW i \in DOMAIN tables, FolderAt(P) \in DOMAIN tables[i]
        PROVE  FolderAt(P) \in ChangedParent(tables[i], r)
    BY <1>5, <2>2, ParentTold
  <2> QED BY <2>1, <2>2, CausedParts
<1>7. ChangeDisk(t) /\ pc' = "deliver" /\ UNCHANGED <<tables, cacher>>
  BY <1>1 DEF Tell
<1> HIDE DEF t, r, P
<1>8. \A x \in Places : ~Under(p, x) => NodeAt(t, x) = NodeAt(tree, x)
  BY <1>3 DEF Places, NodeAt
<1>9. \A x \in Places : x # P /\ ~Under(p, x) => Listing(t, x) = Listing(tree, x)
  <2>1. \A y \in Paths : Exists(t, y) # Exists(tree, y) => Under(p, y)
    BY <1>3 DEF Exists
  <2>2. \A y \in Paths : Under(p, y) => y = p \/ Under(p, Parent(y))
    BY PathsType, UnderParent DEF Under
  <2> QED BY <2>1, <2>2, ListingMeans DEF P
<1>10. ASSUME NEW x \in Places, Visible(t, x),
              ~(NodeAt(tree, x) = Dir /\ Listing(t, x) = Listing(tree, x))
       PROVE  \E i \in DOMAIN tables, a \in Places :
                    FolderAt(a) \in Targets(ToCome(i)') /\ OpenFrom(folders, a, x)
  <2>1. ~Under(p, x)
    <3>1. Under(p, x) => x \in Paths
      BY PlacesType, PathsType, WithinSelf DEF Under, Places, Root
    <3> QED BY <1>3, <1>10, <3>1, PathsType, FileTreeAssumption DEF Visible, NodeAt, Root
  <2>2. NodeAt(tree, x) = Dir /\ x = P
    BY <1>8, <1>9, <1>10, <2>1 DEF Visible
  <2>3. Visible(tree, P)
    BY <1>10, <2>2 DEF Visible
  <2>4. PICK i \in DOMAIN tables : FolderAt(P) \in DOMAIN tables[i]
    BY <1>2, <1>4, <2>3, VisibleKnown DEF AllDone
  <2>5. OpenFrom(folders, P, P)
    BY <1>4, OpenSelf DEF TypeOK
  <2> QED BY <1>4, <1>6, <2>2, <2>4, <2>5
<1>11. ASSUME NEW x \in Places, There(tree, FolderAt(x)),
              NodeAt(t, x) # NodeAt(tree, x) \/ Listing(t, x) # Listing(tree, x),
              NEW i \in DOMAIN tables, FolderAt(x) \in DOMAIN tables[i]
       PROVE  FolderAt(x) \in Reach(ToCome(i)')
  <2>1. CASE x = P
    BY <1>6, <1>11, <2>1
  <2>2. CASE x # P
    <3>1. Under(p, x)
      BY <1>8, <1>9, <1>11, <2>2
    <3>2. FolderAt(x) \in ({r} \cap DOMAIN tables[i]) \cup Inside(tables[i], r)
      BY <1>3, <1>11, <3>1, GoesAlong DEF r
    <3> QED BY <1>6, <3>2
  <2> QED BY <2>1, <2>2
<1> QED BY <1>1, <1>2, <1>3, <1>7, <1>10, <1>11, ChangeInTime
\* What has been moved had, before, a place in the folder that was moved.
LEMMA RebasedBack ==
    ASSUME NEW p \in Sequence, NEW q \in Sequence, NEW b \in Sequence, Under(q, b)
    PROVE  /\ Under(p, Rebased(q, p, b)) /\ Rebased(p, q, Rebased(q, p, b)) = b
           /\ b = q => Rebased(q, p, b) = p
           /\ b # q => Within(p, Rebased(q, p, b))
<1> DEFINE x == Rebased(q, p, b)
           y == Rebased(p, q, x)
<1>1. b = q => x = p
  BY RebasedSelf
<1>2. b # q => Within(p, x)
  <2>1. ASSUME b # q PROVE Within(p, x)
    <3>1. Within(q, b) /\ Under(q, q)
      BY <2>1 DEF Under
    <3>2. Within(Rebased(q, p, q), x)
      BY <3>1, RebasedWithin
    <3> QED BY <3>2, RebasedSelf
  <2> QED BY <2>1
<1>3. Under(p, x)
  BY <1>1, <1>2 DEF Under
<1>4. /\ Len(p) \in Nat /\ Len(q) \in Nat /\ Len(b) \in Nat /\ Len(q) <= Len(b)
      /\ \A i \in 1..Len(q) : b[i] = q[i]
  BY LenProperties, WithinMeans DEF Sequence, Under
<1>5. /\ x \in Sequence /\ Len(x) = Len(p) + Len(b) - Len(q)
      /\ \A i \in (Len(p) + 1)..(Len(p) + Len(b) - Len(q)) : x[i] = b[i - Len(p) + Len(q)]
  BY RebasedMeans, ZenonT(60)
<1> HIDE DEF x
<1>6. /\ y \in Sequence /\ Len(y) = Len(q) + Len(x) - Len(p)
      /\ \A i \in 1..Len(q) : y[i] = q[i]
      /\ \A i \in (Len(q) + 1)..(Len(q) + Len(x) - Len(p)) : y[i] = x[i - Len(q) + Len(p)]
  BY <1>3, <1>5, RebasedMeans, ZenonT(60)
<1> HIDE DEF y
<1>7. Len(y) = Len(b)
  BY <1>4, <1>5, <1>6
<1>8. ASSUME NEW i \in 1..Len(b) PROVE y[i] = b[i]
  <2>1. CASE i <= Len(q)
    BY <1>4, <1>6, <1>8, <2>1
  <2>2. CASE ~(i <= Len(q))
    <3> DEFINE j == i - Len(q) + Len(p)
    <3>1. /\ i \in (Len(q) + 1)..(Len(q) + Len(x) - Len(p))
          /\ j \in (Len(p) + 1)..(Len(p) + Len(b) - Len(q))
          /\ j - Len(p) + Len(q) = i
      BY <1>4, <1>5, <1>8, <2>2
    <3>2. y[i] = x[j]
      BY <1>6, <3>1
    <3> HIDE DEF j
    <3>3. x[j] = b[i]
      BY <1>5, <3>1
    <3> QED BY <3>2, <3>3
  <2> QED BY <2>1, <2>2
<1>9. y = b
  BY <1>6, <1>7, <1>8, SeqEqual DEF Sequence
<1> QED BY <1>1, <1>2, <1>3, <1>9 DEF x, y

\* What a move does to the directory when the folder it goes to is there and
\* no folder has the place.
LEMMA MovedTree ==
    ASSUME NEW t \in Trees, Nested(t), NEW p \in Paths, NEW q \in Paths, p # q,
           MovePath(t, p, q).ok, HasParent(t, q), t[q] # Dir,
           NEW u, u = MovePath(t, p, q).tree
    PROVE  /\ u \in Trees /\ Nested(u) /\ KindKept(t, u) /\ Exists(t, p)
           /\ ~Within(p, q) /\ ~Within(q, p)
           /\ \A x \in Paths : Within(q, x) => t[x] = Absent
           /\ \A x \in Paths : u[x] = IF Under(q, x) THEN Arrived(t, p, q, x)
                                      ELSE IF Under(p, x) THEN Absent ELSE t[x]
           /\ Parent(p) \in Places /\ NodeAt(t, Parent(p)) = Dir
           /\ Parent(q) \in Places /\ NodeAt(t, Parent(q)) = Dir
<1>1. CanMove(t, p, q) /\ Target(t, p, q) = q
  BY DEF MovePath, Raises, Target
<1>2. /\ ~Within(p, q) /\ Exists(t, p) /\ ~Within(q, p)
      /\ \A x \in Paths : Within(q, x) => t[x] = Absent
  BY <1>1, TargetMeans
<1>3. u = Renamed(t, p, q)
  BY <1>1 DEF MovePath, Leaves
<1>4. u \in Trees /\ Nested(u) /\ KindKept(t, u)
  BY <1>1, <1>3, MoveType, NestedMove, MoveKinds
<1>5. \A x \in Paths :
         u[x] = IF Under(q, x) THEN Arrived(t, p, q, x)
                ELSE IF Under(p, x) THEN Absent
                ELSE IF Within(x, q) THEN Dir ELSE t[x]
  BY <1>3 DEF Renamed, Under
<1>6. \A x \in Paths : Within(x, q) => t[x] = Dir
  BY NestedUp
<1>7. Parent(q) \in Places /\ NodeAt(t, Parent(q)) = Dir
  BY HasParentMeans
<1>8. Parent(p) \in Places /\ NodeAt(t, Parent(p)) = Dir
  <2>1. p \in Places /\ NodeAt(t, p) # Absent
    BY <1>2, PathsType DEF Places, NodeAt, Exists, Root
  <2> QED BY <2>1, PlaceParent, ParentThere
<1> QED BY <1>2, <1>4, <1>5, <1>6, <1>7, <1>8

\* A folder keeps what it has when it is not under one of the two places and
\* neither of them is in it.
LEMMA MovedListing ==
    ASSUME NEW t, NEW u, NEW p \in Paths, NEW q \in Paths,
           \A x \in Paths : ~Under(q, x) /\ ~Under(p, x) => u[x] = t[x],
           NEW x \in Places, ~Under(p, x), ~Under(q, x)
    PROVE  /\ NodeAt(u, x) = NodeAt(t, x)
           /\ x # Parent(p) /\ x # Parent(q) => Listing(u, x) = Listing(t, x)
<1>1. NodeAt(u, x) = NodeAt(t, x)
  BY DEF Places, NodeAt
<1>2. ASSUME Listing(u, x) # Listing(t, x) PROVE x = Parent(p) \/ x = Parent(q)
  <2>1. PICK y \in Paths : Parent(y) = x /\ (Exists(u, y) # Exists(t, y))
    BY <1>2, ListingMeans
  <2>2. Under(p, y) \/ Under(q, y)
    BY <2>1 DEF Exists
  <2>3. \A a \in Paths : Under(a, y) => y = a \/ Under(a, Parent(y))
    BY PathsType, UnderParent DEF Under
  <2> QED BY <2>1, <2>2, <2>3
<1> QED BY <1>1, <1>2

\* A known folder that something was moved to: the folder it came from was
\* observed, and its observer tells where it is now.
LEMMA ArrivedTold ==
    ASSUME ObservedInv, TypeOK, ListInv, RaiseInv, pc = "idle", AllDone(files, folders),
           NEW p \in Paths, NEW q \in Paths, Exists(tree, p),
           NEW t, \A x \in Paths : Under(q, x) => t[x] = Arrived(tree, p, q, x),
           \A x \in Paths : Under(p, x) /\ Exists(tree, x) /\ IsIgnored(x)
                               => IsIgnored(Rebased(p, q, x)),
           NEW r, r = [path |-> p, folder |-> tree[p] = Dir],
           NEW new, new = [path |-> q, folder |-> tree[p] = Dir],
           NEW b \in Places, Under(q, b), Visible(t, b)
    PROVE  \E i \in DOMAIN tables : FolderAt(b) \in Targets(CausedByMoved(t, tables[i], r, new))
<1> DEFINE a == Rebased(q, p, b)
<1>1. /\ Nested(tree) /\ KnownAreObserved /\ Root \in folders
      /\ r.path = p /\ new.path = q /\ FolderAt(a).path = a
  BY DEF RaiseInv, DiskNamed, ObservedInv, ListInv, ListedKnown, FolderAt
<1>2. /\ p \in Sequence /\ q \in Sequence /\ b \in Sequence
      /\ p \in Places /\ q \in Places /\ p # Root /\ q # Root
  BY PlacesType, PathsType DEF Root
<1>3. b \in Paths
  <2>1. b # Root
    BY <1>2, WithinMeans, LenProperties, EmptySeq DEF Under, Root, Sequence
  <2> QED BY <2>1 DEF Places
<1>4. /\ Under(p, a) /\ Rebased(p, q, a) = b
      /\ b = q => a = p
      /\ b # q => Within(p, a)
  BY <1>2, RebasedBack
<1>5. a \in Paths /\ tree[a] = Dir
  <2>1. t[b] = Dir /\ t[b] = Arrived(tree, p, q, b)
    BY <1>3, PathsType DEF Visible, NodeAt, Root
  <2> QED BY <2>1, FileTreeAssumption DEF Arrived
<1> HIDE DEF a
<1>6. a \in Places /\ NodeAt(tree, a) = Dir /\ Exists(tree, a)
  BY <1>5, PlacesType, PathsType, FileTreeAssumption DEF NodeAt, Root, Exists
<1>7. Visible(tree, a)
  <2>1. IsIgnored(a) => IsIgnored(b)
    BY <1>4, <1>5, <1>6
  <2> QED BY <1>6, <2>1 DEF Visible
<1>8. PICK i \in DOMAIN tables : FolderAt(a) \in DOMAIN tables[i]
  BY <1>1, <1>6, <1>7, VisibleKnown DEF AllDone
<1>9. There(tree, FolderAt(a))
  BY <1>6, FileTreeAssumption DEF There, FolderAt
<1>10. IF a = p THEN FolderAt(a) = r ELSE FolderAt(a) \in Inside(tables[i], r) /\ FolderAt(a) # r
  BY <1>4, <1>6, <1>8, <1>9, GoesAlong
<1>11. /\ r \in DOMAIN tables[i] => new \in Targets(CausedByMoved(t, tables[i], r, new))
       /\ \A s \in Inside(tables[i], r) :
             s # r => NewResource(t, r, new, s) \in Targets(CausedByMoved(t, tables[i], r, new))
  BY CausedParts
<1>12. CASE a = p
  <2>1. b = q
    BY <1>2, <1>4, <1>12, WithinSelf
  <2>2. new = FolderAt(b)
    BY <1>5, <1>12, <2>1 DEF FolderAt
  <2> QED BY <1>8, <1>10, <1>11, <1>12, <2>2
<1>13. CASE a # p
  <2>1. NewResource(t, r, new, FolderAt(a)) = FolderAt(b)
    BY <1>1, <1>4 DEF NewResource, FolderAt, Visible
  <2> QED BY <1>10, <1>11, <1>13, <2>1
<1> QED BY <1>12, <1>13

\* The way into a folder that was just moved in is open from the folder it was
\* moved to, when nothing in it was known before.
LEMMA OpenInto ==
    ASSUME NEW known \in SUBSET Places, NEW q \in Paths, NEW x \in Places, Under(q, x),
           \A c \in known : ~(Under(q, c) /\ Under(c, x))
    PROVE  OpenFrom(known, Parent(q), x)
<1> DEFINE P == Parent(q)
<1>1. /\ P \in Places /\ Within(P, q) /\ P \in Sequence /\ q \in Sequence /\ x \in Sequence
  BY PlaceParent, PlacesType, PathsType
<1>2. Under(P, x)
  BY <1>1, UnderTrans DEF Under
<1>3. \A a \in Sequence : Within(a, q) => Under(a, P)
  BY UnderParent
<1> HIDE DEF P
<1>4. ASSUME NEW c \in known, Within(P, c), Under(c, x) PROVE FALSE
  <2>1. c \in Sequence
    BY PlacesType
  <2>2. Under(c, q) \/ Under(q, c)
    BY <1>1, <1>4, <2>1, UnderChain
  <2>3. Under(c, q) /\ c # q
    BY <1>4, <2>2 DEF Under
  <2>4. Under(c, P)
    BY <1>3, <2>1, <2>3 DEF Under
  <2>5. Within(P, P)
    BY <1>1, <1>4, <2>1, <2>4, UnderTrans
  <2> QED BY <1>1, <2>5, WithinSelf
<1> QED BY <1>2, <1>4 DEF OpenFrom, P

\* A plain move: to a folder that is there, not onto a folder that has the
\* place already, and not out of what is ignored into what is not.
PlainMove(p, q) ==
    /\ HasParent(tree, q) /\ tree[q] # Dir
    /\ \A x \in Paths : Under(p, x) /\ Exists(tree, x) /\ IsIgnored(x)
                           => IsIgnored(Rebased(p, q, x))

LEMMA OtherPlaceInTime ==
    ASSUME ObservedInv, TypeOK, ListInv, RaiseInv, InTime, ~unseen, pc = "idle",
           NEW p \in Paths, NEW q \in Paths, p # q, PlainMove(p, q),
           MovePath(tree, p, q).ok, ChangeDisk(MovePath(tree, p, q).tree),
           Tell("moved", [path |-> p, folder |-> tree[p] = Dir],
                         [path |-> q, folder |-> tree[p] = Dir])
    PROVE  InTime'
<1> DEFINE t == MovePath(tree, p, q).tree
           r == [path |-> p, folder |-> tree[p] = Dir]
           new == [path |-> q, folder |-> tree[p] = Dir]
           P == Parent(p)
           Q == Parent(q)
<1>1. /\ tree \in Trees /\ Nested(tree) /\ Root \in folders /\ KnownAreObserved
      /\ folders \subseteq Places /\ AllDone(files, folders)
  BY IdleDone DEF TypeOK, RaiseInv, DiskNamed, ListInv, ListedKnown, ObservedInv
<1>2. /\ t \in Trees /\ Nested(t) /\ KindKept(tree, t) /\ Exists(tree, p)
      /\ ~Within(p, q) /\ ~Within(q, p)
      /\ \A x \in Paths : Within(q, x) => tree[x] = Absent
      /\ \A x \in Paths : t[x] = IF Under(q, x) THEN Arrived(tree, p, q, x)
                                 ELSE IF Under(p, x) THEN Absent ELSE tree[x]
      /\ P \in Places /\ NodeAt(tree, P) = Dir
      /\ Q \in Places /\ NodeAt(tree, Q) = Dir
  <2> HIDE DEF t, P, Q
  <2>1. HasParent(tree, q) /\ tree[q] # Dir
    BY DEF PlainMove
  <2> QED BY <1>1, <2>1, MovedTree DEF t, P, Q
<1>3. r.path = p /\ new.path = q /\ Tell("moved", r, new)
  OBVIOUS
<1>4. ChangeDisk(t) /\ pc' = "deliver" /\ UNCHANGED <<tables, cacher>> /\ tree' = t
  BY DEF Tell, ChangeDisk
<1> HIDE DEF t
<1>5. \A i \in DOMAIN tables : ToCome(i)' = CausedByMoved(t, tables[i], r, new)
  <2> HIDE DEF r, new
  <2>1. \A i \in DOMAIN tables : ToCome(i)' = CausedByMoved(tree', tables[i], r, new)
    BY <1>3, TellCause
  <2> QED BY <1>4, <2>1
<1>6. /\ \A i \in DOMAIN tables : \A a \in {P, Q} : FolderAt(a) \in DOMAIN tables[i] =>
            FolderAt(a) \in Targets(ToCome(i)') \cap Reach(ToCome(i)')
      /\ \A i \in DOMAIN tables :
            ({r} \cap DOMAIN tables[i]) \cup Inside(tables[i], r) \subseteq Reach(ToCome(i)')
  <2> HIDE DEF r, new
  <2>1. ASSUME NEW i \in DOMAIN tables, NEW a \in {P, Q}, FolderAt(a) \in DOMAIN tables[i]
        PROVE  FolderAt(a) \in ChangedParent(tables[i], r) \cup ChangedParent(tables[i], new)
    BY <1>3, <2>1, ParentTold
  <2> QED BY <1>5, <2>1, CausedParts
<1>7. ASSUME NEW x \in Places, ~Under(p, x), ~Under(q, x)
      PROVE  /\ NodeAt(t, x) = NodeAt(tree, x)
             /\ x \notin {P, Q} => Listing(t, x) = Listing(tree, x)
  BY <1>2, <1>7, MovedListing
<1>8. \A x \in Places : Under(p, x) \/ Under(q, x) => x \in Paths
  BY PlacesType, PathsType, WithinMeans, LenProperties, EmptySeq
     DEF Under, Places, Root, Sequence
<1>9. \A x \in Places : Visible(t, x) /\ Visible(tree, x) =>
         \E i \in DOMAIN tables : FolderAt(x) \in DOMAIN tables[i]
  BY <1>1, VisibleKnown DEF AllDone
<1>10. ASSUME NEW x \in Places, Visible(t, x),
              ~(NodeAt(tree, x) = Dir /\ Listing(t, x) = Listing(tree, x))
       PROVE  \E i \in DOMAIN tables, a \in Places :
                    FolderAt(a) \in Targets(ToCome(i)') /\ OpenFrom(folders, a, x)
  <2>1. CASE \E c \in folders : Under(q, c) /\ Under(c, x)
    <3>1. PICK c \in folders : Under(q, c) /\ Under(c, x)
      BY <2>1
    <3>2. PICK b \in folders : Under(c, b) /\ OpenFrom(folders, b, x)
      BY <1>1, <3>1, LastKnown
    <3>3. b \in Places /\ Under(q, b) /\ Under(b, x)
      BY <1>1, <3>1, <3>2, PlacesType, UnderTrans DEF OpenFrom
    <3>4. Visible(t, b)
      BY <1>2, <1>10, <3>3, VisibleAround
    <3>5. \A y \in Paths : Under(q, y) => t[y] = Arrived(tree, p, q, y)
      BY <1>2
    <3>6. \A y \in Paths : Under(p, y) /\ Exists(tree, y) /\ IsIgnored(y)
                               => IsIgnored(Rebased(p, q, y))
      BY DEF PlainMove
    <3>7. PICK i \in DOMAIN tables : FolderAt(b) \in Targets(CausedByMoved(t, tables[i], r, new))
      <4> HIDE DEF r, new
      <4>1. r = [path |-> p, folder |-> tree[p] = Dir]
            /\ new = [path |-> q, folder |-> tree[p] = Dir]
        BY DEF r, new
      <4> QED BY <1>1, <1>2, <3>3, <3>4, <3>5, <3>6, <4>1, ArrivedTold
    <3> QED BY <1>5, <3>2, <3>3, <3>7
  <2>2. CASE Under(q, x) /\ ~\E c \in folders : Under(q, c) /\ Under(c, x)
    <3>1. OpenFrom(folders, Q, x)
      BY <1>1, <2>2, OpenInto
    <3>2. Visible(t, Q)
      BY <1>2, <1>10, <3>1, VisibleAround DEF OpenFrom
    <3>3. Visible(tree, Q)
      BY <1>2, <3>2 DEF Visible
    <3> QED BY <1>2, <1>6, <1>9, <3>1, <3>2, <3>3
  <2>3. CASE ~Under(q, x)
    <3>1. ~Under(p, x)
      BY <1>2, <1>8, <1>10, <2>3, PathsType, FileTreeAssumption DEF Visible, NodeAt, Root
    <3>2. x \in {P, Q} /\ Visible(tree, x)
      BY <1>7, <1>10, <2>3, <3>1 DEF Visible
    <3>3. PICK i \in DOMAIN tables : FolderAt(x) \in DOMAIN tables[i]
      BY <1>9, <1>10, <3>2
    <3>4. OpenFrom(folders, x, x)
      BY <1>1, OpenSelf
    <3> QED BY <1>6, <3>2, <3>3, <3>4
  <2> QED BY <2>1, <2>2, <2>3
<1>11. ASSUME NEW x \in Places, There(tree, FolderAt(x)),
              NodeAt(t, x) # NodeAt(tree, x) \/ Listing(t, x) # Listing(tree, x),
              NEW i \in DOMAIN tables, FolderAt(x) \in DOMAIN tables[i]
       PROVE  FolderAt(x) \in Reach(ToCome(i)')
  <2>1. CASE Under(p, x)
    <3>1. FolderAt(x) \in ({r} \cap DOMAIN tables[i]) \cup Inside(tables[i], r)
      BY <1>2, <1>11, <2>1, GoesAlong
    <3> QED BY <1>6, <3>1
  <2>2. CASE Under(q, x)
    <3>1. x \in Paths /\ tree[x] # Absent
      BY <1>8, <1>11, <2>2, PathsType DEF There, FolderAt, NodeAt, Root
    <3>2. x = q
      BY <1>2, <2>2, <3>1 DEF Under
    <3>3. tree[q] \in Data
      BY <1>1, <3>1, <3>2 DEF PlainMove, Trees, Nodes
    <3> QED BY <1>11, <3>1, <3>2, <3>3, TableFolder DEF IsFile
  <2>3. CASE ~Under(p, x) /\ ~Under(q, x)
    BY <1>6, <1>7, <1>11, <2>3
  <2> QED BY <2>1, <2>2, <2>3
<1> HIDE DEF r, new, P, Q
<1> QED BY <1>1, <1>2, <1>4, <1>10, <1>11, ChangeInTime

\* The calls of move are plain.
MovesPlainly ==
    pc = "idle" /\ event'.kind = "moved" /\ event'.res # event'.new =>
        PlainMove(event'.res.path, event'.new.path)

LEMMA MoveInTime ==
    ASSUME NamesTellKinds, ObservedInv, TypeOK, ListInv, RaiseInv, InTime, ~unseen,
           MoveResource, MovesPlainly
    PROVE  InTime'
<1>1. PICK p \in Paths, q \in Paths :
          /\ MovePath(tree, p, q).ok /\ ChangeDisk(MovePath(tree, p, q).tree)
          /\ Tell("moved", [path |-> p, folder |-> tree[p] = Dir],
                           [path |-> q, folder |-> tree[p] = Dir])
          /\ pc = "idle"
  BY MoveMeans
<1>2. CASE p = q
  <2>1. MovePath(tree, p, q).tree = tree
    BY <1>1, <1>2 DEF MovePath, Raises, Leaves
  <2>2. /\ tree \in Trees /\ Nested(tree) /\ KindKept(tree, tree) /\ ChangeDisk(tree)
        /\ pc' = "deliver" /\ UNCHANGED <<tables, cacher>>
    BY <1>1, <2>1 DEF TypeOK, RaiseInv, DiskNamed, KindKept, Tell
  <2>3. \A x \in Places : Visible(tree, x) => NodeAt(tree, x) = Dir
    BY DEF Visible
  <2> QED BY <1>1, <2>2, <2>3, ChangeInTime
<1>3. CASE p # q
  <2>1. /\ event'.kind = "moved" /\ event'.res.path = p /\ event'.new.path = q
        /\ event'.res # event'.new
    BY <1>1, <1>3 DEF Tell
  <2>2. PlainMove(p, q)
    BY <1>1, <2>1 DEF MovesPlainly
  <2> QED BY <1>1, <1>3, <2>2, OtherPlaceInTime
<1> QED BY <1>2, <1>3

-----------------------------------------------------------------------------
(* validate looks at everything *)

\* What validate reports.
LEMMA ValidateParts ==
    ASSUME NEW t, NEW times, NEW table, NEW r,
           NEW c, c = CausedByValidate(t, times, table, r)
    PROVE  /\ Altered(t, times, table, r) \cup Appeared(t, table, r)
                 \subseteq Targets(c) \cap Reach(c)
           /\ \A v \in Vanished(t, table, r) :
                 ({v} \cap DOMAIN table) \cup Inside(table, v) \subseteq Reach(c)
<1> DEFINE gone == CausedByRemoved(table, Vanished(t, table, r))
<1>1. /\ Altered(t, times, table, r) \subseteq c.changed
      /\ c.moved = gone.moved /\ c.created = Appeared(t, table, r)
  <2> HIDE DEF gone
  <2>1. c = [changed |-> gone.changed \cup Altered(t, times, table, r)
                        \cup UNION {ChangedParent(table, s) : s \in Altered(t, times, table, r)},
             moved |-> gone.moved,
             created |-> Appeared(t, table, r)]
    BY DEF CausedByValidate, gone
  <2> QED BY <2>1
<1>2. DOMAIN gone.moved = (Vanished(t, table, r) \cap DOMAIN table)
                              \cup UNION {Inside(table, v) : v \in Vanished(t, table, r)}
  BY DEF CausedByRemoved
<1> HIDE DEF gone
<1> QED BY <1>1, <1>2 DEF Targets, Reach

\* Inside a folder, on the way to p, is an entry of the folder.
LEMMA EntryOnWay ==
    ASSUME NEW a \in Places, NEW p \in Places, Within(a, p)
    PROVE  \E c \in Paths : Parent(c) = a /\ Within(a, c) /\ Under(c, p)
<1>1. \A x \in Places : Len(x) \in Nat /\ x \in Sequence
  BY PlacesType, LenProperties DEF Sequence
<1> DEFINE On(c) == c \in Places /\ Within(a, c) /\ Under(c, p)
           Far == {n \in Nat : \E c \in Places : On(c) /\ Len(c) = n}
<1>2. Len(p) \in Far /\ Far \in SUBSET Nat
  BY <1>1 DEF Under
<1> HIDE DEF Far
<1>3. PICK n \in Far : \A m \in Far : n <= m
  BY <1>2, LeastNatural
<1>4. PICK c \in Places : On(c) /\ Len(c) = n
  BY <1>3 DEF Far
<1>5. c \in Paths
  <2>1. c # Root
    BY <1>1, <1>4, WithinMeans, LenProperties, EmptySeq DEF Root, Sequence
  <2> QED BY <2>1 DEF Places
<1>6. /\ Parent(c) \in Places /\ Within(Parent(c), c) /\ Under(a, Parent(c))
      /\ Parent(c) \in Sequence /\ a \in Sequence /\ p \in Sequence /\ c \in Sequence
  BY <1>1, <1>4, <1>5, PlaceParent, UnderParent
<1>7. ASSUME a # Parent(c) PROVE FALSE
  <2>1. Within(a, Parent(c)) /\ Under(Parent(c), p)
    BY <1>4, <1>6, <1>7, UnderTrans DEF Under
  <2>2. Len(Parent(c)) \in Far
    BY <1>1, <1>6, <2>1 DEF Far
  <2>3. Len(Parent(c)) < Len(c)
    BY <1>6, WithinMeans
  <2> DEFINE m == Len(Parent(c))
  <2>4. n <= m /\ m < n /\ m \in Nat /\ n \in Nat
    BY <1>1, <1>2, <1>3, <1>4, <1>6, <2>2, <2>3
  <2> HIDE DEF m
  <2> QED BY <2>4
<1> QED BY <1>4, <1>5, <1>7

\* All that is in a table is in the project folder.
LEMMA AllInScope ==
    ASSUME NEW table \in Tables
    PROVE  InScope(table, FolderAt(Root)) = DOMAIN table
<1>1. ASSUME NEW r \in DOMAIN table PROVE r \in InScope(table, FolderAt(Root))
  <2>1. r \in Folders /\ r.path \in Places
    BY TableFacts DEF Folders
  <2>2. r = [path |-> r.path, folder |-> TRUE]
    BY <2>1 DEF Folders
  <2>3. r.path = Root \/ Within(Root, r.path)
    BY <2>1, RootWithin DEF Under
  <2>4. FolderAt(Root).folder = TRUE /\ FolderAt(Root).path = Root
    BY DEF FolderAt
  <2>5. CASE r.path = Root
    BY <2>2, <2>5 DEF InScope, FolderAt
  <2>6. CASE Within(Root, r.path)
    BY <2>4, <2>6 DEF InScope, Inside, Covers
  <2> QED BY <2>3, <2>5, <2>6
<1> QED BY <1>1 DEF InScope, Inside

\* What is gone is the outermost that is gone or inside it.
LEMMA OutermostGone ==
    ASSUME NEW table \in Tables, NEW t, NEW r \in DOMAIN table, ~There(t, r)
    PROVE  \E v \in Vanished(t, table, FolderAt(Root)) :
              r \in ({v} \cap DOMAIN table) \cup Inside(table, v)
<1> DEFINE gone == {s \in DOMAIN table : ~There(t, s)}
           Far == {n \in Nat : \E s \in gone : (s = r \/ Covers(s, r)) /\ Len(s.path) = n}
<1>1. Vanished(t, table, FolderAt(Root)) = {v \in gone : \A s \in gone : ~Covers(s, v)}
  BY AllInScope DEF Vanished
<1>2. \A s \in gone : s.path \in Sequence /\ Len(s.path) \in Nat
  <2> TAKE s \in gone
  <2>1. s \in Folders
    BY TableFacts
  <2>2. s.path \in Sequence
    BY <2>1, PlacesType DEF Folders
  <2> QED BY <2>2, LenProperties DEF Sequence
<1>3. Len(r.path) \in Far /\ Far \in SUBSET Nat
  BY <1>2
<1> HIDE DEF Far
<1>4. PICK n \in Far : \A m \in Far : n <= m
  BY <1>3, LeastNatural
<1>5. PICK v \in gone : (v = r \/ Covers(v, r)) /\ Len(v.path) = n
  BY <1>4 DEF Far
<1>6. ASSUME NEW s \in gone, Covers(s, v) PROVE FALSE
  <2>1. /\ s.folder /\ Within(s.path, v.path)
        /\ s.path \in Sequence /\ v.path \in Sequence /\ r.path \in Sequence
    BY <1>2, <1>6 DEF Covers
  <2>2. Within(s.path, r.path)
    BY <1>5, <2>1, WithinTrans DEF Covers
  <2>3. Len(s.path) \in Far
    BY <1>2, <2>1, <2>2 DEF Far, Covers
  <2>4. Len(s.path) < Len(v.path)
    BY <2>1, WithinMeans
  <2> DEFINE m == Len(s.path)
  <2>5. n <= m /\ m < n /\ m \in Nat /\ n \in Nat
    BY <1>2, <1>3, <1>4, <1>5, <2>3, <2>4
  <2> HIDE DEF m
  <2> QED BY <2>5
<1>7. v \in Vanished(t, table, FolderAt(Root))
  BY <1>1, <1>6
<1>8. r \in ({v} \cap DOMAIN table) \cup Inside(table, v)
  BY <1>5 DEF Inside
<1> QED BY <1>7, <1>8

\* validate of the project folder finds all that was missed: a folder of which
\* nothing is missed lists what it lists, any other is reported.
LEMMA ValidateInTime ==
    ASSUME ObservedInv, TypeOK, RaiseInv, ListInv, InTime, Validate
    PROVE  InTime'
<1>1. PICK p \in FolderPaths \cup {Root} :
          Tell("validate", FolderAt(p), None) /\ unseen' = (unseen /\ p # Root)
  BY DEF Validate
<1>2. pc = "idle" /\ UNCHANGED disk /\ UNCHANGED <<tree, mtime>>
  BY DEF Validate, disk
<1>3. pc' = "deliver" /\ UNCHANGED <<tables, cacher>> /\ UNCHANGED <<files, folders, needs_gc>>
  BY <1>1 DEF Tell, cacher
<1>4. CASE ~unseen
  BY <1>2, <1>3, <1>4, TellInTime
<1>5. CASE unseen /\ p # Root
  <2>1. ~Live'
    BY <1>1, <1>5 DEF Live
  <2> QED BY <2>1 DEF InTime, ShownInTime, FreshInTime, GoneInTime
<1>6. CASE p = Root
  <2> DEFINE V(i) == CausedByValidate(tree, mtime, tables[i], FolderAt(Root))
  <2>1. \A i \in DOMAIN tables : ToCome(i)' = V(i)
    <3>1. \A i \in DOMAIN tables :
              ToCome(i)' = CausedByValidate(tree', mtime', tables[i], FolderAt(Root))
      BY <1>1, <1>6, TellCause
    <3> QED BY <1>2, <3>1
  <2> HIDE DEF V
  <2>2. /\ Nested(tree) /\ KnownAreObserved /\ folders \subseteq Places /\ Root \in folders
        /\ CleanShown /\ GoneUnclean /\ ListedKnown
    BY <1>2 DEF RaiseInv, DiskNamed, ObservedInv, TypeOK, ListInv, ListedKnown
  <2>3. \A i \in DOMAIN tables : tables[i] \in Tables /\ DOMAIN tables[i] \subseteq Folders
    BY WatchedResources DEF ObservedInv
  <2>4. ASSUME NEW i \in DOMAIN tables, NEW s \in DOMAIN tables[i],
               There(tree, s), tables[i][s] # mtime[s.path]
        PROVE  s \in Targets(V(i)) \cap Reach(V(i))
    <3>1. s \in InScope(tables[i], FolderAt(Root))
      BY <2>3, AllInScope
    <3>2. s \in Altered(tree, mtime, tables[i], FolderAt(Root))
              \cup Appeared(tree, tables[i], FolderAt(Root))
      BY <2>4, <3>1 DEF Altered, Appeared
    <3> QED BY <3>2, ValidateParts DEF V
  <2>5. ASSUME NEW i \in DOMAIN tables, NEW s \in DOMAIN tables[i], ~There(tree, s)
        PROVE  s \in Reach(V(i))
    <3>1. PICK v \in Vanished(tree, tables[i], FolderAt(Root)) :
              s \in ({v} \cap DOMAIN tables[i]) \cup Inside(tables[i], v)
      BY <2>3, <2>5, OutermostGone
    <3> QED BY <3>1, ValidateParts DEF V
  <2>6. ASSUME NEW x \in Places, Visible(tree, x)
        PROVE  \/ Shown(tree, files, folders, x)
               \/ \E i \in DOMAIN tables, a \in Places :
                     FolderAt(a) \in Targets(V(i)) /\ OpenFrom(folders, a, x)
    <3>1. PICK k \in folders : OpenFrom(folders, k, x)
      BY <2>2, RootWithin, LastKnown
    <3>2. k \in Places /\ Under(k, x) /\ Visible(tree, k)
      BY <2>2, <2>6, <3>1, VisibleAround DEF OpenFrom
    <3>3. PICK i \in DOMAIN tables : FolderAt(k) \in DOMAIN tables[i]
      BY <2>2 DEF KnownAreObserved
    <3>4. FolderAt(k).path = k /\ There(tree, FolderAt(k))
      BY <3>2, FileTreeAssumption DEF FolderAt, There, Visible
    <3>5. CASE tables[i][FolderAt(k)] # mtime[k]
      <4>1. FolderAt(k) \in Targets(V(i))
        BY <2>4, <3>3, <3>4, <3>5
      <4> QED BY <3>1, <3>2, <4>1
    <3>6. CASE tables[i][FolderAt(k)] = mtime[k]
      <4>1. Shown(tree, files, folders, k)
        BY <1>2, <2>2, <3>2, <3>3, <3>6 DEF CleanShown, Clean
      <4>2. ASSUME k # x PROVE FALSE
        <5>1. PICK c \in Paths : Parent(c) = k /\ Within(k, c) /\ Under(c, x)
          BY <3>2, <4>2, EntryOnWay DEF Under
        <5>2. Visible(tree, c) /\ c # Root
          BY <2>2, <2>6, <5>1, PlacesType, PathsType, VisibleAround DEF Root
        <5>3. c \in folders
          BY <4>1, <5>1, <5>2 DEF Shown, Visible, NodeAt
        <5> QED BY <3>1, <5>1, <5>3 DEF OpenFrom
      <4> QED BY <4>1, <4>2
    <3> QED BY <3>5, <3>6
  <2>7. ShownInTime'
    BY <1>2, <1>3, <2>1, <2>6 DEF ShownInTime
  <2>8. ASSUME NEW i \in DOMAIN tables, NEW s \in DOMAIN tables[i]
        PROVE  Fresh(tables[i], s) \/ s \in Reach(V(i))
    BY <2>4, <2>5 DEF Fresh
  <2>9. FreshInTime'
    BY <1>2, <1>3, <2>1, <2>8 DEF FreshInTime, Fresh
  <2>10. ASSUME ~needs_gc, NEW f \in files, ~Exists(tree, f)
         PROVE  \E i \in DOMAIN tables : V(i) # NoChanges
    <3>1. PICK i \in DOMAIN tables : Unclean(tables[i], Parent(f))
      BY <1>2, <2>2, <2>10 DEF GoneUnclean
    <3>2. FolderAt(Parent(f)) \in Reach(V(i))
      <4>1. FolderAt(Parent(f)).path = Parent(f)
        BY DEF FolderAt
      <4> QED BY <2>4, <2>5, <3>1, <4>1 DEF Unclean
    <3> QED BY <3>2, NothingToCome
  <2>11. GoneInTime'
    BY <1>2, <1>3, <2>1, <2>10 DEF GoneInTime
  <2> QED BY <2>7, <2>9, <2>11 DEF InTime
<1> QED BY <1>1, <1>4, <1>5, <1>6

\* What rope does without knowing what another program did stays without.
LEMMA UnseenInTime ==
    ASSUME unseen, UNCHANGED unseen
    PROVE  InTime'
<1>1. ~Live'
  BY DEF Live
<1> QED BY <1>1 DEF InTime, ShownInTime, FreshInTime, GoneInTime

LEMMA InTimeKept ==
    ASSUME "race" \notin Features, NamesTellKinds, ObservedInv, TypeOK, RaiseInv, ListInv, InTime,
           [Next /\ MovesPlainly]_vars
    PROVE  InTime'
<1>1. CASE CreateResource
  BY <1>1, CreateInTime, UnseenInTime DEF CreateResource
<1>2. CASE RemoveResource
  BY <1>2, RemoveInTime, UnseenInTime DEF RemoveResource
<1>3. CASE MoveResource /\ MovesPlainly
  BY <1>3, MoveInTime, UnseenInTime DEF MoveResource
<1>4. CASE WriteResource
  <2>1. pc = "idle" /\ pc' = "deliver" /\ UNCHANGED <<disk, tables, cacher, unseen>>
    BY <1>4 DEF WriteResource, Tell
  <2> QED BY <2>1, TellInTime, UnseenInTime
<1>5. CASE Validate
  BY <1>5, ValidateInTime
<1>6. CASE UNCHANGED vars
  <2>1. UNCHANGED <<tree, mtime, tables, files, folders, needs_gc, pc, event, at, todo, cur, unseen>>
    BY <1>6 DEF vars, disk, cacher, report
  <2>2. Live' = Live /\ \A i : ToCome(i)' = ToCome(i)
    BY <2>1 DEF Live, ToCome, Cause
  <2>3. ShownInTime'
    BY <2>1, <2>2 DEF InTime, ShownInTime
  <2>4. FreshInTime'
    BY <2>1, <2>2 DEF InTime, FreshInTime, Fresh
  <2>5. GoneInTime'
    BY <2>1, <2>2 DEF InTime, GoneInTime
  <2> QED BY <2>3, <2>4, <2>5 DEF InTime
<1>7. CASE Step \/ Outside \/ GetFiles
  BY <1>7, StepInTime, ReportOneInTime, ReportMovedInTime, RecordInTime, StartInTime, GetInTime,
     EndInTime DEF Step
<1> QED BY <1>1, <1>2, <1>3, <1>4, <1>5, <1>6, <1>7 DEF Next, Call

LEMMA InTimeAtStart == Init => InTime
BY NotLive DEF Init, Live

-----------------------------------------------------------------------------
(* The list is right *)

\* When everything is done get_files lists what is there.
LEMMA DoneListsAll ==
    ASSUME TypeOK, RaiseInv, ListInv, pc = "idle", AllDone(files, folders)
    PROVE  Listed = OnDisk
<1>1. /\ tree \in Trees /\ Nested(tree) /\ Named(tree)
      /\ \A f \in files : f \in Paths /\ ~IsIgnored(f) /\ ~Folderish(f)
  BY DEF TypeOK, RaiseInv, DiskNamed, ListInv, ListedKnown
<1>2. \A f \in Paths : There(tree, FileAt(f)) <=> Exists(tree, f)
  BY PathsType DEF There, FileAt, NodeAt, Root, Exists
<1>3. Listed = {f \in files : Exists(tree, f)}
  BY <1>1, <1>2 DEF Listed, AllDone
<1>4. ASSUME NEW f \in files, Exists(tree, f) PROVE f \in OnDisk
  BY <1>1, <1>4 DEF OnDisk, IsFile, Exists, Named, Trees, Nodes
<1>5. ASSUME NEW f \in OnDisk PROVE f \in files /\ Exists(tree, f)
  <2>1. f \in Paths /\ IsFile(tree, f) /\ ~IsIgnored(f) /\ Exists(tree, f)
    BY FileTreeAssumption DEF OnDisk, IsFile, Exists
  <2>2. Parent(f) \in Places /\ Visible(tree, Parent(f))
    BY <1>1, <2>1, VisibleParent
  <2> QED BY <2>1, <2>2 DEF AllDone, Shown
<1> QED BY <1>3, <1>4, <1>5

\* When everything is done every folder is in a table with a true indicator.
LEMMA DoneWatchesAll ==
    ASSUME ObservedInv, RaiseInv, ListInv, pc = "idle", AllDone(files, folders),
           NEW p \in Places, Visible(tree, p)
    PROVE  \E i \in DOMAIN tables : /\ FolderAt(p) \in DOMAIN tables[i]
                                    /\ tables[i][FolderAt(p)] \in {None, mtime[p]}
<1>1. PICK i \in DOMAIN tables : FolderAt(p) \in DOMAIN tables[i]
  BY VisibleKnown DEF ObservedInv, RaiseInv, DiskNamed, ListInv, ListedKnown, AllDone
<1>2. Fresh(tables[i], FolderAt(p)) /\ FolderAt(p).path = p
  BY <1>1 DEF AllDone, FolderAt
<1>3. There(tree, FolderAt(p))
  BY <1>2, FileTreeAssumption DEF There, Visible
<1> QED BY <1>1, <1>2, <1>3 DEF Fresh

LEMMA AlwaysInTime ==
    ASSUME "race" \notin Features, NamesTellKinds
    PROVE  Spec /\ [][MovesPlainly]_vars => [](RaiseInv /\ ListInv /\ InTime)
<1>1. Init => RaiseInv /\ ListInv /\ InTime
  BY RaiseAtStart, ListAtStart, InTimeAtStart
<1>2. ObservedInv /\ TypeOK /\ RaiseInv /\ ListInv /\ InTime /\ [Next]_vars /\ [MovesPlainly]_vars
          => (RaiseInv /\ ListInv /\ InTime)'
  BY RaiseKept, ListKept, InTimeKept
<1> QED BY <1>1, <1>2, AlwaysObserved, FileListTypes, PTL DEF Spec

\* After any operations of rope, and after a validate() of the project folder
\* when another program was there, get_files lists the files of the project, no
\* more and no less: when nobody works while the observers are told, the names
\* of the project tell folders from files, and its moves are plain.
THEOREM ListStaysExact ==
    ASSUME "race" \notin Features, NamesTellKinds
    PROVE  Spec /\ [][MovesPlainly]_vars => []ListExact
<1>1. ObservedInv /\ TypeOK /\ RaiseInv /\ ListInv /\ InTime => ListExact
  BY IdleDone, DoneListsAll DEF ListExact, Settled
<1> QED BY <1>1, AlwaysInTime, AlwaysObserved, FileListTypes, PTL

\* Under the same conditions every folder of the project that is not ignored is
\* in the table of one of the observers, with the indicator it has or as one
\* that is not there: the next validate() misses nothing another program does.
THEOREM NothingIsLost ==
    ASSUME "race" \notin Features, NamesTellKinds
    PROVE  Spec /\ [][MovesPlainly]_vars => []NothingEscapes
<1>1. ObservedInv /\ RaiseInv /\ ListInv /\ InTime => NothingEscapes
  <2> SUFFICES ASSUME ObservedInv, RaiseInv, ListInv, InTime, Settled,
                      NEW p \in Places, NodeAt(tree, p) = Dir, ~IsIgnored(p)
               PROVE  \E i \in DOMAIN tables :
                          /\ FolderAt(p) \in DOMAIN tables[i]
                          /\ tables[i][FolderAt(p)] \in {None, mtime[p]}
    BY DEF NothingEscapes
  <2>1. pc = "idle" /\ AllDone(files, folders) /\ Visible(tree, p)
    BY IdleDone DEF Settled, Visible
  <2> QED BY <2>1, DoneWatchesAll
<1> QED BY <1>1, AlwaysInTime, AlwaysObserved, PTL
=============================================================================
