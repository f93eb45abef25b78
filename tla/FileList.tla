------------------------------- MODULE FileList -------------------------------
(***************************************************************************)
(* Project.get_files: _FileListCacher of rope/base/project.py, the          *)
(* FilteredResourceObservers it works with, the operations of rope that     *)
(* notify them, Project.validate, and another program (an editor, version   *)
(* control) that changes the project directory and tells nobody.            *)
(*                                                                         *)
(* The property `observer` of the cacher calls _update_folder, which uses   *)
(* self.observer, before saveit has kept its value: the first get_files     *)
(* makes observers one inside another until no folder is left to add, and   *)
(* all of them stay registered.  self.observer is the first, whose table    *)
(* starts empty; the table of the next one has all folders.                 *)
(*                                                                         *)
(* A report to the cacher and the indicator that _perform_changes reads     *)
(* after it are two steps: the other program can come between them.         *)
(***************************************************************************)
EXTENDS ResourceObserver

CONSTANTS
    InitTrees,    \* the project directories to start from
    FilePaths,    \* where files are created
    FolderPaths,  \* where folders are created
    MovePairs,    \* <<from, to>>: the moves that callers ask for
    Ignored,      \* what the ignored_resources patterns match, topmost paths
    MaxChanges,   \* bound: how often the directory changes in a behaviour
    Features      \* which of AllFeatures may happen

\* There is another program; it works during a notification, too; a folder is
\* moved out of which an observed folder has vanished; validate is called for
\* a folder that is gone.
AllFeatures == {"outside", "race", "stale_move", "validate_gone"}

ASSUME FileListAssumption ==
    /\ InitTrees \subseteq Trees /\ \A t \in InitTrees : WellFormed(t)
    /\ FilePaths \subseteq Paths /\ FolderPaths \subseteq Paths
    /\ MovePairs \subseteq Paths \X Paths
    /\ Ignored \subseteq Paths
    /\ MaxChanges \in Nat
    /\ None \notin Nat /\ None \notin [path : Places, folder : BOOLEAN]
    /\ Features \subseteq AllFeatures

VARIABLES
    tree,       \* the project directory
    mtime,      \* what ChangeIndicator returns for each path
    clock,      \* the time of the last change of the directory
    tables,     \* FilteredResourceObserver.resources, for each observer
    files,      \* _FileListCacher.files
    folders,    \* _FileListCacher.folders
    needs_gc,   \* _FileListCacher.needs_gc
    pc,         \* where the thread that uses rope is
    event,      \* what the observers of the project are told
    at,         \* which of them is told
    todo,       \* its _Changes that are not reported yet
    cur,        \* the resource whose indicator is to be read
    unseen      \* the other program was here, or a call of rope raised, since
                \* the last validate()

disk == <<tree, mtime, clock>>
cacher == <<files, folders, needs_gc>>
report == <<event, at, todo, cur>>
vars == <<disk, tables, cacher, pc, report, unseen>>

PCs == {"idle", "start", "deliver", "perform", "record", "raised"}

IsIgnored(p) == \E q \in Ignored : p = q \/ Within(q, p)

NoEvent == [kind |-> "none", res |-> FolderAt(Root), new |-> None]

-----------------------------------------------------------------------------
(* The directory *)

\* A folder gets a new time when an entry of it appears or goes.
Listing(t, p) == {q \in Paths : Parent(q) = p /\ Exists(t, q)}

ChangeDisk(t) ==
    /\ clock < MaxChanges
    /\ tree' = t /\ clock' = clock + 1
    /\ mtime' = [p \in Places |->
                    IF NodeAt(t, p) # NodeAt(tree, p) \/ Listing(t, p) # Listing(tree, p)
                    THEN clock + 1 ELSE mtime[p]]

-----------------------------------------------------------------------------
(* _FileListCacher *)

\* The folders that _updated_resources goes through: the folder and, below
\* it, those that are reached without passing one that is known.
Walked(p, known) ==
    {p} \cup {q \in Paths : /\ Within(p, q) /\ tree[q] = Dir /\ ~IsIgnored(q)
                            /\ \A r \in known : ~(Within(p, r) /\ (r = q \/ Within(r, q)))}

\* Folder.get_files of several folders.
FilesIn(places) ==
    {q \in Paths : Parent(q) \in places /\ IsFile(tree, q) /\ ~IsIgnored(q)}

\* os.listdir raises when there is a file at the path of the folder.
CannotList(r) == There(tree, r) /\ NodeAt(tree, r.path) # Dir

CannotFind(r, new) == CannotList(r) \/ (new # None /\ CannotList(new))

\* Mutant: the folders that are found are not observed.
UpdateFolder_Unwatched(c, r) ==
    IF ~There(tree, r) THEN c
    ELSE LET walked == Walked(r.path, c.folders)
         IN  [c EXCEPT !.files = @ \cup FilesIn(walked), !.folders = @ \cup walked]

\* _update_folder, on the cacher's files and folders and the table of its
\* own observer.
UpdateFolder(c, r) ==
    IF ~There(tree, r) THEN c
    ELSE LET walked == Walked(r.path, c.folders)
         IN  [files |-> c.files \cup FilesIn(walked),
              folders |-> c.folders \cup walked,
              own |-> Watch(c.own, {FolderAt(p) : p \in walked \ c.folders}, mtime)]

Cacher(ts) == [files |-> files, folders |-> folders, own |-> ts[1]]

\* The cacher's lists after a report, with the tables as they are before its call.
Shows(c, ts) ==
    /\ files' = c.files /\ folders' = c.folders
    /\ tables' = [ts EXCEPT ![1] = c.own]

Becomes(c, ts) == Shows(c, ts) /\ needs_gc' = TRUE

-----------------------------------------------------------------------------
\* get_files was called for the first time and the first observer is made;
\* nothing of this module exists before.
Init ==
    /\ tree \in InitTrees
    /\ mtime = [p \in Places |-> 0] /\ clock = 0
    /\ tables = << [r \in {} |-> None] >>
    /\ files = {} /\ folders = {} /\ needs_gc = TRUE
    /\ pc = "start" /\ event = NoEvent /\ at = 1 /\ todo = NoChanges
    /\ cur = FolderAt(Root)
    /\ unseen = FALSE

\* Telling the observers of the project, in the order they were registered.
Tell(kind, res, new) ==
    /\ event' = [kind |-> kind, res |-> res, new |-> new]
    /\ at' = 1 /\ pc' = "deliver"
    /\ UNCHANGED <<tables, cacher, todo, cur>>

\* _ResourceOperations.create
CreateResource ==
    /\ pc = "idle"
    /\ \E r \in {FileAt(p) : p \in FilePaths} \cup {FolderAt(p) : p \in FolderPaths} :
         LET result == DoChange(Create(r.path, r.folder), tree)
         IN  result.ok /\ ChangeDisk(result.tree) /\ Tell("created", r, None)
    /\ UNCHANGED unseen

\* _ResourceOperations.remove
RemoveResource ==
    /\ pc = "idle"
    /\ \E p \in Paths :
         LET r == [path |-> p, folder |-> tree[p] = Dir]
             result == DoChange(Delete(p, r.folder), tree)
         IN  result.ok /\ ChangeDisk(result.tree) /\ Tell("removed", r, None)
    /\ UNCHANGED unseen

\* _ResourceOperations.move
MoveResource ==
    /\ pc = "idle"
    /\ \E pair \in MovePairs :
         LET p == pair[1]
             change == BuiltOne(Move(p, pair[2], tree[p] = Dir), tree)
             r == [path |-> p, folder |-> change.folder]
             new == [path |-> change.dest, folder |-> change.folder]
             result == DoChange(change, tree)
         IN  /\ change.dest \in Paths
             /\ result.ok /\ ChangeDisk(result.tree) /\ Tell("moved", r, new)
             /\ "stale_move" \in Features \/
                    \A i \in DOMAIN tables : ~CannotFollow(result.tree, tables[i], r, new)
    /\ UNCHANGED unseen

\* _ResourceOperations.write_file: the folder stays as it is.
WriteResource ==
    /\ pc = "idle"
    /\ \E p \in FilePaths : IsFile(tree, p) /\ Tell("changed", FileAt(p), None)
    /\ UNCHANGED <<disk, unseen>>

\* Project.validate
Validate ==
    /\ pc = "idle"
    /\ \E p \in FolderPaths \cup {Root} :
         /\ "validate_gone" \in Features \/ There(tree, FolderAt(p))
         /\ Tell("validate", FolderAt(p), None)
         /\ unseen' = (unseen /\ p # Root)
    /\ UNCHANGED disk

\* The other program creates or removes something.
Outside ==
    /\ "outside" \in Features
    /\ \/ pc = "idle"
       \/ "race" \in Features /\ pc \in {"deliver", "perform", "record"}
    /\ \E p \in FilePaths \cup FolderPaths :
         \E result \in {CreateNode(tree, p, Empty) : q \in FilePaths \cap {p}} \cup
                       {CreateNode(tree, p, Dir) : q \in FolderPaths \cap {p}} \cup
                       {RemoveNode(tree, p)} :
             result.ok /\ ChangeDisk(result.tree)
    /\ unseen' = TRUE
    /\ UNCHANGED <<tables, cacher, pc, report>>

-----------------------------------------------------------------------------
(* The first get_files *)

\* What the _update_folder of the project folder finds, one observer deeper.
Left == Walked(Root, folders) \ folders

\* The first of the folders to be added asks for self.observer, which makes
\* the next observer; that one gets the whole rest.
ObserveDeeper ==
    /\ pc = "start" /\ Left # {}
    /\ \E p \in Left : folders' = folders \cup {p}
    /\ tables' = Append(tables, [r \in {FolderAt(q) : q \in Left} |-> mtime[r.path]])
    /\ files' = files \cup FilesIn(Walked(Root, folders))
    /\ UNCHANGED <<disk, needs_gc, pc, report, unseen>>

\* The loops that were interrupted add the folders that are left.
StartGetFiles ==
    /\ pc = "start" /\ Left = {}
    /\ folders' = folders \cup {r.path : r \in UNION {DOMAIN tables[i] : i \in DOMAIN tables}}
    /\ files' = files \cup FilesIn({Root})
    /\ needs_gc' = FALSE /\ pc' = "idle"
    /\ UNCHANGED <<disk, tables, report, unseen>>

\* Mutant: a folder that is gone is forgotten by the observer alone.
GetFiles_Unwatch ==
    /\ pc = "idle" /\ needs_gc
    /\ files' = {p \in files : There(tree, FileAt(p))}
    /\ LET gone == {p \in folders : ~There(tree, FolderAt(p))}
       IN  tables' = [tables EXCEPT ![1] = Unwatch(@, {FolderAt(p) : p \in gone})]
    /\ needs_gc' = FALSE
    /\ UNCHANGED <<disk, folders, pc, report, unseen>>

\* get_files: what is gone is dropped before the list is returned.
GetFiles ==
    /\ pc = "idle" /\ needs_gc
    /\ files' = {p \in files : There(tree, FileAt(p))}
    /\ LET gone == {p \in folders : ~There(tree, FolderAt(p))}
       IN  /\ folders' = folders \ gone
           /\ tables' = [tables EXCEPT ![1] = Unwatch(@, {FolderAt(p) : p \in gone})]
    /\ needs_gc' = FALSE
    /\ UNCHANGED <<disk, pc, report, unseen>>

-----------------------------------------------------------------------------
(* One observer after the other *)

Raise ==
    /\ pc' = "raised"
    /\ UNCHANGED <<disk, tables, cacher, report, unseen>>

Cause(table) ==
    CASE event.kind = "changed" -> CausedByChanged(table, event.res)
      [] event.kind = "created" -> CausedByCreated(table, event.res)
      [] event.kind = "moved" -> CausedByMoved(tree, table, event.res, event.new)
      [] event.kind = "removed" -> CausedByRemoved(table, {event.res})
      [] event.kind = "validate" -> CausedByValidate(tree, mtime, table, event.res)

CannotCause(table) ==
    CASE event.kind = "moved" -> CannotFollow(tree, table, event.res, event.new)
      [] event.kind = "validate" -> CannotCompare(tree, table, event.res)
      [] OTHER -> FALSE

\* The observer works out what to report; often that is nothing.
Deliver ==
    /\ pc = "deliver" /\ at \in DOMAIN tables
    /\ ~CannotCause(tables[at])
    /\ todo' = Cause(tables[at])
    /\ IF todo' = NoChanges THEN at' = at + 1 /\ UNCHANGED pc
                            ELSE pc' = "perform" /\ UNCHANGED at
    /\ UNCHANGED <<disk, tables, cacher, event, cur, unseen>>

DeliverRaises ==
    /\ pc = "deliver" /\ at \in DOMAIN tables
    /\ CannotCause(tables[at])
    /\ Raise

\* _changed
ReportChanged ==
    /\ pc = "perform"
    /\ \E r \in todo.changed :
         /\ ~CannotList(r)
         /\ Becomes(UpdateFolder(Cacher(tables), r), tables)
         /\ todo' = [todo EXCEPT !.changed = @ \ {r}]
         /\ cur' = r
    /\ pc' = "record"
    /\ UNCHANGED <<disk, event, at, unseen>>

\* _moved and _removed: where the folder was, then where it is.
ReportMoved ==
    /\ pc = "perform" /\ todo.changed = {}
    /\ \E r \in DOMAIN todo.moved :
         LET new == todo.moved[r]
             forgotten == [tables EXCEPT ![at][r] = None]
             left == UpdateFolder(Cacher(forgotten), r)
         IN  /\ ~CannotFind(r, new)
             /\ Becomes(IF new = None THEN left ELSE UpdateFolder(left, new), forgotten)
             /\ todo' = [todo EXCEPT !.moved = [s \in DOMAIN @ \ {r} |-> @[s]]]
    /\ UNCHANGED <<disk, pc, event, at, cur, unseen>>

\* _created
ReportCreated ==
    /\ pc = "perform" /\ todo.changed = {} /\ DOMAIN todo.moved = {}
    /\ \E r \in todo.created :
         /\ ~CannotList(r)
         /\ Becomes(UpdateFolder(Cacher(tables), r), tables)
         /\ todo' = [todo EXCEPT !.created = @ \ {r}]
         /\ cur' = r
    /\ pc' = "record"
    /\ UNCHANGED <<disk, event, at, unseen>>

\* The cacher raises: os.listdir of what is not a folder any more.
ReportRaises ==
    /\ pc = "perform"
    /\ \/ \E r \in todo.changed : CannotList(r)
       \/ /\ todo.changed = {} /\ DOMAIN todo.moved = {}
          /\ \E r \in todo.created : CannotList(r)
    /\ Raise

\* _moved and _removed raise: the observer has written None by then, and the
\* place where the folder was may have been looked at.
ReportMovedRaises ==
    /\ pc = "perform" /\ todo.changed = {}
    /\ \E r \in DOMAIN todo.moved :
         LET forgotten == [tables EXCEPT ![at][r] = None]
             left == IF CannotList(r) THEN Cacher(forgotten)
                                      ELSE UpdateFolder(Cacher(forgotten), r)
         IN  /\ CannotFind(r, todo.moved[r])
             /\ Shows(left, forgotten)
             /\ needs_gc' = (needs_gc \/ ~CannotList(r))
    /\ pc' = "raised"
    /\ UNCHANGED <<disk, report, unseen>>

\* _perform_changes reads the indicator after the report.
Record ==
    /\ pc = "record" /\ There(tree, cur)
    /\ tables' = [tables EXCEPT ![at][cur] = mtime[cur.path]]
    /\ pc' = "perform" /\ cur' = FolderAt(Root)
    /\ UNCHANGED <<disk, cacher, event, at, todo, unseen>>

\* os.path.getmtime of a folder that is not there.
RecordRaises ==
    /\ pc = "record" /\ ~There(tree, cur)
    /\ Raise

\* Mutant: an observer is left out.
NextObserver_Twice ==
    /\ pc = "perform" /\ todo = NoChanges
    /\ at' = at + 2 /\ pc' = "deliver"
    /\ UNCHANGED <<disk, tables, cacher, event, todo, cur, unseen>>

\* Everything is reported: on to the next observer.
NextObserver ==
    /\ pc = "perform" /\ todo = NoChanges
    /\ at' = at + 1 /\ pc' = "deliver"
    /\ UNCHANGED <<disk, tables, cacher, event, todo, cur, unseen>>

\* The call of rope returns.
Return ==
    /\ pc = "deliver" /\ at \notin DOMAIN tables
    /\ pc' = "idle" /\ event' = NoEvent /\ at' = 1
    /\ UNCHANGED <<disk, tables, cacher, todo, cur, unseen>>

\* The exception comes out of the call; the caller goes on using rope.
CallRaises ==
    /\ pc = "raised"
    /\ pc' = "idle" /\ event' = NoEvent /\ at' = 1 /\ todo' = NoChanges
    /\ cur' = FolderAt(Root)
    /\ unseen' = TRUE
    /\ UNCHANGED <<disk, tables, cacher>>

Step == \/ ObserveDeeper \/ StartGetFiles \/ Deliver \/ DeliverRaises
        \/ ReportChanged \/ ReportMoved \/ ReportCreated
        \/ ReportRaises \/ ReportMovedRaises
        \/ Record \/ RecordRaises \/ NextObserver \/ Return
        \/ CallRaises

Call == \/ CreateResource \/ RemoveResource \/ MoveResource \/ WriteResource
        \/ Validate \/ GetFiles

Next == Call \/ Outside \/ Step

Spec == Init /\ [][Next]_vars

-----------------------------------------------------------------------------
IsTable(t) ==
    /\ DOMAIN t \subseteq [path : Places, folder : {TRUE}]
    /\ t \in [DOMAIN t -> (0..clock) \cup {None}]

TypeOK ==
    /\ tree \in Trees
    /\ clock \in 0..MaxChanges /\ mtime \in [Places -> 0..clock]
    /\ \A i \in DOMAIN tables : IsTable(tables[i])
    /\ files \subseteq Paths /\ folders \subseteq Places
    /\ needs_gc \in BOOLEAN /\ unseen \in BOOLEAN
    /\ pc \in PCs
    /\ at \in 1..(Len(tables) + 1)
    /\ pc \in {"perform", "record"} => at \in DOMAIN tables

\* What Project.get_files would return.
Listed == IF needs_gc THEN {p \in files : There(tree, FileAt(p))} ELSE files

OnDisk == {p \in Paths : IsFile(tree, p) /\ ~IsIgnored(p)}

Settled == pc = "idle" /\ ~unseen

\* get_files lists the files of the project, no more and no less, after any
\* operations of rope, and after a validate() when another program was here.
ListExact == Settled => Listed = OnDisk

\* Every folder of the project is observed by one of the observers, with the
\* indicator it has or as one that is not there: a change of the other
\* program cannot escape the next validate().
NothingEscapes ==
    Settled => \A p \in Places :
        NodeAt(tree, p) = Dir /\ ~IsIgnored(p) =>
            \E i \in DOMAIN tables :
                /\ FolderAt(p) \in DOMAIN tables[i]
                /\ tables[i][FolderAt(p)] \in {None, mtime[p]}

\* The list of known folders and the observers do not drift apart: the walk
\* stops at a known folder, so one that nobody observes would be lost.
KnownAreObserved ==
    \A p \in folders : \E i \in DOMAIN tables : FolderAt(p) \in DOMAIN tables[i]

\* An exception in an observer comes out of the caller's operation and leaves
\* the later observers untold.  When nobody works during a notification, it
\* happens for two calls only: the move of a folder of which an observer still
\* has a part that is gone, and validate of something that is gone.
OnlyMissingRaise ==
    pc = "raised" =>
        \/ event.kind = "validate" /\ ~There(tree, event.res)
        \/ /\ event.kind = "moved"
           /\ CannotFollow(tree, tables[at], event.res, event.new)

LastName(p) == p[Len(p)]

\* The names in N are those of folders, wherever they are: what was there
\* first, what is created and what a move renames keep to that.
NamesTell(N) ==
    /\ \A t \in InitTrees, p \in Paths : /\ t[p] = Dir => LastName(p) \in N
                                         /\ t[p] \in Data => LastName(p) \notin N
    /\ \A p, q \in Paths : Within(p, q) => LastName(p) \in N
    /\ \A p \in FolderPaths : LastName(p) \in N
    /\ \A p \in FilePaths : LastName(p) \notin N
    /\ \A pair \in MovePairs : LastName(pair[1]) \in N <=> LastName(pair[2]) \in N

\* No file is ever where a folder was.
NamesTellKinds == \E N \in SUBSET {LastName(p) : p \in Paths} : NamesTell(N)

\* No observer raises at all: an exception would come out of the caller's do, undo
\* or validate and leave the later observers untold.
ReportsDoNotRaise == pc # "raised"
=============================================================================
