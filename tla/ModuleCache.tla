----------------------------- MODULE ModuleCache -----------------------------
(***************************************************************************)
(* _ModuleCache of rope/base/pycore.py and the data the cached modules have *)
(* concluded from one another, kept true by the FilteredResourceObserver of *)
(* PyCore.  Threads: the main one, which uses rope, and the one that        *)
(* receives object information from a running module, which looks modules   *)
(* up to convert what it receives and forgets all conclusions at the end.   *)
(*                                                                         *)
(* get_pymodule looks into the cache and reads and parses the source, then  *)
(* stores the module, then adds the resource to the observer: three steps,  *)
(* and the other thread, or another program that changes the directory, can *)
(* come between two of them.                                                *)
(*                                                                         *)
(* One module has a star import of one name.  What it got from it is its    *)
(* concluded data; Candidates are the resources _find_module tries for the  *)
(* name, in its order: the package before the module, in each folder.       *)
(***************************************************************************)
EXTENDS ResourceObserver

CONSTANTS
    Threads,      \* the threads; Main is one of them
    Main,
    Init0,        \* the project directory to start from
    Candidates,   \* the resources that may be what the import means, in order
    Importer,     \* the module with the import
    Bad,          \* a text that is no Python
    Written,      \* the texts that are written
    MovePairs,    \* <<from, to>>: the moves that callers ask for
    MaxChanges    \* bound: how often the directory changes in a behaviour

ASSUME ModuleCacheAssumption ==
    /\ Main \in Threads
    /\ Init0 \in Trees /\ WellFormed(Init0)
    /\ Importer \in Resources /\ ~Importer.folder
    /\ Candidates \in Seq(Resources)
    /\ Bad \in Texts \ {Empty} /\ Written \subseteq Texts
    /\ MovePairs \subseteq Paths \X Paths
    /\ MaxChanges \in Nat
    /\ None \notin Nat /\ None \notin Resources

VARIABLES
    tree,     \* the project directory
    mtime,    \* what ChangeIndicator returns for each path
    clock,    \* the time of the last change of the directory
    table,    \* PyCore.observer.resources
    cache,    \* _ModuleCache.module_map: the source a module was built from
              \* and what its import was found to be, None if not concluded
    job,      \* what each thread is doing in get_pymodule
    event,    \* what PyCore.observer is about to be told by the main thread
    unseen,   \* the other program was here, or the observer raised, since the
              \* last validate()
    raced,    \* the directory changed, or a change was reported, during a call
    replaced  \* the cached modules at whose place something new was created

disk == <<tree, mtime, clock>>
vars == <<disk, table, cache, job, event, unseen, raced, replaced>>

Folders == {r \in Resources : r.folder}
InitPy(folder) == FileAt(Append(folder.path, "__init__"))

\* A folder may also be a module; the tree tells what a path is.
IsThere(t, r) == t[r.path] # Absent /\ r.folder = (t[r.path] = Dir)

HasInit(t, folder) == InitPy(folder).path \in Paths /\ IsThere(t, InitPy(folder))

\* The source PyModule, or PyPackage through its __init__, is made from.
Source(t, r) ==
    IF ~r.folder THEN t[r.path]
    ELSE IF HasInit(t, r) THEN t[InitPy(r).path] ELSE Empty

\* PyCore._find_module
Found(t) ==
    LET there == {i \in DOMAIN Candidates : IsThere(t, Candidates[i])}
    IN  IF there = {} THEN None
        ELSE Candidates[CHOOSE i \in there : \A j \in there : i <= j]

\* What the import gives in this directory; the names of nothing are none.
Meaning(t) ==
    IF Found(t) = None THEN [res |-> None, src |-> Empty]
    ELSE [res |-> Found(t), src |-> Source(t, Found(t))]

Nobody == [want |-> <<>>, made |-> None, step |-> "idle", owner |-> FALSE]
NoEvent == [kind |-> "none", res |-> FolderAt(Root), new |-> None]

Idle(t) == job[t] = Nobody /\ (t = Main => event = NoEvent)

Top(t) == job[t].want[Len(job[t].want)]

-----------------------------------------------------------------------------
(* The directory changes *)

Listing(t, p) == {q \in Paths : Parent(q) = p /\ Exists(t, q)}

\* A call of get_pymodule that builds a module is under way.
Building == \E t \in Threads : job[t] # Nobody

ChangeDisk(t) ==
    /\ t # tree
    /\ tree' = t /\ clock' = clock + 1
    /\ mtime' = [p \in Places |->
                    IF NodeAt(t, p) # NodeAt(tree, p) \/ Listing(t, p) # Listing(tree, p)
                    THEN clock + 1 ELSE mtime[p]]
    /\ raced' = (raced \/ Building)
    /\ UNCHANGED replaced

Tell(kind, res, new) == event' = [kind |-> kind, res |-> res, new |-> new]

Init ==
    /\ tree = Init0 /\ clock = 0 /\ mtime = [p \in Places |-> 0]
    /\ table = [r \in {} |-> None] /\ cache = [r \in {} |-> None]
    /\ job = [t \in Threads |-> Nobody] /\ event = NoEvent
    /\ unseen = FALSE /\ raced = FALSE /\ replaced = {}

\* The main thread changes a resource through rope.
MayChange == Idle(Main) /\ clock < MaxChanges

Change(c, kind) ==
    LET result == DoChange(c, tree)
        new == [path |-> c.dest, folder |-> c.folder]
    IN  /\ result.ok /\ ChangeDisk(result.tree)
        /\ Tell(kind, [path |-> c.res, folder |-> c.folder], IF kind = "moved" THEN new ELSE None)
        /\ UNCHANGED <<table, cache, job, unseen>>

WriteResource ==
    MayChange /\ \E p \in Paths, text \in Written :
        IsFile(tree, p) /\ Change(Write(p, text), "changed")

CreateResource ==
    MayChange /\ \E p \in Paths, isFolder \in BOOLEAN : Change(Create(p, isFolder), "created")

RemoveResource ==
    MayChange /\ \E p \in Paths : Change(Delete(p, tree[p] = Dir), "removed")

MoveResource ==
    MayChange /\ \E pair \in MovePairs :
        LET c == BuiltOne(Move(pair[1], pair[2], tree[pair[1]] = Dir), tree)
        IN  c.dest \in Paths /\ Change(c, "moved")

\* Another program writes, creates or removes something.
Outside ==
    /\ event = NoEvent /\ clock < MaxChanges
    /\ \E p \in Paths :
         \E result \in {WriteFile(tree, p, text) : text \in Written} \cup
                       {CreateNode(tree, p, Dir), RemoveNode(tree, p)} :
             result.ok /\ ChangeDisk(result.tree)
    /\ unseen' = TRUE
    /\ UNCHANGED <<table, cache, job, event>>

\* Project.validate of the project folder.
Validate ==
    /\ Idle(Main)
    /\ Tell("validate", FolderAt(Root), None)
    /\ unseen' = FALSE
    /\ UNCHANGED <<disk, table, cache, job, raced, replaced>>

-----------------------------------------------------------------------------
(* The observer is told *)

\* forget_all_data
Forgotten(c) == [r \in DOMAIN c |-> [c[r] EXCEPT !.seen = None]]

\* Mutant: the modules that have used the ones that changed keep what they
\* have concluded.
Invalidated_Alone(resources) ==
    [r \in DOMAIN cache \ resources |-> cache[r]]

\* _invalidate_resource of several resources.
Invalidated(resources) ==
    IF resources \cap DOMAIN cache = {} THEN cache
    ELSE Forgotten([r \in DOMAIN cache \ resources |-> cache[r]])

Cause ==
    CASE event.kind = "changed" -> CausedByChanged(table, event.res)
      [] event.kind = "created" -> CausedByCreated(table, event.res)
      [] event.kind = "moved" -> CausedByMoved(tree, table, event.res, event.new)
      [] event.kind = "removed" -> CausedByRemoved(table, {event.res})
      [] event.kind = "validate" -> CausedByValidate(tree, mtime, table, event.res)

\* The observer cannot follow a resource that had vanished before the folder it
\* was in was moved, or that was looked up and added after the move.
CannotReport ==
    event.kind = "moved" /\ CannotFollow(tree, table, event.res, event.new)

\* The observer of PyCore is the first of the project.  It raises before it has
\* reported anything, and the exception comes out of the call that has made the
\* move: PyCore does not hear of it.
ReportRaises ==
    /\ event # NoEvent /\ CannotReport
    /\ event' = NoEvent /\ unseen' = TRUE
    /\ UNCHANGED <<disk, table, cache, job, raced, replaced>>

\* _perform_changes: a resource that changed is observed on, one that is gone
\* only when it was not in the cache.  PyCore has no callback for creations.
\* What was cached of the modules under way is not theirs any more.
Report ==
    /\ event # NoEvent /\ ~CannotReport
    /\ LET cause == Cause
           gone == DOMAIN cause.moved
           reported == cause.changed \cup gone
           seen == cause.changed \cup cause.created
       IN  /\ cache' = Invalidated(reported)
           /\ table' = [r \in (DOMAIN table \ (gone \cap DOMAIN cache)) \cup seen |->
                          IF r \in seen THEN mtime[r.path]
                          ELSE IF r \in gone THEN None ELSE table[r]]
           /\ replaced' = (replaced \cup cause.created) \cap DOMAIN cache'
           /\ job' = [t \in Threads |->
                        [job[t] EXCEPT !.owner = @ /\ Importer \notin reported]]
    /\ event' = NoEvent
    /\ raced' = (raced \/ Building)
    /\ UNCHANGED <<disk, unseen>>

-----------------------------------------------------------------------------
(* get_pymodule *)

\* Mutant: what the parser raises is lost.
Asked_Unparsed(r, owner) ==
    [want |-> <<r>>, made |-> Source(tree, r), step |-> "keep", owner |-> owner]

\* The call up to the module that is made first: PyPackage asks for the module
\* of its __init__.  A source that is no Python makes the whole call raise.
Asked(r, owner) ==
    LET package == r.folder /\ HasInit(tree, r)
        known == package /\ InitPy(r) \in DOMAIN cache
        source == IF known THEN cache[InitPy(r)].src ELSE Source(tree, r)
    IN  IF source = Bad THEN Nobody
        ELSE [want |-> IF package /\ ~known THEN <<r, InitPy(r)>> ELSE <<r>>,
              made |-> source, step |-> "keep", owner |-> owner]

\* A caller asks for the module of a resource that is not in the cache.
Ask(t) ==
    /\ Idle(t)
    /\ \E r \in Resources :
         /\ IsThere(tree, r) /\ r \notin DOMAIN cache
         /\ job' = [job EXCEPT ![t] = Asked(r, FALSE)]
    /\ UNCHANGED <<disk, table, cache, event, unseen, raced, replaced>>

\* A caller asks the module with the import for its names, which are kept.
Infer(t) ==
    /\ Idle(t)
    /\ Importer \in DOMAIN cache /\ cache[Importer].seen = None
    /\ LET found == Found(tree)
       IN  IF found = None \/ found \in DOMAIN cache
           THEN /\ cache' = [cache EXCEPT ![Importer].seen =
                                [res |-> found,
                                 src |-> IF found = None THEN Empty ELSE cache[found].src]]
                /\ UNCHANGED job
           ELSE job' = [job EXCEPT ![t] = Asked(found, TRUE)] /\ UNCHANGED cache
    /\ UNCHANGED <<disk, table, event, unseen, raced, replaced>>

\* module_map[resource] = result; another thread's module of the same
\* resource is out of the cache from now on.
Keep(t) ==
    /\ job[t].step = "keep"
    /\ cache' = [r \in DOMAIN cache \cup {Top(t)} |->
                   IF r = Top(t) THEN [src |-> job[t].made, seen |-> None] ELSE cache[r]]
    /\ job' = [u \in Threads |->
                 IF u = t THEN [job[t] EXCEPT !.step = "observe"]
                 ELSE [job[u] EXCEPT !.owner = @ /\ Top(t) # Importer]]
    /\ UNCHANGED <<disk, table, event, unseen, raced, replaced>>

\* The module goes to the package whose __init__ it is, or to the caller; what
\* the caller concludes is kept by the module that has the import.
Give(t, source) ==
    IF Len(job[t].want) > 1
    THEN /\ job' = [job EXCEPT ![t].want = SubSeq(@, 1, 1), ![t].step = "keep"]
         /\ UNCHANGED cache
    ELSE /\ job' = [job EXCEPT ![t] = Nobody]
         /\ cache' = IF job[t].owner /\ Importer \in DOMAIN cache
                     THEN [cache EXCEPT ![Importer].seen = [res |-> Top(t), src |-> source]]
                     ELSE cache

\* Mutant: a resource that is gone by now is not observed.
Observe_There(t) ==
    /\ job[t].step = "observe"
    /\ table' = IF There(tree, Top(t)) THEN Watch(table, {Top(t)}, mtime) ELSE table
    /\ Give(t, job[t].made)
    /\ UNCHANGED <<disk, event, unseen, raced, replaced>>

\* observer.add_resource(resource)
Observe(t) ==
    /\ job[t].step = "observe"
    /\ table' = [r \in DOMAIN table \cup {Top(t)} |->
                   IF r # Top(t) THEN table[r]
                   ELSE IF There(tree, r) THEN mtime[r.path] ELSE None]
    /\ Give(t, job[t].made)
    /\ UNCHANGED <<disk, event, unseen, raced, replaced>>

\* analyze_module, or the end of a run: forget_all_data.
ForgetAllData(t) ==
    /\ Idle(t)
    /\ \E r \in DOMAIN cache : cache[r].seen # None
    /\ cache' = Forgotten(cache)
    /\ UNCHANGED <<disk, table, job, event, unseen, raced, replaced>>

Next ==
    \/ WriteResource \/ CreateResource \/ RemoveResource \/ MoveResource
    \/ Outside \/ Validate \/ Report \/ ReportRaises
    \/ \E t \in Threads :
          \/ Ask(t) \/ Infer(t) \/ Keep(t) \/ Observe(t)
          \/ ForgetAllData(t)

Spec == Init /\ [][Next]_vars

-----------------------------------------------------------------------------
(* Properties *)

Answers == [res : Resources \cup {None}, src : Data]

TypeOK ==
    /\ tree \in Trees /\ mtime \in [Places -> Nat] /\ clock \in Nat
    /\ DOMAIN table \subseteq Resources
    /\ \A r \in DOMAIN table : table[r] \in Nat \cup {None}
    /\ DOMAIN cache \subseteq Resources
    /\ \A r \in DOMAIN cache :
          cache[r].src \in Data \ {Bad} /\ cache[r].seen \in Answers \cup {None}
    /\ replaced \subseteq Resources

\* Every change has been told, or a validate() has looked since, and none came
\* while a module was being built.
Settled == event = NoEvent /\ ~unseen /\ ~raced /\ ~Building

\* A module in the cache is observed: no order of the steps of two threads
\* and of the reports leaves one that nothing can invalidate.
CachedAreWatched ==
    \A r \in DOMAIN cache : r \in DOMAIN table \/ \E t \in Threads :
        job[t].step = "observe" /\ Top(t) = r

Excused(r) == r \in replaced \/ (r.folder /\ InitPy(r) \in replaced)

\* Once settled, a module in the cache is made from what is in the directory,
\* unless something new was created at its place: PyCore is not told.
ModulesFresh ==
    Settled => \A r \in DOMAIN cache :
        Excused(r) \/ (IsThere(tree, r) /\ cache[r].src = Source(tree, r))

Before(a, b) ==
    \E i \in DOMAIN Candidates : Candidates[i] = a /\
        (b = None \/ \E j \in DOMAIN Candidates : Candidates[j] = b /\ i < j)

\* Once settled, what a module has concluded from its import is what the
\* import gives now; only a module that has appeared before the one it was
\* found to be is not noticed.
ConclusionsFresh ==
    Settled /\ Importer \in DOMAIN cache =>
        LET seen == cache[Importer].seen
        IN  \/ seen = None \/ seen = Meaning(tree)
            \/ seen.res # Found(tree) /\ Before(Found(tree), seen.res)
            \/ seen.res # None /\ Excused(seen.res)
=============================================================================
