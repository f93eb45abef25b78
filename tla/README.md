# TLA+ models and proofs for rope and pydb

The repository is an Emacs configuration for C and Python work: it vendors
CEDET, GNU GLOBAL, pydb, python-mode and ropemacs, and it holds a copy of
**rope**, a Python refactoring library. rope changes the user's files, keeps a
persistent history that can undo any chosen change, may be stopped from another
thread while it does so, keeps caches true while other programs work in the same
directory, and runs the user's modules in a child process that reports back
through a socket. **pydb** is a debugger whose stepping logic lives in trace
callbacks that the debugged program calls. This directory models these two in
TLA+, checks them with TLC and proves the central facts with TLAPS.

## Inventory

Paths below are relative to `src/rope/rope/` unless they start with `src/`.

| part | state it keeps | operations | what is hard |
|---|---|---|---|
| change sets, `base/change.py` | the basic changes; `old_contents` of each write | `ChangeSet.do`, `undo`; `ChangeContents`, `MoveResource`, `CreateResource`, `RemoveResource` | a set fails or is stopped in the middle; the rollback; repeated undo and redo |
| file system, `base/fscommands.py`, `base/resources.py` | the project directory | create, write, move, remove; `File.read` | errors in the middle of a write; `shutil.move` into folders and onto files; line ends |
| task handles, `base/taskhandle.py` | `stopped`, job sets | `stop`, `started_job`, `finished_job` | `stop` is called by another thread |
| history, `base/history.py` | undo list, redo list, saved copy | `do`, `undo`, `redo`, `clear`, `write`, load | undoing a chosen change takes the dependent ones with it; the list is reordered; limits; restarts and crashes |
| project and data files, `base/project.py` | observers, data file hooks, file lists | `do`, `close`, `sync`, `validate` | torn data files; stale file lists |
| resource observers, `base/resourceobserver.py` | modification indicators of interesting resources | changed, moved, created, removed, `validate` | changes from outside; moves of folders; callbacks that change the table |
| module cache, `base/pycore.py`, `pyobjectsdef.py` | `module_map`; what modules concluded from one another | `get_pymodule`, packages, star imports, invalidation | modules and conclusions that are stale; a second thread; another program between reading and observing |
| object information, `base/oi/objectdb.py`, `memorydb.py`, `objectinfo.py` | scopes per file, what calls returned | record, move, validate, save | two threads store into one dictionary while files move; information about files that are gone |
| dynamic analysis, `base/oi/doa.py`, `runmod.py` | a child process, a socket, a thread | run, wait, kill | the child dies before it connects, or garbles the stream; the thread works beside the main one |
| static analysis, `base/oi/soa.py`, `soi.py` | none of its own | analysis of a module | recursion limits |
| change stack, `contrib/changestack.py` | the pushed sets | `push`, `pop_all`, `merged` | counts undos by pushes |
| autoimport, `contrib/autoimport.py` | names per module | generate, update, observers | stale names |
| change signature, `refactor/change_signature.py`, `functionutils.py` | the definition, the mapping of each call | the changers, one after the other | parameters given by place, by name, by default; extras |
| extract method, `refactor/extract.py` | sets of read and written variables | the collector over the piece and the lines around it | what is set or read on a branch, or in a loop |
| other refactorings, `refactor/*.py`; code assist, `contrib/*.py` | none | functions of source text to change sets | textual, not stateful |
| pydb, `src/pydb-1.26/pydb/pydbbdb.py`, `gdb.py`, `pydb.py`, `pydbcmd.py` | stop frame, return frame, step count, breakpoints, selected frame | trace callbacks, step, next, finish, continue, break and its edits, quit, run, the post-mortem prompt | commands act on frames that may be gone when the program stops again; the debugger's own exceptions travel through the program |
| multi-project refactoring, `refactor/multiproject.py` | none | `perform` | one project of several fails |
| ropemacs, GNU GLOBAL, CEDET, other Emacs Lisp | | | vendored; see *Not modelled* |

The parts meet as follows. A refactoring builds a `ChangeSet`. `Project.do`
hands it to `History.do`, which runs `ChangeSet.do` under a job set of the
caller's task handle. Every basic change calls `_ResourceOperations`, which
calls the file system commands and then tells each observer of the project.
When the call returns, the history appends the set to its undo list and clears
the redo list; when it raises, neither happens. `History.undo` and `redo` run
`ChangeSet.undo` and `do` of several sets in turn. `Project.close` runs the
write hooks, one of which saves both lists; the next session loads them.
Observers of the project are the file list cache, PyCore, which drops modules,
and the object information, which follows files. `PyCore.run_module` starts a
child whose receiver thread writes into the object information, and at its end
has the module cache forget what it concluded.

What makes each modelled part correct:

* *change sets*: a call that raises leaves the project as it was, but for the
  change that was being made, the ones the `except` branch did not come to
  because it raised itself, and the ones that build on one another; the
  exception that stopped the set reaches the caller unless the `except` branch
  raises; undoing gives the tree from before the set, redoing the tree from
  after it; a stop is heard; every call ends.
* *history*: the directory is at every moment what the changes in the undo
  list make of the directory the list starts from; both lists can be performed
  from there; undoing a chosen change takes exactly its dependents; related
  changes keep their order; the lists stay within `max_undos` and never hold an
  entry twice; all of this across restarts.
* *observers and file list*: `get_files` lists the files of the project, no more
  and no less, after operations of rope and, when other programs were at work,
  after a `validate()`; no change from outside escapes the next `validate()`; no
  observer raises, because its exception would come out of the caller's
  operation and leave the observers behind it untold.
* *module cache*: a module in the cache is watched at every moment, and when all
  changes were told it is made from what is in the directory, and so is what
  other modules concluded from it.
* *object information and runs*: waiting for a run comes back; what is known
  about a function stays known while the function is there; a receiving thread
  does not die without a cause; every entry is watched.
* *refactorings*: a changed call binds what it bound before; every line of a
  function reads, with a piece of it extracted, what it read before.
* *pydb*: the program stops where the command says, and nowhere else unless a
  breakpoint says so; a breakpoint is not passed over; quit and run get out of
  the program.

## Modules

| module | what it is |
|---|---|
| `FileTree` | the project directory as a function from paths to nodes, and what `open`, `os.mkdir`, `os.remove`, `shutil.rmtree` and `shutil.move` do to it and when they raise |
| `Changes` | the four basic changes, doing and undoing one, the resources they change, and a whole `ChangeSet.do` or `undo` as one step (`RunSet`, `Interrupted`, `Outcomes`) |
| `ChangeSet` | one `ChangeSet` at work, one action per step that a stop, a failing disk or a raising observer can come between |
| `AtomicChangeSet` | the abstract call: it begins, and it ends with one of `Outcomes` |
| `History` | the undo and redo lists, calls in progress, saved copy, restart, crash |
| `ResourceObserver` | `FilteredResourceObserver`: the table of indicators, and what is reported to a client for a change, a creation, a move, a removal and a validation, as pure operators |
| `FileList` | `Project.get_files`: the cacher with its observers, the operations of rope that tell them, `validate`, and another program |
| `ModuleCache` | `get_pymodule`, packages, one star import and what is concluded from it, for two threads, with PyCore's observer and another program |
| `ObjectDB` | the object information as a function from files to functions from scopes to what their calls returned, and the operations of `MemoryDB`, `FileInfo` and `ScopeInfo` on it |
| `Runner` | running modules: child processes, sockets, receiving threads that store into `ObjectDB`, the main thread that waits, kills, analyses and moves files |
| `Signature` | the changers of `ChangeSignature` on one definition and one call |
| `ExtractMethod` | the data flow of extract method: the original and the refactored function run side by side |
| `Refactorings` | one of the two: an extraction or a change of a signature |
| `Breakpoints` | breakpoints, their conditions, ignore counts and deletion, as operators |
| `Stepping` | an arbitrary debugged program, the trace callbacks of pydb, the user's commands, the restart loop and the post-mortem prompt |
| `MCChangeSet`, `MCHistory`, `MCFileList`, `MCModuleCache`, `MCStepping`, `MCRefactorings` | small instances for TLC |
| `ChangesProofs`, `ChangeSetProofs`, `HistoryProofs`, `FileListProofs`, `ModuleCacheProofs`, `RefactoringsProofs`, `RunnerProofs`, `SteppingProofs` | theorems and proofs |

`ChangeSet`, `AtomicChangeSet` and `History` all extend `Changes`, which
extends `FileTree`; so does `ResourceObserver`, which `FileList` and
`ModuleCache` extend. `Runner` extends `ObjectDB`, `Stepping` extends
`Breakpoints`; `Refactorings` extends `ExtractMethod`, has an instance of
`Signature`, and performs one of the two per behaviour.
`ChangeSet` implements `AtomicChangeSet` (run
`changeset`), and `History` uses the very outcomes `AtomicChangeSet`
allows, so one step of `History` stands for one complete call.

### FileTree and Changes

A path is a sequence of names and a node is a folder (`Dir`), nothing
(`Absent`) or data. Data is a text as `File.read` returns it, or raw bytes with
other line ends; `Decode` maps both to the text. `File.read` normalises line
ends, so undoing a write puts back the text and not the bytes: `SameText` is
the equality that rope can promise and that the properties use.

`shutil.move` is modelled with its errors: into an existing folder, onto a file
(which is lost), into itself, across a missing parent. A node outside `Paths`
cannot exist; a call that would need one raises.

A change is a record. `BuiltOne` is `MoveResource.__init__`, which resolves a
destination that is a folder *when the change is built*. `Captured` is the
reading of `old_contents` in `ChangeContents.do`, done once. `Reloaded` is what
saving and loading does to a change: `makeMoveResource` makes every moved
resource a `File`.

### ChangeSet

| action | code |
|---|---|
| `CallDo`, `CallAgain` | `Project.do`; the history's later `undo` and `redo` of the same set |
| `StartJob` | `JobSet.started_job`, which raises when the handle is stopped |
| `PerformJob` | the basic change with its capture and its notifications |
| `DiskFails` | `FileSystemCommands.write` raises after `open(path, 'wb')` truncated |
| `ObserverRaises` | an observer raises after the operation was made |
| `FinishJob` | `JobSet.finished_job`, then `done.append(change)` |
| `TakeBack`, `Reraise` | the `except` branch, one change at a time, then `raise`; a change that cannot be taken back raises there |
| `DiskFailsBack`, `ObserverRaisesBack` | the `except` branch writes and notifies too: its write raises with the file truncated, or an observer raises when the change is taken back |
| `Return` | the loop is through |
| `Stop` | `TaskHandle.stop` from another thread, at any moment |

`inflight` says that the change at hand has altered the tree and is not in
`done`; `struck` that the disk or an observer raised in the `except` branch. A
call ends at `raised`, with the exception that stopped it, or at `failed`, with
another one from the `except` branch. `entry`, `before` and `origin` are history
variables of the properties.

### History

An entry of a list is an object: identity and changes. `Do`, `Undo`, `Redo`,
`Clear`, `Save`, `Restart` are the calls; an undo or redo of several sets then
takes one `PerformUndo` or `PerformRedo` per set and a `Finish`, so the lists
are looked at between the sets, where an exception may leave them. `Crash` and
`TornSave` end the process at any time, or in the middle of `write_data`.

`FindDependencies` is the single pass of `_FindChangeDependencies`: a change is
in the result when it depends on those of the result before it.

### ResourceObserver and FileList

A table of a `FilteredResourceObserver` is a function from resources to
indicators; `None` is for a resource that was not there when it was looked at.
`CausedByChanged`, `CausedByCreated`, `CausedByMoved`, `CausedByRemoved` and
`CausedByValidate` fill a `_Changes` record; `Watch` and `Unwatch` are
`add_resource` and `remove_resource`. `CannotFollow` and `CannotCompare` are
the two ways in which this raises: `get_resource` of a new path where nothing
is, and `os.path.getmtime` of a validated resource that is gone.

The cacher's property `observer` calls `_update_folder`, which uses
`self.observer`, before `saveit` has kept the value. So the first `get_files` of
a project makes one observer after another, each inside the walk of the one
before, until a walk finds no new folder; all of them stay registered, the first
one with an empty table becomes `self.observer`, and the second has every
folder. `tables` is the sequence of their tables.

| action | code |
|---|---|
| `ObserveDeeper`, `StartGetFiles` | the first `get_files`: the nested observers, then the loops that were interrupted |
| `CreateResource`, `RemoveResource`, `MoveResource`, `WriteResource` | `_ResourceOperations`: the operation, then the notification begins |
| `Validate` | `Project.validate(folder)` |
| `GetFiles` | `_FileListCacher.get_files` when there is something to clean |
| `Deliver`, `DeliverRaises` | an observer works out its `_Changes` |
| `ReportChanged`, `ReportMoved`, `ReportCreated` | the calls of the cacher in `_perform_changes` |
| `ReportRaises`, `ReportMovedRaises` | the cacher raises; after a move or a removal the entry is `None` by then, and the place where the folder was may have been walked |
| `Record`, `RecordRaises` | reading the indicator after the call |
| `NextObserver`, `Return`, `CallRaises` | on to the next observer; the call ends |
| `Outside` | another program creates or removes something |

`unseen` says that another program was here, or that a call of rope raised,
since the last `validate()` of the whole project; the properties of the list are
about the states where it is false and no call is under way.

### ModuleCache

A thread that asks for a module takes three steps, between which the other
thread, the reports of the observer and other programs come: it looks into the
cache and reads the source (`Ask`, `Infer`), it stores the module (`Keep`), it
adds the resource to the observer (`Observe`). A package asks for the module of
its `__init__` in between, so `want` is a stack of at most two.

| action | code |
|---|---|
| `Ask`, `Keep`, `Observe` | `_ModuleCache.get_pymodule`, `PyPackage.__init__` |
| `Infer` | `_create_structural_attributes` of a module with a star import, `PyCore._find_module` in the order of `Candidates` |
| `Report` | PyCore's observer works out its `_Changes` and calls `_invalidate_resource` |
| `ReportRaises` | a move was made and the observer cannot follow it: the call raises, and PyCore is not told |
| `ForgetAllData` | `forget_all_data`, at the end of an analysis or of a run |
| `WriteResource`, `CreateResource`, `RemoveResource`, `MoveResource`, `Validate`, `Outside` | the changes of the directory, as in `FileList` |

`unseen` says that another program was here, or that a report raised, since the
last `validate()` of the whole project; `raced` that the directory changed, or a
change was reported, while a module was being built; `replaced` are the cached modules at whose place
something new was created, which PyCore is not told.

### ObjectDB and Runner

| action | code |
|---|---|
| `Run` | `PythonFileRunner.run`: the receiver binds the first free port, its thread starts, `Popen` |
| `Connect`, `Send`, `Exit` | the child, `runmod.py` |
| `Accept`, `Receive`, `EndOfStream`, `Notify` | the receiving thread: `_receive_information`, `receive_data`, the finishing observers |
| `Parse` | `doa_data_received`: `resource_to_pyobject` of the file the data is about, from the module cache or by reading and parsing it |
| `LookForFile` ... `Store` (`Storing`) | `ObjectDB.add_callinfo` from `_get_scope_info` to `add_call`, one step for what is done between two looks at the shared dictionaries |
| `Analyze` | `function_called` during static analysis: the main thread as one that stores |
| `wait_process`, `Joined`, `kill_process` | the same |
| `ChangeFile`, `BreakFile`, `MakeFile`, `MoveFile`, `RemoveFile`, then `TellChanged`, `TellMoved`, `TellRemoved` | a change of the project and, as a later step, `_FileListObserver` and the database following it |

A thread that is at `store` holds a `ScopeInfo`, which may leave the database
under its hands or go along with a moved file: `Held`. `upset` are the threads
that work on an entry which somebody else has changed since they received the
data they store. `broken` are the files that do not parse. `doa_data_received`
catches `ResourceNotFoundError` and `AttributeError` only, so a receiving thread
dies of a file that does not parse (`ModuleSyntaxError`) or that went between the
look for it and its reading (`IOError`).

### Signature and ExtractMethod

`Signature` takes every call that Python accepts for a definition, makes the
`ArgumentMapping` of it, applies changers (`Add`, `RemoveParameter`,
`RemoveStar`, `RemoveKeywords`, `InlineDefault`, `Reorder`), and compares what
`to_call_info` of the mapping binds under the new definition with what the call
bound before. `Bound` is the reference: Python's rules for calls. `ArgumentAdder`
takes neither a default nor a value, too, and
`src/rope/ropetest/refactor/change_signature_test.py:292` relies on it: the
changed call then lacks a required parameter, for the user to fill in. `unset` are
the parameters that were added so; they are all that a call may lack.

`ExtractMethod` takes every function of up to `MaxLines` lines, with blocks up to
`MaxDepth` deep, and every piece of it, computes the sets of `_FunctionInformationCollector` from the text, and runs
the original function and the refactored one together along every path.
`Arguments` and `Returns` are `_find_function_arguments` and
`_find_function_returns`. Lines set a variable, use one, or are the head of an `if`
or a `while`. `else`, `for`, `try` and `with`, `break` and `continue`, `return`, `del`,
nested functions and augmented assignments (which the finder counts as a write
and not as a read) are left out.

### Breakpoints and Stepping

The debugged program is arbitrary: a stack of frames, of which the youngest goes
to any of its lines, calls, returns, raises and catches. Its callbacks are part
of these actions:

| action | code |
|---|---|
| `LineStepping`, `LineRunning`, `LineUntraced` | `user_line` with `stop_here` and `break_here`, which may both run, one after the other |
| `Call`, `Leave` (`Pop`), `Raise`, `Catch` | `user_call`, `user_return`, `user_exception`, and the frame leaving the stack |
| `Stop` | `interaction` and the commands of a breakpoint, `bp_commands` |
| `do_step`, `do_next`, `do_finish`, `do_continue`, `do_continue_to`, `do_quit`, `do_run`, `do_frame`, `do_commands`, `set_sigcheck`, `EditBreakpoints` | the commands of the same names; `Edit...` is break, tbreak, condition, ignore, clear, delete, enable, disable |
| `EndRun`, `LeavePostMortem` | the loop of `main` in `pydb.py` |

`goal` is a history variable: the command that let the program go, the frame it
was about, the lines it still has to count (`left`), the stops at breakpoints that
its count has swallowed (`lost`), and whether a breakpoint has stopped the program
since (`broke`).

## Runs

Every run explores its whole bounded state space.

| run | shows |
|---|---|
| `changeset` | Every set of up to three changes from a pool of 14, also sets that build on themselves, from two directories, undone and redone any number of times, with stops, broken writes and raising observers at every point of the loop and of the `except` branch. A raising call leaves the tree as it was but for the changes `LeftBehind` names (`RollbackRestores`); another exception replaces the one that stopped the set only when the `except` branch is struck itself or comes to a change that builds on another (`CauseReachesCaller`); undoing gives the tree from before (`UndoRestores`), redoing the tree from after (`RedoRepeats`); `ChangeSet` implements `AtomicChangeSet` (`ImplementsAtomic`); a stop before the last check is heard (`StopIsHeard`); each call ends (`CallsEnd`). |
| `history_replay` | Change sets out of ten that touch one another in every way, done, undone and redone by choice in every order, with orderly restarts in between, and a fourth one for which the full undo list is trimmed: `HistoryReplays`, `RedoListReplays`, `UndoListUndoes`, `FindsDependents`, `RoundsSucceed`, `RelatedKeepOrder`. |
| `history_faults` | Every feature at once, with three sets: interrupts, drop, overwriting moves, restarts, crashes, torn saves, a trimmed list. `Bounded`, `NoDuplicates`. |
| `filelist_list` | Three changes of the directory by rope and another program, `get_files` and `validate` at any time between calls, also after calls that raised, in the middle of a report too: `ListExact`, `NothingEscapes` (each folder is in a table with the indicator it has, or as one to be looked for), `OnlyMissingRaise` (an observer raises in two situations only). |
| `filelist_shared_names` | Every feature, and names that are files and folders in turn: `KnownAreObserved`. |
| `runner_wait` | Two runs, one after the other, whose children send, die early or garble the stream, and the main thread, which analyses, waits, kills, changes, breaks, moves and removes the file: `WaitReturns` unless the child died unheard, `KnowledgeStays` but for two named races, `EntriesWatched`. A receiving thread dies only when the stream is garbled, the file is gone or does not parse at that moment, or its entry was changed under it (`DiesOfCauseOnly`). |
| `modulecache_fresh` | Two threads fill the cache while rope and another program change a package, its `__init__` and the modules around it, also by moves whose report raises: `CachedAreWatched`, `ModulesFresh`, `ConclusionsFresh`. |
| `stepping` | Three frames, counts from 0 on, two users, one with every resuming command and one with two breakpoints on a line, their conditions, ignore counts and commands: `NextStays`, `StepCounts`, `ContinueOnlyBreaks`, `BreakStops`, `FinishSeen`, `AbortsEnd`. |
| `refactorings` | Up to two changers on every accepted call of twelve definitions, which lacks afterwards only what was added without a value (`SignatureKept`), and every piece of every function of up to five lines, along every path (`ExtractionKept`). |

Three runs end with a counterexample, each a disagreement of code and text:

| run | shows |
|---|---|
| `changeset_lost_interrupt` | Renaming a package whose module is edited is "write `d/a`, move `d` to `e`". When it is stopped at the move's `finished_job`, taking the write back fails, because `d` is not there: that `IOError` reaches the caller in place of `InterruptedTaskError`, and the move and the new contents stay (`InterruptReachesCaller`). |
| `history_reloaded_move` | After a restart a folder move is a file move. Undoing the move alone then leaves a write inside the folder in the undo list, at a path that is gone. |
| `filelist_stale_move` | Remove `d/s`, move `d` to `e`: the observer still has `d/s`, asks for `e/s` and raises `ResourceNotFoundError` after the move was made. (`History.do` then does not record the move.) |

### Further disagreements

They lie behind conditions of the properties or the bounds, and show when these
are taken away.

Change sets and history:

* The `except` branch undoes `done` from the front, so changes that build on one
  another are taken back in the wrong order (`Entangled` in `RollbackRestores` and
  `CauseReachesCaller`), and rope builds such sets: `rename.py:93-102`,
  `move.py:396-407`, `topackage.py:15-26`. Besides `changeset_lost_interrupt`:
  renaming a module is "write `a`, move `a` to `b`", and a stop at the move leaves
  the new contents at `b`. Module to package is "write `a`, create the folder `e`,
  move `a` into it"; when it is stopped at the move, the folder is taken back
  before the move, with the module in it, which is lost.
* The `except` branch writes and notifies, too. A disk that fails or an observer
  that raises there replaces the exception that stopped the set, and the changes
  behind it stay performed: `struck` in `CauseReachesCaller`, `CutShort` in
  `RollbackRestores`.
* A move onto a file loses the file, and undo does not bring it back: the
  condition `~Clobbers` of `UndoRestores`.
* Undo the second of two writes of a file, undo the first with `drop`, redo the
  second: undoing it now gives contents the file did not have. `UndoListUndoes`
  with `Features = {"drop"}`.
* A stop during a change leaves it performed and in no list of the history:
  `HistoryReplays` with the feature `interrupt`.

Observers and caches:

* The other program works between the report of a folder and the reading of its
  indicator, and no `validate` finds what it did: `ListExact` with
  `Features = {"outside", "race"}`.
* `validate` of a folder that another program removed raises `OSError` and
  reports nothing: `ReportsDoNotRaise` with the feature `validate_gone`.
* A file is removed and a folder of its name created before `get_files` is
  called: the path is listed as a file. `ListExact` with the names of
  `filelist_shared_names`.
* A folder is removed and a file of its name created: each `validate` raises
  `OSError`. `ReportsDoNotRaise` with the names of `filelist_shared_names`.
* Three moves after which `get_files` is wrong with nobody else at work; they are
  what `MovesPlainly` excludes (Proofs). `a` is moved to `b`, which holds a folder
  `b/a` already: `shutil.move` goes one level deeper than the change says, to
  `b/a/a`; if that folder was there and was removed before, it is known, the walk
  from `b/a` stops at it, and its files are not listed. Or `a` is ignored: nobody
  has `a/s` in a table, so nobody tells that it is at `b/s` now, which was known
  and removed before, with the same effect (`ListExact`). Or `a/s` is moved to
  `b/s` and there is no `b`: `shutil.move` makes it, nobody is told, nobody
  observes it, and what another program creates in `b` stays unlisted
  (`NothingEscapes`). The first shows with the folders `a`, `b/a`, `b/a/a` and a
  file `a/x`, the others with `a/s`, `b/s` and a file in `a/s`.
* PyCore's observer has no `created` callback: a module that is removed from
  outside and created again, or one that appears before the one an import was
  found to be, is not noticed (`Excused`, `Before` of `ModuleCache`).
* A module is read first and observed later; a change in between is in no
  indicator, and the module stays stale (`raced`).
* A move whose report raises, as in `filelist_stale_move`, is made and PyCore is
  not told: modules of the folder stay in the cache under their old paths until
  the next `validate()` (`unseen`).

Object information and runs:

* When the child ends, or is killed, before it connects, `wait_process` waits
  for ever, though it says it waits "for the process to finish" (`doa.py`): the
  receiving thread blocks in `accept`. The property `WaitsForProcessOnly` of
  `Runner` fails. Each such run also leaves its port taken and its thread alive.
* Two interleavings lose what is known: `create` of an entry, or of a scope,
  replaces the one another thread has stored into since it was looked for, and a
  call that returned nothing known replaces one that is known when the latter was
  stored after the look. Information that is stored for a moved file before its
  entry follows is replaced by the entry. These are the exceptions of
  `KnowledgeStays`.
* A garbled stream, a file that does not parse any more or goes before it is read,
  or a `KeyError` in `add_callinfo` after the entry was changed by somebody else
  ends the receiving thread, and its finishing observers are not called. These are
  the causes in `DiesOfCauseOnly`. The observers are not called at all when a
  module is run without analysis.
* An entry that is stored after its file has moved away stays, unwatched, and
  belongs to the next file of this name: `EntriesWatched` with the feature
  `reuse`.

Refactorings (the exceptions of `BindingKept` and `ReadsKept`):

* `ArgumentAdder` with neither a default nor a value makes calls that lack a
  required parameter (`unset`).
* `ArgumentRemover` changes nothing in the mapping (`change_signature.py:201`):
  when `*args` or `**kw` is removed, calls still pass the extras, and a keyword
  of a removed parameter may reach a parameter that is added with its name.
  Extras for `*args` move up when a parameter before them is not given.
* Extract method does not see that a piece in a loop is run again, that a write
  behind the piece may not happen, or that a variable has no value at the piece;
  and its flag `conditional` is switched off at the end of an inner block, so a
  write behind it, still on the outer branch, counts as one that always happens.

pydb:

* `break_here` is asked twice at each line that bdb would not stop at by itself
  (by `dispatch_line`, then by `user_line`), so hits are counted twice
  (`src/pydb-1.26/test/data/run.right:37` shows it) and ignore counts go down by
  two; the stop of a temporary breakpoint, as `continue` with a line sets one, is
  swallowed by a step count that is left over. The count goes down with it: `next 2`
  over a temporary breakpoint in a function that is called stops one line early,
  though nothing was shown for the breakpoint (`goal.lost` in `StepCounts`).
* `step 0` and `next 0` are accepted (`get_pos_int` has `min_value=0`) and set
  `step_ignore` to -1, though the comment at `gdb.py:1586` says that 0 means to stop
  now or to step 1. No line stops the program then, and where bdb stops at each
  line breakpoints are passed over, too (the exceptions in `StepCounts` and
  `BreakStops`).
* `step n` and `next n` pass over breakpoints. Deleting one breakpoint by its
  number deletes all on its line. The commands of a breakpoint may be run at a
  later stop elsewhere, since `currentbp` is kept: `CommandsBelong` of
  `Stepping` fails. (`commands_resuming` lacks finish and skip.)
* After an uncaught exception, `c` and `step` are refused, although the message
  of `pydb.py:801` says they restart the program; and quit at this prompt
  restarts it.
* An `except:` of the program swallows `BdbQuit` and `Restart` (`Caught`).

### Bounds

* Three changes per set and three or four sets per behaviour. The rollback needs two
  changes that interact and one that fails; the closure of dependents needs a
  chosen change, one that depends on it and one that depends on that.
* Six or seven paths: two files, two folders with a place for a file in each,
  an ignored file; and three texts and one file with `\r\n`. This has both ends
  of a file move, a folder move with a file inside, and moves into folders.
* `MaxDos` bounds the number of sets built. It is above `MaxUndos` in both runs, so
  that the undo list is trimmed: three and two in `history_faults`, four and three
  in `history_replay`, where the fourth set is the write of `d/a`, done on a full
  list that was not saved (`FillsUp`).
* `changeset`: fourteen changes, of every kind, over a file at the root, a file in
  a folder, a folder, and files and folders that are not there yet, and all sets of
  them, with a removal in last place only, because a removal cannot be undone at
  all. The set of a refactoring may build on itself in any way that three changes
  can.
* `~Clobbers` keeps sets that overwrite a file out of the properties about
  undo.
* `history_replay` runs under `RestartSpec` of `MCHistory`: a history that holds
  the move of a folder is not saved, and once something is saved no folder is
  moved; `history_reloaded_move` shows why.
* `FileList`: ten paths, two levels of folders, one ignored folder, and
  `MaxChanges` changes of the directory, three where the list is in question
  (a folder goes, comes back and is filled; or goes, comes back and goes with
  the one around it) and two where names are shared or a call is shown to
  raise. `Features` says what may happen: `outside` (the other program),
  `race` (it works while observers are told), `stale_move` and
  `validate_gone` (the two calls that raise). `filelist_list` leaves out `race`
  and shared names, which break the list as said above.
* `FileList` starts at the first `get_files`. Each change of the directory has a
  time of its own, so two changes within one tick of the file system's clock
  are outside the model, and of `ModuleCache` too; a folder that is moved counts
  as changed. A walk of `_updated_resources` is one step, and so is an operation
  of rope on the disk; the race is between these steps. A call of rope makes one
  basic change.
* `ModuleCache`: four paths, one import with two candidates (a package and a
  module behind it), two texts and one that is no Python, two changes of the
  directory by whoever makes them. One candidate can go while the other one is
  concluded, come back, and be changed through its `__init__`, or be moved away by
  a call whose report raises.
* `Runner`: two files, one function, one value besides "unknown", two runs, one
  port, one value sent per run, one change of the main thread. A second run finds
  the port of an unheard one taken; a receiving thread meets the main thread as
  the other one that stores, and a move, a removal, a change or one that breaks the
  file between any two of its steps.
  Runs that overlap (`overlap`) and a path that is used twice (`reuse`) are left
  out of the run; the theorems about `Runner` cover the first.
* `Stepping`: three frames, four lines in two files, counts from 0 to two, ignore
  counts up to one. One user has every resuming command, and one breakpoint, which
  is set, cleared, deleted and enabled; the other one has `step` and `continue` and
  two breakpoints on one line, with conditions, ignore counts and commands. The
  program of the first calls two functions and
  catches exceptions in the script and in one of them, that of the second one
  stays in the script; `Sessions` says what is in either.
* `Signature`: twelve definitions with two or three parameters, with and without
  defaults, `*args` and `**kw`; every call Python accepts, with one extra
  argument of each kind; two changers, the first of which may make the gap that
  the second one meets. `ExtractMethod`: two variables, five lines (`MaxLines`), blocks nested
  twice (`MaxDepth`).
* `CHECK_DEADLOCK FALSE` is set where a behaviour may end: a set that raised is
  not called again, after `MaxDos` sets there may be nothing left to do, runs
  are over or hang in `accept`, the debugger exits, a function is through.

### Fairness

* `ChangeSet!FairSpec`: weak fairness of the steps of the thread inside a call;
  Python code that does not block goes on. Nothing is assumed about `Stop` or
  about new calls.
* `Runner!FairSpec`: weak fairness of each receiving thread, of the child's
  `Connect` and `Exit`, of `Joined`, and of the main thread's own steps inside a
  call (`Tell`, `Storing(Main)`). That the child ends is what the user who waits
  for it counts on; a child that does not end is the user's own loop. Sending,
  killing, and all calls of the user are without fairness.
* `Stepping!FairSpec`: weak fairness of `Unwind`, a frame that an exception
  propagates through is left. Nothing else is assumed about the program, which
  may loop, nor about the user.

The other modules state safety only.

## Proofs

`ChangesProofs` proves that each operation of `FileTree` returns a tree
(`WriteType`, `CreateType`, `RemoveType`, `MoveType`), and that what is
performed, captured and built keeps its type. `RunAll`, a whole set performed,
is a recursive function; `RunSteps`, `RunStep` and `RunReaches` say what one
more change adds to it, by least counterexamples instead of the library's
induction theorems. `WroteAll`, `OutcomeShape`, `WroteApiece` and `FreshFails` say
what a set of writes to different files does to a directory, done, undone, failed
or stopped. The proofs about change sets, the history, the file list and the
module cache use these lemmas.

`ChangeSetProofs`, for all paths, texts, decodings, directories, sets and
faults:

* `TypeCorrect`: `Spec => []TypeOK`. It needs that a move that is built has a
  path for its destination, and that positions stay inside the set.
* `WritesRollBack`: `Spec => []RollbackRestores`, and `WritesKeepCause`:
  `Spec => []CauseReachesCaller`, under `WriteScripts`: every set consists
  of writes to different files whose old contents are not captured yet, the
  sets that rename, restructure and the inlining refactorings build when no
  module is moved. The faults are those of the run, in the loop and in the `except`
  branch: all files are restored but the one in flight and those that a broken
  write or an observer kept the `except` branch from, and another exception takes
  the place of the one that stopped the set only when one of these happens in the
  `except` branch. Writes to different files do not build on one another, so
  `Entangled` excuses nothing here.

`RollbackRestores` speaks of the end of the call and is not inductive.
`WritesInv` strengthens it:

* `CapturedBefore`: captured contents are those of the file when the call
  began, and a performed change has them;
* `SameShape`: only the contents of files differ from `before`;
* `GoingForward`: before the `except` branch, the file of each performed change
  holds what the change writes and all else is as before;
* `GoingBack`: in it, the files of the changes taken back hold their old text,
  and all but the files of `done` and of the change in flight are as before.

`CapturedBefore` and `SameShape` give that each write of the `except` branch
succeeds unless it is struck (`WriteCan`, `StruckKeeps`), so `pc = "failed"` implies
`struck`; at `raised`, `taken = done`, and what is behind `taken` at `failed` is in
`LeftBehind` (`NotTakenBack`): then `GoingBack` is the property. There is one lemma
per action. Between calls, `CallAgainKeeps` shows that what one call leaves is what the next one
must find.

* `WritesUndo`: `Spec => []UndoRestores`, and `WritesRedo`:
  `Spec => []RedoRepeats`, under `WriteScripts` too. `SinceFirst` adds to
  `WritesInv` what the tree a call began with has to do with the one before the
  first `do`; texts and not bytes come back, so it speaks of `SameText`.
* `CallsAreAtomic`: `Spec => ImplementsAtomic`, for every script, with moves,
  creations and removals, and all faults in the loop and in the `except` branch.
  `Outcomes` allows for each of them: `Halts` is what the loop may leave when it is
  cut off, with a truncated file among it, and `RolledBack` where the `except`
  branch may end from there. `AtomicInv` ties the steps to `RunAll`: going ahead,
  the tree and `done` are those of a run over the first changes of the plan;
  going back, the tree is that of `TakenBack` so far. Each step of the loop is a
  stutter of `AtomicChangeSet`, and the step that returns or raises is its end
  with one of `Outcomes`.

`HistoryProofs`, for every script, directory, limit and feature:

* `BoundedLists`: `Spec => []Bounded`. Nothing trims the redo list, and redo
  appends to the undo list without looking at the limit; the bound holds for the
  *sum* of the lists. The invariant adds that the saved lists are within the
  bound, that the rounds left in a call have entries to work on, and that what
  `drop` will cut is in the redo list by then. `MovedList` shows with
  cardinalities that `_move_front` keeps the length.
* `TypeCorrect`: `Spec => []TypeOK`.
* `EachSetOnce`: `Spec => []NoDuplicates`. `OnceInv` says it of both lists
  together and of what is saved, and that all identities are older than the next
  one; `Drawn` describes each reordering as the picking of entries, none twice.
* `DependentsFound`: `Spec => []FindsDependents`. The single pass finds the
  least closed set, for lists of any length: a dependency goes to later entries
  only (`FoundClosed`), and what the pass takes is in every closed set
  (`FoundLeast`).
* `RelatedNeverReordered`: `Spec => RelatedKeepOrder`. The two lists are one
  line, the undo list and behind it the redo list from its end (`Earlier`);
  `OrderInv` says that related sets are not the other way round on the line of
  the saved lists, for a crash goes back to it.

And what the lists are worth, under `WriteScripts`: the directories are such that
what exists is in a folder, and every set that is built consists of writes to
different files (the sets of the refactorings that move no module). The sets may
meet in any files, the files be ignored or not.

* `WritesRedoAll`: `Spec => []RedoListReplays`, with every feature.
* `WritesRounds`: `Spec => RoundsSucceed`, with `drop`, without `interrupt` (a
  stopped task ends the call, as it should) and `crash`.
* `WritesReplay`: `Spec => []HistoryReplays`, and `WritesUndoAll`:
  `Spec => []UndoListUndoes`, under `PlainFeatures`, none of `interrupt`, `crash`
  and `drop`. With `drop` and `interrupt` both fail in the code, see "Further
  disagreements"; after a crash the lists are older than the directory, and the
  model does not relate them.

`ShapeInv` is enough for the first two: the same files stay in place (`OneShape`),
and all that is in the lists, or saved, are writes to files that are there, whose
old text is known (`WritesFiles`). So whatever is done or undone succeeds; a set
that fails gives the texts back (`FreshFails`), and one that is stopped leaves the
shape. For the other two `ReplayInv` says of each file that is not ignored what a
list is for it: the writes to it form a chain. `Leads` says that the chain of the
undo list ends in the present text, and that of the redo list, read the other way,
begins there; `Starts` that the chain of the undo list begins with the text of
`base`. The heart is `LeadsMoved`: `_move_front` takes sets from the middle to the
end and the chain of each file stays, because two sets that write one file are
related (`WritersRelated`) and related ones are not swapped (`MovedEmbeds`).
`LeadsTrimmed` says that forgetting a set moves the start along the chain, and
`DoneList` and `UndoneList` what the replay of a chain leaves in a file.

`FileListProofs`, for every directory, every set of calls and feature:

* `FileListTypes`: `Spec => []TypeOK`. The indicators in the tables are never
  later than the clock (`AllPast`), through walks and reports that raise.
* `KnownFoldersObserved`: `Spec => []KnownAreObserved`. The cacher does not walk
  through a folder it knows, so one that no observer had would be lost for good.
  `ObservedInv` adds what makes it inductive: tables are functions from
  folders of the project to indicators (`TablesInv`; with a file among them
  `StartGetFiles` would make a known folder nobody observes), and what is still
  to be reported is about such folders (`TodoInv`), which `CauseType` gets from
  the operators of `ResourceObserver`. `UpdateFolderGrows` is the heart: a walk
  observes what it adds. There is no assumption on the order of steps, so
  exceptions in the middle of a report and the race are covered.
* `OnlyMissingRaiseHolds`: `Spec => []OnlyMissingRaise`, when nobody works while
  the observers are told (`"race" \notin Features`) and names tell folders from
  files (`NamesTellKinds`). Both hypotheses are those of the run `filelist_list`;
  `MCFileList` has the second as an assumption. Without the first, whatever is
  reported may be gone when it is looked at; without the second, `os.listdir` is
  asked for a file that has taken the place of a folder. `RaiseInv` has, besides
  the names in the directory, the tables and the reports (`Named`, `TablesNamed`,
  `TodoNamed`), that the event happened (`Happened`) and that everything whose
  indicator is to be read is there, unless a folder that is gone is validated
  (`TodoThere`). `MoveLeaves` finds both ends of a move in place, also when it
  goes in deeper than the event says; `VanishedParent` is why
  `_search_resource_moves` must not tell what is inside another one apart: the
  folder of what it tells is there.
* `ListStaysExact`: `[]ListExact`, and `NothingIsLost`: `[]NothingEscapes`, of
  `Spec` under the same two hypotheses and `[][MovesPlainly]_vars`: a move goes to
  a folder that is there, not onto a folder that has the place already, and takes
  nothing that is ignored to a place that is not. Each of the five conditions is
  needed for one of the two; what goes wrong without it is among the disagreements
  above. Every behaviour of `filelist_list` meets them. There is no bound: any number of
  observers, levels, calls and changes by the other program.

  The two properties speak of the moments between calls. Two invariants say what
  holds on the way. `ListInv` holds whoever was in the directory:
  * `CleanShown`: when a table has the indicator a folder has, all that is in the
    folder is in the lists (`CurShown` is the moment before it is written down);
  * `GoneUnclean`: a listed file that is gone has its folder in a table with an
    indicator that differs, or the next `get_files` cleans;
  * `ListedKnown` and `StartInv`: what is listed was found in a known folder, and
    the nested observers of the first `get_files` have every folder.

  `InTime` holds when nobody else was there and nothing raised, and looks at what
  the observers have still to report (`ToCome`: `todo`, and what the later ones
  will work out):
  * `ShownInTime`: what is in a visible folder is listed, or a folder will be
    walked from which the way to it is open (`OpenFrom`: no known folder stands
    in the way);
  * `FreshInTime`: an indicator is right, or a report to come will set it;
  * `GoneInTime`: a listed file that is gone is cleaned, or a report will come.

  `ChangeInTime` reduces the four operations to what they change and what is told
  of it; in `OtherPlaceInTime` a folder that arrives at a known place is told by
  the observer that had it where it was (`ArrivedTold`). `ValidateInTime` is where
  the two invariants meet: from the last known folder on the way (`LastKnown`)
  either the list is complete, by `CleanShown`, and its entry on the way would be
  known, or validate reports it.

`ModuleCacheProofs`, for every directory, any number of threads and candidates:

* `CacheTypeCorrect`: `Spec => []TypeOK`, over an invariant that adds the shape
  of the calls under way (`JobInv`: at most a package and its `__init__`, the
  source is one that can be parsed) and of the event (`EventInv`). That
  `_find_module` finds the first of the candidates rests on `LeastNatural`.
* `CachedModulesWatched`: `Spec => []CachedAreWatched`. With the types the
  property is inductive: a report drops a module from the cache in the same step
  in which it may drop it from the table, and `Keep` puts a module into the cache
  when its own thread is next to observe it.
* `ModulesStayFresh`: `Spec => []ModulesFresh`, and `ConclusionsStayFresh`:
  `Spec => []ConclusionsFresh`, whatever was changed through rope or behind its
  back, however often and deep in the directory. A move whose report raises is
  followed by a `validate()` before the properties speak again, as a change by the
  other program is. They speak of the
  moments when nothing is on its way; `FreshInv` says what holds on the way:
  * `FalseIsUnclean`: a module that is not made from what is in the directory
    (`Made`) has an indicator in the table that differs, so the next validate
    finds it. It holds also while the other program has been there;
  * `FalseIsReached`: unless that program has, what is about to be told reaches
    it (`Reached`: the resource, its folder, what is inside it);
  * `JobsTrue`: what a thread is about to put into the cache is made from what
    is there, and a package has the module of its `__init__` under it;
  * `SeenInCache`: a conclusion is about a module in the cache and its source;
    an invalidation that takes the one drops the other.

  `Nested` and `KindKept` (in `ChangesProofs`: around what exists there are
  folders, and no change makes a folder of a file) describe what each of the
  four changes can do to other paths (`Quiet`); `ReachedTold`, `InitTold` and
  `UncleanTold` say what the operators of `ResourceObserver` report.
  The hypothesis `NothingInsideInit` is that no folder is named `__init__.py`:
  a move onto a folder that holds a folder of the same name goes in one level
  deeper than the event says, and only with that name would it end as the
  `__init__` of a package. `MCModuleCache` has it as an assumption.

`RefactoringsProofs`, over `BothInv`, the invariant of the refactoring that is
performed (TLC has found it to hold for up to four lines and two changers):

* `SignaturesStay`: `OneSpec => []SignatureKept`, for all definitions without a
  parameter twice, all calls Python accepts and any number of changers of every
  kind. What is missing in a changed call was added without a default and a value
  (`unset`).
  `SignatureInv` says that a parameter whose name is in the mapping was bound to
  what the mapping has, and any other one to the default it still has
  (`Matches`); that names in the mapping that are no parameters are those of
  removed ones; and that what goes to `*args` and `**kw` is what went there, unless
  they were removed under it. The names in `removed` are left out: what was
  removed stays in the mapping, and a parameter of that name would get it.
  `BindingHolds` makes the step from there to the call: `LeadingIs` finds the first
  gap, before which `to_call_info` passes by place (`CallIs`), and Python's rules
  give the arguments back. `AddShaped`, `RemoveShaped`, `ReorderShaped` and
  `InlineShaped` say what each changer does to the parameters. That an order
  reaches every parameter is the pigeonhole principle (`OrderIsOnto`).
* `ExtractionsStay`: `OneSpec => []ExtractionKept`, for any number of variables,
  lines and nested blocks, every piece and every path. `ExtractionInv` relates the
  variables of the two functions by what is sure to have been executed when a
  line is reached (`Comes`: an earlier line all of whose heads are heads of it,
  too). Before the piece the two are the same; inside it they agree on the
  arguments, on what nobody set before the piece, and on what a line of the
  piece that has come set (`InsidePiece`); behind it on what is read there and on
  what a line behind it that has come set (`BehindPiece`). `ValuesThere` says that
  such variables have values, so the call and the return find them. A program
  is not given by its blocks but by the depths of its lines: the lemmas about
  `BlockEnd`, `Heads` and `Depth` say how blocks nest and where a step goes
  (`StepGoes`), and `SurelySet` that a line of the piece that is not
  `Conditional` is on no branch, so it comes before every later one.

`RunnerProofs`, for any number of runs, files, functions, values and ports, with
every feature unless said:

* `RunnerTypeCorrect`: `Spec => []TypeOK`. `RunnerTypes` has the shape of every
  thread's work, and that a thread in `add_callinfo` works on a file and a scope;
  the lemmas about `ObjectDB` say that each operation keeps the shape of the
  database.
* `DeathHasCause`: `Spec => DiesOfCauseOnly`, an action property: of what is there
  at the moment the thread dies. `SecureInv` says for each
  position of a thread what it relies on in the database, the entry of its file
  or the scope in it, or else that the thread is in `upset`; for each operation
  there is a lemma about what it takes away (`CreateFileKeeps`,
  `RenameFileKeeps`, ...).
* `EntriesAreWatched`: `Spec => []EntriesWatched`, assuming that no path is used
  twice (`"reuse" \notin Features`). An entry whose file is not there is outside
  the property until the file is; `SeenInv` adds that entries and the work of
  the threads are about files that are there or were, so a file that appears has
  no entry, and that the notification of a move finds the file at its new path.
* `KnownResultsStay`: `Spec => KnowledgeStays`. Every step but the ones of
  `Excused` keeps each known result or takes it along with its file; per
  operation of `ObjectDB` there is a lemma about what stays.

`SteppingProofs`, for every program, depth, number of lines and breakpoints:

* `SteppingTypes`, `NextStaysInFrame`, `StepsCounted` and
  `ContinueStopsAtBreaks`: `Spec =>` `[]TypeOK`, `[]NextStays`, `[]StepCounts` and
  `[]ContinueOnlyBreaks`, from one invariant, `SteppingInv`. Its part
  `GoalInv` relates what the user asked for to what the debugger keeps in its
  attributes while the program runs (`stopframe`, `returnframe`, the count of
  steps: `Counted` says that at least `stepIgnore + 1` lines are left to count, and
  at most `lost` more); the properties about the prompt follow at the moment of the stop.
* `FinishIsSeen`: `Spec => FinishSeen`, and `BreaksAreSeen`: `Spec => BreakStops`,
  action properties, from the same invariant.

Assumptions are the `ASSUME`s of the modules: the texts, raw data and markers
are disjoint, `Decode` is the identity on texts, the sets are sequences of
changes, the limits are natural numbers, `None` is neither a time nor a resource,
a stack has room for a frame, a definition has no parameter twice, and a variable
without value is told from one with a value. Paths are
sequences of names and come with the folders they lead through, and the
directories to start from are such that what exists is in a folder.

### Only model-checked

Liveness (`CallsEnd`, `StopIsHeard`, `WaitReturns`, `AbortsEnd`) is outside the
prover.

`HistoryReplays`, `RedoListReplays`, `UndoListUndoes` and `RoundsSucceed` are
proved for sets of writes; for sets that also move, create and remove, two
unrelated sets must commute, which for moves holds only under the condition that
the `RestartSpec` of the run puts on the history. `RollbackRestores`,
`CauseReachesCaller`, `UndoRestores` and `RedoRepeats` of one set are proved for
sets of writes, too: a set of other changes may build on itself, and what each of
its changes leaves to the next one is data. For those TLC checks them.

## Not modelled

* Sets nested in sets (flattened), descriptions and times.
* Performing the same `ChangeSet` object twice through `do`: its
  `old_contents` would be those of the first time.
* Version control commands: they run a program and ignore its return code.
* A crash in the middle of one set (only the lists are looked at after a crash,
  not the tree).
* Read-only queries of the history.
* `Resource` encodings: a text is a value, the codec search is not modelled.
* `get_files` returns the cacher's own set, which changes under a caller that
  iterates over it while it changes files.
* `_ModuleCache` beyond one import; `validate` iterating over the live table
  while the receiving thread adds to it, which raises `RuntimeError`.
* Arguments of calls and names of scopes in the object information, its pickled
  form, the saving of the database beside the thread that writes it, and the
  write hooks, of which one that raises keeps the ones behind it from saving.
* Line numbers of the object information, which are those of the source that
  ran and not those of the source that is there now.
* `ChangeStack`: two loops over `History.undo` and `redo`, which trust that each
  push added one entry; a stack deeper than `max_undos`, or a caller that
  performs other changes, undoes what is not its own.
* Autoimport: the names in source texts; a moved or removed folder leaves the
  names of its modules in the cache.
* `multiproject.perform`: a loop over projects without a rollback; the first
  projects stay changed when a later one fails.
* Calls with `*args` and `**kwargs`, class hierarchies, the argument normalizer,
  extract variable; rename, move, inline, introduce factory and the other
  refactorings, code assist and static analysis: functions of source text, whose
  correctness is about Python's grammar and scopes, not about states.
* pydb's tracing, threads, signal handlers, remote targets, displays, file
  positions and printing commands.
* ropemacs, GNU GLOBAL, CEDET, Emacs Lisp: vendored.

## Plan

What is left, in order:

1. Proofs: the rollback for sets of all kinds, `HistoryReplays` for sets with moves.
2. `ChangeStack` on `History`: `pop_all` undoes what was pushed.
3. The saving of the object database and the write hooks, beside a receiving
   thread; `multiproject.perform` over `AtomicChangeSet`.
4. An abstract specification of a client that always knows the directory, which
   `FileList` implements between calls.
