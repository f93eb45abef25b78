------------------------------ MODULE ObjectDB ------------------------------
(***************************************************************************)
(* The object information rope keeps: per file the scopes of the file, and *)
(* per scope what calls of it returned (objectdb.ObjectDB over             *)
(* memorydb.MemoryDB).  The arguments of a call are left out: one entry    *)
(* stands for a call with given arguments.  A scope without call           *)
(* information holds Nothing.                                              *)
(***************************************************************************)
EXTENDS FiniteSets, Functions

CONSTANTS Files,    \* paths of Python files
          Scopes,   \* names of functions in them
          Values,   \* what a call can be known to return
          Unknown,  \* ('unknown',) and ('none',): nothing is known
          Nothing   \* no call is recorded

ASSUME ValuesAssumption == Unknown \notin Values /\ Nothing \notin Values \union {Unknown}

Returned == Values \union {Unknown}

(* A database: a function on the files it has to functions on their scopes. *)
IsDB(d) ==
  /\ DOMAIN d \subseteq Files
  /\ \A p \in DOMAIN d : /\ DOMAIN d[p] \subseteq Scopes
                         /\ Range(d[p]) \subseteq Returned \union {Nothing}

Empty == [x \in {} |-> Nothing]
Has(d, p, k) == p \in DOMAIN d /\ k \in DOMAIN d[p]
Known(d, p, k) == Has(d, p, k) /\ d[p][k] \in Values

(* Mutant: a call of which nothing is known replaces any other. *)
IsMoreValid_Always(new, old) == TRUE

IsMoreValid(new, old) == old = Nothing \/ new # Unknown

(* MemoryDB.create and FileInfo.create_scope begin an empty entry, also in *)
(* place of one that is there.                                             *)
CreateFile(d, p) == [x \in DOMAIN d \union {p} |-> IF x = p THEN Empty ELSE d[x]]
CreateScope(d, p, k) ==
  [d EXCEPT ![p] = [x \in DOMAIN d[p] \union {k} |-> IF x = k THEN Nothing ELSE d[p][x]]]

AddCall(d, p, k, returned) == [d EXCEPT ![p][k] = returned]

(* MemoryDB.rename: the entry of q, if there is one, is replaced. *)
RenameFile(d, p, q) ==
  IF p \notin DOMAIN d THEN d
  ELSE [x \in (DOMAIN d \ {p}) \union {q} |-> IF x = q THEN d[p] ELSE d[x]]

(* ObjectDB.validate_file: the scopes that are not in the file go. *)
ValidateFile(d, p, valid) ==
  IF p \notin DOMAIN d THEN d
  ELSE [d EXCEPT ![p] = Restrict(d[p], DOMAIN d[p] \intersect valid)]
=============================================================================
