------------------------------ MODULE FileTree ------------------------------
(***************************************************************************)
(* The project directory as rope's file system commands see it: a function *)
(* from paths to nodes.  rope/base/fscommands.py (class FileSystemCommands) *)
(* calls open, os.mkdir, os.remove, shutil.rmtree and shutil.move; the      *)
(* operators below say what each of these calls does to the tree and when  *)
(* it raises.  Every operator returns a record [ok, tree]: ok is FALSE when *)
(* the call raises, and then the tree is the one the call leaves behind.    *)
(*                                                                         *)
(* Bound: a node outside Paths does not exist.  A call that would need such *)
(* a path raises (as it would on a name that is too long).                  *)
(***************************************************************************)
EXTENDS Sequences, Integers
Seqs == INSTANCE SequencesExt

CONSTANTS
    Paths,    \* non-empty sequences of names, with the folders they lead
              \* through; the root is left out
    Texts,    \* what a write can leave in a file
    Raw,      \* other bytes a file can hold: with \r\n or \r line ends
    Decode,   \* [Texts \cup Raw -> Texts], what File.read returns
    Empty,    \* the text of a file that has just been created
    Absent,   \* there is nothing at this path
    Dir       \* there is a folder at this path

Data == Texts \cup Raw
Nodes == Data \cup {Absent, Dir}
Trees == [Paths -> Nodes]

ASSUME FileTreeAssumption ==
    /\ Empty \in Texts
    /\ Absent \notin Data /\ Dir \notin Data /\ Absent # Dir
    /\ Texts \cap Raw = {}
    /\ Decode \in [Data -> Texts]
    /\ \A t \in Texts : Decode[t] = t
    /\ Paths \subseteq Seq(STRING) /\ <<>> \notin Paths
    /\ \A p \in Paths : \A n \in 1..Len(p) : SubSeq(p, 1, n) \in Paths

Parent(p) == SubSeq(p, 1, Len(p) - 1)

Within(folder, p) == Seqs!IsStrictPrefix(folder, p)

IsFile(tree, p) == tree[p] \in Data

Exists(tree, p) == tree[p] # Absent

\* The folder that would hold p is there (the project root always is).
HasParent(tree, p) ==
    \/ Len(p) = 1
    \/ Parent(p) \in Paths /\ tree[Parent(p)] = Dir

\* A tree as a file system can hold it: what exists is inside a folder.
WellFormed(tree) == \A p \in Paths : Exists(tree, p) => HasParent(tree, p)

Raises(tree) == [ok |-> FALSE, tree |-> tree]
Leaves(tree) == [ok |-> TRUE, tree |-> tree]

\* open(path, 'rb').read() succeeds.
CanRead(tree, p) == IsFile(tree, p)

\* FileSystemCommands.write: open(path, 'wb') creates a missing file.
CanWrite(tree, p) == tree[p] # Dir /\ HasParent(tree, p)

WriteFile(tree, p, text) ==
    IF CanWrite(tree, p) THEN Leaves([tree EXCEPT ![p] = text])
                         ELSE Raises(tree)

\* _ResourceOperations._create_resource: the checks, then open(path, 'w') or
\* os.mkdir.
CreateNode(tree, p, node) ==
    IF ~Exists(tree, p) /\ HasParent(tree, p)
    THEN Leaves([tree EXCEPT ![p] = node])
    ELSE Raises(tree)

\* FileSystemCommands.remove: os.remove of a file, else shutil.rmtree.
RemoveNode(tree, p) ==
    IF Exists(tree, p)
    THEN Leaves([q \in Paths |-> IF q = p \/ Within(p, q) THEN Absent
                                                          ELSE tree[q]])
    ELSE Raises(tree)

-----------------------------------------------------------------------------
(* shutil.move *)

\* The path that p, or something inside p, gets when p is moved to q.
Rebased(p, q, r) == q \o SubSeq(r, Len(p) + 1, Len(r))

\* What is at r, inside q or q itself, after p was moved to q.
Arrived(tree, p, q, r) ==
    LET old == Rebased(q, p, r)
    IN  IF old \in Paths THEN tree[old] ELSE Absent

\* p and what is inside it, moved to q; the folders that lead to q are made
\* when they are missing.
Renamed(tree, p, q) ==
    [r \in Paths |->
        IF r = q \/ Within(q, r) THEN Arrived(tree, p, q, r)
        ELSE IF r = p \/ Within(p, r) THEN Absent
        ELSE IF Within(r, q) THEN Dir ELSE tree[r]]

\* An existing folder takes the resource in; the call raises when a resource
\* of this name is already there.
Target(tree, p, q) == IF tree[q] = Dir /\ p # q THEN Append(q, p[Len(p)]) ELSE q

FitsIn(tree, p, q) ==
    \A r \in Paths : Within(p, r) /\ Exists(tree, r) => Rebased(p, q, r) \in Paths

\* os.rename; across a missing parent only a folder still moves, by
\* copytree, which makes the missing folders.
CanMove(tree, p, q) ==
    LET real == Target(tree, p, q)
    IN  /\ Exists(tree, p)
        /\ real \in Paths /\ FitsIn(tree, p, real)
        /\ ~Within(p, real)
        /\ real # q => ~Exists(tree, real)
        /\ \/ HasParent(tree, real)
           \/ tree[p] = Dir /\ \A r \in Paths : Within(r, real) => ~IsFile(tree, r)
        /\ tree[p] = Dir => ~IsFile(tree, real)

MovePath(tree, p, q) ==
    IF ~CanMove(tree, p, q) THEN Raises(tree)
    ELSE IF p = q THEN Leaves(tree)
    ELSE Leaves(Renamed(tree, p, Target(tree, p, q)))

\* The move destroys a file: os.rename replaces what is at its destination.
Overwrites(tree, p, q) == p # q /\ IsFile(tree, p) /\ IsFile(tree, q)
=============================================================================
