-------------------------- MODULE RefactoringsProofs --------------------------
(***************************************************************************)
(* Proofs about the refactorings: a changed call binds what it bound before *)
(* (SignatureKept), and a function reads with a piece extracted what it     *)
(* read before (ExtractionKept), for every definition, every call of it and *)
(* every sequence of changers, and for every program, piece and path.       *)
(***************************************************************************)
EXTENDS Refactorings, FunctionTheorems, FiniteSetTheorems, SequenceTheorems,
        WellFoundedInduction, TLAPS

-----------------------------------------------------------------------------
(* The invariant of a change of signature *)

\* The defaults there may be, and the definitions the changers make.
Defaults ==
    {NoValue, Sig!Default("new"), Sig!Default("auto")}
        \cup {Sig!Default(name) : name \in Names}

AnyParameter == [name : Names, default : Defaults]

Shaped(def) ==
    /\ def \in [args : Seq(AnyParameter), star : BOOLEAN, kw : BOOLEAN]
    /\ \A i, j \in 1..Sig!Count(def) : Sig!NameAt(def, i) = Sig!NameAt(def, j) => i = j

\* What a parameter was bound to is its argument, or it has a default and was
\* bound to that.
Matches(i) ==
    LET p == Sig!NameAt(definition, i)
    IN  IF p \in DOMAIN mapping.param_dict THEN wanted.params[p] = mapping.param_dict[p]
        ELSE /\ definition.args[i].default # NoValue
             /\ wanted.params[p] = definition.args[i].default

\* The fields of the mapping and of what is wanted, with what of them the
\* proof needs to know.
MappingShaped ==
    /\ mapping = [param_dict |-> mapping.param_dict, args_arg |-> mapping.args_arg,
                  keyword_args |-> mapping.keyword_args]
    /\ mapping.param_dict = [p \in DOMAIN mapping.param_dict |-> mapping.param_dict[p]]
    /\ mapping.args_arg \in Seq(Range(mapping.args_arg))
    /\ mapping.keyword_args = [p \in DOMAIN mapping.keyword_args |-> mapping.keyword_args[p]]

WantedShaped ==
    /\ wanted = [params |-> wanted.params, args_arg |-> wanted.args_arg,
                 keyword_args |-> wanted.keyword_args]
    /\ wanted.params = [p \in Sig!Parameters(definition) |-> wanted.params[p]]

\* A parameter was bound to what it is bound to now, unless it was added with
\* nothing to bind it to.
\* A name of the mapping that is no parameter is that of a removed one; what
\* goes to *args and **kw is what went there, or there is no such parameter
\* any more.
SignatureInv ==
    /\ Shaped(definition) /\ MappingShaped /\ WantedShaped
    /\ DOMAIN mapping.param_dict \subseteq Sig!Parameters(definition) \cup removed
    /\ \A i \in 1..Sig!Count(definition) :
          Sig!NameAt(definition, i) \notin removed \cup unset => Matches(i)
    /\ \/ wanted.args_arg = mapping.args_arg
       \/ mapping.args_arg # <<>> /\ ~definition.star
    /\ \/ wanted.keyword_args = mapping.keyword_args
       \/ DOMAIN mapping.keyword_args # {} /\ ~definition.kw

-----------------------------------------------------------------------------
(* The invariant of an extraction *)

ExtractionTyped ==
    /\ program \in Seq(Statement) /\ IsProgram(program) /\ program # <<>>
    /\ region \in Regions(program)
    /\ pc \in 0..(Len(program) + 1)
    /\ env \in [Vars -> Nat \cup {Unbound}]
    /\ outer \in [Vars -> Nat \cup {Unbound}]
    /\ inner \in [Vars -> Nat \cup {Unbound}]
    /\ broken \in BOOLEAN

\* Line i was executed when line j is reached.
Comes(i, j) == i < j /\ Heads(program, i) \subseteq Heads(program, j)

\* A variable has a value when it is a parameter, or a line that sets it came.
ValuesThere ==
    /\ \A v \in params \cap Vars : env[v] # Unbound
    /\ \A i \in Lines(program) : Sets(i) /\ Comes(i, pc) => env[program[i].var] # Unbound

\* Before the piece the two functions are the same.
BeforePiece ==
    pc < region[1] =>
        /\ outer = env
        /\ \A v \in Vars \ Prewritten : env[v] = Unbound

\* The piece has the values of what it was given, of what nobody set before
\* it, and of what it set itself; its caller has what the piece does not set.
InStep(v) ==
    \/ v \in Arguments
    \/ v \notin Prewritten
    \/ \E k \in Piece : Sets(k) /\ program[k].var = v /\ Comes(k, pc)

InsidePiece ==
    pc \in Piece =>
        /\ \A v \in Vars : InStep(v) => inner[v] = env[v]
        /\ \A v \in Vars \ (Written \cup MaybeWritten) : outer[v] = env[v]

\* Behind the piece its caller has what is read there, and what is set there.
Known(v) ==
    \/ v \in Postread
    \/ \E k \in (region[2] + 1)..Len(program) :
          Sets(k) /\ program[k].var = v /\ Comes(k, pc)

BehindPiece == pc > region[2] => \A v \in Vars : Known(v) => outer[v] = env[v]

ExtractionInv ==
    /\ ExtractionTyped
    /\ Excused \/ (~broken /\ ValuesThere /\ BeforePiece /\ InsidePiece /\ BehindPiece)

BothInv ==
    /\ definition # None => SignatureInv
    /\ program # None => ExtractionInv
-----------------------------------------------------------------------------
(* Blocks *)

\* A non-empty set of natural numbers has a least element.
LEMMA LeastNatural ==
    ASSUME NEW S \in SUBSET Nat, S # {}
    PROVE  \E m \in S : \A n \in S : m <= n
<1>1. PICK m \in S : \A n \in S : ~(<<n, m>> \in OpToRel(<, Nat))
  BY NatLessThanWellFounded, WFMin, Zenon
<1>2. ASSUME NEW n \in Nat, m \in Nat, n < m PROVE <<n, m>> \in OpToRel(<, Nat)
  BY <1>2, Zenon DEF OpToRel
<1>3. \A n \in S : n \in Nat /\ m \in Nat
  OBVIOUS
<1>4. \A n \in S : ~(n < m)
  BY <1>1, <1>2, <1>3
<1> QED BY <1>3, <1>4

\* The depth of a line is a number; behind the last line it is zero.
LEMMA DepthIs ==
    ASSUME NEW p \in Seq(Statement), NEW i
    PROVE  /\ Depth(p, i) \in Nat
           /\ i \in Lines(p) => Depth(p, i) = p[i].depth
           /\ i \notin Lines(p) => Depth(p, i) = 0
<1>1. ASSUME i \in Lines(p) PROVE p[i].depth \in Nat
  <2>1. p[i] \in Statement
    BY <1>1 DEF Lines
  <2> QED BY <2>1, ExtractMethodAssumption DEF Statement
<1> QED BY <1>1 DEF Depth

\* A block ends: at the last line before one that is not deeper than its head.
LEMMA BlockEndIs ==
    ASSUME NEW p \in Seq(Statement), NEW i \in Lines(p)
    PROVE  /\ BlockEnd(p, i) \in i..Len(p)
           /\ \A j \in (i + 1)..BlockEnd(p, i) : Depth(p, j) > Depth(p, i)
           /\ Depth(p, BlockEnd(p, i) + 1) <= Depth(p, i)
<1>1. Len(p) \in Nat /\ i \in 1..Len(p)
  BY DEF Lines
<1> DEFINE S == {e \in i..Len(p) : Depth(p, e + 1) <= Depth(p, i)}
<1>2. Len(p) \in S
  <2>1. Depth(p, Len(p) + 1) = 0 /\ Depth(p, i) \in Nat
    BY <1>1, DepthIs DEF Lines
  <2> QED BY <1>1, <2>1
<1>3. S \in SUBSET Nat
  BY <1>1
<1>4. PICK e \in S : \A f \in S : e <= f
  <2> HIDE DEF S
  <2> QED BY <1>2, <1>3, LeastNatural
<1>5. /\ e \in i..Len(p) /\ Depth(p, e + 1) <= Depth(p, i)
      /\ \A f \in i..Len(p) : Depth(p, f + 1) <= Depth(p, i) => e <= f
  BY <1>4
<1> HIDE DEF S
<1>6. Depth(p, i) = p[i].depth /\ \A j \in (i + 1)..Len(p) : Depth(p, j) = p[j].depth
  <2>1. \A j \in i..Len(p) : j \in Lines(p) /\ j \in Int
    BY <1>1 DEF Lines
  <2>2. \A j \in (i + 1)..Len(p) : j \in i..Len(p)
    BY <1>1
  <2> QED BY <1>1, <2>1, <2>2, DepthIs
<1>7. \A j \in (i + 1)..e : p[j].depth > p[i].depth
  <2> TAKE j \in (i + 1)..e
  <2>1. j - 1 \in i..Len(p) /\ j - 1 < e /\ (j - 1) + 1 = j /\ j \in (i + 1)..Len(p)
    BY <1>1, <1>5
  <2>2. ~(Depth(p, j) <= Depth(p, i))
    BY <1>5, <2>1
  <2>3. Depth(p, j) \in Nat /\ Depth(p, i) \in Nat
    BY <1>1, <2>1, DepthIs
  <2> QED BY <1>6, <2>1, <2>2, <2>3
<1>8. Depth(p, e + 1) <= p[i].depth
  BY <1>5, <1>6
<1>9. /\ BlockEnd(p, i) \in i..Len(p)
      /\ \A j \in (i + 1)..BlockEnd(p, i) : p[j].depth > p[i].depth
      /\ Depth(p, BlockEnd(p, i) + 1) <= p[i].depth
  BY <1>5, <1>7, <1>8 DEF BlockEnd
<1>10. \A j \in (i + 1)..BlockEnd(p, i) : Depth(p, j) > Depth(p, i)
  <2> TAKE j \in (i + 1)..BlockEnd(p, i)
  <2>1. j \in (i + 1)..Len(p)
    BY <1>1, <1>9
  <2> QED BY <1>6, <1>9, <2>1
<1> QED BY <1>6, <1>9, <1>10

\* The heads of a line are the heads above it that everything in between is
\* deeper than.
LEMMA HeadsAre ==
    ASSUME NEW p \in Seq(Statement), NEW i \in 1..(Len(p) + 1), NEW h
    PROVE  h \in Heads(p, i) <=>
             /\ h \in 1..(i - 1) /\ Branching(p[h].op)
             /\ \A k \in (h + 1)..i : Depth(p, k) > Depth(p, h)
<1> SUFFICES ASSUME h \in 1..(i - 1)
             PROVE  i <= BlockEnd(p, h) <=> \A k \in (h + 1)..i : Depth(p, k) > Depth(p, h)
  BY DEF Heads
<1>1. Len(p) \in Nat /\ h \in Lines(p) /\ h \in Int /\ i \in Int
  BY DEF Lines
<1> DEFINE e == BlockEnd(p, h)
<1>2. /\ e \in h..Len(p)
      /\ \A j \in (h + 1)..e : Depth(p, j) > Depth(p, h)
      /\ Depth(p, e + 1) <= Depth(p, h)
  BY <1>1, BlockEndIs
<1> HIDE DEF e
<1>3. ASSUME i <= e, NEW k \in (h + 1)..i PROVE Depth(p, k) > Depth(p, h)
  <2>1. k \in (h + 1)..e
    BY <1>1, <1>2, <1>3
  <2> QED BY <1>2, <2>1
<1>4. ASSUME \A k \in (h + 1)..i : Depth(p, k) > Depth(p, h), ~(i <= e) PROVE FALSE
  <2>1. e + 1 \in (h + 1)..i
    BY <1>1, <1>2, <1>4
  <2>2. Depth(p, e + 1) > Depth(p, h) /\ Depth(p, e + 1) \in Nat /\ Depth(p, h) \in Nat
    BY <1>1, <1>2, <1>4, <2>1, DepthIs
  <2> QED BY <1>2, <2>2
<1> QED BY <1>3, <1>4 DEF e

\* The heads of a head of a line are heads of the line.
LEMMA HeadsNested ==
    ASSUME NEW p \in Seq(Statement), NEW i \in 1..(Len(p) + 1), NEW h \in Heads(p, i)
    PROVE  h \in Lines(p) /\ h < i /\ Heads(p, h) \subseteq Heads(p, i)
<1>1. Len(p) \in Nat /\ h \in 1..(i - 1) /\ h \in 1..(Len(p) + 1) /\ h \in Lines(p)
  BY DEF Heads, Lines
<1>2. \A k \in (h + 1)..i : Depth(p, k) > Depth(p, h)
  BY HeadsAre
<1>3. ASSUME NEW g \in Heads(p, h) PROVE g \in Heads(p, i)
  <2>1. /\ g \in 1..(h - 1) /\ Branching(p[g].op)
        /\ \A k \in (g + 1)..h : Depth(p, k) > Depth(p, g)
    BY <1>1, <1>3, HeadsAre
  <2>2. Depth(p, h) > Depth(p, g) /\ Depth(p, h) \in Nat /\ Depth(p, g) \in Nat
    BY <1>1, <2>1, DepthIs
  <2>3. ASSUME NEW k \in (g + 1)..i PROVE Depth(p, k) > Depth(p, g)
    <3>1. CASE k \in (g + 1)..h
      BY <2>1, <3>1
    <3>2. CASE k \in (h + 1)..i
      <4>1. Depth(p, k) > Depth(p, h) /\ Depth(p, k) \in Nat
        BY <1>2, <3>2, DepthIs
      <4> QED BY <2>2, <4>1
    <3> QED BY <1>1, <2>1, <3>1, <3>2
  <2>4. g \in 1..(i - 1)
    BY <1>1, <2>1
  <2>5. /\ g \in 1..(i - 1) /\ Branching(p[g].op)
        /\ \A k \in (g + 1)..i : Depth(p, k) > Depth(p, g)
    BY <2>1, <2>3, <2>4
  <2>6. g \in Heads(p, i) <=>
          /\ g \in 1..(i - 1) /\ Branching(p[g].op)
          /\ \A k \in (g + 1)..i : Depth(p, k) > Depth(p, g)
    BY HeadsAre, Zenon
  <2> QED BY <2>5, <2>6, Zenon
<1>4. h < i
  BY <1>1
<1>5. Heads(p, h) \subseteq Heads(p, i)
  BY <1>3
<1> QED BY <1>1, <1>4, <1>5
-----------------------------------------------------------------------------
(* From line to line *)

\* The lines that may follow line i: the next one, the one behind the block of
\* a head, and the head of a loop the line is in.
Follows(p, i, j) ==
    \/ j = i + 1
    \/ Branching(p[i].op) /\ j = BlockEnd(p, i) + 1
    \/ j \in Heads(p, i) /\ p[j].op = "while"

\* What comes behind a line is the line given or the head of a loop.
LEMMA BehindIs ==
    ASSUME program \in Seq(Statement), NEW i \in Lines(program), NEW j \in Nat
    PROVE  \/ Behind(i, j) = j
           \/ Behind(i, j) \in Heads(program, i) /\ program[Behind(i, j)].op = "while"
<1> DEFINE loops == {h \in Heads(program, i) :
                       program[h].op = "while" /\ BlockEnd(program, h) = j - 1}
           S == {i - h : h \in loops}
<1>1. i \in Nat /\ \A h \in Heads(program, i) : h \in Nat /\ i - h \in Nat
  BY DEF Lines, Heads
<1>2. CASE loops = {}
  BY <1>2 DEF Behind
<1>3. CASE loops # {}
  <2>1. S \in SUBSET Nat /\ S # {}
    BY <1>1, <1>3
  <2>2. PICK m \in S : \A n \in S : m <= n
    <3> HIDE DEF S
    <3> QED BY <2>1, LeastNatural
  <2>3. PICK h \in loops : m = i - h
    BY <2>2
  <2>4. \A g \in loops : g <= h
    <3> TAKE g \in loops
    <3>1. i - g \in S
      OBVIOUS
    <3>2. i - h <= i - g
      BY <2>2, <2>3, <3>1
    <3>3. h \in Nat /\ g \in Nat
      BY <1>1
    <3> QED BY <1>1, <3>2, <3>3
  <2>5. \E k \in loops : \A g \in loops : g <= k
    BY <2>4
  <2>6. (CHOOSE k \in loops : \A g \in loops : g <= k) \in loops
    <3> HIDE DEF loops
    <3> QED BY <2>5
  <2>7. Behind(i, j) = (CHOOSE k \in loops : \A g \in loops : g <= k)
    BY <1>3, Zenon DEF Behind
  <2> QED BY <2>6, <2>7
<1> QED BY <1>2, <1>3

\* What a line follows is a line of the program, or it is behind the last one.
LEMMA FollowsIs ==
    ASSUME NEW p \in Seq(Statement), NEW i \in Lines(p), NEW j, Follows(p, i, j)
    PROVE  /\ j \in 1..(Len(p) + 1)
           /\ j \in Lines(p) \/ j = Len(p) + 1
<1>1. Len(p) \in Nat /\ i \in 1..Len(p)
  BY DEF Lines
<1>2. CASE j = i + 1
  BY <1>1, <1>2 DEF Lines
<1>3. CASE j = BlockEnd(p, i) + 1
  <2>1. BlockEnd(p, i) \in i..Len(p)
    BY BlockEndIs
  <2> QED BY <1>1, <1>3, <2>1 DEF Lines
<1>4. CASE j \in Heads(p, i)
  BY <1>1, <1>4 DEF Heads, Lines
<1> QED BY <1>2, <1>3, <1>4 DEF Follows

\* Behind a line that is no head nothing is deeper.
LEMMA NextHeads ==
    ASSUME NEW p \in Seq(Statement), IsProgram(p), NEW i \in Lines(p)
    PROVE  Heads(p, i + 1) \subseteq Heads(p, i) \cup {i}
<1>1. Len(p) \in Nat /\ i \in 1..Len(p) /\ i \in 1..(Len(p) + 1) /\ i + 1 \in 1..(Len(p) + 1)
  BY DEF Lines
<1> SUFFICES ASSUME NEW h \in Heads(p, i + 1), h # i PROVE h \in Heads(p, i)
  OBVIOUS
<1>2. h \in Heads(p, i + 1) <=>
        /\ h \in 1..((i + 1) - 1) /\ Branching(p[h].op)
        /\ \A k \in (h + 1)..(i + 1) : Depth(p, k) > Depth(p, h)
  BY <1>1, HeadsAre, Zenon
<1>3. h \in Heads(p, i) <=>
        /\ h \in 1..(i - 1) /\ Branching(p[h].op)
        /\ \A k \in (h + 1)..i : Depth(p, k) > Depth(p, h)
  BY <1>1, HeadsAre, Zenon
<1>4. h \in 1..(i - 1) /\ \A k \in (h + 1)..i : k \in (h + 1)..(i + 1)
  BY <1>1, <1>2
<1> QED BY <1>2, <1>3, <1>4

\* What came when a line is reached came when the line before it was, or is
\* that line.
LEMMA ComesBefore ==
    ASSUME NEW p \in Seq(Statement), IsProgram(p), NEW i \in Lines(p), NEW j, Follows(p, i, j),
           NEW k \in Lines(p), k < j, Heads(p, k) \subseteq Heads(p, j)
    PROVE  k = i \/ (k < i /\ Heads(p, k) \subseteq Heads(p, i))
<1>1. Len(p) \in Nat /\ i \in 1..Len(p) /\ k \in 1..Len(p) /\ i \in 1..(Len(p) + 1)
  BY DEF Lines
<1>2. \A h \in Heads(p, k) : h < k /\ h \in Nat
  BY <1>1 DEF Heads
<1>3. CASE j = i + 1
  <2>1. k = i \/ k < i
    BY <1>1, <1>3
  <2>2. ASSUME k < i PROVE Heads(p, k) \subseteq Heads(p, i)
    <3>1. i \notin Heads(p, k)
      BY <1>1, <1>2, <2>2
    <3> QED BY <1>3, <3>1, NextHeads
  <2> QED BY <2>1, <2>2
<1>4. CASE Branching(p[i].op) /\ j = BlockEnd(p, i) + 1
  <2> DEFINE e == BlockEnd(p, i)
  <2>1. /\ e \in i..Len(p)
        /\ \A l \in (i + 1)..e : Depth(p, l) > Depth(p, i)
        /\ Depth(p, e + 1) <= Depth(p, i)
    BY BlockEndIs
  <2>2. j = e + 1 /\ Depth(p, j) <= Depth(p, i)
    BY <1>4, <2>1
  <2> HIDE DEF e
  <2>3. j \in 1..(Len(p) + 1) /\ j \in Nat /\ i < j /\ k <= e
    BY <1>1, <2>1, <2>2
  <2>4. \A h : h \in Heads(p, j) <=>
          /\ h \in 1..(j - 1) /\ Branching(p[h].op)
          /\ \A l \in (h + 1)..j : Depth(p, l) > Depth(p, h)
    BY <2>3, HeadsAre, Zenon
  <2>5. i \notin Heads(p, j)
    <3>1. j \in (i + 1)..j
      BY <1>1, <2>3
    <3>2. Depth(p, j) \in Nat /\ Depth(p, i) \in Nat
      BY <1>1, <2>3, DepthIs
    <3> QED BY <2>2, <2>4, <3>1, <3>2
  <2>6. ~(k > i)
    <3> SUFFICES ASSUME k > i PROVE FALSE
      OBVIOUS
    <3>1. i \in Heads(p, k) <=>
            /\ i \in 1..(k - 1) /\ Branching(p[i].op)
            /\ \A l \in (i + 1)..k : Depth(p, l) > Depth(p, i)
      <4>1. k \in 1..(Len(p) + 1)
        BY <1>1
      <4> QED BY <4>1, HeadsAre, Zenon
    <3>2. i \in 1..(k - 1) /\ \A l \in (i + 1)..k : l \in (i + 1)..e
      BY <1>1, <2>1, <2>3
    <3>3. i \in Heads(p, k)
      BY <1>4, <2>1, <3>1, <3>2
    <3> QED BY <2>5, <3>3
  <2>7. ASSUME k < i, NEW h \in Heads(p, k) PROVE h \in Heads(p, i)
    <3>1. h \in Heads(p, j)
      OBVIOUS
    <3>2. /\ h \in 1..(j - 1) /\ Branching(p[h].op)
          /\ \A l \in (h + 1)..j : Depth(p, l) > Depth(p, h)
      BY <2>4, <3>1, Zenon
    <3>3. h \in 1..(i - 1) /\ \A l \in (h + 1)..i : l \in (h + 1)..j
      BY <1>1, <1>2, <2>3, <2>7, <3>2
    <3>4. h \in Heads(p, i) <=>
            /\ h \in 1..(i - 1) /\ Branching(p[h].op)
            /\ \A l \in (h + 1)..i : Depth(p, l) > Depth(p, h)
      BY <1>1, HeadsAre, Zenon
    <3> QED BY <3>2, <3>3, <3>4
  <2> QED BY <1>1, <2>6, <2>7
<1>5. CASE j \in Heads(p, i)
  <2>1. j < i /\ Heads(p, j) \subseteq Heads(p, i) /\ j \in Lines(p)
    BY <1>1, <1>5, HeadsNested
  <2> QED BY <1>1, <2>1 DEF Lines
<1> QED BY <1>3, <1>4, <1>5 DEF Follows
-----------------------------------------------------------------------------
(* The piece *)

\* What is known of a piece: it is not in a loop, and nothing of it is less
\* deep than its first line.
LEMMA PieceIs ==
    ASSUME NEW p \in Seq(Statement), NEW r \in Regions(p)
    PROVE  /\ r[1] \in Lines(p) /\ r[2] \in Lines(p) /\ r[1] <= r[2]
           /\ \A i \in r[1]..r[2] : i \in Lines(p) /\ Depth(p, i) >= Depth(p, r[1])
           /\ Depth(p, r[2] + 1) <= Depth(p, r[1])
<1>1. /\ r[1] \in Lines(p) /\ r[2] \in Lines(p) /\ r[1] <= r[2]
      /\ \A i \in r[1]..r[2] : p[i].depth >= p[r[1]].depth
      /\ Depth(p, r[2] + 1) <= p[r[1]].depth
  BY DEF Regions
<1>2. Len(p) \in Nat /\ \A i \in r[1]..r[2] : i \in Lines(p) /\ i \in Int
  BY <1>1 DEF Lines
<1>3. Depth(p, r[1]) = p[r[1]].depth
  BY <1>1, DepthIs DEF Lines
<1>4. ASSUME NEW i \in r[1]..r[2] PROVE Depth(p, i) >= Depth(p, r[1])
  <2>1. Depth(p, i) = p[i].depth
    BY <1>2, DepthIs
  <2> QED BY <1>1, <1>3, <2>1
<1> QED BY <1>1, <1>2, <1>3, <1>4

\* A head above the piece that has a line of it in its block has all of it.
LEMMA PieceHeads ==
    ASSUME NEW p \in Seq(Statement), NEW r \in Regions(p), NEW i \in r[1]..r[2]
    PROVE  /\ Heads(p, r[1]) \subseteq Heads(p, i)
           /\ \A h \in Heads(p, i) : h < r[1] => h \in Heads(p, r[1])
<1>1. /\ Len(p) \in Nat /\ r[1] \in 1..Len(p) /\ r[2] \in 1..Len(p) /\ i \in 1..(Len(p) + 1)
      /\ r[1] <= i /\ r[1] \in 1..(Len(p) + 1)
  BY PieceIs DEF Lines
<1>2. \A h : h \in Heads(p, i) <=>
        /\ h \in 1..(i - 1) /\ Branching(p[h].op)
        /\ \A k \in (h + 1)..i : Depth(p, k) > Depth(p, h)
  BY <1>1, HeadsAre, Zenon
<1>3. \A h : h \in Heads(p, r[1]) <=>
        /\ h \in 1..(r[1] - 1) /\ Branching(p[h].op)
        /\ \A k \in (h + 1)..r[1] : Depth(p, k) > Depth(p, h)
  BY <1>1, HeadsAre, Zenon
<1>4. ASSUME NEW h \in Heads(p, r[1]) PROVE h \in Heads(p, i)
  <2>1. /\ h \in 1..(r[1] - 1) /\ Branching(p[h].op)
        /\ \A k \in (h + 1)..r[1] : Depth(p, k) > Depth(p, h)
    BY <1>3
  <2>2. Depth(p, r[1]) > Depth(p, h) /\ Depth(p, r[1]) \in Nat /\ Depth(p, h) \in Nat
    BY <1>1, <2>1, DepthIs
  <2>3. ASSUME NEW k \in (h + 1)..i PROVE Depth(p, k) > Depth(p, h)
    <3>1. CASE k \in (h + 1)..r[1]
      BY <2>1, <3>1
    <3>2. CASE k \in r[1]..r[2]
      <4>1. Depth(p, k) >= Depth(p, r[1]) /\ Depth(p, k) \in Nat
        BY <3>2, PieceIs, DepthIs
      <4> QED BY <2>2, <4>1
    <3> QED BY <1>1, <2>1, <3>1, <3>2
  <2>4. h \in 1..(i - 1)
    BY <1>1, <2>1
  <2> QED BY <1>2, <2>1, <2>3, <2>4
<1>5. ASSUME NEW h \in Heads(p, i), h < r[1] PROVE h \in Heads(p, r[1])
  <2>1. /\ h \in 1..(i - 1) /\ Branching(p[h].op)
        /\ \A k \in (h + 1)..i : Depth(p, k) > Depth(p, h)
    BY <1>2
  <2>2. h \in 1..(r[1] - 1) /\ \A k \in (h + 1)..r[1] : k \in (h + 1)..i
    BY <1>1, <1>5, <2>1
  <2> QED BY <1>3, <2>1, <2>2
<1> QED BY <1>4, <1>5

\* From above the piece the program comes to its first line, or past it.
LEMMA FromAbove ==
    ASSUME NEW p \in Seq(Statement), NEW r \in Regions(p), NEW i \in Lines(p),
           NEW j, Follows(p, i, j), i < r[1]
    PROVE  j <= r[1] \/ j > r[2]
<1>1. /\ Len(p) \in Nat /\ r[1] \in 1..Len(p) /\ r[2] \in 1..Len(p) /\ r[1] <= r[2]
      /\ i \in 1..Len(p) /\ j \in 1..(Len(p) + 1)
  BY PieceIs, FollowsIs DEF Lines
<1>2. CASE j = i + 1
  BY <1>1, <1>2
<1>3. CASE Branching(p[i].op) /\ j = BlockEnd(p, i) + 1
  <2> SUFFICES ASSUME j > r[1], j <= r[2] PROVE FALSE
    BY <1>1
  <2> DEFINE e == BlockEnd(p, i)
  <2>1. /\ e \in i..Len(p)
        /\ \A l \in (i + 1)..e : Depth(p, l) > Depth(p, i)
        /\ Depth(p, e + 1) <= Depth(p, i)
    BY BlockEndIs
  <2>2. j = e + 1 /\ Depth(p, j) <= Depth(p, i)
    BY <1>3, <2>1
  <2> HIDE DEF e
  <2>3. r[1] \in (i + 1)..e /\ j \in r[1]..r[2]
    BY <1>1, <2>1, <2>2
  <2>4. Depth(p, r[1]) > Depth(p, i) /\ Depth(p, j) >= Depth(p, r[1])
    BY <2>1, <2>3, PieceIs
  <2>5. Depth(p, r[1]) \in Nat /\ Depth(p, i) \in Nat /\ Depth(p, j) \in Nat
    BY <1>1, DepthIs
  <2> QED BY <2>2, <2>4, <2>5
<1>4. CASE j \in Heads(p, i)
  <2>1. j \in 1..(i - 1)
    BY <1>4 DEF Heads
  <2> QED BY <1>1, <2>1
<1> QED BY <1>2, <1>3, <1>4 DEF Follows

\* From the piece it comes to the piece, or to the line behind it.
LEMMA FromInside ==
    ASSUME NEW p \in Seq(Statement), NEW r \in Regions(p), NEW i \in r[1]..r[2],
           NEW j, Follows(p, i, j), \A h \in Heads(p, r[1]) : p[h].op # "while"
    PROVE  j \in r[1]..(r[2] + 1)
<1>1. /\ Len(p) \in Nat /\ r[1] \in 1..Len(p) /\ r[2] \in 1..Len(p) /\ r[1] <= r[2]
      /\ i \in Lines(p) /\ i \in 1..Len(p) /\ j \in 1..(Len(p) + 1)
  BY PieceIs, FollowsIs DEF Lines
<1>2. CASE j = i + 1
  BY <1>1, <1>2
<1>3. CASE Branching(p[i].op) /\ j = BlockEnd(p, i) + 1
  <2> DEFINE e == BlockEnd(p, i)
  <2>1. e \in i..Len(p) /\ \A l \in (i + 1)..e : Depth(p, l) > Depth(p, i)
    BY <1>1, BlockEndIs
  <2>2. j = e + 1
    BY <1>3
  <2> HIDE DEF e
  <2>3. ~(e > r[2])
    <3> SUFFICES ASSUME e > r[2] PROVE FALSE
      OBVIOUS
    <3>1. r[2] + 1 \in (i + 1)..e
      BY <1>1, <2>1
    <3>2. Depth(p, r[2] + 1) > Depth(p, i) /\ Depth(p, i) >= Depth(p, r[1])
      BY <2>1, <3>1, PieceIs
    <3>3. Depth(p, r[2] + 1) <= Depth(p, r[1])
      BY PieceIs
    <3>4. Depth(p, r[1]) \in Nat /\ Depth(p, i) \in Nat /\ Depth(p, r[2] + 1) \in Nat
      BY <1>1, DepthIs
    <3> QED BY <3>2, <3>3, <3>4
  <2> QED BY <1>1, <2>1, <2>2, <2>3
<1>4. CASE j \in Heads(p, i) /\ p[j].op = "while"
  <2>1. j \in 1..(i - 1)
    BY <1>4 DEF Heads
  <2>2. ~(j < r[1])
    BY <1>4, PieceHeads
  <2> QED BY <1>1, <2>1, <2>2
<1> QED BY <1>2, <1>3, <1>4 DEF Follows

\* From behind the piece it does not come back.
LEMMA FromBehind ==
    ASSUME NEW p \in Seq(Statement), NEW r \in Regions(p), NEW i \in Lines(p), i > r[2],
           NEW j, Follows(p, i, j), \A h \in Heads(p, r[1]) : p[h].op # "while"
    PROVE  j > r[2]
<1>1. /\ Len(p) \in Nat /\ r[1] \in 1..Len(p) /\ r[2] \in 1..Len(p) /\ r[1] <= r[2]
      /\ i \in 1..Len(p) /\ j \in 1..(Len(p) + 1)
  BY PieceIs, FollowsIs DEF Lines
<1>2. CASE j = i + 1
  BY <1>1, <1>2
<1>3. CASE j = BlockEnd(p, i) + 1
  <2>1. BlockEnd(p, i) \in i..Len(p)
    BY BlockEndIs
  <2> QED BY <1>1, <1>3, <2>1
<1>4. CASE j \in Heads(p, i) /\ p[j].op = "while"
  <2> SUFFICES ASSUME j <= r[2] PROVE FALSE
    BY <1>1
  <2>1. j \in 1..(i - 1) /\ Branching(p[j].op)
    BY <1>4 DEF Heads
  <2>2. j \in Heads(p, i) <=>
          /\ j \in 1..(i - 1) /\ Branching(p[j].op)
          /\ \A k \in (j + 1)..i : Depth(p, k) > Depth(p, j)
    <3>1. i \in 1..(Len(p) + 1)
      BY <1>1
    <3> QED BY <3>1, HeadsAre, Zenon
  <2>3. \A k \in (j + 1)..i : Depth(p, k) > Depth(p, j)
    BY <1>4, <2>2, Zenon
  <2>4. CASE j < r[1]
    <3>1. j \in Heads(p, r[1]) <=>
            /\ j \in 1..(r[1] - 1) /\ Branching(p[j].op)
            /\ \A k \in (j + 1)..r[1] : Depth(p, k) > Depth(p, j)
      <4>1. r[1] \in 1..(Len(p) + 1)
        BY <1>1
      <4> QED BY <4>1, HeadsAre, Zenon
    <3>2. j \in 1..(r[1] - 1) /\ \A k \in (j + 1)..r[1] : k \in (j + 1)..i
      BY <1>1, <2>1, <2>4
    <3> QED BY <1>4, <2>1, <2>3, <3>1, <3>2
  <2>5. CASE j \in r[1]..r[2]
    <3>1. r[2] + 1 \in (j + 1)..i
      BY <1>1, <2>5
    <3>2. Depth(p, r[2] + 1) > Depth(p, j) /\ Depth(p, j) >= Depth(p, r[1])
      BY <2>3, <2>5, <3>1, PieceIs
    <3>3. Depth(p, r[2] + 1) <= Depth(p, r[1])
      BY PieceIs
    <3>4. Depth(p, r[1]) \in Nat /\ Depth(p, j) \in Nat /\ Depth(p, r[2] + 1) \in Nat
      BY <1>1, DepthIs
    <3> QED BY <3>2, <3>3, <3>4
  <2> QED BY <1>1, <2>4, <2>5
<1> QED BY <1>2, <1>3, <1>4 DEF Follows

\* When the piece is left, what is set on its way has come.
LEMMA FromInsideAll ==
    ASSUME NEW p \in Seq(Statement), NEW r \in Regions(p), NEW i \in r[1]..r[2],
           Follows(p, i, r[2] + 1), NEW k \in 1..r[2], Heads(p, k) \subseteq Heads(p, r[1])
    PROVE  k <= i
<1>1. /\ Len(p) \in Nat /\ r[1] \in 1..Len(p) /\ r[2] \in 1..Len(p) /\ r[1] <= r[2]
      /\ i \in Lines(p) /\ i \in 1..Len(p) /\ k \in 1..(Len(p) + 1)
  BY PieceIs DEF Lines
<1> SUFFICES ASSUME i < k PROVE FALSE
  BY <1>1
<1>2. CASE r[2] + 1 = i + 1
  BY <1>1, <1>2
<1>3. CASE Branching(p[i].op) /\ r[2] + 1 = BlockEnd(p, i) + 1
  <2> DEFINE e == BlockEnd(p, i)
  <2>1. e \in i..Len(p) /\ \A l \in (i + 1)..e : Depth(p, l) > Depth(p, i)
    BY <1>1, BlockEndIs
  <2>2. e = r[2]
    BY <1>1, <1>3, <2>1
  <2> HIDE DEF e
  <2>3. i \in 1..(k - 1) /\ \A l \in (i + 1)..k : l \in (i + 1)..e
    BY <1>1, <2>1, <2>2
  <2>4. i \in Heads(p, k) <=>
          /\ i \in 1..(k - 1) /\ Branching(p[i].op)
          /\ \A l \in (i + 1)..k : Depth(p, l) > Depth(p, i)
    BY <1>1, HeadsAre, Zenon
  <2>5. i \in Heads(p, r[1])
    BY <1>3, <2>1, <2>3, <2>4
  <2>6. i \in 1..(r[1] - 1)
    BY <2>5 DEF Heads
  <2> QED BY <1>1, <2>6
<1>4. CASE r[2] + 1 \in Heads(p, i)
  <2>1. r[2] + 1 \in 1..(i - 1)
    BY <1>4 DEF Heads
  <2> QED BY <1>1, <2>1
<1> QED BY <1>2, <1>3, <1>4 DEF Follows

-----------------------------------------------------------------------------
(* The steps of an extraction *)

\* A step to line j, with e the variables of the frame that runs: the start of
\* the function, or a line of it that sets a variable or does not.
Starts(e, j) == pc = 0 /\ j = 1 /\ e = outer /\ env' = env

Writes(e, j) ==
    /\ Running /\ Follows(program, pc, j) /\ Sets(pc)
    /\ env' = [env EXCEPT ![program[pc].var] = pc]
    /\ e = [Frame EXCEPT ![program[pc].var] = pc]

Reads(e, j) ==
    /\ Running /\ Follows(program, pc, j) /\ ~Sets(pc)
    /\ env' = env /\ e = Frame

\* Every step is one of the three.
LEMMA StepIs ==
    ASSUME ExtractionTyped, Next
    PROVE  \E e, j : Move(e, j) /\ (Starts(e, j) \/ Writes(e, j) \/ Reads(e, j))
<1>1. program \in Seq(Statement) /\ pc \in 0..(Len(program) + 1) /\ Len(program) \in Nat
  BY DEF ExtractionTyped
<1>2. CASE Begin
  BY <1>2 DEF Begin, Starts
<1>3. ASSUME Running
      PROVE  /\ pc \in Lines(program) /\ Follows(program, pc, Behind(pc, pc + 1))
             /\ Follows(program, pc, pc + 1)
             /\ Branching(program[pc].op) =>
                  Follows(program, pc, Behind(pc, BlockEnd(program, pc) + 1))
  <2>1. pc \in Lines(program)
    BY <1>3 DEF Running
  <2>2. pc + 1 \in Nat /\ BlockEnd(program, pc) + 1 \in Nat
    <3>1. BlockEnd(program, pc) \in pc..Len(program)
      BY <1>1, <2>1, BlockEndIs
    <3> QED BY <1>1, <3>1
  <2>3. \/ Behind(pc, pc + 1) = pc + 1
        \/ Behind(pc, pc + 1) \in Heads(program, pc) /\ program[Behind(pc, pc + 1)].op = "while"
    BY <1>1, <2>1, <2>2, BehindIs
  <2> DEFINE n == BlockEnd(program, pc) + 1
  <2>4. n \in Nat
    BY <2>2
  <2> HIDE DEF n
  <2>5. \/ Behind(pc, n) = n
        \/ Behind(pc, n) \in Heads(program, pc) /\ program[Behind(pc, n)].op = "while"
    BY <1>1, <2>1, <2>4, BehindIs
  <2> QED BY <2>1, <2>3, <2>5 DEF Follows, n
<1>4. CASE Set
  BY <1>3, <1>4 DEF Set, Writes
<1>5. CASE Use
  BY <1>3, <1>5 DEF Use, Reads, Sets
<1>6. CASE GoIn
  BY <1>3, <1>6 DEF GoIn, Reads, Sets, Branching
<1>7. CASE GoPast
  BY <1>3, <1>7 DEF GoPast, Reads, Sets, Branching
<1> QED BY <1>2, <1>4, <1>5, <1>6, <1>7 DEF Next

\* What is computed from the program does not change.
LEMMA ProgramStays ==
    ASSUME program' = program, params' = params, region' = region
    PROVE  /\ Prewritten' = Prewritten /\ Written' = Written /\ MaybeWritten' = MaybeWritten
           /\ Postread' = Postread /\ Arguments' = Arguments /\ Returns' = Returns
           /\ Piece' = Piece /\ Excused' = Excused
<1>1. Prewritten' = Prewritten /\ Piece' = Piece
  BY DEF Prewritten, Piece, VarAt, Sets
<1>2. Written' = Written /\ MaybeWritten' = MaybeWritten /\ Postread' = Postread
  BY DEF Written, MaybeWritten, Postread, Piece, VarAt, Sets, Uses, Conditional
<1>3. Read' = Read
  BY DEF Read, Piece, VarAt, Sets, Uses, Conditional
<1>4. Arguments' = Arguments /\ Returns' = Returns
  BY <1>1, <1>2, <1>3 DEF Arguments, Returns
<1>5. Excused' = Excused
  <2>1. InLoop' = InLoop
    BY DEF InLoop
  <2>2. SetOnABranchBehind' = SetOnABranchBehind
    BY DEF SetOnABranchBehind, Sets, Uses
  <2>3. NoValueYet' = NoValueYet
    BY <1>4 DEF NoValueYet, SetFor, Sets
  <2>4. FlagLost' = FlagLost
    BY DEF FlagLost, Piece, Conditional
  <2> QED BY <2>1, <2>2, <2>3, <2>4 DEF Excused
<1> QED BY <1>1, <1>2, <1>4, <1>5

\* The sets of variables the extraction computes hold variables.
LEMMA SetsOfVars ==
    ASSUME ExtractionTyped
    PROVE  /\ \A i \in Lines(program) : program[i].var \in Vars
           /\ Written \cup MaybeWritten \subseteq Vars /\ Postread \subseteq Vars
           /\ Arguments \subseteq Vars /\ Returns \subseteq Vars
<1>1. /\ program \in Seq(Statement) /\ region \in Regions(program)
      /\ Len(program) \in Nat
  BY DEF ExtractionTyped
<1>2. ASSUME NEW i \in Lines(program) PROVE program[i].var \in Vars
  <2>1. program[i] \in Statement
    BY <1>1 DEF Lines
  <2> QED BY <2>1 DEF Statement
<1>3. Piece \subseteq Lines(program)
  BY <1>1, PieceIs DEF Piece
<1>4. Written \subseteq Vars /\ MaybeWritten \subseteq Vars /\ Read \subseteq Vars
  BY <1>2, <1>3 DEF Written, MaybeWritten, Read, VarAt
<1>5. \A i \in (region[2] + 1)..Len(program) : i \in Lines(program)
  BY <1>1, PieceIs DEF Lines
<1>6. Postread \subseteq Vars
  BY <1>2, <1>5 DEF Postread, VarAt
<1> QED BY <1>2, <1>4, <1>6 DEF Arguments, Returns

\* A variable that the step sets has its line as its value, in the original
\* and in the frame that runs; the others have the values they had.
LEMMA StepSets ==
    ASSUME ExtractionTyped, NEW e, NEW j,
           Starts(e, j) \/ Writes(e, j) \/ Reads(e, j)
    PROVE  /\ env' \in [Vars -> Nat \cup {Unbound}] /\ e \in [Vars -> Nat \cup {Unbound}]
           /\ Frame \in [Vars -> Nat \cup {Unbound}]
           /\ \A v \in Vars :
                \/ env'[v] = env[v] /\ e[v] = Frame[v]
                \/ /\ pc \in Lines(program) /\ Sets(pc) /\ program[pc].var = v
                   /\ env'[v] = pc /\ e[v] = pc /\ pc \in Nat
           /\ Sets(pc) /\ pc \in Lines(program) =>
                env'[program[pc].var] = pc /\ e[program[pc].var] = pc /\ pc \in Nat
<1>1. /\ program \in Seq(Statement) /\ region \in Regions(program)
      /\ pc \in 0..(Len(program) + 1) /\ Len(program) \in Nat
      /\ env \in [Vars -> Nat \cup {Unbound}]
      /\ outer \in [Vars -> Nat \cup {Unbound}]
      /\ inner \in [Vars -> Nat \cup {Unbound}]
  BY DEF ExtractionTyped
<1>2. Frame \in [Vars -> Nat \cup {Unbound}] /\ pc \in Nat
  BY <1>1 DEF Frame
<1>3. CASE Starts(e, j)
  <2>1. pc \notin Piece /\ pc \notin Lines(program)
    BY <1>1, <1>3, PieceIs DEF Starts, Piece, Lines
  <2> QED BY <1>1, <1>2, <1>3, <2>1 DEF Starts, Frame
<1>4. CASE Writes(e, j)
  <2>1. pc \in Lines(program) /\ program[pc].var \in Vars
    BY <1>4, SetsOfVars DEF Writes, Running
  <2>2. env' = [env EXCEPT ![program[pc].var] = pc] /\ e = [Frame EXCEPT ![program[pc].var] = pc]
        /\ Sets(pc)
    BY <1>4 DEF Writes
  <2> QED BY <1>1, <1>2, <2>1, <2>2
<1>5. CASE Reads(e, j)
  BY <1>1, <1>2, <1>5 DEF Reads
<1> QED BY <1>3, <1>4, <1>5

\* The types stay.
LEMMA ExtractionTypes ==
    ASSUME ExtractionTyped, NEW e, NEW j, Move(e, j),
           Starts(e, j) \/ Writes(e, j) \/ Reads(e, j)
    PROVE  ExtractionTyped'
<1>1. /\ program \in Seq(Statement) /\ IsProgram(program) /\ program # <<>>
      /\ region \in Regions(program)
      /\ pc \in 0..(Len(program) + 1) /\ Len(program) \in Nat
      /\ outer \in [Vars -> Nat \cup {Unbound}]
      /\ inner \in [Vars -> Nat \cup {Unbound}] /\ broken \in BOOLEAN
  BY DEF ExtractionTyped
<1>2. env' \in [Vars -> Nat \cup {Unbound}] /\ e \in [Vars -> Nat \cup {Unbound}]
  BY StepSets
<1>3. j \in 0..(Len(program) + 1)
  <2>1. CASE Starts(e, j)
    BY <1>1, <2>1 DEF Starts
  <2>2. CASE Writes(e, j) \/ Reads(e, j)
    <3>1. pc \in Lines(program) /\ Follows(program, pc, j)
      BY <2>2 DEF Writes, Reads, Running
    <3>2. j \in 1..(Len(program) + 1)
      BY <1>1, <3>1, FollowsIs
    <3> QED BY <1>1, <3>2
  <2> QED BY <2>1, <2>2
<1>4. pc' = j /\ program' = program /\ region' = region
  BY DEF Move
<1>5. /\ outer' \in [Vars -> Nat \cup {Unbound}]
      /\ inner' \in [Vars -> Nat \cup {Unbound}] /\ broken' \in BOOLEAN
  <2>1. CASE pc \in Piece /\ j \in Piece
    BY <1>1, <1>2, <2>1 DEF Move
  <2>2. CASE pc \in Piece /\ j \notin Piece
    BY <1>1, <1>2, <2>2 DEF Move, Leave
  <2>3. CASE pc \notin Piece /\ j \in Piece
    BY <1>1, <1>2, <2>3 DEF Move, Enter, Restricted
  <2>4. CASE pc \notin Piece /\ j \notin Piece
    BY <1>1, <1>2, <2>4 DEF Move
  <2> QED BY <2>1, <2>2, <2>3, <2>4
<1> QED BY <1>1, <1>2, <1>3, <1>4, <1>5 DEF ExtractionTyped

\* What came when line j is reached is the line left, or came before it.
LEMMA CameBefore ==
    ASSUME ExtractionTyped, NEW e, NEW j,
           Starts(e, j) \/ Writes(e, j) \/ Reads(e, j),
           NEW k \in Lines(program), Comes(k, j)
    PROVE  k = pc \/ Comes(k, pc)
<1>1. program \in Seq(Statement) /\ IsProgram(program) /\ k < j
      /\ Heads(program, k) \subseteq Heads(program, j)
  BY DEF ExtractionTyped, Comes
<1>2. CASE Starts(e, j)
  <2>1. k \in 1..Len(program) /\ Len(program) \in Nat
    BY <1>1 DEF Lines
  <2> QED BY <1>1, <1>2, <2>1 DEF Starts
<1>3. CASE Writes(e, j) \/ Reads(e, j)
  <2>1. pc \in Lines(program) /\ Follows(program, pc, j)
    BY <1>3 DEF Writes, Reads, Running
  <2> QED BY <1>1, <2>1, ComesBefore DEF Comes
<1> QED BY <1>2, <1>3

\* Variables that have a value for sure have one after the step.
LEMMA ValuesStay ==
    ASSUME ExtractionTyped, ValuesThere, NEW e, NEW j, Move(e, j),
           Starts(e, j) \/ Writes(e, j) \/ Reads(e, j)
    PROVE  ValuesThere'
<1>1. pc' = j /\ program' = program /\ params' = params
  BY DEF Move
<1>2. Unbound \notin Nat
  BY ExtractMethodAssumption
<1>3. ASSUME NEW v \in params \cap Vars PROVE env'[v] # Unbound
  BY <1>2, StepSets DEF ValuesThere
<1>4. ASSUME NEW i \in Lines(program), Sets(i), Comes(i, j) PROVE env'[program[i].var] # Unbound
  <2>1. CASE i = pc
    <3>1. pc \in Lines(program) /\ Sets(pc)
      BY <1>4, <2>1
    <3> QED BY <1>2, <2>1, <3>1, StepSets
  <2>2. CASE Comes(i, pc)
    <3>1. env[program[i].var] # Unbound /\ program[i].var \in Vars
      BY <1>4, <2>2, SetsOfVars DEF ValuesThere
    <3> QED BY <1>2, <3>1, StepSets
  <2> QED BY <1>4, <2>1, <2>2, CameBefore
<1>5. \A i \in Lines(program) : Sets(i)' = Sets(i)
  BY <1>1 DEF Sets
<1>6. \A i \in Lines(program) : Comes(i, pc)' = Comes(i, j)
  BY <1>1 DEF Comes
<1> QED BY <1>1, <1>3, <1>4, <1>5, <1>6 DEF ValuesThere

\* Where the step goes: above the piece to its first line or past it, from
\* inside it to the line behind it, and from behind it not back.
LEMMA StepGoes ==
    ASSUME ExtractionTyped, ~Excused, NEW e, NEW j,
           Starts(e, j) \/ Writes(e, j) \/ Reads(e, j)
    PROVE  /\ pc \in Nat /\ j \in Nat /\ region[1] \in Lines(program)
           /\ region[1] \in Nat /\ region[2] \in Nat /\ region[1] <= region[2]
           /\ Piece = region[1]..region[2]
           /\ pc < region[1] => (j <= region[1] \/ j > region[2])
           /\ pc \in Piece => (j \in Piece \/ j = region[2] + 1)
           /\ pc > region[2] => j > region[2]
<1>1. /\ program \in Seq(Statement) /\ region \in Regions(program)
      /\ pc \in 0..(Len(program) + 1) /\ Len(program) \in Nat
  BY DEF ExtractionTyped
<1>2. /\ region[1] \in Lines(program) /\ region[1] \in Nat /\ region[2] \in Nat
      /\ region[1] <= region[2] /\ region[1] >= 1 /\ region[2] <= Len(program)
  BY <1>1, PieceIs DEF Lines
<1>3. CASE Starts(e, j)
  BY <1>1, <1>2, <1>3 DEF Starts, Piece
<1>4. CASE Writes(e, j) \/ Reads(e, j)
  <2>1. pc \in Lines(program) /\ Follows(program, pc, j)
    BY <1>4 DEF Writes, Reads, Running
  <2>2. \A h \in Heads(program, region[1]) : program[h].op # "while"
    BY DEF Excused, InLoop
  <2>3. j \in 1..(Len(program) + 1)
    BY <1>1, <2>1, FollowsIs
  <2>4. pc < region[1] => j <= region[1] \/ j > region[2]
    BY <1>1, <2>1, FromAbove
  <2>5. pc \in Piece => j \in region[1]..(region[2] + 1)
    BY <1>1, <2>1, <2>2, FromInside DEF Piece
  <2>6. pc > region[2] => j > region[2]
    BY <1>1, <2>1, <2>2, FromBehind
  <2> QED BY <1>1, <1>2, <2>3, <2>4, <2>5, <2>6 DEF Piece
<1> QED BY <1>3, <1>4

\* The step before the piece.
LEMMA StepBefore ==
    ASSUME ExtractionTyped, ~Excused, ~broken, ValuesThere, ValuesThere', BeforePiece,
           NEW e, NEW j, Move(e, j), Starts(e, j) \/ Writes(e, j) \/ Reads(e, j),
           pc < region[1]
    PROVE  ~broken' /\ BeforePiece' /\ InsidePiece' /\ BehindPiece'
<1>1. /\ pc \in Nat /\ j \in Nat /\ region[1] \in Nat /\ region[2] \in Nat
      /\ region[1] <= region[2] /\ (j <= region[1] \/ j > region[2])
      /\ Piece = region[1]..region[2]
  BY StepGoes
<1>2. pc \notin Piece /\ Frame = outer /\ outer = env
  BY <1>1 DEF Frame, BeforePiece
<1>3. pc' = j /\ program' = program /\ params' = params /\ region' = region
  BY DEF Move
<1>4. /\ Prewritten' = Prewritten /\ Written' = Written /\ MaybeWritten' = MaybeWritten
      /\ Arguments' = Arguments /\ Piece' = Piece
  BY <1>3, ProgramStays
<1>5. e = env'
  <2>1. e \in [Vars -> Nat \cup {Unbound}] /\ env' \in [Vars -> Nat \cup {Unbound}]
    BY StepSets
  <2>2. \A v \in Vars : e[v] = env'[v]
    BY <1>2, StepSets
  <2> QED BY <2>1, <2>2
<1>6. \A v \in Vars \ Prewritten : env'[v] = Unbound
  <2> TAKE v \in Vars \ Prewritten
  <2>1. env[v] = Unbound
    BY BeforePiece, pc < region[1] DEF BeforePiece
  <2>2. ~(pc \in Lines(program) /\ Sets(pc) /\ program[pc].var = v)
    <3> SUFFICES ASSUME pc \in Lines(program), Sets(pc), program[pc].var = v PROVE FALSE
      OBVIOUS
    <3>1. pc \in 1..(region[1] - 1)
      BY <1>1 DEF Lines
    <3> QED BY <3>1 DEF Prewritten, VarAt
  <2> QED BY <2>1, <2>2, StepSets
<1>7. CASE j = region[1]
  <2>1. j \in Piece /\ Enter(e)
    <3>1. j \in Piece
      BY <1>1, <1>7
    <3> QED BY <1>2, <3>1 DEF Move
  <2>2. inner' = Restricted(env', Arguments) /\ outer' = env'
        /\ broken' = (\E v \in Arguments : env'[v] = Unbound)
    BY <1>5, <2>1 DEF Enter
  <2>3. ASSUME NEW v \in Arguments PROVE env'[v] # Unbound
    <3>1. v \in Vars
      BY SetsOfVars
    <3>2. CASE v \in params
      BY <1>3, <3>1, <3>2 DEF ValuesThere
    <3>3. CASE v \notin params
      <4>1. SetFor(v, region[1] - 1)
        BY <3>3 DEF Excused, NoValueYet
      <4>2. PICK i \in 1..(region[1] - 1) : /\ Sets(i) /\ program[i].var = v
                                            /\ Heads(program, i) \subseteq Heads(program, region[1])
        BY <4>1 DEF SetFor
      <4>3. i \in Lines(program) /\ i < region[1]
        BY <1>1, <4>2, StepGoes DEF Lines
      <4>4. Comes(i, pc)' /\ Sets(i)'
        BY <1>3, <1>7, <4>2, <4>3 DEF Comes, Sets
      <4> QED BY <1>3, <4>2, <4>3, <4>4 DEF ValuesThere
    <3> QED BY <3>2, <3>3
  <2>4. ~broken'
    BY <2>2, <2>3
  <2>5. ~(pc' < region'[1]) /\ ~(pc' > region'[2])
    <3>1. ~(j < region[1]) /\ ~(j > region[2])
      BY <1>1, <1>7
    <3> QED BY <1>3, <3>1
  <2>6. ASSUME NEW v \in Vars, InStep(v)' PROVE inner'[v] = env'[v]
    <3>1. CASE v \in Arguments
      BY <2>2, <3>1 DEF Restricted
    <3>2. CASE v \notin Prewritten
      BY <1>6, <2>2, <3>2 DEF Restricted
    <3>3. ~(\E k \in Piece' : Comes(k, pc)')
      BY <1>1, <1>3, <1>4, <1>7 DEF Comes
    <3> QED BY <1>4, <2>6, <3>1, <3>2, <3>3 DEF InStep
  <2> QED BY <2>2, <2>4, <2>5, <2>6 DEF BeforePiece, InsidePiece, BehindPiece
<1>8. CASE j # region[1]
  <2>1. j \notin Piece
    BY <1>1, <1>8
  <2>2. outer' = env' /\ broken' = broken
    BY <1>2, <1>5, <2>1 DEF Move
  <2>3. BeforePiece'
    BY <1>4, <1>6, <2>2 DEF BeforePiece
  <2> QED BY <1>3, <1>4, <2>1, <2>2, <2>3 DEF InsidePiece, BehindPiece
<1> QED BY <1>7, <1>8

\* A line that sets a variable unconditionally is not on a branch.
LEMMA SurelySet ==
    ASSUME ExtractionTyped, ~Excused, NEW k \in Piece, ~Conditional(k)
    PROVE  k \in Lines(program) /\ Heads(program, k) = {}
<1>1. Heads(program, k) = {}
  BY DEF Excused, FlagLost
<1>2. k \in Lines(program)
  BY PieceIs DEF ExtractionTyped, Piece
<1> QED BY <1>1, <1>2

\* The step inside the piece, and the one that leaves it.
LEMMA StepInside ==
    ASSUME ExtractionTyped, ~Excused, ~broken, ValuesThere, ValuesThere', InsidePiece,
           NEW e, NEW j, Move(e, j), Starts(e, j) \/ Writes(e, j) \/ Reads(e, j),
           pc \in Piece
    PROVE  ~broken' /\ BeforePiece' /\ InsidePiece' /\ BehindPiece'
<1>1. /\ pc \in Nat /\ j \in Nat /\ region[1] \in Nat /\ region[2] \in Nat
      /\ region[1] <= region[2] /\ (j \in Piece \/ j = region[2] + 1)
      /\ Piece = region[1]..region[2]
  BY StepGoes
<1>2. Frame = inner
  BY DEF Frame
<1>3. pc' = j /\ program' = program /\ params' = params /\ region' = region
  BY DEF Move
<1>4. /\ Prewritten' = Prewritten /\ Written' = Written /\ MaybeWritten' = MaybeWritten
      /\ Arguments' = Arguments /\ Piece' = Piece /\ Postread' = Postread
  BY <1>3, ProgramStays
<1>5. /\ \A v \in Vars : InStep(v) => inner[v] = env[v]
      /\ \A v \in Vars \ (Written \cup MaybeWritten) : outer[v] = env[v]
  BY DEF InsidePiece
<1>6. Piece \subseteq Lines(program)
  BY PieceIs DEF ExtractionTyped, Piece

\* What was in step, and what is set now, is in step after the line.
<1>7. ASSUME NEW v \in Vars, InStep(v) PROVE e[v] = env'[v]
  BY <1>2, <1>5, <1>7, StepSets
<1>8. ASSUME NEW k \in Piece, Sets(k), Comes(k, j), program[k].var \in Vars
      PROVE  e[program[k].var] = env'[program[k].var]
  <2>1. k \in Lines(program)
    BY <1>6
  <2>2. CASE k = pc
    BY <1>8, <2>1, <2>2, StepSets
  <2>3. CASE Comes(k, pc)
    <3>1. InStep(program[k].var)
      BY <1>8, <2>3 DEF InStep
    <3> QED BY <1>7, <1>8, <3>1
  <2> QED BY <1>8, <2>1, <2>2, <2>3, CameBefore
<1>9. \A v \in Vars \ (Written \cup MaybeWritten) : env'[v] = env[v]
  <2> TAKE v \in Vars \ (Written \cup MaybeWritten)
  <2>1. ~(Sets(pc) /\ program[pc].var = v)
    BY DEF Written, MaybeWritten, VarAt
  <2> QED BY <2>1, StepSets
<1>10. CASE j \in Piece
  <2>1. inner' = e /\ outer' = outer /\ broken' = broken
    BY <1>10 DEF Move
  <2>2. ASSUME NEW v \in Vars, InStep(v)' PROVE inner'[v] = env'[v]
    <3>1. CASE v \in Arguments \/ v \notin Prewritten
      BY <1>7, <2>1, <3>1 DEF InStep
    <3>2. CASE \E k \in Piece' : Sets(k)' /\ program'[k].var = v /\ Comes(k, pc)'
      <4>1. PICK k \in Piece : Sets(k) /\ program[k].var = v /\ Comes(k, j)
        BY <1>3, <1>4, <3>2 DEF Sets, Comes
      <4> QED BY <1>8, <2>1, <4>1
    <3> QED BY <1>4, <2>2, <3>1, <3>2 DEF InStep
  <2>3. \A v \in Vars \ (Written \cup MaybeWritten) : outer'[v] = env'[v]
    BY <1>5, <1>9, <2>1
  <2>4. ~(pc' < region'[1]) /\ ~(pc' > region'[2])
    <3>1. ~(j < region[1]) /\ ~(j > region[2])
      BY <1>1, <1>10
    <3> QED BY <1>3, <3>1
  <2>5. InsidePiece'
    BY <1>4, <2>2, <2>3 DEF InsidePiece
  <2> QED BY <2>1, <2>4, <2>5 DEF BeforePiece, BehindPiece
<1>11. CASE j = region[2] + 1
  <2>1. j \notin Piece
    BY <1>1, <1>11
  <2>2. Leave(e)
    BY <2>1 DEF Move
  <2>3. ASSUME NEW v \in Returns PROVE v \in Vars /\ v \in Postread /\ e[v] = env'[v]
    <3>1. v \in Vars /\ v \in Postread /\ (v \in Written \/ v \in MaybeWritten)
      BY SetsOfVars DEF Returns
    <3>2. CASE v \in MaybeWritten
      <4>1. v \in Arguments
        BY <3>1, <3>2 DEF Arguments
      <4> QED BY <1>7, <3>1, <4>1 DEF InStep
    <3>3. CASE v \in Written
      <4>1. PICK k \in Piece : Sets(k) /\ ~Conditional(k) /\ program[k].var = v
        BY <3>3 DEF Written, VarAt
      <4>2. Heads(program, k) = {}
        BY <4>1, SurelySet
      <4>3. k < j
        BY <1>1, <1>11
      <4>4. Comes(k, j)
        BY <4>2, <4>3 DEF Comes
      <4> QED BY <1>8, <3>1, <4>1, <4>4
    <3> QED BY <3>1, <3>2, <3>3
  <2>4. ASSUME NEW v \in Returns PROVE env'[v] # Unbound
    <3>1. CASE v \in params
      BY <1>3, <2>3, <3>1 DEF ValuesThere
    <3>2. CASE v \notin params
      <4>1. SetFor(v, region[2])
        BY <3>2 DEF Excused, NoValueYet
      <4>2. PICK i \in 1..region[2] : /\ Sets(i) /\ program[i].var = v
                                      /\ Heads(program, i) \subseteq Heads(program, region[1])
        BY <4>1 DEF SetFor
      <4>3. i \in Lines(program) /\ i \in Nat
        <5>1. region[2] \in Lines(program) /\ Len(program) \in Nat
          BY PieceIs DEF ExtractionTyped
        <5> QED BY <1>1, <5>1 DEF Lines
      <4>4. i <= pc
        <5>1. Follows(program, pc, region[2] + 1)
          <6>1. ~Starts(e, j)
            BY <1>6 DEF Starts, Lines
          <6> QED BY <1>11, <6>1 DEF Writes, Reads
        <5>2. pc \in region[1]..region[2]
          BY <1>1
        <5> QED BY <4>2, <5>1, <5>2, FromInsideAll DEF ExtractionTyped
      <4>5. CASE i = pc
        <5>1. env'[program[pc].var] = pc /\ pc \in Nat
          BY <4>2, <4>3, <4>5, StepSets
        <5> QED BY <4>2, <4>5, <5>1, ExtractMethodAssumption
      <4>6. CASE i # pc
        <5>1. Heads(program, region[1]) \subseteq Heads(program, pc)
          <6>1. pc \in region[1]..region[2]
            BY <1>1
          <6> QED BY <6>1, PieceHeads DEF ExtractionTyped
        <5>2. Comes(i, pc)
          BY <1>1, <4>2, <4>3, <4>4, <4>6, <5>1 DEF Comes
        <5>3. env[v] # Unbound
          BY <4>2, <4>3, <5>2 DEF ValuesThere
        <5> QED BY <2>3, <5>3, StepSets, ExtractMethodAssumption
      <4> QED BY <4>5, <4>6
    <3> QED BY <3>1, <3>2
  <2>5. ~broken'
    BY <2>2, <2>3, <2>4 DEF Leave
  <2>6. ASSUME NEW v \in Vars, Known(v)' PROVE outer'[v] = env'[v]
    <3>1. ~(\E k \in (region'[2] + 1)..Len(program') : Comes(k, pc)')
      BY <1>1, <1>3, <1>11 DEF Comes
    <3>2. v \in Postread
      BY <1>4, <2>6, <3>1 DEF Known
    <3>3. outer'[v] = IF v \in Returns THEN e[v] ELSE outer[v]
      BY <2>2 DEF Leave
    <3>4. CASE v \in Returns
      BY <2>3, <3>3, <3>4
    <3>5. CASE v \notin Returns
      <4>1. v \notin Written \cup MaybeWritten
        BY <3>2, <3>5 DEF Returns
      <4> QED BY <1>5, <1>9, <3>3, <3>5, <4>1
    <3> QED BY <3>4, <3>5
  <2>7. ~(pc' < region'[1])
    <3>1. ~(j < region[1])
      BY <1>1, <1>11
    <3> QED BY <1>3, <3>1
  <2> QED BY <1>3, <1>4, <2>1, <2>5, <2>6, <2>7 DEF BeforePiece, InsidePiece, BehindPiece
<1> QED BY <1>1, <1>10, <1>11

\* The step behind the piece.
LEMMA StepBehind ==
    ASSUME ExtractionTyped, ~Excused, ~broken, BehindPiece,
           NEW e, NEW j, Move(e, j), Starts(e, j) \/ Writes(e, j) \/ Reads(e, j),
           pc > region[2]
    PROVE  ~broken' /\ BeforePiece' /\ InsidePiece' /\ BehindPiece'
<1>1. /\ pc \in Nat /\ j \in Nat /\ region[1] \in Nat /\ region[2] \in Nat
      /\ region[1] <= region[2] /\ j > region[2]
      /\ Piece = region[1]..region[2]
  BY StepGoes
<1>2. pc \notin Piece /\ j \notin Piece /\ ~(j < region[1])
  BY <1>1
<1>3. pc' = j /\ program' = program /\ params' = params /\ region' = region
  BY DEF Move
<1>4. Piece' = Piece /\ Postread' = Postread
  BY <1>3, ProgramStays
<1>5. Frame = outer /\ outer' = e /\ broken' = broken
  BY <1>2 DEF Frame, Move
<1>6. ASSUME NEW v \in Vars, Known(v) PROVE outer'[v] = env'[v]
  <2>1. outer[v] = env[v]
    BY <1>6 DEF BehindPiece
  <2> QED BY <1>5, <2>1, StepSets
<1>7. ASSUME NEW v \in Vars, Known(v)' PROVE outer'[v] = env'[v]
  <2>1. CASE v \in Postread
    BY <1>6, <2>1 DEF Known
  <2>2. CASE \E k \in (region'[2] + 1)..Len(program') :
               Sets(k)' /\ program'[k].var = v /\ Comes(k, pc)'
    <3>1. PICK k \in (region[2] + 1)..Len(program) :
            Sets(k) /\ program[k].var = v /\ Comes(k, j)
      BY <1>3, <2>2 DEF Sets, Comes
    <3>2. k \in Lines(program)
      <4>1. Len(program) \in Nat
        BY DEF ExtractionTyped
      <4> QED BY <1>1, <4>1 DEF Lines
    <3>3. CASE k = pc
      BY <1>5, <3>1, <3>2, <3>3, StepSets
    <3>4. CASE Comes(k, pc)
      <4>1. Known(v)
        BY <3>1, <3>4 DEF Known
      <4> QED BY <1>6, <4>1
    <3> QED BY <3>1, <3>2, <3>3, <3>4, CameBefore
  <2> QED BY <1>4, <1>7, <2>1, <2>2 DEF Known
<1> QED BY <1>2, <1>3, <1>4, <1>5, <1>7 DEF BeforePiece, InsidePiece, BehindPiece

\* The invariant of an extraction is preserved by every line of the program.
LEMMA ExtractionSteps ==
    ASSUME ExtractionInv, Next
    PROVE  ExtractionInv'
<1>1. ExtractionTyped
  BY DEF ExtractionInv
<1>2. PICK e, j : Move(e, j) /\ (Starts(e, j) \/ Writes(e, j) \/ Reads(e, j))
  BY <1>1, StepIs
<1>3. ExtractionTyped'
  BY <1>1, <1>2, ExtractionTypes
<1>4. program' = program /\ params' = params /\ region' = region
  BY <1>2 DEF Move
<1>5. Excused' = Excused
  BY <1>4, ProgramStays
<1>6. CASE Excused
  BY <1>3, <1>5, <1>6 DEF ExtractionInv
<1>7. CASE ~Excused
  <2>1. ~broken /\ ValuesThere /\ BeforePiece /\ InsidePiece /\ BehindPiece
    BY <1>7 DEF ExtractionInv
  <2>2. ValuesThere'
    BY <1>1, <1>2, <2>1, ValuesStay
  <2>3. /\ pc \in Nat /\ region[1] \in Nat /\ region[2] \in Nat
        /\ Piece = region[1]..region[2]
    BY <1>1, <1>2, <1>7, StepGoes
  <2>4. pc < region[1] \/ pc \in Piece \/ pc > region[2]
    BY <2>3
  <2>5. ~broken' /\ BeforePiece' /\ InsidePiece' /\ BehindPiece'
    <3>1. CASE pc < region[1]
      BY <1>1, <1>2, <1>7, <2>1, <2>2, <3>1, StepBefore
    <3>2. CASE pc \in Piece
      BY <1>1, <1>2, <1>7, <2>1, <2>2, <3>2, StepInside
    <3>3. CASE pc > region[2]
      BY <1>1, <1>2, <1>7, <2>1, <3>3, StepBehind
    <3> QED BY <2>4, <3>1, <3>2, <3>3
  <2> QED BY <1>3, <2>2, <2>5 DEF ExtractionInv
<1> QED BY <1>6, <1>7

\* It holds before the function is called.
LEMMA ExtractionInit ==
    ASSUME Init
    PROVE  ExtractionInv
<1>1. PICK n \in 1..MaxLines : program \in [1..n -> Statement] /\ IsProgram(program)
  BY DEF Init, Programs
<1>2. n \in Nat /\ n >= 1
  BY ExtractMethodAssumption
<1>3. program \in Seq(Statement) /\ Len(program) = n /\ program # <<>>
  BY <1>1, <1>2
<1>4. region \in Regions(program) /\ pc = 0 /\ env = Start /\ outer = Start
      /\ inner = [v \in Vars |-> Unbound] /\ broken = FALSE
  BY DEF Init
<1>5. Start \in [Vars -> Nat \cup {Unbound}]
      /\ \A v \in Vars : Start[v] = IF v \in params THEN 0 ELSE Unbound
  BY DEF Start
<1>6. ExtractionTyped
  <2>1. inner \in [Vars -> Nat \cup {Unbound}]
    BY <1>4
  <2>2. pc \in 0..(Len(program) + 1)
    BY <1>2, <1>3, <1>4
  <2>3. env \in [Vars -> Nat \cup {Unbound}] /\ outer \in [Vars -> Nat \cup {Unbound}]
    BY <1>4, <1>5
  <2> QED BY <1>1, <1>3, <1>4, <2>1, <2>2, <2>3 DEF ExtractionTyped
<1>7. ValuesThere
  <2>1. \A v \in params \cap Vars : env[v] # Unbound
    BY <1>4, <1>5, ExtractMethodAssumption
  <2>2. \A i \in Lines(program) : ~Comes(i, pc)
    BY <1>3, <1>4 DEF Lines, Comes
  <2> QED BY <2>1, <2>2 DEF ValuesThere
<1>8. /\ region[1] \in 1..Len(program) /\ region[2] \in 1..Len(program)
      /\ region[1] <= region[2]
  BY <1>3, <1>4, PieceIs DEF Lines
<1>9. pc < region[1] /\ pc \notin Piece /\ ~(pc > region[2])
  BY <1>3, <1>4, <1>8 DEF Piece
<1>10. BeforePiece
  BY <1>4, <1>5 DEF BeforePiece, Prewritten
<1> QED BY <1>4, <1>6, <1>7, <1>9, <1>10 DEF ExtractionInv, InsidePiece, BehindPiece

\* With the invariant, what is read in the frame that runs is what the
\* original reads.
LEMMA ExtractionReads ==
    ASSUME ExtractionInv
    PROVE  ReadsKept
<1> SUFFICES ASSUME ~Excused, Running, Uses(pc), Readable
             PROVE  Frame[program[pc].var] = env[program[pc].var]
  BY DEF ReadsKept, ExtractionInv
<1>1. ExtractionTyped /\ BeforePiece /\ InsidePiece /\ BehindPiece
  BY DEF ExtractionInv
<1>2. /\ program \in Seq(Statement) /\ region \in Regions(program)
      /\ Len(program) \in Nat /\ pc \in Lines(program)
  BY <1>1 DEF ExtractionTyped, Running
<1>3. /\ region[1] \in Nat /\ region[2] \in Nat /\ region[1] <= region[2]
      /\ pc \in Nat /\ pc \in 1..Len(program) /\ Piece = region[1]..region[2]
      /\ Piece \subseteq Lines(program) /\ region[1] >= 1
  BY <1>2, PieceIs DEF Lines, Piece
<1> DEFINE v == program[pc].var
<1>4. v \in Vars
  BY <1>1, <1>2, SetsOfVars
<1>5. CASE pc < region[1]
  <2>1. outer = env /\ pc \notin Piece
    BY <1>1, <1>3, <1>5 DEF BeforePiece
  <2> QED BY <2>1 DEF Frame
<1>6. CASE pc \in Piece
  <2>1. InStep(v) => inner[v] = env[v]
    BY <1>1, <1>4, <1>6 DEF InsidePiece
  <2>2. CASE v \in Read
    BY <1>6, <2>1, <2>2 DEF InStep, Arguments, Frame
  <2>3. CASE v \notin Read
    <3>1. PICK k \in region[1]..(pc - 1) :
            Sets(k) /\ program[k].var = program[pc].var /\ ~Conditional(k)
      BY <1>6, <2>3 DEF Read, VarAt
    <3>2. k \in Piece /\ k < pc
      BY <1>3, <1>6, <3>1
    <3>3. Comes(k, pc)
      BY <1>1, <3>1, <3>2, SurelySet DEF Comes
    <3>4. InStep(v)
      BY <3>1, <3>2, <3>3 DEF InStep
    <3> QED BY <1>6, <2>1, <3>4 DEF Frame
  <2> QED BY <2>2, <2>3
<1>7. CASE pc > region[2]
  <2>1. Known(v) => outer[v] = env[v]
    BY <1>1, <1>4, <1>7 DEF BehindPiece
  <2>2. pc \notin Piece /\ pc \in (region[2] + 1)..Len(program)
    BY <1>3, <1>7
  <2>3. CASE v \in Postread
    BY <2>1, <2>2, <2>3 DEF Known, Frame
  <2>4. CASE v \notin Postread
    <3>1. PICK k \in (region[2] + 1)..(pc - 1) : Sets(k) /\ program[k].var = program[pc].var
      BY <2>2, <2>4 DEF Postread, VarAt
    <3>2. k \in (region[2] + 1)..Len(program) /\ k < pc
      BY <1>3, <2>2, <3>1
    <3>3. Heads(program, k) \ Heads(program, pc) = {}
      BY <2>2, <3>1, <3>2 DEF Excused, SetOnABranchBehind
    <3>4. Comes(k, pc)
      BY <3>2, <3>3 DEF Comes
    <3>5. Known(v)
      BY <3>1, <3>2, <3>4 DEF Known
    <3> QED BY <2>1, <2>2, <3>5 DEF Frame
  <2> QED BY <2>3, <2>4
<1> QED BY <1>3, <1>5, <1>6, <1>7
-----------------------------------------------------------------------------
(* Definitions *)

\* s with x put in at place i, and s without the element at place i.
IsInserted(t, X, s, i, x) ==
    /\ t \in Seq(X) /\ Len(t) = Len(s) + 1
    /\ \A k \in 1..(Len(s) + 1) :
          t[k] = IF k < i THEN s[k] ELSE IF k = i THEN x ELSE s[k - 1]

IsRemoved(t, X, s, i) ==
    /\ t \in Seq(X) /\ Len(t) = Len(s) - 1
    /\ \A k \in 1..(Len(s) - 1) : t[k] = IF k < i THEN s[k] ELSE s[k + 1]

\* A parameter that is put in comes to its place, and those behind move up.
LEMMA InsertedIs ==
    ASSUME NEW X, NEW s \in Seq(X), NEW i \in 1..(Len(s) + 1), NEW x \in X
    PROVE  IsInserted(Sig!Inserted(s, i, x), X, s, i, x)
<1> DEFINE a == SubSeq(s, 1, i - 1)
           b == SubSeq(s, i, Len(s))
<1>1. Len(s) \in Nat /\ i \in Nat
  OBVIOUS
<1>2. a \in Seq(X) /\ Len(a) = i - 1 /\ \A k \in 1..(i - 1) : a[k] = s[k]
  <2>1. \A k \in 1..(i - 1) : s[k] \in X
    BY <1>1
  <2> QED BY <1>1, <2>1, SubSeqProperties
<1>3. b \in Seq(X) /\ Len(b) = Len(s) + 1 - i /\ \A k \in 1..(Len(s) + 1 - i) : b[k] = s[i + k - 1]
  <2>1. \A k \in i..Len(s) : s[k] \in X
    BY <1>1
  <2> QED BY <1>1, <2>1, SubSeqProperties
<1> HIDE DEF a, b
<1> DEFINE c == a \o <<x>>
<1>4. c \in Seq(X) /\ Len(c) = i /\ c[i] = x /\ \A k \in 1..(i - 1) : c[k] = s[k]
  BY <1>1, <1>2
<1> HIDE DEF c
<1> DEFINE t == c \o b
<1>5. t \in Seq(X) /\ Len(t) = Len(s) + 1
  BY <1>1, <1>3, <1>4
<1>6. \A k \in 1..(Len(s) + 1) : t[k] = IF k <= i THEN c[k] ELSE b[k - i]
  BY <1>1, <1>3, <1>4
<1> HIDE DEF t
<1>7. ASSUME NEW k \in 1..(Len(s) + 1)
      PROVE  t[k] = IF k < i THEN s[k] ELSE IF k = i THEN x ELSE s[k - 1]
  <2>1. CASE k <= i
    BY <1>1, <1>4, <1>6, <2>1
  <2>2. CASE k > i
    <3>1. k - i \in 1..(Len(s) + 1 - i) /\ i + (k - i) - 1 = k - 1 /\ ~(k <= i) /\ ~(k < i) /\ k # i
      BY <1>1, <2>2
    <3>2. b[k - i] = s[i + (k - i) - 1]
      BY <1>3, <3>1
    <3>3. b[k - i] = s[k - 1]
      BY <3>1, <3>2
    <3>4. t[k] = b[k - i]
      BY <1>6, <3>1
    <3> QED BY <3>1, <3>3, <3>4
  <2> QED BY <1>1, <2>1, <2>2
<1>8. Sig!Inserted(s, i, x) = t
  BY DEF Sig!Inserted, t, c, a, b
<1> QED BY <1>5, <1>7, <1>8 DEF IsInserted

\* Behind a parameter that is taken out the others move down.
LEMMA RemovedIs ==
    ASSUME NEW X, NEW s \in Seq(X), NEW i \in 1..Len(s)
    PROVE  IsRemoved(Sig!Seqs!RemoveAt(s, i), X, s, i)
<1> DEFINE a == SubSeq(s, 1, i - 1)
           b == SubSeq(s, i + 1, Len(s))
           t == a \o b
<1>1. Len(s) \in Nat /\ i \in Nat
  OBVIOUS
<1>2. a \in Seq(X) /\ Len(a) = i - 1 /\ \A k \in 1..(i - 1) : a[k] = s[k]
  <2>1. \A k \in 1..(i - 1) : s[k] \in X
    BY <1>1
  <2> QED BY <1>1, <2>1, SubSeqProperties
<1>3. b \in Seq(X) /\ Len(b) = Len(s) - i /\ \A k \in 1..(Len(s) - i) : b[k] = s[i + k]
  <2>1. \A k \in (i + 1)..Len(s) : s[k] \in X
    BY <1>1
  <2> QED BY <1>1, <2>1, SubSeqProperties
<1>4. Sig!Seqs!RemoveAt(s, i) = t
  BY DEF Sig!Seqs!RemoveAt
<1> HIDE DEF a, b
<1>5. t \in Seq(X) /\ Len(t) = Len(s) - 1
  BY <1>1, <1>2, <1>3
<1>6. \A k \in 1..(Len(s) - 1) : t[k] = IF k <= i - 1 THEN a[k] ELSE b[k - (i - 1)]
  BY <1>1, <1>2, <1>3
<1>7. ASSUME NEW k \in 1..(Len(s) - 1) PROVE t[k] = IF k < i THEN s[k] ELSE s[k + 1]
  <2>1. CASE k < i
    <3>1. k <= i - 1 /\ k \in 1..(i - 1)
      BY <1>1, <2>1
    <3> QED BY <1>2, <1>6, <2>1, <3>1
  <2>2. CASE ~(k < i)
    <3>1. /\ k - (i - 1) \in 1..(Len(s) - i) /\ i + (k - (i - 1)) = k + 1 /\ ~(k <= i - 1)
      BY <1>1, <2>2
    <3>2. b[k - (i - 1)] = s[i + (k - (i - 1))]
      BY <1>3, <3>1
    <3> QED BY <1>6, <2>2, <3>1, <3>2
  <2> QED BY <2>1, <2>2
<1> HIDE DEF t
<1> QED BY <1>4, <1>5, <1>7 DEF IsRemoved

\* What a well-shaped definition gives: its names, and its defaults by name.
LEMMA ShapedGives ==
    ASSUME NEW def, Shaped(def)
    PROVE  /\ Sig!Count(def) \in Nat /\ def.star \in BOOLEAN /\ def.kw \in BOOLEAN
           /\ Sig!Count(def) = Len(def.args)
           /\ def.args \in Seq(AnyParameter)
           /\ \A i \in 1..Sig!Count(def) :
                /\ Sig!NameAt(def, i) = def.args[i].name
                /\ Sig!NameAt(def, i) \in Sig!Parameters(def)
                /\ Sig!DefaultOf(def, Sig!NameAt(def, i)) = def.args[i].default
           /\ \A i, j \in 1..Sig!Count(def) : Sig!NameAt(def, i) = Sig!NameAt(def, j) => i = j
           /\ \A p \in Sig!Parameters(def) :
                \E i \in 1..Sig!Count(def) : p = Sig!NameAt(def, i)
<1>1. /\ def.args \in Seq(AnyParameter)
      /\ def.star \in BOOLEAN /\ def.kw \in BOOLEAN
      /\ \A i, j \in 1..Sig!Count(def) : Sig!NameAt(def, i) = Sig!NameAt(def, j) => i = j
  BY DEF Shaped
<1>2. Sig!Count(def) \in Nat
  BY <1>1 DEF Sig!Count
<1>3. ASSUME NEW i \in 1..Sig!Count(def)
      PROVE  Sig!DefaultOf(def, Sig!NameAt(def, i)) = def.args[i].default
  <2>1. (CHOOSE k \in 1..Sig!Count(def) : Sig!NameAt(def, k) = Sig!NameAt(def, i)) = i
    BY <1>1
  <2> QED BY <2>1 DEF Sig!DefaultOf
<1> QED BY <1>1, <1>2, <1>3 DEF Sig!Count, Sig!NameAt, Sig!Parameters

\* The parameters of a well-shaped definition and their names.
LEMMA ShapedNames ==
    ASSUME NEW def, Shaped(def)
    PROVE  /\ Sig!Count(def) \in Nat /\ Sig!Count(def) = Len(def.args)
           /\ \A k \in 1..Sig!Count(def) :
                /\ def.args[k].name = Sig!NameAt(def, k)
                /\ def.args[k].name \in Sig!Parameters(def)
           /\ \A k, l \in 1..Sig!Count(def) : def.args[k].name = def.args[l].name => k = l
           /\ \A p \in Sig!Parameters(def) : \E k \in 1..Sig!Count(def) : p = def.args[k].name
<1>1. Sig!Count(def) \in Nat /\ Sig!Count(def) = Len(def.args)
  BY ShapedGives
<1>2. \A k, l \in 1..Sig!Count(def) : def.args[k].name = def.args[l].name => k = l
  BY Zenon DEF Shaped, Sig!NameAt
<1>3. \A k \in 1..Sig!Count(def) :
        def.args[k].name = Sig!NameAt(def, k) /\ def.args[k].name \in Sig!Parameters(def)
  BY Zenon DEF Sig!NameAt, Sig!Parameters
<1>4. \A p \in Sig!Parameters(def) : \E k \in 1..Sig!Count(def) : p = def.args[k].name
  BY Zenon DEF Sig!NameAt, Sig!Parameters
<1> QED BY <1>1, <1>2, <1>3, <1>4

\* The parameters that are passed by place are the first ones of the
\* definition that are in the mapping, up to one that is not.
LEMMA LeadingIs ==
    ASSUME NEW def, Shaped(def), NEW map
    PROVE  \E m \in 0..Sig!Count(def) :
             /\ Sig!Leading(def, map) = 1..m
             /\ m < Sig!Count(def) => Sig!NameAt(def, m + 1) \notin DOMAIN map.param_dict
             /\ \A i \in 1..m : Sig!NameAt(def, i) \in DOMAIN map.param_dict
<1> DEFINE n == Sig!Count(def)
           In(i) == Sig!NameAt(def, i) \in DOMAIN map.param_dict
           S == {i \in 1..n : ~In(i)}
<1>1. n \in Nat
  BY ShapedGives
<1>2. Sig!Leading(def, map) = {i \in 1..n : \A j \in 1..i : In(j)}
  BY DEF Sig!Leading
<1> HIDE DEF n, In
<1>3. CASE S = {}
  <2>1. Sig!Leading(def, map) = 1..n
    BY <1>1, <1>2, <1>3
  <2>2. \A i \in 1..n : In(i)
    BY <1>3
  <2>3. n \in 0..n /\ ~(n < n)
    BY <1>1
  <2> QED BY <2>1, <2>2, <2>3 DEF n, In
<1>4. CASE S # {}
  <2>1. S \in SUBSET Nat
    BY <1>1
  <2>2. PICK l \in S : \A k \in S : l <= k
    <3> HIDE DEF S
    <3> QED BY <1>4, <2>1, LeastNatural
  <2>3. l \in 1..n /\ ~In(l) /\ l \in Nat /\ \A i \in 1..(l - 1) : In(i)
    <3>1. l \in 1..n /\ ~In(l)
      BY <2>2
    <3>2. ASSUME NEW i \in 1..(l - 1) PROVE In(i)
      <4>1. i \in 1..n /\ ~(l <= i)
        BY <1>1, <3>1
      <4>2. i \notin S
        BY <2>2, <4>1
      <4> QED BY <4>1, <4>2
    <3> QED BY <1>1, <3>1, <3>2
  <2> HIDE DEF S
  <2>4. Sig!Leading(def, map) = 1..(l - 1)
    <3>1. ASSUME NEW i \in 1..n, \A j \in 1..i : In(j) PROVE i \in 1..(l - 1)
      BY <1>1, <2>3, <3>1
    <3>2. ASSUME NEW i \in 1..(l - 1) PROVE i \in 1..n /\ \A j \in 1..i : In(j)
      BY <1>1, <2>3
    <3> QED BY <1>2, <3>1, <3>2
  <2>5. l - 1 \in 0..n /\ (l - 1) + 1 = l
    BY <1>1, <2>3
  <2> QED BY <2>3, <2>4, <2>5 DEF n, In
<1> QED BY <1>3, <1>4
-----------------------------------------------------------------------------
(* The call of the changed definition *)

\* The names in the mapping of the parameters behind the first m.
ByName(def, map, m) ==
    {Sig!NameAt(def, i) : i \in (m + 1)..Sig!Count(def)} \cap DOMAIN map.param_dict

\* The call that is made from the mapping, part by part: the arguments given
\* by place, those given by name, and what is left over.
LEMMA CallIs ==
    ASSUME NEW def, Shaped(def), NEW map, NEW X, map.args_arg \in Seq(X),
           NEW m \in 0..Sig!Count(def), Sig!Leading(def, map) = 1..m
    PROVE  /\ \E Y : Sig!ToCallInfo(def, map).args \in Seq(Y)
           /\ Len(Sig!ToCallInfo(def, map).args) = m + Len(map.args_arg)
           /\ \A i \in 1..m :
                Sig!ToCallInfo(def, map).args[i] = map.param_dict[Sig!NameAt(def, i)]
           /\ \A i \in 1..Len(map.args_arg) :
                Sig!ToCallInfo(def, map).args[m + i] = map.args_arg[i]
           /\ DOMAIN Sig!ToCallInfo(def, map).keywords =
                ByName(def, map, m) \cup DOMAIN map.keyword_args
           /\ \A p \in ByName(def, map, m) :
                Sig!ToCallInfo(def, map).keywords[p] = map.param_dict[p]
           /\ \A p \in DOMAIN map.keyword_args \ ByName(def, map, m) :
                Sig!ToCallInfo(def, map).keywords[p] = map.keyword_args[p]
<1> DEFINE given == [i \in 1..m |-> map.param_dict[Sig!NameAt(def, i)]]
           Y == {given[i] : i \in 1..m} \cup X
           named == ByName(def, map, m)
<1>1. m \in Nat /\ Sig!Count(def) \in Nat
  BY ShapedGives
<1>2. given \in Seq(Y) /\ Len(given) = m
  BY <1>1
<1>3. map.args_arg \in Seq(Y) /\ Len(map.args_arg) \in Nat
  <2>1. \A i \in 1..Len(map.args_arg) : map.args_arg[i] \in Y
    OBVIOUS
  <2>2. map.args_arg = [i \in 1..Len(map.args_arg) |-> map.args_arg[i]] /\ Len(map.args_arg) \in Nat
    OBVIOUS
  <2> HIDE DEF Y
  <2> QED BY <2>1, <2>2
<1>4. (1..Sig!Count(def)) \ (1..m) = (m + 1)..Sig!Count(def)
  BY <1>1
<1> DEFINE args == given \o map.args_arg
<1>5. Sig!ToCallInfo(def, map) =
        [args |-> args,
         keywords |-> [p \in named \cup DOMAIN map.keyword_args |->
                         IF p \in named THEN map.param_dict[p] ELSE map.keyword_args[p]]]
  BY <1>4 DEF Sig!ToCallInfo, ByName
<1>6. \A i \in 1..m : given[i] = map.param_dict[Sig!NameAt(def, i)]
  OBVIOUS
<1> HIDE DEF given, Y
<1>7. args \in Seq(Y) /\ Len(args) = m + Len(map.args_arg)
  BY <1>2, <1>3
<1>8. \A i \in 1..m : args[i] = given[i]
  BY <1>1, <1>2, <1>3
<1>9. \A i \in 1..Len(map.args_arg) : args[m + i] = map.args_arg[i]
  BY <1>1, <1>2, <1>3
<1> HIDE DEF args
<1>10. Sig!ToCallInfo(def, map).args = args
       /\ Sig!ToCallInfo(def, map).keywords =
            [p \in named \cup DOMAIN map.keyword_args |->
                         IF p \in named THEN map.param_dict[p] ELSE map.keyword_args[p]]
  BY <1>5
<1> QED BY <1>6, <1>7, <1>8, <1>9, <1>10

\* With the invariant, the changed call binds by the changed definition what
\* the call bound by the definition it was written for.
LEMMA BindingHolds ==
    ASSUME SignatureInv
    PROVE  Sig!BindingKept
<1>1. /\ Shaped(definition) /\ MappingShaped /\ WantedShaped
      /\ \A i \in 1..Sig!Count(definition) :
            Sig!NameAt(definition, i) \notin removed \cup unset => Matches(i)
      /\ \/ wanted.args_arg = mapping.args_arg
         \/ mapping.args_arg # <<>> /\ ~definition.star
      /\ \/ wanted.keyword_args = mapping.keyword_args
         \/ DOMAIN mapping.keyword_args # {} /\ ~definition.kw
  BY DEF SignatureInv
<1> DEFINE n == Sig!Count(definition)
           At(i) == Sig!NameAt(definition, i)
           P == Sig!Parameters(definition)
           given == mapping.param_dict
           rest == mapping.args_arg
           others == mapping.keyword_args
           call == Sig!ToCallInfo(definition, mapping)
           args == call.args
           keywords == call.keywords
<1>2. /\ n \in Nat
      /\ \A i, j \in 1..n : At(i) = At(j) => i = j
      /\ \A i \in 1..n : At(i) \in P /\ Sig!DefaultOf(definition, At(i)) = definition.args[i].default
      /\ \A p \in P : \E i \in 1..n : p = At(i)
      /\ P = {At(i) : i \in 1..n}
  <2>1. P = {At(i) : i \in 1..n}
    BY DEF Sig!Parameters
  <2> QED BY <1>1, <2>1, ShapedGives
<1>3. SUFFICES ASSUME ~Sig!ExtrasMove, ~Sig!ExtrasStay, ~Sig!NamesMix
               PROVE  /\ Sig!Fits(definition, call)
                      /\ Sig!Missing(definition, call) \subseteq unset
                      /\ \A p \in P \ unset :
                           Sig!Bound(definition, call).params[p] = wanted.params[p]
                      /\ Sig!Bound(definition, call).args_arg = wanted.args_arg
                      /\ Sig!Bound(definition, call).keyword_args = wanted.keyword_args
  BY <1>2 DEF Sig!BindingKept
<1>4. PICK m \in 0..n :
        /\ Sig!Leading(definition, mapping) = 1..m
        /\ m < n => At(m + 1) \notin DOMAIN given
        /\ \A i \in 1..m : At(i) \in DOMAIN given
  BY <1>1, LeadingIs
<1> DEFINE named == ByName(definition, mapping, m)
<1>5. rest \in Seq(Range(rest)) /\ Len(rest) \in Nat /\ m \in Nat /\ m <= n
  BY <1>1, <1>2 DEF MappingShaped
<1>6. /\ \E Y : args \in Seq(Y)
      /\ Len(args) = m + Len(rest)
      /\ \A i \in 1..m : args[i] = given[At(i)]
      /\ \A i \in 1..Len(rest) : args[m + i] = rest[i]
      /\ DOMAIN keywords = named \cup DOMAIN others
      /\ \A p \in named : keywords[p] = given[p]
      /\ \A p \in DOMAIN others \ named : keywords[p] = others[p]
  <2>1. /\ Shaped(definition) /\ mapping.args_arg \in Seq(Range(rest))
        /\ m \in 0..Sig!Count(definition) /\ Sig!Leading(definition, mapping) = 1..m
    BY <1>1, <1>4, <1>5
  <2> HIDE DEF call, args, keywords, named, given, rest, others, n, At, P
  <2>2. /\ \E Y : Sig!ToCallInfo(definition, mapping).args \in Seq(Y)
        /\ Len(Sig!ToCallInfo(definition, mapping).args) = m + Len(mapping.args_arg)
        /\ \A i \in 1..m : Sig!ToCallInfo(definition, mapping).args[i]
                             = mapping.param_dict[Sig!NameAt(definition, i)]
        /\ \A i \in 1..Len(mapping.args_arg) :
              Sig!ToCallInfo(definition, mapping).args[m + i] = mapping.args_arg[i]
        /\ DOMAIN Sig!ToCallInfo(definition, mapping).keywords =
              ByName(definition, mapping, m) \cup DOMAIN mapping.keyword_args
        /\ \A p \in ByName(definition, mapping, m) :
              Sig!ToCallInfo(definition, mapping).keywords[p] = mapping.param_dict[p]
        /\ \A p \in DOMAIN mapping.keyword_args \ ByName(definition, mapping, m) :
              Sig!ToCallInfo(definition, mapping).keywords[p] = mapping.keyword_args[p]
    BY <2>1, CallIs
  <2> QED BY <2>2 DEF call, args, keywords, named, given, rest, others, At
<1>7. /\ rest = <<>> \/ m = n
      /\ rest = <<>> => Len(rest) = 0
      /\ rest # <<>> => definition.star
      /\ DOMAIN others # {} => definition.kw
      /\ P \cap (DOMAIN others \cup removed) = {}
  <2>1. rest = <<>> \/ Sig!Leading(definition, mapping) = 1..n
    BY <1>3 DEF Sig!ExtrasMove
  <2>2. ASSUME 1..m = 1..n PROVE m = n
    <3>1. n \in 1..n => n \in 1..m
      BY <2>2
    <3> QED BY <1>2, <1>5, <3>1
  <2> QED BY <1>3, <1>4, <2>1, <2>2 DEF Sig!ExtrasStay, Sig!NamesMix
<1>8. wanted.args_arg = rest /\ wanted.keyword_args = others
  BY <1>1, <1>7
<1>9. \A i \in 1..n : At(i) \notin unset =>
         IF At(i) \in DOMAIN given THEN wanted.params[At(i)] = given[At(i)]
         ELSE /\ definition.args[i].default # NoValue
              /\ wanted.params[At(i)] = definition.args[i].default
  <2> TAKE i \in 1..n
  <2> HAVE At(i) \notin unset
  <2>1. At(i) \notin removed
    BY <1>2, <1>7
  <2> QED BY <1>1, <2>1 DEF Matches
<1>10. DOMAIN args = 1..(m + Len(rest)) /\ args = [i \in 1..(m + Len(rest)) |-> args[i]]
  BY <1>6
<1>11. (1..n) \cap DOMAIN args = 1..m
  BY <1>2, <1>5, <1>7, <1>10
<1>12. DOMAIN keywords = named \cup DOMAIN others
  BY <1>6
<1>13. \A i \in 1..n : At(i) \in named <=> (i > m /\ At(i) \in DOMAIN given)
  BY <1>2, <1>5 DEF ByName
<1> HIDE DEF call, args, keywords, named
<1>14. Sig!Fits(definition, call) /\ Sig!Missing(definition, call) \subseteq unset
  <2>1. {At(i) : i \in 1..n \cap DOMAIN args} = {At(i) : i \in 1..m}
    BY <1>11
  <2>2. Len(args) <= n \/ definition.star
    BY <1>2, <1>5, <1>6, <1>7
  <2>3. (named \cup DOMAIN others) \cap {At(i) : i \in 1..m} = {}
    <3>1. \A i \in 1..m : i \in 1..n /\ ~(i > m)
      BY <1>2, <1>5
    <3> QED BY <1>2, <1>7, <1>13, <3>1
  <2>4. named \subseteq P
    BY <1>2, <1>5 DEF named, ByName
  <2>5. (named \cup DOMAIN others) \subseteq P \/ definition.kw
    BY <1>7, <2>4
  <2>6. ASSUME NEW p \in P \ unset,
               p \notin {At(i) : i \in 1..m}, p \notin named \cup DOMAIN others
        PROVE  Sig!DefaultOf(definition, p) # NoValue
    <3>1. PICK i \in 1..n : p = At(i)
      BY <1>2
    <3>2. ~(i \in 1..m) /\ i > m
      BY <1>2, <1>5, <2>6, <3>1
    <3>3. At(i) \notin DOMAIN given
      BY <1>13, <2>6, <3>1, <3>2
    <3> QED BY <1>2, <1>9, <3>1, <3>3
  <2>7. Sig!Positional(definition, call) = {At(i) : i \in 1..m}
    BY <2>1 DEF Sig!Positional, args
  <2>8. Sig!Fits(definition, call)
    BY <1>12, <2>2, <2>3, <2>5, <2>7 DEF Sig!Fits, args, keywords
  <2>9. ASSUME NEW p \in Sig!Missing(definition, call) PROVE p \in unset
    <3>1. /\ p \in P /\ p \notin {At(i) : i \in 1..m} /\ p \notin named \cup DOMAIN others
          /\ Sig!DefaultOf(definition, p) = NoValue
      BY <1>12, <2>7, <2>9 DEF Sig!Missing, keywords
    <3> QED BY <2>6, <3>1
  <2> QED BY <2>8, <2>9
<1>15. /\ \A p \in P \ unset : Sig!Bound(definition, call).params[p] = wanted.params[p]
       /\ Sig!Bound(definition, call).args_arg = wanted.args_arg
       /\ Sig!Bound(definition, call).keyword_args = wanted.keyword_args
  <2>1. ASSUME NEW p \in P \ unset
        PROVE  (IF \E i \in DOMAIN args : i <= n /\ At(i) = p
                THEN args[CHOOSE i \in DOMAIN args : i <= n /\ At(i) = p]
                ELSE IF p \in DOMAIN keywords THEN keywords[p]
                ELSE Sig!DefaultOf(definition, p)) = wanted.params[p]
    <3>1. PICK k \in 1..n : p = At(k)
      BY <1>2
    <3>2. \A i \in DOMAIN args : i <= n => i \in 1..m
      BY <1>2, <1>5, <1>10, <1>11
    <3>3. CASE k <= m
      <4>1. k \in 1..m /\ k \in DOMAIN args
        BY <1>5, <1>10, <1>11, <3>3
      <4>2. (CHOOSE i \in DOMAIN args : i <= n /\ At(i) = p) = k
        <5>1. \A i \in DOMAIN args : (i <= n /\ At(i) = p) => i = k
          <6>1. \A i \in 1..m : i \in 1..n
            BY <1>2, <1>5
          <6> QED BY <1>2, <3>1, <3>2, <6>1
        <5>2. k <= n /\ At(k) = p
          BY <1>2, <3>1
        <5> QED BY <4>1, <5>1, <5>2
      <4>3. \E i \in DOMAIN args : i <= n /\ At(i) = p
        BY <1>2, <3>1, <4>1
      <4>4. args[k] = wanted.params[p]
        BY <1>4, <1>6, <1>9, <3>1, <4>1
      <4> QED BY <4>2, <4>3, <4>4
    <3>4. CASE ~(k <= m)
      <4>1. ~(\E i \in DOMAIN args : i <= n /\ At(i) = p)
        <5>1. \A i \in 1..m : i \in 1..n /\ i # k
          BY <1>2, <1>5, <3>4
        <5> QED BY <1>2, <3>1, <3>2, <5>1
      <4>2. CASE p \in DOMAIN given
        <5>1. p \in named
          BY <1>2, <1>5, <1>13, <3>1, <3>4, <4>2
        <5>2. keywords[p] = given[p] /\ p \in DOMAIN keywords
          BY <1>6, <1>12, <5>1
        <5> QED BY <1>9, <3>1, <4>1, <4>2, <5>2
      <4>3. CASE p \notin DOMAIN given
        <5>1. p \notin named /\ p \notin DOMAIN others
          BY <1>7, <1>13, <3>1, <4>3
        <5> QED BY <1>2, <1>9, <1>12, <3>1, <4>1, <4>3, <5>1
      <4> QED BY <4>2, <4>3
    <3> QED BY <3>3, <3>4
  <2>2. SubSeq(args, n + 1, Len(args)) = rest
    <3>1. CASE rest = <<>>
      <4>1. Len(args) < n + 1 /\ Len(args) \in Int /\ n + 1 \in Int
        BY <1>2, <1>5, <1>6, <1>7, <3>1
      <4> QED BY <3>1, <4>1, SubSeqEmpty
    <3>2. CASE m = n
      <4> DEFINE t == SubSeq(args, n + 1, Len(args))
      <4>1. \A i \in (n + 1)..Len(args) : args[i] \in Range(rest)
        <5> TAKE i \in (n + 1)..Len(args)
        <5>1. i - m \in 1..Len(rest) /\ m + (i - m) = i
          BY <1>2, <1>5, <1>6, <3>2
        <5>2. args[i] = rest[i - m] /\ rest[i - m] \in Range(rest)
          BY <1>5, <1>6, <5>1
        <5> QED BY <5>2
      <4>2. n + 1 \in Int /\ Len(args) \in Int
        BY <1>2, <1>5, <1>6
      <4>3. /\ t \in Seq(Range(rest))
            /\ Len(t) = IF n + 1 <= Len(args) THEN Len(args) - (n + 1) + 1 ELSE 0
            /\ \A i \in 1..(Len(args) - (n + 1) + 1) : t[i] = args[n + 1 + i - 1]
        BY <4>1, <4>2, SubSeqProperties
      <4> HIDE DEF t
      <4>4. Len(t) = Len(rest) /\ Len(args) - (n + 1) + 1 = Len(rest)
        BY <1>2, <1>5, <1>6, <3>2, <4>3
      <4>5. ASSUME NEW i \in 1..Len(rest) PROVE t[i] = rest[i]
        <5>1. i \in 1..(Len(args) - (n + 1) + 1)
          BY <4>4
        <5>2. t[i] = args[n + 1 + i - 1]
          BY <4>3, <5>1
        <5>3. n + 1 + i - 1 = m + i
          BY <1>2, <1>5, <3>2
        <5> QED BY <1>6, <5>2, <5>3
      <4>6. t = rest
        BY <1>5, <4>3, <4>4, <4>5, SeqEqual
      <4> QED BY <4>6 DEF t
    <3> QED BY <1>7, <3>1, <3>2
  <2>3. Sig!Only(keywords, DOMAIN keywords \ P) = others
    <3>1. DOMAIN keywords \ P = DOMAIN others
      <4>1. named \subseteq P
        BY <1>2, <1>5 DEF named, ByName
      <4> QED BY <1>7, <1>12, <4>1
    <3>2. \A p \in DOMAIN others : keywords[p] = others[p]
      <4>1. \A p \in DOMAIN others : p \notin named
        <5>1. named \subseteq P
          BY <1>2, <1>5 DEF named, ByName
        <5> QED BY <1>7, <5>1
      <4> QED BY <1>6, <4>1
    <3>3. others = [p \in DOMAIN others |-> others[p]]
      BY <1>1 DEF MappingShaped
    <3> QED BY <3>1, <3>2, <3>3 DEF Sig!Only
  <2> DEFINE params_ == [p \in P |->
        IF \E i \in DOMAIN args : i <= n /\ At(i) = p
        THEN args[CHOOSE i \in DOMAIN args : i <= n /\ At(i) = p]
        ELSE IF p \in DOMAIN keywords THEN keywords[p] ELSE Sig!DefaultOf(definition, p)]
  <2>4. \A p \in P \ unset : params_[p] = wanted.params[p]
    BY <2>1
  <2>5. Sig!Bound(definition, call) =
          [params |-> params_, args_arg |-> SubSeq(args, n + 1, Len(args)),
           keyword_args |-> Sig!Only(keywords, DOMAIN keywords \ P)]
    BY DEF Sig!Bound, args, keywords
  <2> HIDE DEF params_, P, n, At
  <2> QED BY <1>8, <2>2, <2>3, <2>4, <2>5
<1> QED BY <1>14, <1>15
-----------------------------------------------------------------------------
(* The changers *)

\* A definition to start from has the shape.
LEMMA StartsShaped ==
    ASSUME NEW def \in Definitions
    PROVE  Shaped(def)
<1>1. Sig!IsDefinition(def)
  BY SignatureAssumption
<1>2. /\ def \in [args : Seq(Sig!Parameter), star : BOOLEAN, kw : BOOLEAN]
      /\ \A i, j \in DOMAIN def.args : def.args[i].name = def.args[j].name => i = j
  BY <1>1 DEF Sig!IsDefinition
<1>3. Sig!Parameter \subseteq AnyParameter
  BY DEF Sig!Parameter, Defaults, AnyParameter
<1>4. def.args \in Seq(AnyParameter)
  <2>1. def.args \in Seq(Sig!Parameter) /\ Len(def.args) \in Nat
    BY <1>2
  <2>2. \A i \in 1..Len(def.args) : def.args[i] \in AnyParameter
    BY <1>3, <2>1
  <2>3. def.args = [i \in 1..Len(def.args) |-> def.args[i]]
    BY <2>1
  <2> QED BY <2>1, <2>2, <2>3
<1>5. def \in [args : Seq(AnyParameter), star : BOOLEAN, kw : BOOLEAN]
  BY <1>2, <1>4
<1>6. DOMAIN def.args = 1..Sig!Count(def)
  BY <1>4 DEF Sig!Count
<1> QED BY <1>2, <1>5, <1>6 DEF Shaped, Sig!NameAt

\* A definition with the parameters s, no two of one name.
LEMMA WithArgs ==
    ASSUME NEW d \in [args : Seq(AnyParameter), star : BOOLEAN, kw : BOOLEAN],
           \A k, l \in 1..Len(d.args) : d.args[k].name = d.args[l].name => k = l
    PROVE  /\ Shaped(d) /\ Sig!Count(d) = Len(d.args)
           /\ \A k \in 1..Len(d.args) : Sig!NameAt(d, k) = d.args[k].name
           /\ Sig!Parameters(d) = {d.args[k].name : k \in 1..Len(d.args)}
  BY DEF Shaped, Sig!Count, Sig!NameAt, Sig!Parameters

\* d is def with a parameter put in.
TakesParameter(d, def, i, name, default) ==
    d = [def EXCEPT !.args = Sig!Inserted(@, i, [name |-> name, default |-> default])]

\* A parameter that is added: its name, and those that were there.
LEMMA AddShaped ==
    ASSUME NEW def, Shaped(def), NEW i \in 1..(Sig!Count(def) + 1), NEW name \in Names,
           name \notin Sig!Parameters(def), NEW default \in Defaults,
           NEW d, TakesParameter(d, def, i, name, default)
    PROVE  /\ Shaped(d) /\ d.star = def.star /\ d.kw = def.kw
           /\ Sig!Parameters(d) = Sig!Parameters(def) \cup {name}
           /\ \A k \in 1..Sig!Count(d) :
                \/ Sig!NameAt(d, k) = name /\ d.args[k].default = default
                \/ \E l \in 1..Sig!Count(def) :
                     /\ Sig!NameAt(d, k) = Sig!NameAt(def, l)
                     /\ d.args[k].default = def.args[l].default
<1> DEFINE n == Sig!Count(def)
           s == def.args
           x == [name |-> name, default |-> default]
           t == Sig!Inserted(s, i, x)
<1>1. /\ n \in Nat /\ n = Len(s)
      /\ \A k \in 1..n : s[k].name = Sig!NameAt(def, k) /\ s[k].name \in Sig!Parameters(def)
      /\ \A k, l \in 1..n : s[k].name = s[l].name => k = l
      /\ \A p \in Sig!Parameters(def) : \E k \in 1..n : p = s[k].name
  BY ShapedNames
<1>0. s \in Seq(AnyParameter)
  BY ShapedGives
<1>2. x \in AnyParameter /\ i \in 1..(Len(s) + 1)
  BY <1>1 DEF AnyParameter
<1>3. /\ t \in Seq(AnyParameter) /\ Len(t) = n + 1
      /\ \A k \in 1..(n + 1) : t[k] = IF k < i THEN s[k] ELSE IF k = i THEN x ELSE s[k - 1]
  <2> HIDE DEF x, s, n
  <2>1. s \in Seq(AnyParameter) /\ x \in AnyParameter /\ i \in 1..(Len(s) + 1)
    BY <1>0, <1>2
  <2>2. IsInserted(Sig!Inserted(s, i, x), AnyParameter, s, i, x)
    BY <2>1, InsertedIs
  <2> QED BY <1>1, <2>2 DEF IsInserted
<1>4. d = [def EXCEPT !.args = t]
  BY DEF TakesParameter
<1>5. x.name = name /\ x.default = default /\ i \in 1..(n + 1)
  BY <1>2
<1> HIDE DEF n, s, x, t
<1>6. ASSUME NEW k \in 1..(n + 1)
      PROVE  \/ k < i /\ k \in 1..n /\ t[k] = s[k]
             \/ k = i /\ t[k] = x
             \/ k > i /\ k - 1 \in 1..n /\ t[k] = s[k - 1]
  BY <1>1, <1>3, <1>5
<1>7. \A k, l \in 1..(n + 1) : t[k].name = t[l].name => k = l
  <2> SUFFICES ASSUME NEW k \in 1..(n + 1), NEW l \in 1..(n + 1), t[k].name = t[l].name
               PROVE  k = l
    OBVIOUS
  <2>1. name \notin Sig!Parameters(def)
    OBVIOUS
  <2>2. \/ k < i /\ k \in 1..n /\ t[k] = s[k]
        \/ k = i /\ t[k] = x
        \/ k > i /\ k - 1 \in 1..n /\ t[k] = s[k - 1]
    BY <1>6
  <2>3. \/ l < i /\ l \in 1..n /\ t[l] = s[l]
        \/ l = i /\ t[l] = x
        \/ l > i /\ l - 1 \in 1..n /\ t[l] = s[l - 1]
    BY <1>6
  <2>4. k \in Int /\ l \in Int /\ i \in Int
    BY <1>5
  <2>5. CASE k = i \/ l = i
    <3>1. k = i => t[k].name = name
      BY <1>5, <2>2, <2>4
    <3>2. l = i => t[l].name = name
      BY <1>5, <2>3, <2>4
    <3>3. k # i => t[k].name \in Sig!Parameters(def)
      BY <1>1, <2>2
    <3>4. l # i => t[l].name \in Sig!Parameters(def)
      BY <1>1, <2>3
    <3> QED BY <2>1, <2>5, <3>1, <3>2, <3>3, <3>4
  <2>6. CASE k # i /\ l # i
    <3>1. \E g \in 1..n : t[k] = s[g] /\ (IF k < i THEN g = k ELSE g = k - 1)
      BY <2>2, <2>4, <2>6
    <3>2. \E h \in 1..n : t[l] = s[h] /\ (IF l < i THEN h = l ELSE h = l - 1)
      BY <2>3, <2>4, <2>6
    <3>3. PICK g \in 1..n : t[k] = s[g] /\ (IF k < i THEN g = k ELSE g = k - 1)
      BY <3>1
    <3>4. PICK h \in 1..n : t[l] = s[h] /\ (IF l < i THEN h = l ELSE h = l - 1)
      BY <3>2
    <3>5. g = h
      BY <1>1, <3>3, <3>4
    <3> QED BY <2>4, <2>6, <3>3, <3>4, <3>5
  <2> QED BY <2>5, <2>6
<1>8. /\ Shaped(d) /\ d.args = t /\ d.star = def.star /\ d.kw = def.kw
      /\ Sig!Count(d) = n + 1 /\ \A k \in 1..(n + 1) : Sig!NameAt(d, k) = t[k].name
      /\ Sig!Parameters(d) = {t[k].name : k \in 1..(n + 1)}
  <2>1. /\ d \in [args : Seq(AnyParameter), star : BOOLEAN, kw : BOOLEAN]
        /\ d.args = t /\ d.star = def.star /\ d.kw = def.kw
    BY <1>3, <1>4 DEF Shaped
  <2>2. \A k, l \in 1..Len(d.args) : d.args[k].name = d.args[l].name => k = l
    BY <1>3, <1>7, <2>1
  <2>3. /\ Shaped(d) /\ Sig!Count(d) = Len(d.args)
        /\ \A k \in 1..Len(d.args) : Sig!NameAt(d, k) = d.args[k].name
        /\ Sig!Parameters(d) = {d.args[k].name : k \in 1..Len(d.args)}
    BY <2>1, <2>2, WithArgs
  <2> QED BY <1>3, <2>1, <2>3
<1>9. Sig!Parameters(d) = Sig!Parameters(def) \cup {name}
  <2>1. ASSUME NEW k \in 1..(n + 1) PROVE t[k].name \in Sig!Parameters(def) \cup {name}
    BY <1>1, <1>5, <1>6
  <2>2. ASSUME NEW k \in 1..n PROVE \E l \in 1..(n + 1) : t[l].name = s[k].name
    <3>1. CASE k < i
      <4>1. k \in 1..(n + 1) /\ t[k] = s[k]
        BY <1>1, <1>3, <3>1
      <4> QED BY <4>1
    <3>2. CASE ~(k < i)
      <4>1. k + 1 \in 1..(n + 1) /\ ~(k + 1 < i) /\ k + 1 # i /\ (k + 1) - 1 = k
        BY <1>1, <1>5, <3>2
      <4>2. t[k + 1] = s[k]
        BY <1>3, <4>1
      <4> QED BY <4>1, <4>2
    <3> QED BY <3>1, <3>2
  <2>3. \E l \in 1..(n + 1) : t[l].name = name
    <3>1. t[i] = x
      BY <1>3, <1>5
    <3> QED BY <1>5, <3>1
  <2>4. ASSUME NEW p \in Sig!Parameters(def) PROVE \E l \in 1..(n + 1) : t[l].name = p
    <3>1. PICK k \in 1..n : p = s[k].name
      BY <1>1
    <3> QED BY <2>2, <3>1
  <2> QED BY <1>8, <2>1, <2>3, <2>4
<1>10. ASSUME NEW k \in 1..(n + 1)
       PROVE  \/ Sig!NameAt(d, k) = name /\ d.args[k].default = default
              \/ \E l \in 1..n : /\ Sig!NameAt(d, k) = Sig!NameAt(def, l)
                                 /\ d.args[k].default = s[l].default
  BY <1>1, <1>5, <1>6, <1>8
<1> QED BY <1>8, <1>9, <1>10 DEF n, s

\* d is def with a parameter taken out.
DropsParameter(d, def, i) == d = [def EXCEPT !.args = Sig!Seqs!RemoveAt(@, i)]

\* A parameter that is removed: the others are left.
LEMMA RemoveShaped ==
    ASSUME NEW def, Shaped(def), NEW i \in 1..Sig!Count(def),
           NEW d, DropsParameter(d, def, i)
    PROVE  /\ Shaped(d) /\ d.star = def.star /\ d.kw = def.kw
           /\ Sig!Parameters(d) = Sig!Parameters(def) \ {Sig!NameAt(def, i)}
           /\ \A k \in 1..Sig!Count(d) : \E l \in 1..Sig!Count(def) :
                /\ Sig!NameAt(d, k) = Sig!NameAt(def, l)
                /\ d.args[k].default = def.args[l].default
<1> DEFINE n == Sig!Count(def)
           s == def.args
           t == Sig!Seqs!RemoveAt(s, i)
<1>1. /\ n \in Nat /\ n = Len(s)
      /\ \A k \in 1..n : s[k].name = Sig!NameAt(def, k) /\ s[k].name \in Sig!Parameters(def)
      /\ \A k, l \in 1..n : s[k].name = s[l].name => k = l
      /\ \A p \in Sig!Parameters(def) : \E k \in 1..n : p = s[k].name
  BY ShapedNames
<1>0. s \in Seq(AnyParameter)
  BY ShapedGives
<1>2. IsRemoved(t, AnyParameter, s, i) /\ i \in 1..n
  <2> HIDE DEF s, n
  <2>1. s \in Seq(AnyParameter) /\ i \in 1..Len(s)
    BY <1>0, <1>1 DEF n
  <2> QED BY <1>1, <2>1, RemovedIs
<1>3. /\ t \in Seq(AnyParameter) /\ Len(t) = n - 1
      /\ \A k \in 1..(n - 1) : t[k] = IF k < i THEN s[k] ELSE s[k + 1]
  <2> HIDE DEF t, s, n
  <2> QED BY <1>1, <1>2 DEF IsRemoved
<1>4. d = [def EXCEPT !.args = t]
  BY DEF DropsParameter
<1> HIDE DEF n, s, t
<1> DEFINE From(k) == IF k < i THEN k ELSE k + 1
<1>5. ASSUME NEW k \in 1..(n - 1)
      PROVE  From(k) \in 1..n /\ From(k) # i /\ t[k] = s[From(k)]
  BY <1>1, <1>2, <1>3
<1>6. \A k, l \in 1..(n - 1) : From(k) = From(l) => k = l
  BY <1>1, <1>2
<1>7. \A g \in 1..n : g # i => \E k \in 1..(n - 1) : From(k) = g
  <2> TAKE g \in 1..n
  <2> HAVE g # i
  <2>1. CASE g < i
    BY <1>1, <1>2, <2>1
  <2>2. CASE ~(g < i)
    <3>1. g - 1 \in 1..(n - 1) /\ ~(g - 1 < i) /\ (g - 1) + 1 = g
      BY <1>1, <1>2, <2>2
    <3> QED BY <3>1
  <2> QED BY <2>1, <2>2
<1> HIDE DEF From
<1>8. /\ Shaped(d) /\ d.args = t /\ d.star = def.star /\ d.kw = def.kw
      /\ Sig!Count(d) = n - 1 /\ \A k \in 1..(n - 1) : Sig!NameAt(d, k) = t[k].name
      /\ Sig!Parameters(d) = {t[k].name : k \in 1..(n - 1)}
  <2>1. /\ d \in [args : Seq(AnyParameter), star : BOOLEAN, kw : BOOLEAN]
        /\ d.args = t /\ d.star = def.star /\ d.kw = def.kw
    BY <1>3, <1>4 DEF Shaped
  <2>2. ASSUME NEW k \in 1..(n - 1), NEW l \in 1..(n - 1), t[k].name = t[l].name
        PROVE  k = l
    <3>1. From(k) \in 1..n /\ From(l) \in 1..n /\ s[From(k)].name = s[From(l)].name
      BY <1>5, <2>2
    <3>2. From(k) = From(l)
      BY <1>1, <3>1
    <3> QED BY <1>6, <3>2
  <2>3. \A k, l \in 1..Len(d.args) : d.args[k].name = d.args[l].name => k = l
    BY <1>3, <2>1, <2>2
  <2>4. /\ Shaped(d) /\ Sig!Count(d) = Len(d.args)
        /\ \A k \in 1..Len(d.args) : Sig!NameAt(d, k) = d.args[k].name
        /\ Sig!Parameters(d) = {d.args[k].name : k \in 1..Len(d.args)}
    BY <2>1, <2>3, WithArgs
  <2> QED BY <1>3, <2>1, <2>4
<1>9. Sig!Parameters(d) = Sig!Parameters(def) \ {Sig!NameAt(def, i)}
  <2>1. Sig!NameAt(def, i) = s[i].name
    BY <1>1, <1>2
  <2>2. ASSUME NEW k \in 1..(n - 1)
        PROVE  t[k].name \in Sig!Parameters(def) /\ t[k].name # s[i].name
    BY <1>1, <1>2, <1>5
  <2>3. ASSUME NEW p \in Sig!Parameters(def), p # s[i].name
        PROVE  \E k \in 1..(n - 1) : p = t[k].name
    <3>1. PICK g \in 1..n : p = s[g].name
      BY <1>1
    <3>2. g # i
      BY <2>3, <3>1
    <3>3. PICK k \in 1..(n - 1) : From(k) = g
      BY <1>7, <3>2
    <3> QED BY <1>5, <3>1, <3>3
  <2> QED BY <1>8, <2>1, <2>2, <2>3
<1>10. ASSUME NEW k \in 1..(n - 1)
       PROVE  \E l \in 1..n : /\ Sig!NameAt(d, k) = Sig!NameAt(def, l)
                              /\ d.args[k].default = s[l].default
  <2>1. From(k) \in 1..n /\ t[k] = s[From(k)]
    BY <1>5
  <2>2. Sig!NameAt(def, From(k)) = s[From(k)].name
    BY <1>1, <2>1
  <2>3. Sig!NameAt(d, k) = t[k].name /\ d.args = t
    BY <1>8
  <2> QED BY <2>1, <2>2, <2>3
<1> QED BY <1>8, <1>9, <1>10 DEF n, s

\* An order of the parameters reaches each of them.
LEMMA OrderIsOnto ==
    ASSUME NEW n \in Nat, NEW order \in Sig!Orders(n)
    PROVE  /\ order \in [1..n -> 1..n]
           /\ \A i, j \in 1..n : order[i] = order[j] => i = j
           /\ \A k \in 1..n : \E i \in 1..n : order[i] = k
<1>1. order \in [1..n -> 1..n] /\ \A i, j \in 1..n : order[i] = order[j] => i = j
  BY DEF Sig!Orders
<1>2. IsFiniteSet(1..n)
  BY FS_Interval
<1>3. order \in Injection(1..n, 1..n)
  BY <1>1 DEF Injection, IsInjective
<1>4. order \in Surjection(1..n, 1..n)
  BY <1>2, <1>3, FS_Injection
<1> QED BY <1>1, <1>4 DEF Surjection

\* d is def with its parameters in the given order.
TakesOrder(d, def, order, autodef) ==
    d = [def EXCEPT !.args = Sig!Filled([i \in DOMAIN order |-> def.args[order[i]]], autodef)]

\* Parameters in another order, some with a default that had none.
LEMMA ReorderShaped ==
    ASSUME NEW def, Shaped(def), NEW order \in Sig!Orders(Sig!Count(def)),
           NEW autodef \in Defaults, NEW d, TakesOrder(d, def, order, autodef)
    PROVE  /\ Shaped(d) /\ d.star = def.star /\ d.kw = def.kw
           /\ Sig!Parameters(d) = Sig!Parameters(def)
           /\ \A k \in 1..Sig!Count(d) : \E l \in 1..Sig!Count(def) :
                /\ Sig!NameAt(d, k) = Sig!NameAt(def, l)
                /\ def.args[l].default # NoValue => d.args[k].default = def.args[l].default
<1> DEFINE n == Sig!Count(def)
           s == def.args
           o == [i \in DOMAIN order |-> s[order[i]]]
           t == Sig!Filled(o, autodef)
<1>1. /\ n \in Nat /\ n = Len(s)
      /\ \A k \in 1..n : s[k].name = Sig!NameAt(def, k) /\ s[k].name \in Sig!Parameters(def)
      /\ \A k, l \in 1..n : s[k].name = s[l].name => k = l
      /\ \A p \in Sig!Parameters(def) : \E k \in 1..n : p = s[k].name
  BY ShapedNames
<1>0. s \in Seq(AnyParameter)
  BY ShapedGives
<1>2. /\ order \in [1..n -> 1..n]
      /\ \A i, j \in 1..n : order[i] = order[j] => i = j
      /\ \A k \in 1..n : \E i \in 1..n : order[i] = k
  <2>1. n \in Nat /\ order \in Sig!Orders(n)
    BY <1>1
  <2> HIDE DEF n
  <2> QED BY <2>1, OrderIsOnto
<1>3. \A k \in 1..n : s[k] \in AnyParameter
  BY <1>0, <1>1
<1>4. o = [i \in 1..n |-> s[order[i]]] /\ \A i \in 1..n : o[i] = s[order[i]] /\ o[i] \in AnyParameter
  <2>1. DOMAIN order = 1..n
    BY <1>2
  <2> HIDE DEF n
  <2> QED BY <1>2, <1>3, <2>1
<1>5. /\ t = [i \in 1..n |->
                IF o[i].default = NoValue /\ \E j \in 1..i : o[j].default # NoValue
                THEN [o[i] EXCEPT !.default = autodef] ELSE o[i]]
  <2>1. DOMAIN o = 1..n
    BY <1>4
  <2> HIDE DEF o, n
  <2> QED BY <2>1 DEF Sig!Filled
<1> HIDE DEF n, s, o
<1>6. ASSUME NEW i \in 1..n
      PROVE  /\ t[i] \in AnyParameter /\ t[i].name = s[order[i]].name
             /\ s[order[i]].default # NoValue => t[i].default = s[order[i]].default
  <2>1. /\ o[i] \in AnyParameter /\ o[i] = s[order[i]]
        /\ t[i] = IF o[i].default = NoValue /\ \E j \in 1..i : o[j].default # NoValue
                  THEN [o[i] EXCEPT !.default = autodef] ELSE o[i]
    BY <1>4, <1>5
  <2> HIDE DEF t
  <2>2. CASE t[i] = o[i]
    BY <2>1, <2>2
  <2>3. CASE o[i].default = NoValue /\ t[i] = [o[i] EXCEPT !.default = autodef]
    BY <2>1, <2>3 DEF AnyParameter
  <2> QED BY <2>1, <2>2, <2>3
<1>6a. ASSUME NEW k \in 1..n
       PROVE  \E g \in 1..n :
                /\ order[k] = g /\ t[k].name = s[g].name
                /\ s[g].default # NoValue => t[k].default = s[g].default
  <2>1. order[k] \in 1..n
    BY <1>2
  <2> QED BY <1>6, <2>1
<1>7. t \in Seq(AnyParameter) /\ Len(t) = n
  <2>1. t = [i \in 1..n |-> t[i]]
    BY <1>5
  <2> HIDE DEF t
  <2> QED BY <1>1, <1>6, <2>1
<1>8. d = [def EXCEPT !.args = t]
  BY DEF TakesOrder, t, o, s
<1> HIDE DEF t
<1>9. /\ d \in [args : Seq(AnyParameter), star : BOOLEAN, kw : BOOLEAN]
      /\ d.args = t /\ d.star = def.star /\ d.kw = def.kw
  BY <1>7, <1>8 DEF Shaped
<1>10. \A k, l \in 1..n : t[k].name = t[l].name => k = l
  <2> TAKE k \in 1..n, l \in 1..n
  <2>1. PICK g \in 1..n : order[k] = g /\ t[k].name = s[g].name
    BY <1>6a
  <2>2. PICK h \in 1..n : order[l] = h /\ t[l].name = s[h].name
    BY <1>6a
  <2>3. t[k].name = t[l].name => g = h
    <3>1. s[g].name = s[h].name => g = h
      BY <1>1, Zenon
    <3> QED BY <2>1, <2>2, <3>1
  <2>4. g = h => k = l
    BY <1>2, <2>1, <2>2
  <2> QED BY <2>3, <2>4
<1>11. /\ Shaped(d) /\ Sig!Count(d) = n
       /\ \A k \in 1..n : Sig!NameAt(d, k) = t[k].name
       /\ Sig!Parameters(d) = {t[k].name : k \in 1..n}
  <2>1. \A k, l \in 1..Len(d.args) : d.args[k].name = d.args[l].name => k = l
    BY <1>7, <1>9, <1>10
  <2>2. /\ Shaped(d) /\ Sig!Count(d) = Len(d.args)
        /\ \A k \in 1..Len(d.args) : Sig!NameAt(d, k) = d.args[k].name
        /\ Sig!Parameters(d) = {d.args[k].name : k \in 1..Len(d.args)}
    BY <1>9, <2>1, WithArgs
  <2> QED BY <1>7, <1>9, <2>2
<1>12. Sig!Parameters(d) = Sig!Parameters(def)
  <2>1. ASSUME NEW k \in 1..n PROVE t[k].name \in Sig!Parameters(def)
    <3>1. order[k] \in 1..n
      BY <1>2
    <3> QED BY <1>1, <1>6, <3>1
  <2>2. ASSUME NEW p \in Sig!Parameters(def) PROVE \E k \in 1..n : p = t[k].name
    <3>1. PICK g \in 1..n : p = s[g].name
      BY <1>1
    <3>2. PICK k \in 1..n : order[k] = g
      BY <1>2
    <3>3. t[k].name = s[g].name
      BY <1>6a, <3>2
    <3> QED BY <3>1, <3>3
  <2> QED BY <1>11, <2>1, <2>2
<1>13. ASSUME NEW k \in 1..n
       PROVE  \E l \in 1..n :
                /\ Sig!NameAt(d, k) = Sig!NameAt(def, l)
                /\ s[l].default # NoValue => d.args[k].default = s[l].default
  <2>1. PICK g \in 1..n :
           /\ t[k].name = s[g].name
           /\ s[g].default # NoValue => t[k].default = s[g].default
    BY <1>6a
  <2>2. Sig!NameAt(d, k) = t[k].name /\ Sig!NameAt(def, g) = s[g].name
        /\ d.args[k].default = t[k].default
    BY <1>1, <1>9, <1>11
  <2> QED BY <2>1, <2>2
<1> QED BY <1>9, <1>11, <1>12, <1>13 DEF n, s

\* d is def without the default of parameter i.
TakesDefault(d, def, i) == d = [def EXCEPT !.args[i].default = NoValue]

\* A default that is taken away: the rest stays.
LEMMA InlineShaped ==
    ASSUME NEW def, Shaped(def), NEW i \in 1..Sig!Count(def),
           NEW d, TakesDefault(d, def, i)
    PROVE  /\ Shaped(d) /\ d.star = def.star /\ d.kw = def.kw
           /\ Sig!Parameters(d) = Sig!Parameters(def) /\ Sig!Count(d) = Sig!Count(def)
           /\ \A k \in 1..Sig!Count(d) :
                /\ Sig!NameAt(d, k) = Sig!NameAt(def, k)
                /\ k # i => d.args[k].default = def.args[k].default
<1> DEFINE n == Sig!Count(def)
           s == def.args
           t == [s EXCEPT ![i].default = NoValue]
<1>1. /\ n \in Nat /\ n = Len(s) /\ s \in Seq(AnyParameter)
      /\ \A k \in 1..n : s[k].name = Sig!NameAt(def, k)
      /\ \A k, l \in 1..n : s[k].name = s[l].name => k = l
      /\ Sig!Parameters(def) = {s[k].name : k \in 1..n}
  BY DEF Shaped, Sig!Count, Sig!NameAt, Sig!Parameters
<1>2. i \in 1..n
  OBVIOUS
<1> HIDE DEF n
<1>3. \A k \in 1..n : s[k] \in AnyParameter
  BY <1>1
<1>4. DOMAIN s = 1..n /\ s = [k \in 1..n |-> s[k]]
  BY <1>1
<1>5. \A k \in 1..n : t[k] = IF k = i THEN [s[k] EXCEPT !.default = NoValue] ELSE s[k]
  BY <1>2, <1>4
<1>6. ASSUME NEW k \in 1..n
      PROVE  /\ t[k] \in AnyParameter /\ t[k].name = s[k].name
             /\ k # i => t[k].default = s[k].default
  <2> HIDE DEF t, s
  <2> QED BY <1>3, <1>5 DEF AnyParameter, Defaults
<1>7. t \in Seq(AnyParameter) /\ Len(t) = n
  <2>1. t = [k \in 1..n |-> t[k]]
    BY <1>4
  <2> HIDE DEF t, s
  <2> QED BY <1>1, <1>6, <2>1
<1>8. d = [def EXCEPT !.args = t]
  BY DEF TakesDefault
<1> HIDE DEF t
<1>9. /\ d \in [args : Seq(AnyParameter), star : BOOLEAN, kw : BOOLEAN]
      /\ d.args = t /\ d.star = def.star /\ d.kw = def.kw
  BY <1>7, <1>8 DEF Shaped
<1> HIDE DEF s
<1>10. \A k, l \in 1..n : t[k].name = t[l].name => k = l
  BY <1>1, <1>6
<1>11. /\ Shaped(d) /\ Sig!Count(d) = n
       /\ \A k \in 1..n : Sig!NameAt(d, k) = t[k].name
       /\ Sig!Parameters(d) = {t[k].name : k \in 1..n}
  <2>1. \A k, l \in 1..Len(d.args) : d.args[k].name = d.args[l].name => k = l
    BY <1>7, <1>9, <1>10
  <2>2. /\ Shaped(d) /\ Sig!Count(d) = Len(d.args)
        /\ \A k \in 1..Len(d.args) : Sig!NameAt(d, k) = d.args[k].name
        /\ Sig!Parameters(d) = {d.args[k].name : k \in 1..Len(d.args)}
    BY <1>9, <2>1, WithArgs
  <2> QED BY <1>7, <1>9, <2>2
<1>12. Sig!Parameters(d) = Sig!Parameters(def)
  BY <1>1, <1>6, <1>11
<1>13. ASSUME NEW k \in 1..n
       PROVE  /\ Sig!NameAt(d, k) = Sig!NameAt(def, k)
              /\ k # i => d.args[k].default = s[k].default
  BY <1>1, <1>6, <1>9, <1>11
<1> QED BY <1>9, <1>11, <1>12, <1>13 DEF n, s
-----------------------------------------------------------------------------
(* The steps of a change of signature *)

\* The parts of a mapping and of what is wanted that a changer sets.
LEMMA MappingSet ==
    ASSUME MappingShaped, NEW given, given = [p \in DOMAIN given |-> given[p]],
           mapping' = [mapping EXCEPT !.param_dict = given]
    PROVE  /\ MappingShaped' /\ mapping'.param_dict = given
           /\ mapping'.args_arg = mapping.args_arg /\ mapping'.keyword_args = mapping.keyword_args
<1> DEFINE T == [param_dict : {mapping.param_dict, given}, args_arg : {mapping.args_arg},
                 keyword_args : {mapping.keyword_args}]
<1>1. mapping \in T
  BY DEF MappingShaped
<1>2. /\ mapping'.param_dict = given
      /\ mapping'.args_arg = mapping.args_arg /\ mapping'.keyword_args = mapping.keyword_args
      /\ mapping' \in T
  BY <1>1
<1>3. mapping' = [param_dict |-> mapping'.param_dict, args_arg |-> mapping'.args_arg,
                  keyword_args |-> mapping'.keyword_args]
  BY <1>2
<1> QED BY <1>2, <1>3 DEF MappingShaped

\* The same for what is wanted.
LEMMA WantedSet ==
    ASSUME WantedShaped, NEW bound,
           bound = [p \in Sig!Parameters(definition') |-> bound[p]],
           wanted' = [wanted EXCEPT !.params = bound]
    PROVE  /\ WantedShaped' /\ wanted'.params = bound
           /\ wanted'.args_arg = wanted.args_arg /\ wanted'.keyword_args = wanted.keyword_args
<1> DEFINE T == [params : {wanted.params, bound}, args_arg : {wanted.args_arg},
                 keyword_args : {wanted.keyword_args}]
<1>1. wanted \in T
  BY DEF WantedShaped
<1>2. /\ wanted'.params = bound
      /\ wanted'.args_arg = wanted.args_arg /\ wanted'.keyword_args = wanted.keyword_args
      /\ wanted' \in T
  BY <1>1
<1>3. wanted' = [params |-> wanted'.params, args_arg |-> wanted'.args_arg,
                 keyword_args |-> wanted'.keyword_args]
  BY <1>2
<1>4. WantedShaped'
  BY <1>2, <1>3 DEF WantedShaped, Sig!Parameters
<1> QED BY <1>2, <1>4

\* What is to be shown of a changer of the parameters.
LEMMA ParametersChange ==
    ASSUME SignatureInv, Shaped(definition'), MappingShaped', WantedShaped',
           definition'.star = definition.star, definition'.kw = definition.kw,
           mapping'.args_arg = mapping.args_arg, mapping'.keyword_args = mapping.keyword_args,
           wanted'.args_arg = wanted.args_arg, wanted'.keyword_args = wanted.keyword_args,
           DOMAIN mapping'.param_dict \subseteq Sig!Parameters(definition') \cup removed',
           \A i \in 1..Sig!Count(definition') :
              Sig!NameAt(definition', i) \notin removed' \cup unset' => Matches(i)'
    PROVE  SignatureInv'
<1>1. \A i \in 1..Sig!Count(definition)' :
         Sig!NameAt(definition, i)' \notin removed' \cup unset' => Matches(i)'
  BY DEF Sig!Count, Sig!NameAt
<1>2. (DOMAIN mapping.param_dict \subseteq Sig!Parameters(definition) \cup removed)'
  BY DEF Sig!Parameters
<1>3. Shaped(definition)'
  BY DEF Shaped, Sig!Count, Sig!NameAt
<1> QED BY <1>1, <1>2, <1>3 DEF SignatureInv

\* What a parameter was bound to is kept by a changer that leaves its name and
\* the default it has.
LEMMA MatchesKept ==
    ASSUME NEW l, Matches(l), NEW k, NEW p,
           Sig!NameAt(definition, l) = p, Sig!NameAt(definition', k) = p,
           definition.args[l].default # NoValue =>
              definition'.args[k].default = definition.args[l].default,
           p \in DOMAIN mapping'.param_dict <=> p \in DOMAIN mapping.param_dict,
           p \in DOMAIN mapping.param_dict =>
              mapping'.param_dict[p] = mapping.param_dict[p],
           wanted'.params[p] = wanted.params[p]
    PROVE  Matches(k)'
<1>1. Sig!NameAt(definition, k)' = p
  BY DEF Sig!NameAt
<1>2. IF p \in DOMAIN mapping.param_dict THEN wanted.params[p] = mapping.param_dict[p]
      ELSE /\ definition.args[l].default # NoValue
           /\ wanted.params[p] = definition.args[l].default
  BY DEF Matches
<1>3. IF p \in DOMAIN mapping'.param_dict THEN wanted'.params[p] = mapping'.param_dict[p]
      ELSE /\ definition'.args[k].default # NoValue
           /\ wanted'.params[p] = definition'.args[k].default
  BY <1>2
<1> QED BY <1>1, <1>3 DEF Matches

\* A parameter that is added.
LEMMA AddKeeps ==
    ASSUME SignatureInv, Sig!Add
    PROVE  SignatureInv'
<1>1. PICK i \in 1..(Sig!Count(definition) + 1), name \in Names,
           default \in {NoValue, Sig!Default("new")}, value \in {NoValue, Sig!Given("new")} :
        /\ ~Sig!Duplicate(name)
        /\ Sig!Apply([definition EXCEPT !.args =
                        Sig!Inserted(@, i, [name |-> name, default |-> default])])
        /\ mapping' = IF value = NoValue THEN mapping
                      ELSE [mapping EXCEPT !.param_dict =
                              [p \in DOMAIN @ \cup {name} |-> IF p = name THEN value ELSE @[p]]]
        /\ wanted' = [wanted EXCEPT !.params =
                        [p \in DOMAIN @ \cup {name} |->
                           IF p # name THEN @[p] ELSE IF value = NoValue THEN default ELSE value]]
        /\ removed' = IF value = NoValue THEN removed ELSE removed \ {name}
        /\ unset' = IF default = NoValue /\ value = NoValue THEN unset \cup {name} ELSE unset
  BY DEF Sig!Add
<1>2. /\ Shaped(definition) /\ MappingShaped /\ WantedShaped
      /\ DOMAIN mapping.param_dict \subseteq Sig!Parameters(definition) \cup removed
      /\ \A l \in 1..Sig!Count(definition) :
            Sig!NameAt(definition, l) \notin removed \cup unset => Matches(l)
  BY DEF SignatureInv
<1>3. default \in Defaults /\ name \notin Sig!Parameters(definition)
  BY <1>1 DEF Defaults, Sig!Duplicate
<1>4. /\ Shaped(definition')
      /\ definition'.star = definition.star /\ definition'.kw = definition.kw
      /\ Sig!Parameters(definition') = Sig!Parameters(definition) \cup {name}
      /\ \A k \in 1..Sig!Count(definition') :
           \/ Sig!NameAt(definition', k) = name /\ definition'.args[k].default = default
           \/ \E l \in 1..Sig!Count(definition) :
                /\ Sig!NameAt(definition', k) = Sig!NameAt(definition, l)
                /\ definition'.args[k].default = definition.args[l].default
  <2>1. TakesParameter(definition', definition, i, name, default)
    BY <1>1 DEF Sig!Apply, TakesParameter
  <2> QED BY <1>2, <1>3, <2>1, AddShaped
<1> DEFINE given == mapping.param_dict
           bound == [p \in DOMAIN wanted.params \cup {name} |->
                       IF p # name THEN wanted.params[p]
                       ELSE IF value = NoValue THEN default ELSE value]
           passed == [p \in DOMAIN given \cup {name} |-> IF p = name THEN value ELSE given[p]]
<1>5. DOMAIN wanted.params = Sig!Parameters(definition)
  BY <1>2 DEF WantedShaped
<1>6. /\ WantedShaped' /\ wanted'.params = bound
      /\ wanted'.args_arg = wanted.args_arg /\ wanted'.keyword_args = wanted.keyword_args
  <2>1. bound = [p \in Sig!Parameters(definition') |-> bound[p]]
    BY <1>4, <1>5
  <2>2. wanted' = [wanted EXCEPT !.params = bound]
    BY <1>1
  <2> HIDE DEF bound
  <2> QED BY <1>2, <2>1, <2>2, WantedSet
<1>7. CASE value = NoValue
  <2>1. /\ mapping' = mapping /\ removed' = removed
        /\ unset' = IF default = NoValue THEN unset \cup {name} ELSE unset
    BY <1>1, <1>7
  <2>2. MappingShaped'
    BY <1>2, <2>1 DEF MappingShaped
  <2>3. ASSUME NEW k \in 1..Sig!Count(definition'),
               Sig!NameAt(definition', k) \notin removed' \cup unset'
        PROVE  Matches(k)'
    <3>1. CASE Sig!NameAt(definition', k) = name /\ definition'.args[k].default = default
      <4>1. name \notin DOMAIN mapping.param_dict /\ default # NoValue
        BY <1>2, <1>3, <2>1, <2>3, <3>1
      <4>2. wanted'.params[name] = default
        BY <1>6, <1>7
      <4>3. Sig!NameAt(definition, k)' = name
        BY <3>1 DEF Sig!NameAt
      <4> QED BY <2>1, <3>1, <4>1, <4>2, <4>3 DEF Matches
    <3>2. ASSUME NEW l \in 1..Sig!Count(definition),
                 Sig!NameAt(definition', k) = Sig!NameAt(definition, l),
                 definition'.args[k].default = definition.args[l].default
          PROVE  Matches(k)'
      <4>1. Sig!NameAt(definition, l) \in Sig!Parameters(definition)
        BY <1>2, ShapedGives
      <4>2. Matches(l)
        BY <1>2, <2>1, <2>3, <3>2
      <4>3. wanted'.params[Sig!NameAt(definition, l)] = wanted.params[Sig!NameAt(definition, l)]
        BY <1>3, <1>5, <1>6, <4>1
      <4> QED BY <2>1, <3>2, <4>2, <4>3, MatchesKept
    <3> QED BY <1>4, <3>1, <3>2
  <2>4. DOMAIN mapping'.param_dict \subseteq Sig!Parameters(definition') \cup removed'
    BY <1>2, <1>4, <2>1
  <2>5. mapping'.args_arg = mapping.args_arg /\ mapping'.keyword_args = mapping.keyword_args
    BY <2>1
  <2> QED BY <1>4, <1>6, <2>2, <2>3, <2>4, <2>5, ParametersChange
<1>8. CASE value # NoValue
  <2>1. /\ mapping' = [mapping EXCEPT !.param_dict = passed]
        /\ removed' = removed \ {name} /\ unset' = unset
    BY <1>1, <1>8
  <2>2. /\ MappingShaped' /\ mapping'.param_dict = passed
        /\ mapping'.args_arg = mapping.args_arg /\ mapping'.keyword_args = mapping.keyword_args
    <3>1. passed = [p \in DOMAIN passed |-> passed[p]]
      OBVIOUS
    <3> HIDE DEF passed
    <3> QED BY <1>2, <2>1, <3>1, MappingSet
  <2>3. ASSUME NEW k \in 1..Sig!Count(definition'),
               Sig!NameAt(definition', k) \notin removed' \cup unset'
        PROVE  Matches(k)'
    <3>1. CASE Sig!NameAt(definition', k) = name
      <4>1. name \in DOMAIN mapping'.param_dict /\ mapping'.param_dict[name] = value
        BY <2>2
      <4>2. wanted'.params[name] = value
        BY <1>6, <1>8
      <4>3. Sig!NameAt(definition, k)' = name
        BY <3>1 DEF Sig!NameAt
      <4> QED BY <4>1, <4>2, <4>3 DEF Matches
    <3>2. ASSUME NEW l \in 1..Sig!Count(definition),
                 Sig!NameAt(definition', k) = Sig!NameAt(definition, l),
                 definition'.args[k].default = definition.args[l].default
          PROVE  Matches(k)'
      <4> DEFINE p == Sig!NameAt(definition, l)
      <4>1. p \in Sig!Parameters(definition) /\ p # name
        BY <1>2, <1>3, ShapedGives
      <4>2. Matches(l)
        BY <1>2, <2>1, <2>3, <3>2, <4>1
      <4>3. wanted'.params[p] = wanted.params[p]
        BY <1>5, <1>6, <4>1
      <4>4. /\ p \in DOMAIN mapping'.param_dict <=> p \in DOMAIN mapping.param_dict
            /\ p \in DOMAIN mapping.param_dict =>
                  mapping'.param_dict[p] = mapping.param_dict[p]
        BY <2>2, <4>1
      <4> QED BY <3>2, <4>2, <4>3, <4>4, MatchesKept
    <3> QED BY <1>4, <3>1, <3>2
  <2>4. DOMAIN mapping'.param_dict \subseteq Sig!Parameters(definition') \cup removed'
    BY <1>2, <1>4, <2>1, <2>2
  <2> QED BY <1>4, <1>6, <2>2, <2>3, <2>4, ParametersChange
<1> QED BY <1>7, <1>8

\* A parameter that is removed.
LEMMA RemoveParameterKeeps ==
    ASSUME SignatureInv, Sig!RemoveParameter
    PROVE  SignatureInv'
<1>1. PICK i \in 1..Sig!Count(definition) :
        /\ Sig!Apply([definition EXCEPT !.args = Sig!Seqs!RemoveAt(@, i)])
        /\ wanted' = [wanted EXCEPT !.params =
                        Sig!Only(@, DOMAIN @ \ {Sig!NameAt(definition, i)})]
        /\ removed' = removed \cup ({Sig!NameAt(definition, i)} \cap DOMAIN mapping.param_dict)
        /\ unset' = unset \ {Sig!NameAt(definition, i)}
        /\ UNCHANGED mapping
  BY DEF Sig!RemoveParameter
<1>2. /\ Shaped(definition) /\ MappingShaped /\ WantedShaped
      /\ DOMAIN mapping.param_dict \subseteq Sig!Parameters(definition) \cup removed
      /\ \A l \in 1..Sig!Count(definition) :
            Sig!NameAt(definition, l) \notin removed \cup unset => Matches(l)
  BY DEF SignatureInv
<1> DEFINE name == Sig!NameAt(definition, i)
           bound == [p \in DOMAIN wanted.params \ {name} |-> wanted.params[p]]
<1>3. /\ Shaped(definition')
      /\ definition'.star = definition.star /\ definition'.kw = definition.kw
      /\ Sig!Parameters(definition') = Sig!Parameters(definition) \ {name}
      /\ \A k \in 1..Sig!Count(definition') : \E l \in 1..Sig!Count(definition) :
           /\ Sig!NameAt(definition', k) = Sig!NameAt(definition, l)
           /\ definition'.args[k].default = definition.args[l].default
  <2>1. DropsParameter(definition', definition, i)
    BY <1>1 DEF Sig!Apply, DropsParameter
  <2> QED BY <1>2, <2>1, RemoveShaped
<1>4. DOMAIN wanted.params = Sig!Parameters(definition)
  BY <1>2 DEF WantedShaped
<1>5. /\ WantedShaped' /\ wanted'.params = bound
      /\ wanted'.args_arg = wanted.args_arg /\ wanted'.keyword_args = wanted.keyword_args
  <2>1. bound = [p \in Sig!Parameters(definition') |-> bound[p]]
    BY <1>3, <1>4
  <2>2. wanted' = [wanted EXCEPT !.params = bound]
    BY <1>1 DEF Sig!Only
  <2> HIDE DEF bound
  <2> QED BY <1>2, <2>1, <2>2, WantedSet
<1>6. /\ mapping' = mapping /\ MappingShaped'
      /\ removed' = removed \cup ({name} \cap DOMAIN mapping.param_dict)
      /\ unset' = unset \ {name}
  BY <1>1, <1>2 DEF MappingShaped
<1>7. ASSUME NEW k \in 1..Sig!Count(definition'),
             Sig!NameAt(definition', k) \notin removed' \cup unset'
      PROVE  Matches(k)'
  <2>1. PICK l \in 1..Sig!Count(definition) :
           /\ Sig!NameAt(definition', k) = Sig!NameAt(definition, l)
           /\ definition'.args[k].default = definition.args[l].default
    BY <1>3
  <2> DEFINE p == Sig!NameAt(definition, l)
  <2>2. p \in Sig!Parameters(definition') /\ p # name
    BY <1>3, <2>1, ShapedGives
  <2>3. Matches(l)
    BY <1>2, <1>6, <1>7, <2>1, <2>2
  <2>4. wanted'.params[p] = wanted.params[p]
    BY <1>3, <1>4, <1>5, <2>2
  <2> QED BY <1>6, <2>1, <2>3, <2>4, MatchesKept
<1>8. DOMAIN mapping'.param_dict \subseteq Sig!Parameters(definition') \cup removed'
  BY <1>2, <1>3, <1>6
<1> QED BY <1>3, <1>5, <1>6, <1>7, <1>8, ParametersChange

\* Parameters in another order.
LEMMA ReorderKeeps ==
    ASSUME SignatureInv, Sig!Reorder
    PROVE  SignatureInv'
<1>1. PICK order \in Sig!Orders(Sig!Count(definition)),
           autodef \in {NoValue, Sig!Default("auto")} :
        /\ TakesOrder(definition', definition, order, autodef)
        /\ UNCHANGED <<mapping, wanted, removed, unset>>
  BY DEF Sig!Reorder, Sig!Apply, TakesOrder
<1>2. /\ Shaped(definition) /\ MappingShaped /\ WantedShaped
      /\ DOMAIN mapping.param_dict \subseteq Sig!Parameters(definition) \cup removed
      /\ \A l \in 1..Sig!Count(definition) :
            Sig!NameAt(definition, l) \notin removed \cup unset => Matches(l)
  BY DEF SignatureInv
<1>3. /\ Shaped(definition')
      /\ definition'.star = definition.star /\ definition'.kw = definition.kw
      /\ Sig!Parameters(definition') = Sig!Parameters(definition)
      /\ \A k \in 1..Sig!Count(definition') : \E l \in 1..Sig!Count(definition) :
           /\ Sig!NameAt(definition', k) = Sig!NameAt(definition, l)
           /\ definition.args[l].default # NoValue =>
                definition'.args[k].default = definition.args[l].default
  <2>1. autodef \in Defaults
    BY DEF Defaults
  <2> QED BY <1>1, <1>2, <2>1, ReorderShaped
<1>4. mapping' = mapping /\ wanted' = wanted /\ removed' = removed /\ unset' = unset
  BY <1>1
<1>5. MappingShaped'
  BY <1>2, <1>4 DEF MappingShaped
<1>6. WantedShaped'
  BY <1>2, <1>3, <1>4 DEF WantedShaped, Sig!Parameters
<1>7. ASSUME NEW k \in 1..Sig!Count(definition'),
             Sig!NameAt(definition', k) \notin removed' \cup unset'
      PROVE  Matches(k)'
  <2>1. PICK l \in 1..Sig!Count(definition) :
           /\ Sig!NameAt(definition', k) = Sig!NameAt(definition, l)
           /\ definition.args[l].default # NoValue =>
                definition'.args[k].default = definition.args[l].default
    BY <1>3
  <2>2. Matches(l)
    BY <1>2, <1>4, <1>7, <2>1
  <2> QED BY <1>4, <2>1, <2>2, MatchesKept
<1>8. DOMAIN mapping'.param_dict \subseteq Sig!Parameters(definition') \cup removed'
  BY <1>2, <1>3, <1>4
<1>9. /\ mapping'.args_arg = mapping.args_arg /\ mapping'.keyword_args = mapping.keyword_args
      /\ wanted'.args_arg = wanted.args_arg /\ wanted'.keyword_args = wanted.keyword_args
  BY <1>4
<1> QED BY <1>3, <1>5, <1>6, <1>7, <1>8, <1>9, ParametersChange

\* A default that is passed from now on, and taken away or left.
LEMMA InlineKeeps ==
    ASSUME SignatureInv, Sig!InlineDefault
    PROVE  SignatureInv'
<1>1. PICK i \in 1..Sig!Count(definition) :
        /\ definition.args[i].default # NoValue
        /\ TakesDefault(definition', definition, i) \/ definition' = definition
        /\ mapping' = Sig!Inlined(i)
        /\ UNCHANGED <<wanted, removed, unset>>
  BY DEF Sig!InlineDefault, Sig!Apply, TakesDefault
<1>2. /\ Shaped(definition) /\ MappingShaped /\ WantedShaped
      /\ DOMAIN mapping.param_dict \subseteq Sig!Parameters(definition) \cup removed
      /\ \A l \in 1..Sig!Count(definition) :
            Sig!NameAt(definition, l) \notin removed \cup unset => Matches(l)
  BY DEF SignatureInv
<1> DEFINE name == Sig!NameAt(definition, i)
           given == mapping.param_dict
           passed == [p \in DOMAIN given \cup {name} |->
                        IF p = name THEN definition.args[i].default ELSE given[p]]
<1>3. /\ Shaped(definition')
      /\ definition'.star = definition.star /\ definition'.kw = definition.kw
      /\ Sig!Parameters(definition') = Sig!Parameters(definition)
      /\ Sig!Count(definition') = Sig!Count(definition)
      /\ \A k \in 1..Sig!Count(definition) :
           /\ Sig!NameAt(definition', k) = Sig!NameAt(definition, k)
           /\ k # i => definition'.args[k].default = definition.args[k].default
  <2>1. CASE TakesDefault(definition', definition, i)
    BY <1>2, <2>1, InlineShaped
  <2>2. CASE definition' = definition
    BY <1>2, <2>2
  <2> QED BY <1>1, <2>1, <2>2
<1>4. wanted' = wanted /\ removed' = removed /\ unset' = unset
  BY <1>1
<1>5. WantedShaped'
  BY <1>2, <1>3, <1>4 DEF WantedShaped, Sig!Parameters
<1>6. /\ name \in Sig!Parameters(definition)
      /\ \A k \in 1..Sig!Count(definition) : Sig!NameAt(definition, k) = name => k = i
  BY <1>2, ShapedGives
<1>7. wanted'.args_arg = wanted.args_arg /\ wanted'.keyword_args = wanted.keyword_args
  BY <1>4
<1>8. CASE name \in DOMAIN given
  <2>1. mapping' = mapping
    BY <1>1, <1>8 DEF Sig!Inlined
  <2>2. MappingShaped'
    BY <1>2, <2>1 DEF MappingShaped
  <2>3. ASSUME NEW k \in 1..Sig!Count(definition'),
               Sig!NameAt(definition', k) \notin removed' \cup unset'
        PROVE  Matches(k)'
    <3>1. Matches(k) /\ Sig!NameAt(definition', k) = Sig!NameAt(definition, k)
      BY <1>2, <1>3, <1>4, <2>3
    <3>2. CASE k = i
      <4>1. wanted.params[name] = given[name]
        BY <1>8, <3>1, <3>2 DEF Matches
      <4>2. Sig!NameAt(definition, k)' = name
        BY <3>1, <3>2 DEF Sig!NameAt
      <4> QED BY <1>4, <1>8, <2>1, <4>1, <4>2 DEF Matches
    <3>3. CASE k # i
      BY <1>3, <1>4, <2>1, <3>1, <3>3, MatchesKept
    <3> QED BY <3>2, <3>3
  <2>4. DOMAIN mapping'.param_dict \subseteq Sig!Parameters(definition') \cup removed'
    BY <1>2, <1>3, <1>4, <2>1
  <2>5. mapping'.args_arg = mapping.args_arg /\ mapping'.keyword_args = mapping.keyword_args
    BY <2>1
  <2> QED BY <1>3, <1>5, <1>7, <2>2, <2>3, <2>4, <2>5, ParametersChange
<1>9. CASE name \notin DOMAIN given
  <2>1. mapping' = [mapping EXCEPT !.param_dict = passed]
    BY <1>1, <1>9 DEF Sig!Inlined
  <2>2. /\ MappingShaped' /\ mapping'.param_dict = passed
        /\ mapping'.args_arg = mapping.args_arg /\ mapping'.keyword_args = mapping.keyword_args
    <3>1. passed = [p \in DOMAIN passed |-> passed[p]]
      OBVIOUS
    <3> HIDE DEF passed
    <3> QED BY <1>2, <2>1, <3>1, MappingSet
  <2>3. ASSUME NEW k \in 1..Sig!Count(definition'),
               Sig!NameAt(definition', k) \notin removed' \cup unset'
        PROVE  Matches(k)'
    <3>1. Matches(k) /\ Sig!NameAt(definition', k) = Sig!NameAt(definition, k)
      BY <1>2, <1>3, <1>4, <2>3
    <3>2. CASE k = i
      <4>1. wanted.params[name] = definition.args[i].default
        BY <1>9, <3>1, <3>2 DEF Matches
      <4>2. Sig!NameAt(definition, k)' = name
        BY <3>1, <3>2 DEF Sig!NameAt
      <4>3. name \in DOMAIN mapping'.param_dict
            /\ mapping'.param_dict[name] = definition.args[i].default
        BY <2>2
      <4> QED BY <1>4, <4>1, <4>2, <4>3 DEF Matches
    <3>3. CASE k # i
      <4> DEFINE p == Sig!NameAt(definition, k)
      <4>1. p # name
        BY <1>3, <1>6, <3>3
      <4>2. /\ p \in DOMAIN mapping'.param_dict <=> p \in DOMAIN mapping.param_dict
            /\ p \in DOMAIN mapping.param_dict =>
                  mapping'.param_dict[p] = mapping.param_dict[p]
        BY <2>2, <4>1
      <4> QED BY <1>3, <1>4, <3>1, <3>3, <4>2, MatchesKept
    <3> QED BY <3>2, <3>3
  <2>4. DOMAIN mapping'.param_dict \subseteq Sig!Parameters(definition') \cup removed'
    BY <1>2, <1>3, <1>4, <1>6, <2>2
  <2> QED BY <1>3, <1>5, <1>7, <2>2, <2>3, <2>4, ParametersChange
<1> QED BY <1>8, <1>9

\* A definition whose *args or **kw is taken away: its parameters stay.
LEMMA StarShaped ==
    ASSUME Shaped(definition),
           \/ definition' = [definition EXCEPT !.star = FALSE]
           \/ definition' = [definition EXCEPT !.kw = FALSE]
    PROVE  Shaped(definition)' /\ definition'.args = definition.args
<1> DEFINE T(S) == [args : S, star : BOOLEAN, kw : BOOLEAN]
<1>1. definition \in T({definition.args}) /\ definition.args \in Seq(AnyParameter)
  <2>1. definition \in T(Seq(AnyParameter))
    BY DEF Shaped
  <2> HIDE DEF Shaped
  <2> QED BY <2>1
<1>2. definition' \in T({definition.args})
  BY <1>1
<1>3. definition'.args = definition.args /\ definition' \in T(Seq(AnyParameter))
  BY <1>1, <1>2
<1>4. \A i, j \in 1..Len(definition.args) :
         definition.args[i].name = definition.args[j].name => i = j
  BY DEF Shaped, Sig!Count, Sig!NameAt
<1> QED BY <1>3, <1>4 DEF Shaped, Sig!Count, Sig!NameAt

\* What is the same when the parameters of a definition are.
LEMMA SameArgs ==
    ASSUME SignatureInv, Shaped(definition)', definition'.args = definition.args,
           mapping' = mapping, removed' = removed, unset' = unset, wanted'.params = wanted.params,
           wanted' = [params |-> wanted'.params, args_arg |-> wanted'.args_arg,
                      keyword_args |-> wanted'.keyword_args],
           \/ wanted'.args_arg = mapping.args_arg
           \/ mapping.args_arg # <<>> /\ ~definition'.star,
           \/ wanted'.keyword_args = mapping.keyword_args
           \/ DOMAIN mapping.keyword_args # {} /\ ~definition'.kw
    PROVE  SignatureInv'
<1>1. /\ MappingShaped /\ WantedShaped
      /\ DOMAIN mapping.param_dict \subseteq Sig!Parameters(definition) \cup removed
      /\ \A i \in 1..Sig!Count(definition) :
            Sig!NameAt(definition, i) \notin removed \cup unset => Matches(i)
  BY DEF SignatureInv
<1>2. /\ Sig!Count(definition)' = Sig!Count(definition)
      /\ Sig!Parameters(definition)' = Sig!Parameters(definition)
      /\ \A i : Sig!NameAt(definition, i)' = Sig!NameAt(definition, i)
  BY DEF Sig!Count, Sig!Parameters, Sig!NameAt
<1>3. MappingShaped'
  BY <1>1 DEF MappingShaped
<1>4. WantedShaped'
  BY <1>1, <1>2 DEF WantedShaped
<1>5. \A i \in 1..Sig!Count(definition)' :
         Sig!NameAt(definition, i)' \notin removed' \cup unset' => Matches(i)'
  BY <1>1, <1>2 DEF Matches
<1> QED BY <1>1, <1>2, <1>3, <1>4, <1>5 DEF SignatureInv

\* What goes to *args and **kw, when neither changes.
LEMMA ExtrasKept ==
    ASSUME SignatureInv
    PROVE  /\ wanted.args_arg = mapping.args_arg \/ (mapping.args_arg # <<>> /\ ~definition.star)
           /\ \/ wanted.keyword_args = mapping.keyword_args
              \/ DOMAIN mapping.keyword_args # {} /\ ~definition.kw
  BY DEF SignatureInv

\* *args is removed.
LEMMA RemoveStarKeeps ==
    ASSUME SignatureInv, Sig!RemoveStar
    PROVE  SignatureInv'
<1>1. /\ definition.star /\ definition' = [definition EXCEPT !.star = FALSE]
      /\ wanted' = [wanted EXCEPT !.args_arg = <<>>]
      /\ mapping' = mapping /\ removed' = removed /\ unset' = unset
  BY DEF Sig!RemoveStar, Sig!Apply
<1>2. Shaped(definition) /\ WantedShaped
  BY DEF SignatureInv
<1>3. Shaped(definition)' /\ definition'.args = definition.args
  BY <1>1, <1>2, StarShaped
<1>4. definition \in [args : {definition.args}, star : BOOLEAN, kw : BOOLEAN]
  BY <1>2 DEF Shaped
<1>5. definition'.kw = definition.kw /\ ~definition'.star
  BY <1>1, <1>4
<1>6. /\ wanted'.params = wanted.params /\ wanted'.args_arg = <<>>
      /\ wanted'.keyword_args = wanted.keyword_args
      /\ wanted' = [params |-> wanted'.params, args_arg |-> wanted'.args_arg,
                    keyword_args |-> wanted'.keyword_args]
  BY <1>1, <1>2 DEF WantedShaped
<1>7. wanted'.args_arg = mapping.args_arg \/ (mapping.args_arg # <<>> /\ ~definition'.star)
  BY <1>5, <1>6
<1>8. \/ wanted'.keyword_args = mapping.keyword_args
      \/ DOMAIN mapping.keyword_args # {} /\ ~definition'.kw
  BY <1>5, <1>6, ExtrasKept
<1> QED BY <1>1, <1>3, <1>6, <1>7, <1>8, SameArgs

\* **kw is removed.
LEMMA RemoveKeywordsKeeps ==
    ASSUME SignatureInv, Sig!RemoveKeywords
    PROVE  SignatureInv'
<1>1. /\ definition.kw /\ definition' = [definition EXCEPT !.kw = FALSE]
      /\ wanted' = [wanted EXCEPT !.keyword_args = [p \in {} |-> NoValue]]
      /\ mapping' = mapping /\ removed' = removed /\ unset' = unset
  BY DEF Sig!RemoveKeywords, Sig!Apply
<1>2. Shaped(definition) /\ WantedShaped /\ MappingShaped
  BY DEF SignatureInv
<1>3. Shaped(definition)' /\ definition'.args = definition.args
  BY <1>1, <1>2, StarShaped
<1>4. definition \in [args : {definition.args}, star : BOOLEAN, kw : BOOLEAN]
  BY <1>2 DEF Shaped
<1>5. definition'.star = definition.star /\ ~definition'.kw
  BY <1>1, <1>4
<1>6. /\ wanted'.params = wanted.params /\ wanted'.keyword_args = [p \in {} |-> NoValue]
      /\ wanted'.args_arg = wanted.args_arg
      /\ wanted' = [params |-> wanted'.params, args_arg |-> wanted'.args_arg,
                    keyword_args |-> wanted'.keyword_args]
  BY <1>1, <1>2 DEF WantedShaped
<1>7. wanted'.args_arg = mapping.args_arg \/ (mapping.args_arg # <<>> /\ ~definition'.star)
  BY <1>5, <1>6, ExtrasKept
<1>8. \/ wanted'.keyword_args = mapping.keyword_args
      \/ DOMAIN mapping.keyword_args # {} /\ ~definition'.kw
  <2>1. CASE DOMAIN mapping.keyword_args = {}
    <3>1. mapping.keyword_args = [p \in DOMAIN mapping.keyword_args |-> mapping.keyword_args[p]]
      BY <1>2 DEF MappingShaped
    <3>2. mapping.keyword_args = [p \in {} |-> NoValue]
      BY <2>1, <3>1
    <3> QED BY <1>6, <3>2
  <2> QED BY <1>5, <2>1
<1> QED BY <1>1, <1>3, <1>6, <1>7, <1>8, SameArgs

\* Every changer keeps the invariant.
LEMMA SignatureSteps ==
    ASSUME SignatureInv, Sig!Next
    PROVE  SignatureInv'
  BY AddKeeps, RemoveParameterKeeps, RemoveStarKeeps, RemoveKeywordsKeeps, InlineKeeps,
     ReorderKeeps DEF Sig!Next

\* And so does a step of another refactoring, or none.
LEMMA SignatureStutters ==
    ASSUME SignatureInv, UNCHANGED signature
    PROVE  SignatureInv'
<1>1. /\ definition' = definition /\ mapping' = mapping /\ wanted' = wanted
      /\ removed' = removed /\ unset' = unset
  BY DEF signature
<1>2. Shaped(definition) /\ WantedShaped
  BY DEF SignatureInv
<1>3. Shaped(definition)'
  BY <1>1, <1>2 DEF Shaped, Sig!Count, Sig!NameAt
<1>4. wanted = [params |-> wanted.params, args_arg |-> wanted.args_arg,
                keyword_args |-> wanted.keyword_args]
  BY <1>2 DEF WantedShaped
<1> QED BY <1>1, <1>3, <1>4, ExtrasKept, SameArgs

-----------------------------------------------------------------------------
(* A definition and a call of it, before any changer *)

\* A call that Python accepts binds what its mapping says.
LEMMA SignatureInit ==
    ASSUME Sig!Init
    PROVE  SignatureInv
<1>1. definition \in Definitions /\ removed = {}
  BY DEF Sig!Init
<1>2. PICK call \in Sig!CallsOf(definition) :
         /\ mapping = Sig!ArgumentMapping(definition, call)
         /\ wanted = Sig!Bound(definition, call)
  BY DEF Sig!Init
<1>3. Shaped(definition)
  BY <1>1, StartsShaped
<1> DEFINE n == Sig!Count(definition)
           At(i) == Sig!NameAt(definition, i)
           places == DOMAIN call.args \cap 1..n
           named == DOMAIN call.keywords
           P == Sig!Parameters(definition)
<1>4. /\ n \in Nat /\ \A i, j \in 1..n : At(i) = At(j) => i = j
      /\ \A i \in 1..n : /\ At(i) \in P
                         /\ Sig!DefaultOf(definition, At(i)) = definition.args[i].default
      /\ \A p \in P : \E i \in 1..n : p = At(i)
  BY <1>3, ShapedGives
<1>5. PICK m \in 0..(n + 1), Named \in SUBSET Names :
         call = [args |-> [i \in 1..m |-> Sig!Argument(i)],
                 keywords |-> [p \in Named |-> Sig!Keyword(p)]]
  BY DEF Sig!CallsOf
<1>6. Sig!Accepts(definition, call)
  BY DEF Sig!CallsOf
<1>7. /\ call.args \in Seq({Sig!Argument(i) : i \in 1..m})
      /\ DOMAIN call.args = 1..m /\ m \in Nat
  BY <1>4, <1>5
<1>8. /\ named \cap {At(i) : i \in places} = {}
      /\ \A p \in P \ ({At(i) : i \in places} \cup named) :
            Sig!DefaultOf(definition, p) # NoValue
  BY <1>6 DEF Sig!Accepts, Sig!Fits, Sig!Missing, Sig!Positional
<1> DEFINE extra == SubSeq(call.args, n + 1, Len(call.args))
           over == DOMAIN call.keywords \ P
           given == [p \in {At(i) : i \in places} \cup (named \cap P) |->
                       IF p \in named \cap P THEN call.keywords[p]
                       ELSE call.args[CHOOSE i \in places : At(i) = p]]
           bound == [p \in P |->
                       IF \E i \in DOMAIN call.args : i <= n /\ At(i) = p
                       THEN call.args[CHOOSE i \in DOMAIN call.args : i <= n /\ At(i) = p]
                       ELSE IF p \in DOMAIN call.keywords THEN call.keywords[p]
                       ELSE Sig!DefaultOf(definition, p)]
           rest == [p \in over |-> call.keywords[p]]
<1>9. mapping = [param_dict |-> given, args_arg |-> extra, keyword_args |-> rest]
  <2>1. DOMAIN call.keywords \ (named \cap P) = over
    OBVIOUS
  <2> QED BY <1>2, <2>1 DEF Sig!ArgumentMapping, Sig!Only
<1>10. wanted = [params |-> bound, args_arg |-> extra, keyword_args |-> rest]
  BY <1>2 DEF Sig!Bound, Sig!Only
<1>11. extra \in Seq(Range(extra))
  <2>1. extra \in Seq({Sig!Argument(i) : i \in 1..m})
    <3>1. \A i \in (n + 1)..Len(call.args) : call.args[i] \in {Sig!Argument(k) : k \in 1..m}
      BY <1>4, <1>7
    <3>2. Len(call.args) \in Nat
      BY <1>7
    <3> HIDE DEF n
    <3> QED BY <1>4, <1>7, <3>1, <3>2, SubSeqProperties
  <2> HIDE DEF extra
  <2>2. extra = [i \in 1..Len(extra) |-> extra[i]] /\ Len(extra) \in Nat
        /\ \A i \in 1..Len(extra) : extra[i] \in Range(extra)
    BY <2>1 DEF Range
  <2> QED BY <2>2
<1> HIDE DEF extra
<1>12. MappingShaped
  <2>1. given = [p \in DOMAIN given |-> given[p]] /\ rest = [p \in DOMAIN rest |-> rest[p]]
    OBVIOUS
  <2> HIDE DEF given, rest
  <2> QED BY <1>9, <1>11, <2>1 DEF MappingShaped
<1>13. WantedShaped
  <2>1. bound = [p \in P |-> bound[p]]
    OBVIOUS
  <2> HIDE DEF bound, rest
  <2> QED BY <1>10, <2>1 DEF WantedShaped
<1>14. ASSUME NEW i \in 1..n PROVE Matches(i)
  <2>1. At(i) \in P /\ \A j \in places : At(j) = At(i) => j = i
    BY <1>4
  <2>2. mapping.param_dict = given /\ wanted.params = bound
    <3> HIDE DEF given, bound, rest
    <3> QED BY <1>9, <1>10
  <2>3. CASE i \in places
    <3>1. At(i) \notin named
      BY <1>8, <2>3
    <3>2. At(i) \in DOMAIN given /\ (CHOOSE j \in places : At(j) = At(i)) = i
      BY <2>1, <2>3
    <3>3. given[At(i)] = call.args[i]
      BY <3>1, <3>2
    <3>4. i \in DOMAIN call.args /\ i <= n
      BY <1>4, <2>3
    <3>5. \A j \in DOMAIN call.args : (j <= n /\ At(j) = At(i)) <=> j = i
      BY <1>4, <1>7, <2>1, <3>4
    <3>6. (CHOOSE j \in DOMAIN call.args : j <= n /\ At(j) = At(i)) = i
      BY <3>4, <3>5
    <3>7. bound[At(i)] = call.args[i]
      BY <2>1, <3>4, <3>6
    <3> HIDE DEF given, bound
    <3> QED BY <2>2, <3>2, <3>3, <3>7 DEF Matches
  <2>4. CASE i \notin places
    <3>1. At(i) \notin {At(j) : j \in places}
      BY <2>1, <2>4
    <3>2. ~\E j \in DOMAIN call.args : j <= n /\ At(j) = At(i)
      BY <1>4, <1>7, <3>1
    <3>3. bound[At(i)] = IF At(i) \in named THEN call.keywords[At(i)]
                         ELSE Sig!DefaultOf(definition, At(i))
      BY <2>1, <3>2
    <3>4. CASE At(i) \in named
      <4>1. At(i) \in DOMAIN given /\ given[At(i)] = call.keywords[At(i)]
        BY <2>1, <3>4
      <4> HIDE DEF given, bound
      <4> QED BY <2>2, <3>3, <3>4, <4>1 DEF Matches
    <3>5. CASE At(i) \notin named
      <4>1. At(i) \notin DOMAIN given
        BY <3>1, <3>5
      <4>2. Sig!DefaultOf(definition, At(i)) = definition.args[i].default
            /\ definition.args[i].default # NoValue
        BY <1>4, <1>8, <2>1, <3>1, <3>5
      <4> HIDE DEF given, bound
      <4> QED BY <2>2, <3>3, <3>5, <4>1, <4>2 DEF Matches
    <3> QED BY <3>4, <3>5
  <2> QED BY <2>3, <2>4
<1>15. DOMAIN mapping.param_dict \subseteq P \cup removed
  <2>1. DOMAIN given \subseteq P
    BY <1>4
  <2>2. mapping.param_dict = given
    <3> HIDE DEF given, rest
    <3> QED BY <1>9
  <2> HIDE DEF given
  <2> QED BY <2>1, <2>2
<1>16. wanted.args_arg = mapping.args_arg /\ wanted.keyword_args = mapping.keyword_args
  <2> HIDE DEF given, bound, rest
  <2> QED BY <1>9, <1>10
<1> QED BY <1>3, <1>12, <1>13, <1>14, <1>15, <1>16 DEF SignatureInv
-----------------------------------------------------------------------------
(* One refactoring or the other *)

\* What holds of an extraction holds while nothing is extracted.
LEMMA ExtractionStutters ==
    ASSUME ExtractionInv, UNCHANGED extraction
    PROVE  ExtractionInv'
<1>1. /\ program' = program /\ params' = params /\ region' = region /\ pc' = pc
      /\ env' = env /\ outer' = outer /\ inner' = inner /\ broken' = broken
  BY DEF extraction, vars
<1>2. /\ Prewritten' = Prewritten /\ Written' = Written /\ MaybeWritten' = MaybeWritten
      /\ Postread' = Postread /\ Arguments' = Arguments /\ Piece' = Piece
      /\ Excused' = Excused
  BY <1>1, ProgramStays
<1>3. ExtractionTyped'
  BY <1>1 DEF ExtractionInv, ExtractionTyped
<1>4. /\ \A i : Sets(i)' = Sets(i)
      /\ \A i : Comes(i, pc)' = Comes(i, pc)
  BY <1>1 DEF Sets, Comes
<1>5. \A v : InStep(v)' = InStep(v) /\ Known(v)' = Known(v)
  BY <1>1, <1>2, <1>4 DEF InStep, Known
<1>6. /\ ValuesThere' = ValuesThere /\ BeforePiece' = BeforePiece
      /\ InsidePiece' = InsidePiece /\ BehindPiece' = BehindPiece
  BY <1>1, <1>2, <1>4, <1>5 DEF ValuesThere, BeforePiece, InsidePiece, BehindPiece
<1> QED BY <1>1, <1>2, <1>3, <1>6 DEF ExtractionInv

\* Whatever refactoring is performed starts as its invariant says.
LEMMA BothInit ==
    ASSUME OneInit
    PROVE  BothInv
<1>1. CASE Sig!Init /\ NoExtraction
  <2>1. SignatureInv /\ program = None
    BY <1>1, SignatureInit DEF NoExtraction
  <2> QED BY <2>1 DEF BothInv
<1>2. CASE Init /\ NoSignature
  <2>1. ExtractionInv /\ definition = None
    BY <1>2, ExtractionInit DEF NoSignature
  <2> QED BY <2>1 DEF BothInv
<1> QED BY <1>1, <1>2 DEF OneInit

\* And goes on as it says, while the other one is not there.
LEMMA BothSteps ==
    ASSUME BothInv, [OneNext]_<<signature, extraction>>
    PROVE  BothInv'
<1>1. CASE program # None /\ Next /\ UNCHANGED signature
  <2>1. ExtractionInv'
    BY <1>1, ExtractionSteps DEF BothInv
  <2>2. definition' = definition
    BY <1>1 DEF signature
  <2>3. definition # None => SignatureInv'
    BY <1>1, SignatureStutters DEF BothInv
  <2> QED BY <2>1, <2>2, <2>3 DEF BothInv
<1>2. CASE definition # None /\ Sig!Next /\ UNCHANGED extraction
  <2>1. SignatureInv'
    BY <1>2, SignatureSteps DEF BothInv
  <2>2. program' = program
    BY <1>2 DEF extraction, vars
  <2>3. program # None => ExtractionInv'
    BY <1>2, ExtractionStutters DEF BothInv
  <2> QED BY <2>1, <2>2, <2>3 DEF BothInv
<1>3. CASE UNCHANGED <<signature, extraction>>
  <2>1. UNCHANGED signature /\ UNCHANGED extraction
    BY <1>3
  <2>2. definition' = definition /\ program' = program
    BY <2>1 DEF signature, extraction, vars
  <2>3. definition # None => SignatureInv'
    BY <2>1, SignatureStutters DEF BothInv
  <2>4. program # None => ExtractionInv'
    BY <2>1, ExtractionStutters DEF BothInv
  <2> QED BY <2>2, <2>3, <2>4 DEF BothInv
<1> QED BY <1>1, <1>2, <1>3 DEF OneNext

\* Through every refactoring its invariant holds (change_signature.py,
\* extract.py).
THEOREM BothInvariants == OneSpec => []BothInv
<1>1. OneInit => BothInv
  BY BothInit
<1>2. BothInv /\ [OneNext]_<<signature, extraction>> => BothInv'
  BY BothSteps
<1> QED BY <1>1, <1>2, PTL DEF OneSpec

\* Whatever definition is changed, by however many changers, whichever they
\* are, and whatever call of it Python accepts: the changed definition has no
\* parameter twice, each argument of the changed call has one parameter, and
\* the call binds each parameter that is left to the value it had
\* (change_signature.py, functionutils.py), but for the cases that Signature
\* names.  The only parameters such a call may lack are those that were added
\* with neither a default nor a value, which ArgumentAdder lets pass.
THEOREM SignaturesStay == OneSpec => []SignatureKept
<1>1. BothInv => SignatureKept
  BY BindingHolds DEF BothInv, SignatureKept
<1> QED BY <1>1, BothInvariants, PTL

\* Whatever piece of whatever function is extracted, and whichever branches
\* are taken: a line reads after the refactoring what it read before, and the
\* call and the return find the variables that they name (extract.py), but
\* for the cases that ExtractMethod names.
THEOREM ExtractionsStay == OneSpec => []ExtractionKept
<1>1. BothInv => ExtractionKept
  BY ExtractionReads DEF BothInv, ExtractionKept
<1> QED BY <1>1, BothInvariants, PTL
=============================================================================
