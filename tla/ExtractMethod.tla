---------------------------- MODULE ExtractMethod ----------------------------
(***************************************************************************)
(* Extract method of rope/refactor/extract.py: which variables the piece    *)
(* that is cut out of a function gets as arguments, and which it returns.   *)
(* The original function and the one that calls the extracted piece run     *)
(* side by side, through the same branches.                                 *)
(*                                                                         *)
(* A program is a sequence of lines with their depths.  A line sets a       *)
(* variable, uses one, or is the head of an if or a while that uses one.    *)
(* A variable's value is the line that set it, 0 when it came as a          *)
(* parameter.  Left out: expressions, else branches, for, try and with,     *)
(* break and continue, return (the code takes one only as the last          *)
(* statement of the piece), del, nested functions, augmented assignment     *)
(* (which the finder counts as a write and not as a read) and the           *)
(* extraction of an expression.                                             *)
(***************************************************************************)
EXTENDS Integers, Sequences, FiniteSets

CONSTANTS
    Vars,       \* the variables of the function
    ParamSets,  \* the ones of them that may be its parameters
    MaxLines,   \* bound: the lines of its body
    MaxDepth,   \* bound: how deep its blocks are nested
    Unbound     \* the value of a variable that was not set

ASSUME ExtractMethodAssumption ==
    MaxLines \in Nat /\ MaxDepth \in Nat /\ Unbound \notin Nat

VARIABLES
    program,   \* the body of the function
    params,    \* the parameters of the function
    region,    \* the first and the last line of the piece
    pc,        \* the line to be executed
    env,       \* the variables of the original function
    outer,     \* those of the function after the refactoring
    inner,     \* those of the extracted function, while it runs
    broken     \* the call of it, or its return, used a variable without value

vars == <<program, params, region, pc, env, outer, inner, broken>>

Branching(op) == op \in {"if", "while"}
Lines(p) == 1..Len(p)
Depth(p, i) == IF i \in Lines(p) THEN p[i].depth ELSE 0

\* A head is followed by its block, and nothing else goes deeper.
IsProgram(p) ==
    /\ p[1].depth = 0
    /\ \A i \in Lines(p) :
         /\ i > 1 /\ ~Branching(p[i - 1].op) => p[i].depth <= p[i - 1].depth
         /\ Branching(p[i].op) => Depth(p, i + 1) = p[i].depth + 1

Statement == [op : {"set", "use", "if", "while"}, var : Vars, depth : 0..MaxDepth]
Programs == UNION {{p \in [1..n -> Statement] : IsProgram(p)} : n \in 1..MaxLines}

BlockEnd(p, i) ==
    CHOOSE e \in i..Len(p) : /\ \A j \in (i + 1)..e : p[j].depth > p[i].depth
                             /\ Depth(p, e + 1) <= p[i].depth

Heads(p, i) == {h \in 1..(i - 1) : Branching(p[h].op) /\ i <= BlockEnd(p, h)}

\* _ExceptionalConditionChecker: whole statements of one block.
Regions(p) ==
    {r \in Lines(p) \X Lines(p) :
        /\ r[1] <= r[2]
        /\ \A i \in r[1]..r[2] : p[i].depth >= p[r[1]].depth
        /\ Depth(p, r[2] + 1) <= p[r[1]].depth}

Piece == region[1]..region[2]

-----------------------------------------------------------------------------
(* _FunctionInformationCollector *)

Sets(i) == program[i].op = "set"
Uses(i) == program[i].op # "set"

\* The flag `conditional`: on from a head to the end of the first block that
\* ends, also when that is inside another one.
Conditional(i) ==
    \E h \in 1..(i - 1) : /\ Branching(program[h].op)
                          /\ \A j \in (h + 1)..i : Depth(program, j) >= Depth(program, j - 1)
                          /\ Depth(program, i) > Depth(program, h)

VarAt(S) == {program[i].var : i \in S}

Prewritten == params \cup VarAt({i \in 1..(region[1] - 1) : Sets(i)})
Written == VarAt({i \in Piece : Sets(i) /\ ~Conditional(i)})
MaybeWritten == VarAt({i \in Piece : Sets(i) /\ Conditional(i)})

\* Read before it is written for sure.
Read ==
    VarAt({i \in Piece : Uses(i) /\ \A j \in region[1]..(i - 1) :
             Sets(j) /\ program[j].var = program[i].var => Conditional(j)})

\* Read behind the piece before it is written there.
Postread ==
    VarAt({i \in (region[2] + 1)..Len(program) : Uses(i) /\
             \A j \in (region[2] + 1)..(i - 1) :
                Sets(j) => program[j].var # program[i].var})

\* Mutant: only what is read is passed.
Arguments_Read == Prewritten \cap Read

\* _find_function_arguments
Arguments == (Prewritten \cap Read) \cup (MaybeWritten \cap Postread)

\* _find_function_returns
Returns == (Written \cup MaybeWritten) \cap Postread

-----------------------------------------------------------------------------
(* Running both *)

Restricted(e, S) == [v \in Vars |-> IF v \in S THEN e[v] ELSE Unbound]

\* The call, with the arguments it is given, and the return.
Enter(o) ==
    /\ inner' = Restricted(o, Arguments)
    /\ outer' = o
    /\ broken' = (\E v \in Arguments : o[v] = Unbound)

Leave(e) ==
    /\ inner' = [v \in Vars |-> Unbound]
    /\ outer' = [v \in Vars |-> IF v \in Returns THEN e[v] ELSE outer[v]]
    /\ broken' = (\E v \in Returns : e[v] = Unbound)

\* On to line j, with e the variables of the frame that runs.
Move(e, j) ==
    /\ pc' = j
    /\ CASE pc \in Piece /\ j \in Piece -> inner' = e /\ UNCHANGED <<outer, broken>>
         [] pc \in Piece /\ j \notin Piece -> Leave(e)
         [] pc \notin Piece /\ j \in Piece -> Enter(e)
         [] OTHER -> outer' = e /\ UNCHANGED <<inner, broken>>
    /\ UNCHANGED <<program, params, region>>

Frame == IF pc \in Piece THEN inner ELSE outer

\* Behind the last line of a loop its head comes again.
Behind(i, j) ==
    LET loops == {h \in Heads(program, i) :
                     program[h].op = "while" /\ BlockEnd(program, h) = j - 1}
    IN  IF loops = {} THEN j ELSE CHOOSE h \in loops : \A g \in loops : g <= h

Running == pc \in Lines(program) /\ ~broken

\* The original raises NameError at a variable without value, and ends.
Readable == env[program[pc].var] # Unbound

Set ==
    /\ Running /\ Sets(pc)
    /\ env' = [env EXCEPT ![program[pc].var] = pc]
    /\ Move([Frame EXCEPT ![program[pc].var] = pc], Behind(pc, pc + 1))

Use ==
    /\ Running /\ program[pc].op = "use" /\ Readable
    /\ Move(Frame, Behind(pc, pc + 1))
    /\ UNCHANGED env

GoIn ==
    /\ Running /\ Branching(program[pc].op) /\ Readable
    /\ Move(Frame, pc + 1)
    /\ UNCHANGED env

GoPast ==
    /\ Running /\ Branching(program[pc].op) /\ Readable
    /\ Move(Frame, Behind(pc, BlockEnd(program, pc) + 1))
    /\ UNCHANGED env

Start == [v \in Vars |-> IF v \in params THEN 0 ELSE Unbound]

Init ==
    /\ program \in Programs /\ params \in ParamSets
    /\ region \in Regions(program)
    /\ pc = 0 /\ env = Start /\ outer = Start
    /\ inner = [v \in Vars |-> Unbound] /\ broken = FALSE

Begin == pc = 0 /\ Move(outer, 1) /\ UNCHANGED env

Next == Begin \/ Set \/ Use \/ GoIn \/ GoPast

Spec == Init /\ [][Next]_vars

-----------------------------------------------------------------------------
(* Properties *)

\* Where the sets the collector keeps are not enough, and the refactoring
\* changes the program without a word:
\* the piece is in a loop, and is run again after what is above it;
InLoop == \E h \in Heads(program, region[1]) : program[h].op = "while"
\* a variable is set behind the piece on one branch only, and read after it;
SetOnABranchBehind ==
    \E i, j \in (region[2] + 1)..Len(program) :
        /\ i < j /\ Sets(i) /\ Uses(j) /\ program[i].var = program[j].var
        /\ Heads(program, i) \ Heads(program, j) # {}
\* a variable has no value when the piece is reached, or when it is left.
SetFor(v, last) ==
    \E i \in 1..last : /\ Sets(i) /\ program[i].var = v
                       /\ Heads(program, i) \subseteq Heads(program, region[1])
NoValueYet ==
    \/ \E v \in Arguments \ params : ~SetFor(v, region[1] - 1)
    \/ \E v \in Returns \ params : ~SetFor(v, region[2])

\* a line is still on a branch when the flag is off.
FlagLost == \E i \in Piece : Heads(program, i) # {} /\ ~Conditional(i)

Excused == InLoop \/ SetOnABranchBehind \/ NoValueYet \/ FlagLost

\* Every line reads after the refactoring what it read before, inside the
\* extracted function and behind its call; and the call and the return find
\* the variables that they name.
ReadsKept ==
    \/ /\ ~broken
       /\ Running /\ Uses(pc) /\ Readable => Frame[program[pc].var] = env[program[pc].var]
    \/ Excused
=============================================================================
