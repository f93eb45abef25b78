---------------------------- MODULE Breakpoints ----------------------------
(***************************************************************************)
(* The breakpoints of pydb: the list bdb.Breakpoint.bpbynumber, the        *)
(* commands that edit it, and break_here, which decides at every line      *)
(* whether some breakpoint asks for a stop.  A deleted breakpoint keeps    *)
(* its number.  bdb.effective is Python's own and is modelled from what    *)
(* break_here does with its answer.                                        *)
(***************************************************************************)
EXTENDS Naturals, Sequences, FiniteSetsExt

CONSTANTS BreakLines,   \* the lines a breakpoint may be set at
          MaxBps,       \* bound: the breakpoints made in a session
          MaxIgnore     \* bound: the largest ignore count given

ASSUME BoundsAssumption == MaxBps \in Nat /\ MaxIgnore \in Nat

Breakpoint ==
  [line : BreakLines, temporary : BOOLEAN, conditional : BOOLEAN,
   enabled : BOOLEAN, alive : BOOLEAN, ignore : 0..MaxIgnore]

(* What the conditions of a line's breakpoints evaluate to when it is reached. *)
Truths == {"true", "false", "error"}

-----------------------------------------------------------------------------
(* Mutant: only the first breakpoint set on a line is looked at. *)
Candidates_First(b, l) ==
  LET here == {n \in DOMAIN b : b[n].alive /\ b[n].line = l}
  IN {n \in here : b[n].enabled /\ \A m \in here : n <= m}

(* bdb.effective: the enabled breakpoints of the line are looked at in     *)
(* order; one whose condition fails is passed over, one with an ignore     *)
(* count is passed over and its count lowered, the first other one is the  *)
(* answer.  A condition that raises stops whatever the ignore count is.    *)
Candidates(b, l) ==
  {n \in DOMAIN b : b[n].alive /\ b[n].enabled /\ b[n].line = l}

Applies(bp, truth) == ~bp.conditional \/ truth = "true"
Fails(bp, truth) == bp.conditional /\ truth = "error"

Honoured(b, l, truth) ==
  {n \in Candidates(b, l) : \/ Applies(b[n], truth) /\ b[n].ignore = 0
                            \/ Fails(b[n], truth)}

Effective(b, l, truth) ==
  IF Honoured(b, l, truth) = {} THEN 0 ELSE Min(Honoured(b, l, truth))

PassedOver(b, l, truth) ==
  {n \in Candidates(b, l) :
     Applies(b[n], truth) /\ \A m \in Honoured(b, l, truth) : n < m}

(* clear_break: every breakpoint of the line goes.  It is what do_clear    *)
(* calls, and what do_delete comes to for any one breakpoint of the line.  *)
ClearBreak(b, l) ==
  [n \in DOMAIN b |-> IF b[n].line = l THEN [b[n] EXCEPT !.alive = FALSE] ELSE b[n]]

(* break_here: the number of the breakpoint that stops the program at line *)
(* l, 0 when there is none, and the breakpoints as the question leaves     *)
(* them.  A temporary breakpoint is deleted by the answer.                 *)
BreakHere(b, l, truth) ==
  LET num == Effective(b, l, truth)
      counted == [n \in DOMAIN b |-> IF n \in PassedOver(b, l, truth)
                                     THEN [b[n] EXCEPT !.ignore = @ - 1]
                                     ELSE b[n]]
      forget == num # 0 /\ b[num].temporary /\ ~Fails(b[num], truth)
  IN [num |-> num, bps |-> IF forget THEN ClearBreak(counted, l) ELSE counted]

(* do_break and do_tbreak: a new number, whatever is on the line already. *)
SetBreak(b, l, temporary, conditional) ==
  Append(b, [line |-> l, temporary |-> temporary, conditional |-> conditional,
             enabled |-> TRUE, alive |-> TRUE, ignore |-> 0])

(* do_delete: clear_bpbynumber clears the line of the breakpoint it names. *)
DeleteBreak(b, n) == IF b[n].alive THEN ClearBreak(b, b[n].line) ELSE b

(* do_delete without a number: clear_all_breaks. *)
DeleteAll(b) == [n \in DOMAIN b |-> [b[n] EXCEPT !.alive = FALSE]]

(* do_enable, do_disable, do_ignore and do_condition on breakpoint n: a    *)
(* deleted one is None in the list and is left alone.                      *)
SetEnabled(b, n, on) == [b EXCEPT ![n].enabled = IF b[n].alive THEN on ELSE @]
SetIgnore(b, n, count) == [b EXCEPT ![n].ignore = IF b[n].alive THEN count ELSE @]
SetCondition(b, n, on) == [b EXCEPT ![n].conditional = IF b[n].alive THEN on ELSE @]
=============================================================================
