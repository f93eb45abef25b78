--------------------------- MODULE SteppingProofs ---------------------------
(***************************************************************************)
(* Theorems about Stepping for any script, functions, lines, breakpoints   *)
(* and counts: its type invariant; that step and next stop where and when  *)
(* they should, that continue stops at breakpoints only, that no breakpoint *)
(* is passed over, and that finish does not forget the frame it is for.    *)
(***************************************************************************)
EXTENDS Stepping, SequenceTheorems, WellFoundedInduction, TLAPS

\* A non-empty set of natural numbers has a least element.
LEMMA LeastNatural ==
    ASSUME NEW S \in SUBSET Nat, S # {}
    PROVE  \E m \in S : \A n \in S : m <= n
<1>1. PICK m \in S : \A n \in S : ~(<<n, m>> \in OpToRel(<, Nat))
  BY NatLessThanWellFounded, WFMin, Zenon
<1>2. ASSUME NEW n \in Nat, m \in Nat, n < m PROVE <<n, m>> \in OpToRel(<, Nat)
  BY <1>2, Zenon DEF OpToRel
<1>3. \A n \in S : n \in Nat /\ m \in Nat
  OBVIOUS
<1>4. \A n \in S : ~(n < m)
  BY <1>1, <1>2, <1>3
<1> QED BY <1>3, <1>4

-----------------------------------------------------------------------------
(* Breakpoints *)

\* What a sequence is made of.
LEMMA SeqParts ==
    ASSUME NEW S, NEW s \in Seq(S)
    PROVE  /\ Len(s) \in Nat /\ DOMAIN s = 1..Len(s)
           /\ \A n \in DOMAIN s : s[n] \in S
BY LenProperties, ElementOfSeq

\* An edit of every breakpoint leaves breakpoints.
LEMMA EditType ==
    ASSUME NEW b \in Seq(Breakpoint), NEW c, DOMAIN c = DOMAIN b, c = [n \in DOMAIN c |-> c[n]],
           \A n \in DOMAIN b : c[n] \in Breakpoint
    PROVE  c \in Seq(Breakpoint) /\ Len(c) = Len(b)
<1>1. Len(b) \in Nat /\ DOMAIN b = 1..Len(b)
  BY SeqParts
<1>2. c \in [1..Len(b) -> Breakpoint]
  BY <1>1
<1>3. c \in Seq(Breakpoint)
  BY <1>1, <1>2, SeqDef
<1> QED BY <1>1, <1>3, LenProperties

\* The smallest number of a set of breakpoint numbers.
LEMMA MinNumber ==
    ASSUME NEW S \in SUBSET Nat, S # {}
    PROVE  Min(S) \in S /\ \A n \in S : Min(S) <= n
<1>1. \E m \in S : \A n \in S : m <= n
  BY LeastNatural
<1> QED BY <1>1 DEF Min

\* Edited keeps what two lists of breakpoints have in common when no breakpoint
\* is added, moved to another line or lost.
Edited(b, c) ==
    /\ c \in Seq(Breakpoint) /\ Len(c) = Len(b) /\ DOMAIN c = DOMAIN b
    /\ \A n \in DOMAIN b : c[n].line = b[n].line

\* clear_break moves no breakpoint.
LEMMA ClearedEdited ==
    ASSUME NEW b \in Seq(Breakpoint), NEW l
    PROVE  Edited(b, ClearBreak(b, l))
<1> DEFINE c == ClearBreak(b, l)
<1>1. DOMAIN c = DOMAIN b /\ c = [n \in DOMAIN c |-> c[n]]
  BY DEF ClearBreak
<1>2. \A n \in DOMAIN b : b[n] \in Breakpoint
  BY SeqParts
<1>3. \A n \in DOMAIN b : c[n] \in Breakpoint /\ c[n].line = b[n].line
  BY <1>2 DEF ClearBreak, Breakpoint
<1> HIDE DEF c
<1>4. c \in Seq(Breakpoint) /\ Len(c) = Len(b)
  BY <1>1, <1>3, EditType
<1> QED BY <1>1, <1>3, <1>4 DEF Edited, c

\* The breakpoints with the ignore counts lowered.
Counting(b, l, truth) ==
    [n \in DOMAIN b |-> IF n \in PassedOver(b, l, truth)
                        THEN [b[n] EXCEPT !.ignore = @ - 1] ELSE b[n]]

\* A count is lowered only when there is something to lower.
LEMMA CountingEdited ==
    ASSUME NEW b \in Seq(Breakpoint), NEW l, NEW truth
    PROVE  Edited(b, Counting(b, l, truth))
<1> DEFINE c == Counting(b, l, truth)
<1>1. DOMAIN c = DOMAIN b /\ c = [n \in DOMAIN c |-> c[n]]
  BY DEF Counting
<1>2. DOMAIN b \in SUBSET Nat /\ \A n \in DOMAIN b : b[n] \in Breakpoint
  BY SeqParts
<1>3. ASSUME NEW n \in PassedOver(b, l, truth)
      PROVE  n \in DOMAIN b /\ b[n].ignore # 0
  <2>1. n \in DOMAIN b /\ n \in Nat
    BY <1>2 DEF PassedOver, Candidates
  <2>2. b[n].ignore = 0 => n \in Honoured(b, l, truth)
    BY DEF PassedOver, Honoured
  <2>3. \A m \in Honoured(b, l, truth) : n < m
    BY DEF PassedOver
  <2> QED BY <2>1, <2>2, <2>3
<1>4. ASSUME NEW n \in DOMAIN b PROVE c[n] \in Breakpoint /\ c[n].line = b[n].line
  <2>1. b[n] \in Breakpoint
    BY <1>2
  <2>2. CASE n \in PassedOver(b, l, truth)
    <3>1. b[n].ignore - 1 \in 0..MaxIgnore
      BY <1>3, <2>1, <2>2, BoundsAssumption DEF Breakpoint
    <3>2. c[n] = [b[n] EXCEPT !.ignore = b[n].ignore - 1]
      BY <2>2 DEF Counting
    <3> QED BY <2>1, <3>1, <3>2 DEF Breakpoint
  <2>3. CASE n \notin PassedOver(b, l, truth)
    BY <2>1, <2>3 DEF Counting
  <2> QED BY <2>2, <2>3
<1> HIDE DEF c
<1>5. c \in Seq(Breakpoint) /\ Len(c) = Len(b)
  BY <1>1, <1>4, EditType
<1> QED BY <1>1, <1>4, <1>5 DEF Edited, c

\* break_here: what it answers is the number of a breakpoint of the line, or
\* none, and no breakpoint is added, lost or moved by the question.
LEMMA BreakHereType ==
    ASSUME NEW b \in Seq(Breakpoint), NEW l, NEW truth
    PROVE  LET hit == BreakHere(b, l, truth) IN
           /\ Edited(b, hit.bps)
           /\ hit.num \in 0..Len(b)
           /\ hit.num # 0 => hit.num \in DOMAIN b /\ b[hit.num].line = l
           /\ hit.num = 0 <=> Honoured(b, l, truth) = {}
<1> DEFINE hit == BreakHere(b, l, truth)
           num == Effective(b, l, truth)
           counted == Counting(b, l, truth)
<1>1. Len(b) \in Nat /\ DOMAIN b = 1..Len(b) /\ \A n \in DOMAIN b : b[n] \in Breakpoint
  BY SeqParts
<1>2. Edited(b, counted)
  BY CountingEdited
<1>3. /\ num \in 0..Len(b)
      /\ num # 0 => num \in DOMAIN b /\ b[num].line = l
      /\ num = 0 <=> Honoured(b, l, truth) = {}
  <2> DEFINE S == Honoured(b, l, truth)
  <2>1. S \in SUBSET DOMAIN b /\ \A n \in S : b[n].line = l
    BY DEF Honoured, Candidates
  <2>2. S \in SUBSET Nat /\ \A n \in S : n \in 1..Len(b) /\ n # 0
    BY <1>1, <2>1
  <2>3. CASE S = {}
    <3>1. num = 0
      BY <2>3 DEF Effective
    <3> QED BY <1>1, <2>3, <3>1
  <2>4. CASE S # {}
    <3> HIDE DEF S
    <3>1. Min(S) \in S
      BY <2>2, <2>4, MinNumber
    <3>2. num = Min(S)
      BY <2>4 DEF Effective, S
    <3> HIDE DEF num
    <3>3. num \in DOMAIN b /\ b[num].line = l /\ num # 0 /\ num \in 0..Len(b)
      BY <1>1, <2>1, <2>2, <3>1, <3>2
    <3> QED BY <2>4, <3>3 DEF S
  <2> QED BY <2>3, <2>4
<1>4. hit.num = num /\ hit.bps \in {counted, ClearBreak(counted, l)}
  BY DEF BreakHere, Counting
<1> HIDE DEF hit, num, counted
<1>5. Edited(b, hit.bps)
  <2>1. Edited(counted, ClearBreak(counted, l))
    BY <1>2, ClearedEdited DEF Edited
  <2> QED BY <1>2, <1>4, <2>1 DEF Edited
<1> QED BY <1>3, <1>4, <1>5 DEF hit

-----------------------------------------------------------------------------
(* The inductive invariant *)

Frames == [fn : Functions \union {Script}, line : AllLines \union {NoLine, Statement.line},
           traced : BOOLEAN]
Debuggers == [stopframe : Gone..MaxDepth, returnframe : Gone..MaxDepth,
              quitting : BOOLEAN, tracing : BOOLEAN, stepIgnore : -1..MaxCount,
              currentbp : 0..MaxBps, quitRequested : BOOLEAN, sigcheck : BOOLEAN]
Goals == [cmd : {"start", "step", "next", "finish", "continue"},
          frame : Gone..MaxDepth, left : 0..MaxCount, lost : Nat, broke : BOOLEAN]
Exceptions == {"none", "error", "exit", "quit", "restart"}

\* What the debugger stops for is what the user asked for.
Matches(d, what, depth) ==
    /\ what.cmd = "continue" => d.stopframe = 0 /\ d.returnframe = NoFrame
    /\ what.cmd = "step" => d.stopframe = NoFrame /\ d.returnframe = NoFrame
    /\ what.cmd = "step" => what.frame = Gone
    /\ what.cmd = "next" => d.stopframe = what.frame /\ d.returnframe = NoFrame
    /\ what.cmd = "next" => what.frame <= depth /\ what.frame # NoFrame
    /\ what.cmd = "finish" => d.returnframe = what.frame

\* The lines to skip are the lines left but one, or fewer by the stops of
\* breakpoints that the count has swallowed.
Counted(d, what) ==
    what.cmd \in {"step", "next"} =>
        d.stepIgnore + 1 <= what.left /\ what.left <= d.stepIgnore + 1 + what.lost

\* At a prompt: the part of the three invariants that speaks of one.
Asked ==
    /\ NextStays /\ ContinueOnlyBreaks
    /\ mode = "prompt" /\ goal.cmd \in {"step", "next"} /\ event = "line" /\ ~goal.broke
         => goal.left <= goal.lost /\ dbg.stepIgnore = 0

GoalInv ==
    /\ mode \in {"run", "prompt"} => Depth >= 1 /\ Matches(dbg, goal, Depth)
    /\ mode = "run" => Counted(dbg, goal)
    /\ mode = "prompt" => at.sel <= at.newest /\ at.newest <= Depth
    /\ dbg.currentbp <= Len(bps)

SteppingInv == TypeOK /\ GoalInv /\ Asked

\* The types of what the trace callbacks change.
FlowType ==
    /\ stack \in Seq(Frames) /\ Depth <= MaxDepth
    /\ mode \in {"run", "prompt", "postmortem", "exited"}
    /\ event \in {"line", "call", "return", "exception"}
    /\ raising \in Exceptions
    /\ dbg \in Debuggers
    /\ at \in [sel : 0..MaxDepth, newest : 0..MaxDepth]
    /\ goal \in Goals

\* The types of what the user edits.
EditsType ==
    /\ bps \in Seq(Breakpoint) /\ Len(bps) <= MaxBps
    /\ lists \in [1..MaxBps -> {"none", "show", "continue"}]
    /\ ran \in [num : 0..MaxBps, line : AllLines \union {0}] /\ session \in Sessions

\* TypeOK is these two.
LEMMA TypeParts == TypeOK <=> FlowType /\ EditsType
BY DEF TypeOK, FlowType, EditsType, Frames, Debuggers, Goals, Exceptions

\* And so after a step.
LEMMA TypePartsNext == TypeOK' <=> FlowType' /\ EditsType'
BY TypeParts, PTL

\* The commands that set the stop information.
LEMMA StopInfoType ==
    ASSUME NEW d \in Debuggers, NEW s \in Gone..MaxDepth, NEW r \in Gone..MaxDepth
    PROVE  /\ StopInfo(d, s, r) \in Debuggers
           /\ StopInfo(d, s, r).stopframe = s /\ StopInfo(d, s, r).returnframe = r
           /\ StopInfo(d, s, r).stepIgnore = d.stepIgnore
           /\ StopInfo(d, s, r).currentbp = d.currentbp
           /\ StopInfo(d, s, r).tracing = d.tracing
BY DEF StopInfo, Debuggers

\* Constants the stop information is made of.
LEMMA FrameNumbers ==
    /\ MaxDepth \in Nat /\ MaxCount \in Nat /\ MaxBps \in Nat
    /\ 2 <= MaxDepth
    /\ NoFrame \in Gone..MaxDepth /\ Gone \in Gone..MaxDepth /\ 0 \in Gone..MaxDepth
    /\ 0 \in 0..MaxDepth /\ 0 \in 0..MaxCount /\ 0 \in -1..MaxCount /\ 0 \in 0..MaxBps
BY DepthAssumption, BoundsAssumption DEF NoFrame, Gone

\* set_continue_gdb stops at no frame.
LEMMA SetContinueType ==
    ASSUME NEW d \in Debuggers, NEW b
    PROVE  /\ SetContinue(d, b) \in Debuggers
           /\ SetContinue(d, b).stopframe = 0 /\ SetContinue(d, b).returnframe = NoFrame
           /\ SetContinue(d, b).currentbp = d.currentbp
<1> DEFINE e == StopInfo(d, 0, NoFrame)
           on == d.sigcheck \/ \E n \in DOMAIN b : b[n].alive
<1>1. /\ e \in Debuggers /\ e.stopframe = 0 /\ e.returnframe = NoFrame
      /\ e.currentbp = d.currentbp
  BY StopInfoType, FrameNumbers
<1>2. SetContinue(d, b) = [e EXCEPT !.tracing = @ /\ on]
  BY DEF SetContinue
<1> HIDE DEF e, on
<1>3. (e.tracing /\ on) \in BOOLEAN
  OBVIOUS
<1> QED BY <1>1, <1>2, <1>3 DEF Debuggers

\* set_quit changes the stop information only.
LEMMA SetQuitType ==
    ASSUME NEW d \in Debuggers
    PROVE  SetQuit(d) \in Debuggers /\ SetQuit(d).currentbp = d.currentbp
<1>1. StopInfo(d, 0, NoFrame) \in Debuggers /\ StopInfo(d, 0, NoFrame).currentbp = d.currentbp
  BY StopInfoType, FrameNumbers
<1> QED BY <1>1 DEF SetQuit, Debuggers

\* A frame that is left is no frame to stop in.
LEMMA ForgetType ==
    ASSUME NEW d \in Debuggers, NEW i
    PROVE  /\ Forget(d, i) \in Debuggers
           /\ Forget(d, i).stopframe = IF d.stopframe = i THEN Gone ELSE d.stopframe
           /\ Forget(d, i).returnframe = IF d.returnframe = i THEN Gone ELSE d.returnframe
           /\ Forget(d, i).stepIgnore = d.stepIgnore
           /\ Forget(d, i).currentbp = d.currentbp
BY FrameNumbers DEF Forget, Debuggers

\* A breakpoint that asks for a stop becomes the current one.
LEMMA NoteType ==
    ASSUME NEW d \in Debuggers, NEW num \in 0..MaxBps
    PROVE  /\ Note(d, num) \in Debuggers
           /\ Note(d, num).currentbp = IF num = 0 THEN d.currentbp ELSE num
           /\ Note(d, num).stopframe = d.stopframe
           /\ Note(d, num).returnframe = d.returnframe
           /\ Note(d, num).stepIgnore = d.stepIgnore
BY DEF Note, Debuggers

\* A step is counted off.
LEMMA SkipType ==
    ASSUME NEW d \in Debuggers, Skipping(d)
    PROVE  /\ Skip(d) \in Debuggers /\ Skip(d).currentbp = d.currentbp
           /\ Skip(d).stopframe = d.stopframe /\ Skip(d).returnframe = d.returnframe
           /\ Skip(d).stepIgnore = d.stepIgnore - 1
<1>1. d.stepIgnore - 1 \in -1..MaxCount
  BY DepthAssumption DEF Skipping, Debuggers
<1> QED BY <1>1 DEF Skip, Debuggers

-----------------------------------------------------------------------------
(* What several steps have in common *)

\* What a step leaves behind: the invariant but for breakpoints and lists.
FlowNext ==
    /\ FlowType'
    /\ mode' \in {"run", "prompt"} => Depth' >= 1 /\ Matches(dbg', goal', Depth')
    /\ mode' = "run" => Counted(dbg', goal')
    /\ mode' = "prompt" => at'.sel <= at'.newest /\ at'.newest <= Depth'

\* The user is asked about something else than a line: where next may do so, and
\* not at all after continue.
PromptNext ==
    mode' = "prompt" =>
        /\ event' # "line" /\ goal'.cmd # "continue"
        /\ goal'.cmd = "next" /\ goal'.frame # Gone
             => Depth' = goal'.frame \/ goal'.frame \notin 1..Depth'

\* Which is all the invariants say of such a prompt.
LEMMA PromptAsked == PromptNext => Asked'
BY DEF PromptNext, Asked, NextStays, ContinueOnlyBreaks

\* bdb does not stop after continue, and after next only in the frame of the
\* command or when that is gone.
LEMMA StopsWhere ==
    ASSUME NEW d, NEW what, NEW depth \in Nat, Matches(d, what, depth),
           NEW i \in Nat, 1 <= i, StopHere(d, i)
    PROVE  /\ what.cmd # "continue"
           /\ what.cmd = "next" => i = what.frame \/ what.frame \notin 1..i
BY DEF StopHere, Matches

\* run and reset, from any state of the debugger.
LEMMA RestartFlow ==
    ASSUME NEW d \in Debuggers, Restart(d)
    PROVE  FlowNext /\ PromptNext /\ dbg'.currentbp = d.currentbp
<1> DEFINE e == SetStep(d)
<1>1. e \in Debuggers /\ e.currentbp = d.currentbp
  BY StopInfoType, FrameNumbers DEF SetStep
<1>2. dbg' = [e EXCEPT !.tracing = TRUE, !.stepIgnore = 0]
  BY DEF Restart, Resume
<1> HIDE DEF e
<1>3. dbg' \in Debuggers /\ dbg'.currentbp = d.currentbp
  BY <1>1, <1>2, FrameNumbers DEF Debuggers
<1>4. /\ goal' = [cmd |-> "start", frame |-> Gone, left |-> 0, lost |-> 0, broke |-> FALSE]
      /\ mode' = "run" /\ event' = "call" /\ raising' = "none"
      /\ at' = [sel |-> 0, newest |-> 0]
  BY DEF Restart, Resume, NoGoal, Goal, Nobody
<1>5. goal' \in Goals /\ at' \in [sel : 0..MaxDepth, newest : 0..MaxDepth]
  BY <1>4, FrameNumbers DEF Goals
<1>6. stack' \in Seq(Frames) /\ Len(stack') = 2
  <2>1. Statement \in Frames /\ Frame(Script) \in Frames
    BY DEF Frames, Statement, Frame
  <2>2. stack' = <<Statement, Frame(Script)>>
    BY DEF Restart
  <2> QED BY <2>1, <2>2
<1>7. FlowType'
  BY <1>3, <1>4, <1>5, <1>6, FrameNumbers DEF FlowType, Depth, Exceptions
<1>8. Depth' = 2
  BY <1>6 DEF Depth
<1> QED BY <1>3, <1>4, <1>7, <1>8 DEF FlowNext, PromptNext, Matches, Counted

\* The top frame is left, by a return or by an exception.
LEMMA PopFlow ==
    ASSUME FlowType, Depth >= 1, NEW d \in Debuggers, NEW what \in Goals,
           NEW exception \in Exceptions, Matches(d, what, Depth), Counted(d, what),
           Pop(d, exception, what)
    PROVE  FlowNext /\ PromptNext /\ dbg'.currentbp = d.currentbp
<1> DEFINE left == Forget(d, Depth)
           caller == Depth - 1
           goes == [what EXCEPT !.frame = IF @ = Depth THEN Gone ELSE @]
<1>0. Depth \in Nat /\ Depth <= MaxDepth /\ stack \in Seq(Frames) /\ MaxDepth \in Nat
  BY LenProperties, FrameNumbers DEF FlowType, Depth
<1>1. /\ left \in Debuggers
      /\ left.stopframe = IF d.stopframe = Depth THEN Gone ELSE d.stopframe
      /\ left.returnframe = IF d.returnframe = Depth THEN Gone ELSE d.returnframe
      /\ left.stepIgnore = d.stepIgnore /\ left.currentbp = d.currentbp
  BY ForgetType
<1>2. /\ goes \in Goals /\ goes.cmd = what.cmd /\ goes.left = what.left
      /\ goes.lost = what.lost
      /\ goes.frame = IF what.frame = Depth THEN Gone ELSE what.frame
  BY FrameNumbers DEF Goals
<1>3. Counted(left, goes)
  BY <1>1, <1>2 DEF Counted
<1>4. CASE Depth = 1
  <2>1. EndRun(left, exception, goes)
    BY <1>4 DEF Pop
  <2> HIDE DEF left, goes
  <2>2. CASE Restart(left)
    BY <1>1, <2>2, RestartFlow
  <2>3. CASE /\ stack' = <<>> /\ mode' \in {"exited", "postmortem"}
             /\ event' \in {"return", "exception"} /\ raising' = "none"
             /\ dbg' \in {left, [left EXCEPT !.tracing = FALSE, !.quitting = TRUE]}
             /\ at' = Nobody /\ goal' = goes
    <3>1. dbg' \in Debuggers /\ dbg'.currentbp = d.currentbp
      BY <1>1, <2>3 DEF Debuggers
    <3>2. stack' \in Seq(Frames) /\ Len(stack') = 0
      BY <2>3
    <3>3. at' \in [sel : 0..MaxDepth, newest : 0..MaxDepth]
      BY <2>3, FrameNumbers DEF Nobody
    <3> QED BY <1>0, <1>2, <2>3, <3>1, <3>2, <3>3
            DEF FlowNext, PromptNext, FlowType, Depth, Exceptions
  <2> QED BY <2>1, <2>2, <2>3 DEF EndRun
<1>5. CASE Depth # 1
  <2>1. /\ stack' = SubSeq(stack, 1, caller)
        /\ raising' = exception /\ event' = "exception" /\ goal' = goes
        /\ \/ StopHere(left, caller) /\ Prompt(left, caller)
           \/ Resume(left)
    BY <1>5 DEF Pop
  <2>2. caller \in Nat /\ 1 <= caller /\ caller <= MaxDepth /\ caller + 1 = Depth
    BY <1>0, <1>5
  <2>3. stack' \in Seq(Frames) /\ Len(stack') = caller
    <3>1. 1 \in 1..(Len(stack) + 1) /\ caller \in 0..Len(stack)
      BY <1>0, <2>2 DEF Depth
    <3> HIDE DEF caller
    <3>2. stack' \in Seq(Frames) /\ Len(stack') = IF 1 <= caller THEN caller - 1 + 1 ELSE 0
      BY <1>0, <2>1, <3>1, SubSeqProperties
    <3> QED BY <2>2, <3>2
  <2>4. Matches(left, goes, caller)
    <3>1. /\ d.stopframe \in Int /\ what.frame \in Int
          /\ what.cmd = "continue" => left.stopframe = 0 /\ left.returnframe = NoFrame
      BY <1>0, <1>1, <1>5 DEF Matches, Debuggers, Goals, NoFrame
    <3>2. what.cmd = "step" => /\ left.stopframe = NoFrame /\ left.returnframe = NoFrame
                               /\ goes.frame = Gone
      BY <1>0, <1>1, <1>2 DEF Matches, NoFrame
    <3>3. what.cmd = "next" => /\ left.stopframe = goes.frame /\ left.returnframe = NoFrame
                               /\ goes.frame <= caller /\ goes.frame # NoFrame
      BY <1>0, <1>1, <1>2, <2>2, <3>1 DEF Matches, NoFrame, Gone
    <3>4. what.cmd = "finish" => left.returnframe = goes.frame
      BY <1>1, <1>2 DEF Matches
    <3> QED BY <1>2, <3>1, <3>2, <3>3, <3>4 DEF Matches
  <2> HIDE DEF left, goes, caller
  <2>5. at' \in [sel : 0..MaxDepth, newest : 0..MaxDepth]
    BY <1>0, <2>1, <2>2 DEF Prompt, Resume, Nobody
  <2>6. dbg' = left /\ mode' \in {"run", "prompt"} /\ Depth' = caller
    BY <2>1, <2>3 DEF Prompt, Resume, Depth
  <2>7. FlowType'
    BY <1>1, <1>2, <2>1, <2>2, <2>3, <2>5, <2>6 DEF FlowType, Depth
  <2>8. mode' = "prompt" => /\ StopHere(left, caller)
                            /\ at'.sel = caller /\ at'.newest = caller
    BY <2>1 DEF Resume, Prompt
  <2>9. FlowNext
    BY <1>3, <2>1, <2>2, <2>4, <2>6, <2>7, <2>8 DEF FlowNext
  <2>10. PromptNext
    BY <2>1, <2>2, <2>4, <2>6, <2>8, StopsWhere DEF PromptNext
  <2> QED BY <1>1, <2>6, <2>9, <2>10
<1> QED BY <1>4, <1>5

\* What the user edits is left alone, or edited within its type.
EditsNext == EditsType' /\ dbg'.currentbp <= Len(bps')

\* The invariant in its parts.
LEMMA InvNext ==
    ASSUME FlowNext, EditsNext, Asked' PROVE SteppingInv'
BY TypePartsNext DEF FlowNext, EditsNext, SteppingInv, GoalInv

\* interaction returns, and the program goes on.
LEMMA GoOnFlow ==
    ASSUME FlowType, Depth >= 1, NEW d \in Debuggers, NEW what \in Goals,
           Matches(d, what, Depth), Counted(d, what), GoOn(d, what)
    PROVE  FlowNext /\ PromptNext /\ dbg'.currentbp = 0 /\ ran' = Nothing /\ lists' = lists
<1> DEFINE e == [d EXCEPT !.currentbp = 0]
<1>1. e \in Debuggers /\ e.currentbp = 0 /\ Matches(e, what, Depth) /\ Counted(e, what)
  <2>1. /\ e \in Debuggers /\ e.currentbp = 0 /\ e.stepIgnore = d.stepIgnore
        /\ e.stopframe = d.stopframe /\ e.returnframe = d.returnframe
    BY FrameNumbers DEF Debuggers
  <2> HIDE DEF e
  <2> QED BY <2>1 DEF Matches, Counted
<1>2. ran' = Nothing /\ lists' = lists
  BY DEF GoOn
<1>3. raising \in Exceptions
  BY DEF FlowType
<1>4. CASE event = "return"
  <2>1. Pop(e, raising, what)
    BY <1>4 DEF GoOn
  <2> HIDE DEF e
  <2> QED BY <1>1, <1>2, <1>3, <2>1, PopFlow
<1>5. CASE event # "return"
  <2>1. /\ mode' = "run" /\ dbg' = e /\ at' = [sel |-> 0, newest |-> 0] /\ goal' = what
        /\ stack' = stack /\ event' = event /\ raising' = raising
    BY <1>5 DEF GoOn, Resume, Nobody
  <2> HIDE DEF e
  <2>2. at' \in [sel : 0..MaxDepth, newest : 0..MaxDepth]
    BY <2>1, FrameNumbers
  <2> QED BY <1>1, <1>2, <2>1, <2>2 DEF FlowNext, FlowType, PromptNext, Depth
<1> QED BY <1>4, <1>5

\* A callback raises, and nothing is asked for any more.
LEMMA AbortFlow ==
    ASSUME FlowType, Depth >= 1, NEW d \in Debuggers, NEW exception \in Exceptions,
           Abort(d, exception)
    PROVE  FlowNext /\ PromptNext /\ dbg'.currentbp = d.currentbp /\ UNCHANGED <<bps, lists>>
           /\ ran' = Nothing
<1>1. NoGoal \in Goals /\ NoGoal.cmd = "start"
  BY FrameNumbers DEF NoGoal, Goal, Goals
<1>2. Matches(d, NoGoal, Depth) /\ Counted(d, NoGoal)
  BY <1>1 DEF Matches, Counted
<1>3. UNCHANGED <<bps, lists>> /\ ran' = Nothing
  BY DEF Abort
<1>4. CASE event \in {"call", "return"}
  <2>1. Pop(d, exception, NoGoal)
    BY <1>4 DEF Abort
  <2> QED BY <1>1, <1>2, <1>3, <2>1, PopFlow
<1>5. CASE event \notin {"call", "return"}
  <2>1. /\ mode' = "run" /\ dbg' = d /\ at' = [sel |-> 0, newest |-> 0] /\ goal' = NoGoal
        /\ stack' = stack /\ event' = event /\ raising' = exception
    BY <1>5 DEF Abort, Resume, Nobody
  <2>2. at' \in [sel : 0..MaxDepth, newest : 0..MaxDepth]
    BY <2>1, FrameNumbers
  <2> QED BY <1>1, <1>2, <1>3, <2>1, <2>2 DEF FlowNext, FlowType, PromptNext, Depth
<1> QED BY <1>4, <1>5

\* bp_commands, then the prompt, unless the commands continue the program.
LEMMA StopFlow ==
    ASSUME NEW d \in Debuggers, NEW what \in Goals, NEW l \in AllLines,
           Depth \in 1..MaxDepth, Matches(d, what, Depth),
           ran \in [num : 0..MaxBps, line : AllLines \union {0}], Stop(d, l, what)
    PROVE  /\ dbg' \in Debuggers /\ goal' \in Goals /\ Matches(dbg', goal', Depth)
           /\ dbg'.currentbp \in {0, d.currentbp}
           /\ at' \in [sel : 0..MaxDepth, newest : 0..MaxDepth]
           /\ ran' \in [num : 0..MaxBps, line : AllLines \union {0}]
           /\ \/ /\ mode' = "prompt" /\ at'.sel = Depth /\ at'.newest = Depth /\ goal' = what
                 /\ dbg'.stepIgnore = d.stepIgnore
              \/ /\ mode' = "run" /\ goal'.cmd = "continue"
                 /\ d.currentbp # 0 /\ ran' = [num |-> d.currentbp, line |-> l]
<1> DEFINE cleared == [d EXCEPT !.currentbp = 0]
<1>1. /\ cleared \in Debuggers /\ cleared.currentbp = 0
      /\ cleared.stopframe = d.stopframe /\ cleared.returnframe = d.returnframe
      /\ cleared.stepIgnore = d.stepIgnore
  BY FrameNumbers DEF Debuggers
<1>2. d.currentbp \in 0..MaxBps
  BY DEF Debuggers
<1>3. [num |-> d.currentbp, line |-> l] \in [num : 0..MaxBps, line : AllLines \union {0}]
  BY <1>2
<1>4. [sel |-> Depth, newest |-> Depth] \in [sel : 0..MaxDepth, newest : 0..MaxDepth]
  BY FrameNumbers
<1>5. CASE Prompt(d, Depth) /\ goal' = what /\ UNCHANGED ran
  BY <1>4, <1>5 DEF Prompt
<1>6. CASE /\ d.currentbp # 0 /\ Prompt(cleared, Depth) /\ goal' = what
           /\ ran' = [num |-> d.currentbp, line |-> l]
  <2>1. /\ mode' = "prompt" /\ dbg' = cleared /\ at' = [sel |-> Depth, newest |-> Depth]
    BY <1>6 DEF Prompt
  <2> HIDE DEF cleared
  <2>2. Matches(cleared, what, Depth)
    BY <1>1 DEF Matches
  <2> QED BY <1>1, <1>3, <1>4, <1>6, <2>1, <2>2
<1>7. CASE /\ d.currentbp # 0 /\ Resume(SetContinue(cleared, bps'))
           /\ ran' = [num |-> d.currentbp, line |-> l] /\ goal' = Goal("continue", Gone, 0)
  <2> DEFINE e == SetContinue(cleared, bps')
  <2> HIDE DEF cleared
  <2>1. e \in Debuggers /\ e.stopframe = 0 /\ e.returnframe = NoFrame /\ e.currentbp = 0
    BY <1>1, SetContinueType
  <2>2. mode' = "run" /\ dbg' = e /\ at' = [sel |-> 0, newest |-> 0]
    BY <1>7 DEF Resume, Nobody
  <2> HIDE DEF e
  <2>3. goal' \in Goals /\ goal'.cmd = "continue"
    BY <1>7, FrameNumbers DEF Goal, Goals
  <2>4. Matches(e, goal', Depth)
    BY <2>1, <2>3 DEF Matches
  <2>5. [sel |-> 0, newest |-> 0] \in [sel : 0..MaxDepth, newest : 0..MaxDepth]
    BY FrameNumbers
  <2> QED BY <1>3, <1>7, <2>1, <2>2, <2>3, <2>4, <2>5
<1> QED BY <1>5, <1>6, <1>7 DEF Stop

-----------------------------------------------------------------------------
(* The program's steps *)

\* Facts of a state in which the program runs.
LEMMA RunsFacts ==
    ASSUME SteppingInv, mode \in {"run", "prompt"}
    PROVE  /\ FlowType /\ EditsType /\ Depth \in Nat /\ Depth >= 1 /\ Depth \in 1..MaxDepth
           /\ Matches(dbg, goal, Depth) /\ stack[Depth] \in Frames
           /\ mode = "run" => Counted(dbg, goal)
           /\ dbg \in Debuggers /\ dbg.currentbp \in 0..Len(bps) /\ goal \in Goals
<1>1. FlowType /\ EditsType /\ Depth >= 1 /\ Matches(dbg, goal, Depth)
      /\ (mode = "run" => Counted(dbg, goal)) /\ dbg.currentbp <= Len(bps)
  BY TypeParts DEF SteppingInv, GoalInv
<1>2. Depth \in Nat /\ Depth <= MaxDepth /\ DOMAIN stack = 1..Depth
      /\ \A i \in DOMAIN stack : stack[i] \in Frames
  BY <1>1, SeqParts DEF FlowType, Depth
<1>3. Depth \in 1..MaxDepth /\ stack[Depth] \in Frames
  BY <1>1, <1>2, FrameNumbers
<1>4. dbg \in Debuggers /\ goal \in Goals /\ Len(bps) \in Nat
  BY <1>1, SeqParts DEF FlowType, EditsType
<1>5. dbg.currentbp \in 0..Len(bps)
  BY <1>1, <1>4, FrameNumbers DEF Debuggers
<1> QED BY <1>1, <1>2, <1>3, <1>4, <1>5

\* The program reaches a line.
LEMMA ArriveStack ==
    ASSUME SteppingInv, NEW l \in AllLines, Arrive(l)
    PROVE  /\ stack' \in Seq(Frames) /\ Depth' = Depth /\ Len(stack') = Len(stack)
           /\ stack'[Depth].line = l /\ mode = "run" /\ event' = "line"
           /\ raising' = raising /\ lists' = lists
<1>1. mode = "run" /\ event' = "line" /\ raising' = raising /\ lists' = lists
      /\ stack' = [stack EXCEPT ![Depth].line = l]
  BY DEF Arrive, Runs
<1>2. stack \in Seq(Frames) /\ Depth \in Nat /\ 1 <= Depth /\ stack[Depth] \in Frames
  BY <1>1, RunsFacts DEF FlowType
<1>3. DOMAIN stack = 1..Depth /\ stack \in [1..Depth -> Frames] /\ Depth \in DOMAIN stack
  BY <1>2, LenProperties DEF Depth
<1>4. [stack[Depth] EXCEPT !.line = l] \in Frames
  BY <1>2 DEF Frames
<1>5. stack' \in [1..Depth -> Frames] /\ stack'[Depth].line = l
  BY <1>1, <1>2, <1>3, <1>4 DEF Frames
<1>6. stack' \in Seq(Frames)
  BY <1>2, <1>5, SeqDef
<1>7. Len(stack') = Depth
  BY <1>2, <1>5, <1>6, LenProperties
<1> QED BY <1>1, <1>5, <1>6, <1>7 DEF Depth

\* A line of a frame that is not traced changes nothing in the debugger.
LEMMA LineUntracedKeeps ==
    ASSUME SteppingInv, NEW l \in AllLines, LineUntraced(l), session' = session
    PROVE  SteppingInv'
<1>1. Arrive(l) /\ UNCHANGED <<mode, dbg, bps, at, goal, ran>>
  BY DEF LineUntraced
<1>2. /\ stack' \in Seq(Frames) /\ Depth' = Depth /\ Len(stack') = Len(stack)
      /\ mode = "run" /\ event' = "line" /\ raising' = raising /\ lists' = lists
  BY <1>1, ArriveStack
<1>3. /\ FlowType /\ EditsType /\ Depth >= 1
      /\ Matches(dbg, goal, Depth) /\ Counted(dbg, goal) /\ dbg.currentbp \in 0..Len(bps)
  BY <1>2, RunsFacts
<1>4. FlowNext
  BY <1>1, <1>2, <1>3 DEF FlowType, FlowNext, Depth
<1>5. EditsNext
  <2>1. Len(bps) \in Nat
    BY <1>3, SeqParts DEF EditsType
  <2> QED BY <1>1, <1>2, <1>3, <2>1 DEF EditsType, EditsNext
<1>6. mode' = "run"
  BY <1>1, <1>2
<1>7. Asked'
  BY <1>6 DEF Asked, NextStays, ContinueOnlyBreaks
<1> QED BY <1>4, <1>5, <1>7, InvNext

\* What the user asked for gets a line nearer exactly when bdb stops at it.
LEMMA ReachedCounts ==
    ASSUME SteppingInv, mode = "run", NEW l, StopHere(dbg, Depth), dbg.stepIgnore >= 0
    PROVE  /\ Reached(l) \in Goals /\ Reached(l).cmd = goal.cmd /\ Reached(l).frame = goal.frame
           /\ Reached(l).left \in 0..MaxCount /\ Reached(l).lost = goal.lost
           /\ goal.cmd \in {"step", "next"} =>
                Reached(l).left = IF goal.left = 1 /\ l \in DefLines THEN goal.left ELSE goal.left - 1
<1>1. /\ goal \in Goals /\ Depth \in Nat /\ Depth >= 1 /\ dbg \in Debuggers
      /\ Matches(dbg, goal, Depth) /\ Counted(dbg, goal)
  BY RunsFacts
<1>2. goal.left \in 0..MaxCount /\ goal.frame \in Gone..MaxDepth /\ MaxCount \in Nat
      /\ MaxDepth \in Nat /\ dbg.stepIgnore \in -1..MaxCount
  BY <1>1, FrameNumbers DEF Goals, Debuggers
<1>3. goal.cmd \in {"step", "next"} => goal.left >= 1 /\ goal.left - 1 \in 0..MaxCount
  BY <1>1, <1>2 DEF Counted
<1>4. goal.cmd = "next" => goal.frame \in {Depth, Gone}
  BY <1>1, <1>2 DEF Matches, StopHere, Gone, NoFrame
<1>5. CASE goal.cmd \in {"step", "next"} /\ ~(goal.left = 1 /\ l \in DefLines)
  <2>1. Reached(l) = [goal EXCEPT !.left = @ - 1]
    BY <1>2, <1>3, <1>4, <1>5 DEF Reached
  <2> QED BY <1>1, <1>3, <1>5, <2>1 DEF Goals
<1>6. CASE goal.cmd \notin {"step", "next"} \/ (goal.left = 1 /\ l \in DefLines)
  <2>1. Reached(l) = goal
    BY <1>6 DEF Reached
  <2> QED BY <1>1, <1>2, <1>6, <2>1
<1> QED BY <1>5, <1>6

\* A line where the user is asked, or commands are run.
LEMMA StopNext ==
    ASSUME SteppingInv, NEW l \in AllLines, Arrive(l), NEW d \in Debuggers, NEW what \in Goals,
           Matches(d, what, Depth), d.currentbp \in 0..Len(bps), Edited(bps, bps'),
           Stop(d, l, what), session' = session
    PROVE  /\ FlowNext /\ EditsNext /\ Depth' = Depth
           /\ \/ /\ mode' = "prompt" /\ goal' = what /\ dbg'.stepIgnore = d.stepIgnore
                 /\ dbg'.currentbp \in {0, d.currentbp}
              \/ mode' = "run" /\ goal'.cmd = "continue" /\ ran' # Nothing /\ ran'.line = l
<1>1. /\ stack' \in Seq(Frames) /\ Depth' = Depth /\ Len(stack') = Len(stack)
      /\ mode = "run" /\ event' = "line" /\ raising' = raising /\ lists' = lists
  BY ArriveStack
<1>2. FlowType /\ EditsType /\ Depth \in 1..MaxDepth /\ Depth \in Nat /\ Depth >= 1
  BY <1>1, RunsFacts
<1>3. ran \in [num : 0..MaxBps, line : AllLines \union {0}]
  BY <1>2 DEF EditsType
<1>4. /\ dbg' \in Debuggers /\ goal' \in Goals /\ Matches(dbg', goal', Depth)
      /\ dbg'.currentbp \in {0, d.currentbp}
      /\ at' \in [sel : 0..MaxDepth, newest : 0..MaxDepth]
      /\ ran' \in [num : 0..MaxBps, line : AllLines \union {0}]
      /\ \/ /\ mode' = "prompt" /\ at'.sel = Depth /\ at'.newest = Depth /\ goal' = what
            /\ dbg'.stepIgnore = d.stepIgnore
         \/ /\ mode' = "run" /\ goal'.cmd = "continue"
            /\ d.currentbp # 0 /\ ran' = [num |-> d.currentbp, line |-> l]
  BY <1>2, <1>3, StopFlow
<1>5. FlowNext
  BY <1>1, <1>2, <1>4 DEF FlowNext, FlowType, Counted, Depth
<1>6. EditsNext
  <2>1. Len(bps) \in Nat /\ bps' \in Seq(Breakpoint) /\ Len(bps') = Len(bps)
    BY <1>2, SeqParts DEF EditsType, Edited
  <2>2. dbg'.currentbp <= Len(bps')
    BY <1>4, <2>1
  <2> QED BY <1>1, <1>2, <1>4, <2>1, <2>2 DEF EditsNext, EditsType
<1>7. [num |-> d.currentbp, line |-> l] # Nothing \/ d.currentbp = 0
  BY DEF Nothing
<1> QED BY <1>1, <1>4, <1>5, <1>6, <1>7

\* A line that bdb stops at.
LEMMA LineSteppingKeeps ==
    ASSUME SteppingInv, NEW l \in AllLines, NEW truth, LineStepping(l, truth), session' = session
    PROVE  SteppingInv'
<1> DEFINE hit == BreakHere(bps, l, truth)
           d == Note(dbg, hit.num)
           reached == Reached(l)
           what == [reached EXCEPT !.broke = (hit.num # 0)]
<1>1. Arrive(l) /\ Traced /\ StopHere(dbg, Depth)
  BY DEF LineStepping
<1>2. /\ stack' \in Seq(Frames) /\ Depth' = Depth /\ Len(stack') = Len(stack)
      /\ mode = "run" /\ event' = "line" /\ raising' = raising /\ lists' = lists
  BY <1>1, ArriveStack
<1>3. /\ FlowType /\ EditsType /\ Depth >= 1 /\ Depth \in Nat
      /\ Matches(dbg, goal, Depth) /\ Counted(dbg, goal) /\ dbg \in Debuggers
      /\ dbg.currentbp \in 0..Len(bps) /\ goal \in Goals
  BY <1>2, RunsFacts
<1>4. ASSUME dbg.stepIgnore >= 0
      PROVE  /\ reached \in Goals /\ reached.cmd = goal.cmd /\ reached.frame = goal.frame
             /\ reached.left \in 0..MaxCount /\ reached.lost = goal.lost
             /\ goal.cmd \in {"step", "next"} =>
                  reached.left = IF goal.left = 1 /\ l \in DefLines THEN goal.left ELSE goal.left - 1
  BY <1>1, <1>2, <1>4, ReachedCounts
<1>5. bps \in Seq(Breakpoint) /\ Len(bps) \in Nat /\ Len(bps) <= MaxBps /\ MaxBps \in Nat
  BY <1>3, SeqParts, FrameNumbers DEF EditsType
<1>6. /\ Edited(bps, hit.bps) /\ hit.num \in 0..Len(bps)
  BY <1>5, BreakHereType
<1>7. /\ d \in Debuggers /\ d.currentbp = IF hit.num = 0 THEN dbg.currentbp ELSE hit.num
      /\ d.stopframe = dbg.stopframe /\ d.returnframe = dbg.returnframe
      /\ d.stepIgnore = dbg.stepIgnore
  <2>1. hit.num \in 0..MaxBps
    BY <1>5, <1>6
  <2> HIDE DEF hit
  <2> QED BY <1>3, <2>1, NoteType
<1>8. /\ dbg.stepIgnore \in -1..MaxCount /\ goal.left \in 0..MaxCount /\ MaxCount \in Nat
      /\ goal.lost \in Nat
  BY <1>3, FrameNumbers DEF Debuggers, Goals
<1>9. \/ Skipping(dbg) /\ Resume(Skip(dbg)) /\ goal' = reached /\ UNCHANGED <<bps, ran>>
      \/ dbg.stepIgnore < 0 /\ Resume(dbg) /\ UNCHANGED <<bps, goal, ran>>
      \/ /\ dbg.stepIgnore = 0 /\ hit.num = 0 /\ l \in DefLines
         /\ bps' = hit.bps /\ Resume(d) /\ goal' = reached /\ UNCHANGED ran
      \/ /\ dbg.stepIgnore = 0 /\ (hit.num # 0 \/ l \notin DefLines)
         /\ bps' = hit.bps /\ Stop(d, l, what)
  BY DEF LineStepping
<1> HIDE DEF hit, d, reached, what
<1>10. ASSUME dbg.stepIgnore >= 0
       PROVE  /\ what \in Goals /\ what.cmd = goal.cmd /\ what.frame = goal.frame
              /\ what.left = reached.left /\ what.lost = reached.lost
              /\ ~what.broke => hit.num = 0
              /\ Matches(d, what, Depth) /\ Matches(d, reached, Depth)
  <2>1. (hit.num # 0) \in BOOLEAN /\ reached \in Goals
    BY <1>4, <1>10
  <2>2. /\ what \in Goals /\ what.cmd = goal.cmd /\ what.frame = goal.frame
        /\ what.left = reached.left /\ what.lost = reached.lost
        /\ ~what.broke => hit.num = 0
    BY <1>4, <1>10, <2>1 DEF what, Goals
  <2> QED BY <1>3, <1>4, <1>7, <1>10, <2>2 DEF Matches
<1>11. ASSUME NEW e \in Debuggers, NEW g \in Goals, Resume(e), goal' = g, Counted(e, g),
              Matches(e, g, Depth), e.currentbp = dbg.currentbp,
              ran' = ran, Edited(bps, bps')
       PROVE  SteppingInv'
  <2>1. mode' = "run" /\ dbg' = e /\ at' = [sel |-> 0, newest |-> 0]
    BY <1>11 DEF Resume, Nobody
  <2>2. at' \in [sel : 0..MaxDepth, newest : 0..MaxDepth]
    BY <2>1, FrameNumbers
  <2>3. FlowNext
    BY <1>2, <1>3, <1>11, <2>1, <2>2 DEF FlowNext, FlowType, Depth
  <2>4. EditsNext
    BY <1>2, <1>3, <1>5, <1>11, <2>1 DEF EditsNext, EditsType, Edited
  <2>5. Asked'
    BY <2>1 DEF Asked, NextStays, ContinueOnlyBreaks
  <2> QED BY <2>3, <2>4, <2>5, InvNext
<1>12. CASE Skipping(dbg) /\ Resume(Skip(dbg)) /\ goal' = reached /\ UNCHANGED <<bps, ran>>
  <2> DEFINE e == Skip(dbg)
  <2>1. /\ e \in Debuggers /\ e.currentbp = dbg.currentbp
        /\ e.stopframe = dbg.stopframe /\ e.returnframe = dbg.returnframe
        /\ e.stepIgnore = dbg.stepIgnore - 1
    BY <1>3, <1>12, SkipType
  <2> HIDE DEF e
  <2>2. dbg.stepIgnore > 0
    BY <1>12 DEF Skipping
  <2>3. Counted(e, reached)
    <3>1. /\ goal.cmd \in {"step", "next"} =>
               reached.left = IF goal.left = 1 /\ l \in DefLines THEN goal.left ELSE goal.left - 1
          /\ reached.cmd = goal.cmd /\ reached.lost = goal.lost
      BY <1>4, <1>8, <2>2
    <3>2. goal.cmd \in {"step", "next"} =>
            dbg.stepIgnore + 1 <= goal.left /\ goal.left <= dbg.stepIgnore + 1 + goal.lost
      BY <1>3 DEF Counted
    <3>3. goal.cmd \in {"step", "next"} => reached.left = goal.left - 1
      BY <1>8, <2>2, <3>1, <3>2
    <3> QED BY <1>8, <2>1, <3>1, <3>2, <3>3 DEF Counted
  <2>4. Matches(e, reached, Depth) /\ reached \in Goals
    BY <1>3, <1>4, <1>8, <2>1, <2>2 DEF Matches
  <2>5. Edited(bps, bps')
    BY <1>5, <1>12 DEF Edited
  <2> QED BY <1>11, <1>12, <2>1, <2>3, <2>4, <2>5 DEF e
<1>13. CASE dbg.stepIgnore < 0 /\ Resume(dbg) /\ UNCHANGED <<bps, goal, ran>>
  <2>1. Edited(bps, bps')
    BY <1>5, <1>13 DEF Edited
  <2> QED BY <1>3, <1>11, <1>13, <2>1
<1>14. CASE /\ dbg.stepIgnore = 0 /\ hit.num = 0 /\ l \in DefLines
            /\ bps' = hit.bps /\ Resume(d) /\ goal' = reached /\ UNCHANGED ran
  <2>1. Counted(d, reached) /\ reached \in Goals
    BY <1>3, <1>4, <1>7, <1>8, <1>14 DEF Counted
  <2> QED BY <1>6, <1>7, <1>10, <1>11, <1>14, <2>1
<1>15. CASE /\ dbg.stepIgnore = 0 /\ (hit.num # 0 \/ l \notin DefLines)
            /\ bps' = hit.bps /\ Stop(d, l, what)
  <2>1. d.currentbp \in 0..Len(bps)
    BY <1>3, <1>6, <1>7
  <2>2. /\ FlowNext /\ EditsNext /\ Depth' = Depth
        /\ \/ /\ mode' = "prompt" /\ goal' = what /\ dbg'.stepIgnore = d.stepIgnore
              /\ dbg'.currentbp \in {0, d.currentbp}
           \/ mode' = "run" /\ goal'.cmd = "continue"
    BY <1>1, <1>6, <1>7, <1>10, <1>15, <2>1, StopNext
  <2>3. Asked'
    <3>1. CASE mode' = "run"
      BY <3>1 DEF Asked, NextStays, ContinueOnlyBreaks
    <3>2. CASE mode' = "prompt" /\ goal' = what /\ dbg'.stepIgnore = d.stepIgnore
      <4>1. /\ goal'.cmd # "continue"
            /\ goal'.cmd = "next" => Depth = goal'.frame \/ goal'.frame \notin 1..Depth
        BY <1>1, <1>3, <1>10, <1>15, <3>2, StopsWhere
      <4>2. goal'.cmd \in {"step", "next"} /\ ~goal'.broke => goal'.left <= goal'.lost
        <5>1. ~goal'.broke => hit.num = 0 /\ l \notin DefLines
          BY <1>10, <1>15, <3>2
        <5> QED BY <1>3, <1>4, <1>8, <1>10, <1>15, <3>2, <5>1 DEF Counted
      <4>3. dbg'.stepIgnore = 0
        BY <1>7, <1>15, <3>2
      <4> QED BY <2>2, <4>1, <4>2, <4>3 DEF Asked, NextStays, ContinueOnlyBreaks
    <3> QED BY <2>2, <3>1, <3>2
  <2> QED BY <2>2, <2>3, InvNext
<1> QED BY <1>9, <1>12, <1>13, <1>14, <1>15

\* A line that bdb does not stop at: a breakpoint, or none.
LEMMA LineRunningKeeps ==
    ASSUME SteppingInv, NEW l \in AllLines, NEW truth, LineRunning(l, truth), session' = session
    PROVE  SteppingInv'
<1> DEFINE first == BreakHere(bps, l, truth)
           again == BreakHere(first.bps, l, truth)
           d == Note(Note(dbg, first.num), again.num)
<1>1. Arrive(l) /\ Traced /\ ~StopHere(dbg, Depth)
  BY DEF LineRunning
<1>2. /\ stack' \in Seq(Frames) /\ Depth' = Depth /\ Len(stack') = Len(stack)
      /\ stack'[Depth].line = l
      /\ mode = "run" /\ event' = "line" /\ raising' = raising /\ lists' = lists
  BY <1>1, ArriveStack
<1>3. /\ FlowType /\ EditsType /\ Depth >= 1 /\ Depth \in Nat
      /\ Matches(dbg, goal, Depth) /\ Counted(dbg, goal) /\ dbg \in Debuggers
      /\ dbg.currentbp \in 0..Len(bps) /\ goal \in Goals
  BY <1>2, RunsFacts
<1>4. bps \in Seq(Breakpoint) /\ Len(bps) \in Nat /\ Len(bps) <= MaxBps /\ MaxBps \in Nat
  BY <1>3, SeqParts, FrameNumbers DEF EditsType
<1>5. /\ Edited(bps, first.bps) /\ first.num \in 0..Len(bps)
      /\ first.num # 0 => first.num \in DOMAIN bps /\ bps[first.num].line = l
  BY <1>4, BreakHereType
<1>6. /\ Edited(bps, again.bps) /\ again.num \in 0..Len(bps)
      /\ again.num # 0 => again.num \in DOMAIN bps /\ bps[again.num].line = l
  <2> HIDE DEF first
  <2>1. first.bps \in Seq(Breakpoint) /\ Len(first.bps) = Len(bps)
        /\ DOMAIN first.bps = DOMAIN bps
    BY <1>5 DEF Edited
  <2>2. /\ Edited(first.bps, again.bps) /\ again.num \in 0..Len(first.bps)
        /\ again.num # 0 => again.num \in DOMAIN first.bps /\ first.bps[again.num].line = l
    BY <2>1, BreakHereType
  <2> HIDE DEF again
  <2> QED BY <1>5, <2>1, <2>2 DEF Edited
<1>7. /\ d \in Debuggers
      /\ d.currentbp = IF again.num # 0 THEN again.num
                       ELSE IF first.num # 0 THEN first.num ELSE dbg.currentbp
      /\ d.stopframe = dbg.stopframe /\ d.returnframe = dbg.returnframe
      /\ d.stepIgnore = dbg.stepIgnore
  <2>1. first.num \in 0..MaxBps /\ again.num \in 0..MaxBps
    BY <1>4, <1>5, <1>6
  <2> HIDE DEF first, again
  <2> QED BY <1>3, <2>1, NoteType
<1>8. \/ first.num = 0 /\ bps' = first.bps /\ UNCHANGED <<mode, dbg, at, goal, ran>>
      \/ /\ first.num # 0 /\ again.num = 0 /\ Skipping(dbg)
         /\ bps' = again.bps /\ Resume(Skip(d))
         /\ goal' = [goal EXCEPT !.lost = @ + 1] /\ UNCHANGED ran
      \/ /\ first.num # 0 /\ (again.num # 0 \/ ~Skipping(dbg))
         /\ bps' = again.bps /\ Stop(d, l, [goal EXCEPT !.broke = TRUE])
  BY DEF LineRunning
<1> DEFINE broke == [goal EXCEPT !.broke = TRUE]
           swallowed == [goal EXCEPT !.lost = @ + 1]
<1>9. /\ broke \in Goals /\ broke.cmd = goal.cmd /\ broke.frame = goal.frame /\ broke.broke
      /\ swallowed \in Goals /\ swallowed.cmd = goal.cmd /\ swallowed.frame = goal.frame
      /\ swallowed.left = goal.left /\ swallowed.lost = goal.lost + 1
  <2>1. goal \in Goals /\ goal.lost + 1 \in Nat
    BY <1>3 DEF Goals
  <2> QED BY <2>1 DEF Goals
<1>10. /\ dbg.stepIgnore \in -1..MaxCount /\ goal.left \in 0..MaxCount /\ MaxCount \in Nat
       /\ goal.lost \in Nat
  BY <1>3, FrameNumbers DEF Debuggers, Goals
<1> HIDE DEF first, again, d, broke, swallowed
<1>11. CASE first.num = 0 /\ bps' = first.bps /\ UNCHANGED <<mode, dbg, at, goal, ran>>
  <2>1. FlowNext
    BY <1>2, <1>3, <1>11 DEF FlowType, FlowNext, Depth
  <2>2. EditsNext
    BY <1>2, <1>3, <1>4, <1>5, <1>11 DEF EditsType, EditsNext, Edited
  <2>3. Asked'
    BY <1>2, <1>11 DEF Asked, NextStays, ContinueOnlyBreaks
  <2> QED BY <2>1, <2>2, <2>3, InvNext
<1>12. CASE /\ first.num # 0 /\ again.num = 0 /\ Skipping(dbg)
            /\ bps' = again.bps /\ Resume(Skip(d))
            /\ goal' = swallowed /\ UNCHANGED ran
  <2> DEFINE e == Skip(d)
  <2>1. /\ e \in Debuggers /\ e.currentbp = first.num
        /\ e.stopframe = dbg.stopframe /\ e.returnframe = dbg.returnframe
        /\ e.stepIgnore = dbg.stepIgnore - 1
    <3>1. Skipping(d)
      BY <1>7, <1>12 DEF Skipping
    <3> QED BY <1>7, <1>12, <3>1, SkipType
  <2> HIDE DEF e
  <2>2. mode' = "run" /\ dbg' = e /\ at' = [sel |-> 0, newest |-> 0]
    BY <1>12 DEF Resume, Nobody, e
  <2>3. at' \in [sel : 0..MaxDepth, newest : 0..MaxDepth]
    BY <2>2, FrameNumbers
  <2>4. Counted(e, swallowed) /\ Matches(e, swallowed, Depth)
    BY <1>3, <1>9, <1>10, <1>12, <2>1 DEF Counted, Matches
  <2>5. FlowNext
    BY <1>2, <1>3, <1>9, <1>12, <2>1, <2>2, <2>3, <2>4 DEF FlowNext, FlowType, Depth
  <2>6. EditsNext
    <3>1. dbg'.currentbp <= Len(bps')
      BY <1>4, <1>5, <1>6, <1>12, <2>1, <2>2 DEF Edited
    <3> QED BY <1>2, <1>3, <1>4, <1>6, <1>12, <3>1 DEF EditsNext, EditsType, Edited
  <2>7. Asked'
    BY <2>2 DEF Asked, NextStays, ContinueOnlyBreaks
  <2> QED BY <2>5, <2>6, <2>7, InvNext
<1>13. CASE /\ first.num # 0 /\ (again.num # 0 \/ ~Skipping(dbg))
            /\ bps' = again.bps /\ Stop(d, l, broke)
  <2>1. /\ d.currentbp \in DOMAIN bps /\ d.currentbp # 0 /\ bps[d.currentbp].line = l
        /\ d.currentbp \in 0..Len(bps)
    BY <1>5, <1>6, <1>7, <1>13
  <2>2. /\ FlowNext /\ EditsNext /\ Depth' = Depth
        /\ \/ /\ mode' = "prompt" /\ goal' = broke
              /\ dbg'.currentbp \in {0, d.currentbp}
           \/ mode' = "run" /\ goal'.cmd = "continue"
    <3>1. Matches(d, broke, Depth)
      BY <1>3, <1>7, <1>9 DEF Matches
    <3> QED BY <1>1, <1>6, <1>7, <1>9, <1>13, <2>1, <3>1, StopNext
  <2>3. Asked'
    <3>1. CASE mode' = "run"
      BY <3>1 DEF Asked, NextStays, ContinueOnlyBreaks
    <3>2. CASE /\ mode' = "prompt" /\ goal' = broke /\ dbg'.currentbp \in {0, d.currentbp}
      <4>1. goal'.broke
        BY <1>9, <3>2
      <4>2. dbg'.currentbp # 0 => bps'[dbg'.currentbp].line = l
        BY <1>6, <1>13, <2>1, <3>2 DEF Edited
      <4>3. Top'.line = l
        BY <1>2 DEF Top
      <4> QED BY <1>2, <4>1, <4>2, <4>3 DEF Asked, NextStays, ContinueOnlyBreaks
    <3> QED BY <2>1, <2>2, <3>1, <3>2
  <2> QED BY <2>2, <2>3, InvNext
<1> QED BY <1>8, <1>11, <1>12, <1>13 DEF broke, swallowed

\* Steps that the user's edits have no part in.
LEMMA EditsKept ==
    ASSUME SteppingInv, UNCHANGED <<bps, lists, session>>,
           dbg'.currentbp \in {0, dbg.currentbp}, ran' \in {ran, Nothing}
    PROVE  EditsNext
<1>1. /\ EditsType /\ dbg.currentbp <= Len(bps) /\ Len(bps) \in Nat
  BY TypeParts, SeqParts DEF SteppingInv, GoalInv, EditsType
<1>2. Nothing \in [num : 0..MaxBps, line : AllLines \union {0}]
  BY FrameNumbers DEF Nothing
<1> QED BY <1>1, <1>2 DEF EditsNext, EditsType

\* A function is called.
LEMMA CallKeeps ==
    ASSUME SteppingInv, NEW fn \in Functions, Call(fn), session' = session
    PROVE  SteppingInv'
<1> DEFINE i == Depth + 1
           stops == dbg.tracing /\ StopHere(dbg, i)
           traced == dbg.tracing /\ (stops \/ BreakAnywhere(fn))
           frame == [Frame(fn) EXCEPT !.traced = traced]
<1>1. /\ mode = "run" /\ i <= MaxDepth /\ stack' = Append(stack, frame)
      /\ event' = "call" /\ UNCHANGED <<raising, bps, lists, goal, ran>>
      /\ IF stops THEN Prompt(dbg, i) ELSE Resume(dbg)
  BY DEF Call, Runs
<1>2. /\ FlowType /\ EditsType /\ Depth >= 1 /\ Depth \in Nat
      /\ Matches(dbg, goal, Depth) /\ Counted(dbg, goal) /\ dbg \in Debuggers /\ goal \in Goals
  BY <1>1, RunsFacts
<1>3. traced \in BOOLEAN
  OBVIOUS
<1> HIDE DEF traced
<1>4. frame \in Frames
  BY <1>3 DEF Frame, Frames
<1> HIDE DEF frame
<1>5. stack' \in Seq(Frames) /\ Len(stack') = i
  BY <1>1, <1>2, <1>4, AppendProperties DEF FlowType, Depth
<1>6. i \in Nat /\ 1 <= i /\ i \in 0..MaxDepth /\ MaxDepth \in Nat
  BY <1>1, <1>2, FrameNumbers
<1>7. Matches(dbg, goal, i)
  <2>1. goal.frame \in Int
    BY <1>2, FrameNumbers DEF Goals, Gone
  <2> QED BY <1>2, <2>1 DEF Matches
<1>8. Depth' = i
  BY <1>5 DEF Depth
<1> HIDE DEF i
<1>9. CASE stops
  <2>1. mode' = "prompt" /\ dbg' = dbg /\ at' = [sel |-> i, newest |-> i]
    BY <1>1, <1>9 DEF Prompt
  <2>2. FlowNext
    BY <1>1, <1>2, <1>5, <1>6, <1>7, <1>8, <2>1 DEF FlowNext, FlowType, Depth
  <2>3. PromptNext
    BY <1>1, <1>6, <1>7, <1>8, <1>9, <2>1, StopsWhere DEF PromptNext
  <2>4. EditsNext
    BY <1>1, <2>1, EditsKept
  <2> QED BY <2>2, <2>3, <2>4, PromptAsked, InvNext
<1>10. CASE ~stops
  <2>1. mode' = "run" /\ dbg' = dbg /\ at' = [sel |-> 0, newest |-> 0]
    BY <1>1, <1>10 DEF Resume, Nobody
  <2>2. at' \in [sel : 0..MaxDepth, newest : 0..MaxDepth]
    BY <2>1, FrameNumbers
  <2>3. FlowNext
    BY <1>1, <1>2, <1>5, <1>6, <1>7, <1>8, <2>1, <2>2 DEF FlowNext, FlowType, Depth
  <2>4. PromptNext
    BY <2>1 DEF PromptNext
  <2>5. EditsNext
    BY <1>1, <2>1, EditsKept
  <2> QED BY <2>3, <2>4, <2>5, PromptAsked, InvNext
<1> QED BY <1>9, <1>10

\* A return, or an exception that nobody catches in this frame.
LEMMA LeaveKeeps ==
    ASSUME SteppingInv, Leave, session' = session
    PROVE  SteppingInv'
<1>1. mode = "run" /\ UNCHANGED <<bps, lists, ran>>
  BY DEF Leave
<1>2. /\ FlowType /\ EditsType /\ Depth >= 1 /\ Depth \in Nat /\ Depth \in 1..MaxDepth
      /\ Matches(dbg, goal, Depth) /\ Counted(dbg, goal) /\ dbg \in Debuggers /\ goal \in Goals
  BY <1>1, RunsFacts
<1>3. CASE /\ dbg.returnframe # NoFrame
           /\ StopHere(dbg, Depth) \/ dbg.returnframe = Depth
           /\ Prompt(dbg, Depth) /\ event' = "return" /\ UNCHANGED <<stack, raising, goal>>
  <2>1. mode' = "prompt" /\ dbg' = dbg /\ at' = [sel |-> Depth, newest |-> Depth]
    BY <1>3 DEF Prompt
  <2>2. at' \in [sel : 0..MaxDepth, newest : 0..MaxDepth]
    BY <1>2, <2>1, FrameNumbers
  <2>3. FlowNext
    BY <1>2, <1>3, <2>1, <2>2 DEF FlowNext, FlowType, Depth
  <2>4. goal.cmd \notin {"continue", "next", "step"}
    BY <1>2, <1>3 DEF Matches
  <2>5. PromptNext
    BY <1>3, <2>4 DEF PromptNext
  <2>6. EditsNext
    BY <1>1, <2>1, EditsKept
  <2> QED BY <2>3, <2>5, <2>6, PromptAsked, InvNext
<1>4. CASE Pop(dbg, raising, goal)
  <2>1. raising \in Exceptions
    BY <1>2 DEF FlowType
  <2>2. FlowNext /\ PromptNext /\ dbg'.currentbp = dbg.currentbp
    BY <1>2, <1>4, <2>1, PopFlow
  <2>3. EditsNext
    BY <1>1, <2>2, EditsKept
  <2> QED BY <2>2, <2>3, PromptAsked, InvNext
<1> QED BY <1>3, <1>4 DEF Leave

\* An exception is raised, or caught.
LEMMA RaiseKeeps ==
    ASSUME SteppingInv, (\E exception \in {"error", "exit"} : Raise(exception)) \/ Catch,
           session' = session
    PROVE  SteppingInv'
<1>1. mode = "run" /\ UNCHANGED <<stack, bps, lists, goal, ran>>
      /\ raising' \in Exceptions /\ event' \in {"exception", "line"}
  BY DEF Raise, Catch, Runs, Exceptions
<1>2. /\ FlowType /\ EditsType /\ Depth >= 1 /\ Depth \in Nat /\ Depth \in 1..MaxDepth
      /\ Matches(dbg, goal, Depth) /\ Counted(dbg, goal) /\ dbg \in Debuggers /\ goal \in Goals
  BY <1>1, RunsFacts
<1>3. \/ event' = "exception" /\ StopHere(dbg, Depth) /\ Prompt(dbg, Depth)
      \/ mode' = "run" /\ dbg' = dbg /\ at' \in {Nobody, at}
  BY <1>1 DEF Raise, Catch, Resume
<1>4. dbg' = dbg
  BY <1>3 DEF Prompt
<1>5. EditsNext
  BY <1>1, <1>4, EditsKept
<1>6. CASE event' = "exception" /\ StopHere(dbg, Depth) /\ Prompt(dbg, Depth)
  <2>1. mode' = "prompt" /\ at' = [sel |-> Depth, newest |-> Depth]
    BY <1>6 DEF Prompt
  <2>2. at' \in [sel : 0..MaxDepth, newest : 0..MaxDepth]
    BY <1>2, <2>1, FrameNumbers
  <2>3. FlowNext
    BY <1>1, <1>2, <1>4, <2>1, <2>2 DEF FlowNext, FlowType, Depth
  <2>4. PromptNext
    BY <1>1, <1>2, <1>6, StopsWhere DEF PromptNext, Depth
  <2> QED BY <1>5, <2>3, <2>4, PromptAsked, InvNext
<1>7. CASE mode' = "run" /\ dbg' = dbg /\ at' \in {Nobody, at}
  <2>1. at' \in [sel : 0..MaxDepth, newest : 0..MaxDepth]
    BY <1>2, <1>7, FrameNumbers DEF Nobody, FlowType
  <2>2. FlowNext
    BY <1>1, <1>2, <1>7, <2>1 DEF FlowNext, FlowType, Depth
  <2>3. PromptNext
    BY <1>7 DEF PromptNext
  <2> QED BY <1>5, <2>2, <2>3, PromptAsked, InvNext
<1> QED BY <1>3, <1>6, <1>7

-----------------------------------------------------------------------------
(* The user's commands *)

\* do_break and do_tbreak move no other breakpoint.
LEMMA SetBreakType ==
    ASSUME NEW b \in Seq(Breakpoint), NEW l \in BreakLines, NEW temporary \in BOOLEAN,
           NEW conditional \in BOOLEAN
    PROVE  LET c == SetBreak(b, l, temporary, conditional) IN
           /\ c \in Seq(Breakpoint) /\ Len(c) = Len(b) + 1
           /\ \A n \in DOMAIN b : c[n] = b[n]
<1> DEFINE new == [line |-> l, temporary |-> temporary, conditional |-> conditional,
                   enabled |-> TRUE, alive |-> TRUE, ignore |-> 0]
<1>1. new \in Breakpoint
  BY BoundsAssumption DEF Breakpoint
<1>2. SetBreak(b, l, temporary, conditional) = Append(b, new)
  BY DEF SetBreak
<1> HIDE DEF new
<1>3. DOMAIN b = 1..Len(b)
  BY SeqParts
<1> QED BY <1>1, <1>2, <1>3, AppendProperties

\* step, next, finish and continue.
LEMMA ResumeKeeps ==
    ASSUME SteppingInv, session' = session,
           \/ \E n \in 0..MaxCount : do_step(n) \/ do_next(n)
           \/ do_finish \/ do_continue
           \/ \E l \in session.breakLines : do_continue_to(l)
    PROVE  SteppingInv'
<1>1. mode = "prompt"
  BY DEF do_step, do_next, do_finish, do_continue, do_continue_to, May
<1>2. /\ FlowType /\ EditsType /\ Depth >= 1 /\ Depth \in Nat
      /\ dbg \in Debuggers /\ dbg.currentbp \in 0..Len(bps)
  BY <1>1, RunsFacts
<1>3. /\ bps \in Seq(Breakpoint) /\ Len(bps) \in Nat /\ Len(bps) <= MaxBps /\ session \in Sessions
      /\ MaxBps \in Nat
  BY <1>2, SeqParts, FrameNumbers DEF EditsType
<1>4. at.sel \in 0..MaxDepth /\ at.newest \in 0..MaxDepth /\ at.sel <= Depth /\ MaxDepth \in Nat
      /\ at.sel \in Gone..MaxDepth /\ at.sel - 1 \in Gone..MaxDepth
  BY <1>1, <1>2, FrameNumbers DEF FlowType, SteppingInv, GoalInv, Gone
<1>5. ASSUME NEW d \in Debuggers, NEW what \in Goals, Matches(d, what, Depth),
             Counted(d, what), GoOn(d, what),
             bps' \in Seq(Breakpoint), Len(bps') \in Nat, Len(bps') <= MaxBps
      PROVE  SteppingInv'
  <2>1. FlowNext /\ PromptNext /\ dbg'.currentbp = 0 /\ ran' = Nothing /\ lists' = lists
    BY <1>2, <1>5, GoOnFlow
  <2>2. Nothing \in [num : 0..MaxBps, line : AllLines \union {0}]
    BY FrameNumbers DEF Nothing
  <2>3. EditsNext
    BY <1>2, <1>5, <2>1, <2>2 DEF EditsNext, EditsType
  <2> QED BY <2>1, <2>3, PromptAsked, InvNext
<1>6. ASSUME NEW n \in 0..MaxCount, NEW d \in Debuggers
      PROVE  /\ [d EXCEPT !.stepIgnore = n - 1] \in Debuggers
             /\ [d EXCEPT !.stepIgnore = n - 1].stepIgnore + 1 = n
             /\ [d EXCEPT !.stepIgnore = n - 1].stopframe = d.stopframe
             /\ [d EXCEPT !.stepIgnore = n - 1].returnframe = d.returnframe
  <2>1. n - 1 \in -1..MaxCount /\ n - 1 + 1 = n
    BY FrameNumbers
  <2> QED BY <2>1 DEF Debuggers
<1>7. ASSUME NEW n \in 0..MaxCount, do_step(n) PROVE SteppingInv'
  <2> DEFINE d == SetStep(dbg)
             e == [d EXCEPT !.stepIgnore = n - 1]
             what == Goal("step", Gone, n)
  <2>1. d \in Debuggers /\ d.stopframe = NoFrame /\ d.returnframe = NoFrame
    BY <1>2, FrameNumbers, StopInfoType DEF SetStep
  <2>2. GoOn(e, what) /\ bps' = bps
    BY <1>7 DEF do_step
  <2> HIDE DEF d
  <2>3. /\ e \in Debuggers /\ e.stepIgnore + 1 = n
        /\ e.stopframe = NoFrame /\ e.returnframe = NoFrame /\ n \in Int
    BY <1>6, <2>1
  <2> HIDE DEF e
  <2>4. what \in Goals /\ what.cmd = "step" /\ what.frame = Gone /\ what.left = n
        /\ what.lost = 0
    BY <2>3, FrameNumbers DEF Goal, Goals
  <2> HIDE DEF what
  <2>5. Matches(e, what, Depth) /\ Counted(e, what)
    BY <2>3, <2>4 DEF Matches, Counted
  <2> QED BY <1>3, <1>5, <2>2, <2>3, <2>4, <2>5
<1>8. ASSUME NEW n \in 0..MaxCount, do_next(n) PROVE SteppingInv'
  <2> DEFINE d == SetNext(dbg, at.sel)
             e == [d EXCEPT !.stepIgnore = n - 1]
             what == Goal("next", at.sel, n)
  <2>1. d \in Debuggers /\ d.stopframe = at.sel /\ d.returnframe = NoFrame
    <3>1. at.sel \in Gone..MaxDepth /\ NoFrame \in Gone..MaxDepth /\ dbg \in Debuggers
      BY <1>2, <1>4, FrameNumbers
    <3>2. d = StopInfo(dbg, at.sel, NoFrame)
      BY DEF SetNext
    <3> HIDE DEF d
    <3> QED BY <3>1, <3>2, StopInfoType
  <2>2. GoOn(e, what) /\ bps' = bps
    BY <1>8 DEF do_next
  <2> HIDE DEF d
  <2>3. /\ e \in Debuggers /\ e.stepIgnore + 1 = n
        /\ e.stopframe = at.sel /\ e.returnframe = NoFrame /\ n \in Int
    BY <1>6, <2>1
  <2> HIDE DEF e
  <2>4. what \in Goals /\ what.cmd = "next" /\ what.frame = at.sel /\ what.left = n
        /\ what.lost = 0
    BY <1>4, <2>3 DEF Goal, Goals
  <2> HIDE DEF what
  <2>5. Matches(e, what, Depth) /\ Counted(e, what)
    BY <1>4, <2>3, <2>4 DEF Matches, Counted, NoFrame
  <2> QED BY <1>3, <1>5, <2>2, <2>3, <2>4, <2>5
<1>9. CASE do_finish
  <2> DEFINE d == SetReturn(dbg, at.sel)
             what == Goal("finish", at.sel, 0)
  <2>1. d \in Debuggers /\ d.returnframe = at.sel
    BY <1>2, <1>4, StopInfoType DEF SetReturn
  <2>2. GoOn(d, what) /\ bps' = bps
    BY <1>9 DEF do_finish
  <2> HIDE DEF d
  <2>3. what \in Goals /\ what.cmd = "finish" /\ what.frame = at.sel
    BY <1>4, FrameNumbers DEF Goal, Goals
  <2> HIDE DEF what
  <2>4. Matches(d, what, Depth) /\ Counted(d, what)
    BY <2>1, <2>3 DEF Matches, Counted
  <2> QED BY <1>3, <1>5, <2>1, <2>2, <2>3, <2>4
<1>10. ASSUME NEW d \in Debuggers, d.stopframe = 0, d.returnframe = NoFrame,
              GoOn(d, Goal("continue", Gone, 0)),
              bps' \in Seq(Breakpoint), Len(bps') \in Nat, Len(bps') <= MaxBps
       PROVE  SteppingInv'
  <2> DEFINE what == Goal("continue", Gone, 0)
  <2>1. what \in Goals /\ what.cmd = "continue"
    BY FrameNumbers DEF Goal, Goals
  <2> HIDE DEF what
  <2>2. Matches(d, what, Depth) /\ Counted(d, what)
    BY <1>10, <2>1 DEF Matches, Counted
  <2> QED BY <1>5, <1>10, <2>1, <2>2 DEF what
<1>11. CASE do_continue
  <2>1. /\ SetContinue(dbg, bps) \in Debuggers /\ SetContinue(dbg, bps).stopframe = 0
        /\ SetContinue(dbg, bps).returnframe = NoFrame
    BY <1>2, SetContinueType
  <2> QED BY <1>3, <1>10, <1>11, <2>1 DEF do_continue
<1>12. ASSUME NEW l \in session.breakLines, do_continue_to(l) PROVE SteppingInv'
  <2> DEFINE d == StopInfo(dbg, 0, NoFrame)
  <2>1. d \in Debuggers /\ d.stopframe = 0 /\ d.returnframe = NoFrame
    BY <1>2, FrameNumbers, StopInfoType, ZenonT(60)
  <2>2. /\ Len(bps) < session.maxBps /\ bps' = SetBreak(bps, l, TRUE, FALSE)
        /\ GoOn(d, Goal("continue", Gone, 0))
    BY <1>12 DEF do_continue_to
  <2> HIDE DEF d
  <2>3. l \in BreakLines /\ session.maxBps \in 0..MaxBps
    BY <1>3, SessionsAssumption DEF SessionsAssumption
  <2>4. bps' \in Seq(Breakpoint) /\ Len(bps') = Len(bps) + 1
    BY <1>3, <2>2, <2>3, SetBreakType
  <2>5. Len(bps') \in Nat /\ Len(bps') <= MaxBps
    <3>1. Len(bps) < session.maxBps
      BY <2>2
    <3>2. Len(bps) + 1 <= MaxBps /\ Len(bps) + 1 \in Nat
      BY <1>3, <2>3, <3>1
    <3> QED BY <2>4, <3>2
  <2> QED BY <1>10, <2>1, <2>2, <2>4, <2>5
<1> QED BY <1>7, <1>8, <1>9, <1>11, <1>12

\* quit and run: the callback raises.
LEMMA AbortKeeps ==
    ASSUME SteppingInv, session' = session, do_quit \/ do_run
    PROVE  SteppingInv'
<1>1. mode = "prompt"
  BY DEF do_quit, do_run, May
<1>2. FlowType /\ EditsType /\ Depth >= 1 /\ dbg \in Debuggers
  BY <1>1, RunsFacts
<1>3. \E d \in Debuggers, exception \in Exceptions :
         Abort(d, exception) /\ d.currentbp \in {0, dbg.currentbp}
  <2>1. CASE do_quit
    <3> DEFINE d == [SetQuit(dbg) EXCEPT !.currentbp = 0]
    <3>1. d \in Debuggers /\ d.currentbp = 0
      BY <1>2, SetQuitType, FrameNumbers DEF Debuggers
    <3>2. Abort(d, "quit")
      BY <2>1 DEF do_quit
    <3> HIDE DEF d
    <3> QED BY <3>1, <3>2 DEF Exceptions
  <2>2. CASE do_run
    <3> DEFINE d == [dbg EXCEPT !.tracing = FALSE]
    <3>1. d \in Debuggers /\ d.currentbp = dbg.currentbp
      BY <1>2 DEF Debuggers
    <3>2. Abort(d, "restart")
      BY <2>2 DEF do_run
    <3> HIDE DEF d
    <3> QED BY <3>1, <3>2 DEF Exceptions
  <2> QED BY <2>1, <2>2
<1>4. PICK d \in Debuggers, exception \in Exceptions :
         Abort(d, exception) /\ d.currentbp \in {0, dbg.currentbp}
  BY <1>3
<1>5. /\ FlowNext /\ PromptNext /\ dbg'.currentbp = d.currentbp
      /\ UNCHANGED <<bps, lists>> /\ ran' = Nothing
  BY <1>2, <1>4, AbortFlow
<1>6. EditsNext
  BY <1>4, <1>5, EditsKept
<1> QED BY <1>5, <1>6, PromptAsked, InvNext

\* The end of the post mortem prompt.
LEMMA PostMortemKeeps ==
    ASSUME SteppingInv, session' = session, NEW quits, LeavePostMortem(quits)
    PROVE  SteppingInv'
<1>1. dbg \in Debuggers
  BY TypeParts DEF SteppingInv, FlowType
<1> DEFINE quit == [SetQuit(dbg) EXCEPT !.currentbp = 0]
<1>2. quit \in Debuggers /\ quit.currentbp = 0
  BY <1>1, SetQuitType, FrameNumbers DEF Debuggers
<1>3. UNCHANGED <<bps, lists, ran>> /\ (Restart(quit) \/ Restart(dbg))
  BY DEF LeavePostMortem
<1> HIDE DEF quit
<1>4. FlowNext /\ PromptNext /\ dbg'.currentbp \in {0, dbg.currentbp}
  BY <1>1, <1>2, <1>3, RestartFlow
<1>5. EditsNext
  BY <1>3, <1>4, EditsKept
<1> QED BY <1>4, <1>5, PromptAsked, InvNext

\* Commands that only edit what is shown and what is asked leave the stack and
\* the goal alone.
LEMMA QuietKeeps ==
    ASSUME SteppingInv, UNCHANGED <<stack, mode, event, raising, goal, ran, session>>,
           dbg' \in {dbg, [dbg EXCEPT !.sigcheck = TRUE], [dbg EXCEPT !.sigcheck = FALSE]},
           at' \in [sel : 0..MaxDepth, newest : 0..MaxDepth],
           mode = "prompt" => at'.sel <= at'.newest /\ at'.newest <= Depth,
           bps' \in Seq(Breakpoint), Len(bps') <= MaxBps, Len(bps) <= Len(bps'),
           \A n \in DOMAIN bps : bps'[n].line = bps[n].line,
           lists' \in [1..MaxBps -> {"none", "show", "continue"}]
    PROVE  SteppingInv'
<1>1. FlowType /\ EditsType /\ GoalInv /\ Asked
  BY TypeParts DEF SteppingInv
<1>2. /\ dbg \in Debuggers /\ bps \in Seq(Breakpoint) /\ Len(bps) \in Nat /\ Len(bps') \in Nat
      /\ DOMAIN bps = 1..Len(bps)
  BY <1>1, SeqParts DEF FlowType, EditsType
<1>3. /\ dbg' \in Debuggers /\ dbg'.currentbp = dbg.currentbp
      /\ dbg'.stopframe = dbg.stopframe /\ dbg'.returnframe = dbg.returnframe
      /\ dbg'.stepIgnore = dbg.stepIgnore
  BY <1>2 DEF Debuggers
<1>4. dbg.currentbp \in Nat /\ dbg.currentbp <= Len(bps) /\ dbg.currentbp <= Len(bps')
  <2>1. dbg.currentbp \in 0..MaxBps /\ dbg.currentbp <= Len(bps)
    BY <1>1, <1>2 DEF Debuggers, GoalInv
  <2> QED BY <1>2, <2>1, FrameNumbers
<1>5. dbg.currentbp # 0 => bps'[dbg.currentbp].line = bps[dbg.currentbp].line
  BY <1>2, <1>4
<1>6. FlowType'
  BY <1>1, <1>3 DEF FlowType, Depth
<1>7. Matches(dbg, goal, Depth) => Matches(dbg', goal', Depth')
  BY <1>3 DEF Matches, Depth
<1>8. Counted(dbg, goal) => Counted(dbg', goal')
  BY <1>3 DEF Counted
<1>9. FlowNext
  BY <1>1, <1>6, <1>7, <1>8 DEF FlowNext, GoalInv, Depth
<1>10. EditsNext
  BY <1>1, <1>3, <1>4 DEF EditsNext, EditsType
<1>11. Asked'
  BY <1>1, <1>3, <1>5 DEF Asked, NextStays, ContinueOnlyBreaks, Top, Depth
<1> QED BY <1>9, <1>10, <1>11, InvNext

\* clear, delete, enable, disable, ignore and condition move no breakpoint.
LEMMA EditedOnly ==
    ASSUME NEW b \in Seq(Breakpoint), NEW c,
           \/ \E l : c = ClearBreak(b, l)
           \/ \E n \in DOMAIN b : c = DeleteBreak(b, n)
           \/ c = DeleteAll(b)
           \/ \E n \in DOMAIN b, on \in BOOLEAN : c = SetEnabled(b, n, on) \/ c = SetCondition(b, n, on)
           \/ \E n \in DOMAIN b, k \in 0..MaxIgnore : c = SetIgnore(b, n, k)
    PROVE  Edited(b, c)
<1>1. \A n \in DOMAIN b : b[n] \in Breakpoint
  BY SeqParts
<1>2. Edited(b, b)
  BY DEF Edited
<1>3. CASE \E l : c = ClearBreak(b, l)
  BY <1>3, ClearedEdited
<1>4. CASE \E n \in DOMAIN b : c = DeleteBreak(b, n)
  BY <1>2, <1>4, ClearedEdited DEF DeleteBreak
<1>5. ASSUME DOMAIN c = DOMAIN b, c = [n \in DOMAIN c |-> c[n]],
             \A n \in DOMAIN b : c[n] \in Breakpoint /\ c[n].line = b[n].line
      PROVE  Edited(b, c)
  BY <1>5, EditType DEF Edited
<1>6. CASE c = DeleteAll(b)
  <2>1. DOMAIN c = DOMAIN b /\ c = [n \in DOMAIN c |-> c[n]]
    BY <1>6 DEF DeleteAll
  <2>2. \A n \in DOMAIN b : c[n] \in Breakpoint /\ c[n].line = b[n].line
    BY <1>1, <1>6 DEF DeleteAll, Breakpoint
  <2> QED BY <1>5, <2>1, <2>2
<1>7. ASSUME NEW n \in DOMAIN b, NEW new \in Breakpoint, new.line = b[n].line,
             c = [b EXCEPT ![n] = new]
      PROVE  Edited(b, c)
  <2>1. b = [m \in DOMAIN b |-> b[m]]
    <3>1. b \in [1..Len(b) -> Breakpoint]
      BY LenProperties
    <3> QED BY <3>1
  <2>2. DOMAIN c = DOMAIN b /\ c = [m \in DOMAIN c |-> c[m]]
    BY <1>7, <2>1
  <2>3. \A m \in DOMAIN b : c[m] \in Breakpoint /\ c[m].line = b[m].line
    BY <1>1, <1>7
  <2> QED BY <1>5, <2>2, <2>3
<1>8. ASSUME NEW n \in DOMAIN b, NEW on \in BOOLEAN,
             c = SetEnabled(b, n, on) \/ c = SetCondition(b, n, on)
      PROVE  Edited(b, c)
  <2>1. /\ [b[n] EXCEPT !.enabled = IF b[n].alive THEN on ELSE @] \in Breakpoint
        /\ [b[n] EXCEPT !.conditional = IF b[n].alive THEN on ELSE @] \in Breakpoint
        /\ [b[n] EXCEPT !.enabled = IF b[n].alive THEN on ELSE @].line = b[n].line
        /\ [b[n] EXCEPT !.conditional = IF b[n].alive THEN on ELSE @].line = b[n].line
    BY <1>1 DEF Breakpoint
  <2>2. \/ c = [b EXCEPT ![n] = [b[n] EXCEPT !.enabled = IF b[n].alive THEN on ELSE @]]
        \/ c = [b EXCEPT ![n] = [b[n] EXCEPT !.conditional = IF b[n].alive THEN on ELSE @]]
    BY <1>8 DEF SetEnabled, SetCondition
  <2> QED BY <1>7, <2>1, <2>2
<1>9. ASSUME NEW n \in DOMAIN b, NEW k \in 0..MaxIgnore, c = SetIgnore(b, n, k)
      PROVE  Edited(b, c)
  <2>1. /\ [b[n] EXCEPT !.ignore = IF b[n].alive THEN k ELSE @] \in Breakpoint
        /\ [b[n] EXCEPT !.ignore = IF b[n].alive THEN k ELSE @].line = b[n].line
    BY <1>1 DEF Breakpoint
  <2>2. c = [b EXCEPT ![n] = [b[n] EXCEPT !.ignore = IF b[n].alive THEN k ELSE @]]
    BY <1>9 DEF SetIgnore
  <2> QED BY <1>7, <2>1, <2>2
<1> QED BY <1>3, <1>4, <1>6, <1>8, <1>9

\* The commands that do not resume the program.
LEMMA EditKeeps ==
    ASSUME SteppingInv, session' = session,
           \/ \E i \in 0..MaxDepth : do_frame(i)
           \/ \E on \in BOOLEAN : set_sigcheck(on)
           \/ \E n \in DOMAIN bps, list \in {"none", "show", "continue"} : do_commands(n, list)
           \/ EditBreakpoints
    PROVE  SteppingInv'
<1>1. /\ FlowType /\ EditsType /\ GoalInv
  BY TypeParts DEF SteppingInv
<1>2. /\ bps \in Seq(Breakpoint) /\ Len(bps) \in Nat /\ DOMAIN bps = 1..Len(bps) /\ Len(bps) <= MaxBps
      /\ lists \in [1..MaxBps -> {"none", "show", "continue"}] /\ session \in Sessions
      /\ MaxBps \in Nat /\ MaxDepth \in Nat
  BY <1>1, SeqParts, FrameNumbers DEF EditsType
<1>3. /\ at \in [sel : 0..MaxDepth, newest : 0..MaxDepth]
      /\ mode = "prompt" => at.sel <= at.newest /\ at.newest <= Depth
      /\ Depth \in Nat
  BY <1>1, SeqParts DEF FlowType, GoalInv, Depth
<1>4. at.sel \in 0..MaxDepth /\ at.newest \in 0..MaxDepth
  BY <1>3
<1>5. ASSUME NEW i \in 0..MaxDepth, do_frame(i) PROVE SteppingInv'
  <2>1. /\ mode = "prompt" /\ i <= at.newest /\ at' = [at EXCEPT !.sel = i]
        /\ UNCHANGED <<stack, mode, event, raising, dbg, bps, lists, goal, ran>>
    BY <1>5 DEF do_frame, May
  <2>2. at' \in [sel : 0..MaxDepth, newest : 0..MaxDepth] /\ at'.sel = i /\ at'.newest = at.newest
    BY <1>3, <2>1
  <2> QED BY <1>2, <1>3, <2>1, <2>2, QuietKeeps
<1>6. ASSUME NEW on \in BOOLEAN, set_sigcheck(on) PROVE SteppingInv'
  <2>1. /\ dbg' = [dbg EXCEPT !.sigcheck = on]
        /\ UNCHANGED <<stack, mode, event, raising, bps, lists, at, goal, ran>>
    BY <1>6 DEF set_sigcheck
  <2>2. dbg' \in {dbg, [dbg EXCEPT !.sigcheck = TRUE], [dbg EXCEPT !.sigcheck = FALSE]}
    BY <2>1
  <2> QED BY <1>2, <1>3, <2>1, <2>2, QuietKeeps
<1>7. ASSUME NEW n \in DOMAIN bps, NEW list \in {"none", "show", "continue"}, do_commands(n, list)
      PROVE  SteppingInv'
  <2>1. /\ lists' = [lists EXCEPT ![n] = list] /\ at' = [at EXCEPT !.newest = at.sel]
        /\ UNCHANGED <<stack, mode, event, raising, dbg, bps, goal, ran>>
    BY <1>7 DEF do_commands
  <2>2. at' \in [sel : 0..MaxDepth, newest : 0..MaxDepth] /\ at'.sel = at.sel /\ at'.newest = at.sel
    BY <1>3, <1>4, <2>1
  <2>3. lists' \in [1..MaxBps -> {"none", "show", "continue"}]
    BY <1>2, <2>1
  <2>4. mode = "prompt" => at'.sel <= at'.newest /\ at'.newest <= Depth
    BY <1>3, <1>4, <2>2
  <2> QED BY <1>2, <2>1, <2>2, <2>3, <2>4, QuietKeeps
<1>8. CASE EditBreakpoints
  <2>1. \E b : Edit(b) /\ \/ Edited(bps, b)
                          \/ /\ Len(bps) < session.maxBps
                             /\ \E l \in session.breakLines, temporary, conditional \in BOOLEAN :
                                   b = SetBreak(bps, l, temporary, conditional)
    <3> DEFINE Moves(b) == \/ Edited(bps, b)
                           \/ /\ Len(bps) < session.maxBps
                              /\ \E l \in session.breakLines, temporary, conditional \in BOOLEAN :
                                    b = SetBreak(bps, l, temporary, conditional)
    <3>1. \A l : Moves(ClearBreak(bps, l))
      BY <1>2, EditedOnly
    <3>2. Moves(DeleteAll(bps)) /\ \A n \in DOMAIN bps : Moves(DeleteBreak(bps, n))
      BY <1>2, EditedOnly
    <3>3. \A n \in DOMAIN bps, on \in BOOLEAN :
             Moves(SetEnabled(bps, n, on)) /\ Moves(SetCondition(bps, n, on))
      BY <1>2, EditedOnly
    <3>4. \A n \in DOMAIN bps, k \in 0..MaxIgnore : Moves(SetIgnore(bps, n, k))
      BY <1>2, EditedOnly
    <3>5. ASSUME Len(bps) < session.maxBps,
                 NEW l \in session.breakLines, NEW temporary \in BOOLEAN
          PROVE  Moves(SetBreak(bps, l, temporary, FALSE)) /\ Moves(SetBreak(bps, l, temporary, TRUE))
      BY <3>5
    <3> HIDE DEF Moves
    <3>6. \E b : Edit(b) /\ Moves(b)
      <4>1. CASE \E l \in session.breakLines : Edit(ClearBreak(bps, l))
        BY <3>1, <4>1
      <4>2. CASE Edit(DeleteAll(bps)) \/ \E n \in DOMAIN bps : Edit(DeleteBreak(bps, n))
        BY <3>2, <4>2
      <4>3. CASE \E n \in DOMAIN bps, on \in BOOLEAN :
                   Edit(SetEnabled(bps, n, on)) \/ Edit(SetCondition(bps, n, on))
        BY <3>3, <4>3
      <4>4. CASE \E n \in DOMAIN bps, k \in 0..MaxIgnore : Edit(SetIgnore(bps, n, k))
        BY <3>4, <4>4
      <4>5. CASE /\ Len(bps) < session.maxBps
                 /\ \E l \in session.breakLines, temporary \in BOOLEAN :
                      \/ Edit(SetBreak(bps, l, temporary, FALSE))
                      \/ Edit(SetBreak(bps, l, temporary, TRUE))
        BY <3>5, <4>5
      <4> QED BY <1>8, <4>1, <4>2, <4>3, <4>4, <4>5 DEF EditBreakpoints
    <3> QED BY <3>6 DEF Moves
  <2>2. PICK b : Edit(b) /\ \/ Edited(bps, b)
                            \/ /\ Len(bps) < session.maxBps
                               /\ \E l \in session.breakLines, temporary, conditional \in BOOLEAN :
                                     b = SetBreak(bps, l, temporary, conditional)
    BY <2>1
  <2>3. bps' = b /\ UNCHANGED <<stack, mode, event, raising, dbg, lists, at, goal, ran>>
    BY <2>2 DEF Edit
  <2>4. /\ b \in Seq(Breakpoint) /\ Len(b) <= MaxBps /\ Len(bps) <= Len(b)
        /\ \A n \in DOMAIN bps : b[n].line = bps[n].line
    <3>1. CASE Edited(bps, b)
      BY <1>2, <3>1 DEF Edited
    <3>2. CASE /\ Len(bps) < session.maxBps
               /\ \E l \in session.breakLines, temporary, conditional \in BOOLEAN :
                     b = SetBreak(bps, l, temporary, conditional)
      <4>1. session.breakLines \subseteq BreakLines /\ session.maxBps \in 0..MaxBps
        BY <1>2, SessionsAssumption DEF SessionsAssumption
      <4>2. /\ b \in Seq(Breakpoint) /\ Len(b) = Len(bps) + 1
            /\ \A n \in DOMAIN bps : b[n] = bps[n]
        BY <1>2, <3>2, <4>1, SetBreakType, SMTT(30)
      <4>3. Len(bps) + 1 <= MaxBps
        BY <1>2, <3>2, <4>1
      <4> QED BY <1>2, <4>2, <4>3
    <3> QED BY <2>2, <3>1, <3>2
  <2> QED BY <1>2, <1>3, <2>3, <2>4, QuietKeeps
<1> QED BY <1>5, <1>6, <1>7, <1>8

-----------------------------------------------------------------------------
(* The theorems *)

\* In every state the debugger stops for what was asked for last.
LEMMA SteppingInductive == Spec => []SteppingInv
<1>1. Init => SteppingInv
  <2> SUFFICES ASSUME Init PROVE SteppingInv
    OBVIOUS
  <2>1. stack \in Seq(Frames) /\ Len(stack) = 2
    <3>1. Statement \in Frames /\ Frame(Script) \in Frames
      BY DEF Frames, Statement, Frame
    <3>2. stack = <<Statement, Frame(Script)>>
      BY DEF Init
    <3> QED BY <3>1, <3>2
  <2>2. dbg \in Debuggers /\ dbg.currentbp = 0 /\ dbg.stepIgnore = 0
    BY FrameNumbers DEF Init, Debuggers
  <2>3. goal \in Goals /\ goal.cmd = "start"
    BY FrameNumbers DEF Init, NoGoal, Goal, Goals
  <2>4. at \in [sel : 0..MaxDepth, newest : 0..MaxDepth]
    BY FrameNumbers DEF Init, Nobody
  <2>5. bps \in Seq(Breakpoint) /\ Len(bps) = 0
    BY DEF Init
  <2>6. lists \in [1..MaxBps -> {"none", "show", "continue"}]
    BY DEF Init
  <2>7. ran \in [num : 0..MaxBps, line : AllLines \union {0}] /\ session \in Sessions
    BY FrameNumbers DEF Init, Nothing
  <2>8. mode = "run" /\ event = "call" /\ raising = "none" /\ Depth = 2
    BY <2>1 DEF Init, Depth
  <2>9. FlowType
    BY <2>1, <2>2, <2>3, <2>4, <2>8, FrameNumbers DEF FlowType, Exceptions
  <2>10. EditsType
    BY <2>5, <2>6, <2>7, FrameNumbers DEF EditsType
  <2>11. GoalInv
    BY <2>2, <2>3, <2>5, <2>8 DEF GoalInv, Matches, Counted
  <2>12. Asked
    BY <2>8 DEF Asked, NextStays, ContinueOnlyBreaks
  <2> QED BY <2>9, <2>10, <2>11, <2>12, TypeParts DEF SteppingInv
<1>2. SteppingInv /\ [Next]_<<vars, session>> => SteppingInv'
  <2> SUFFICES ASSUME SteppingInv, [Next]_<<vars, session>> PROVE SteppingInv'
    OBVIOUS
  <2>1. CASE UNCHANGED <<vars, session>>
    BY <2>1 DEF vars, SteppingInv, TypeOK, GoalInv, Asked, NextStays, ContinueOnlyBreaks,
                Matches, Counted, Depth, Top
  <2>2. CASE Program /\ session' = session
    <3>1. session.calls \subseteq Functions
      BY SessionsAssumption DEF SessionsAssumption, SteppingInv, TypeOK
    <3> QED BY <2>2, <3>1, LineUntracedKeeps, LineSteppingKeeps, LineRunningKeeps, CallKeeps,
               LeaveKeeps, RaiseKeeps DEF Program
  <2>3. CASE User /\ session' = session
    BY <2>3, ResumeKeeps, AbortKeeps, PostMortemKeeps, EditKeeps DEF User
  <2> QED BY <2>1, <2>2, <2>3 DEF Next
<1> QED BY <1>1, <1>2, PTL DEF Spec

\* The stack, the debugger's attributes, the breakpoints and the command lists
\* have their types, and no count or depth is exceeded.
THEOREM SteppingTypes == Spec => []TypeOK
<1>1. SteppingInv => TypeOK
  BY DEF SteppingInv
<1> QED BY <1>1, SteppingInductive, PTL

\* After next the user is asked in the frame the command was given in, however
\* deep the program calls, or when that frame is gone.
THEOREM NextStaysInFrame == Spec => []NextStays
<1>1. SteppingInv => NextStays
  BY DEF SteppingInv, Asked
<1> QED BY <1>1, SteppingInductive, PTL

\* step n and next n stop at the n-th line, for every n: never later, and earlier
\* only by the stops at breakpoints their count has swallowed.  A count of 0 stops
\* at no line.
THEOREM StepsCounted == Spec => []StepCounts
<1>1. SteppingInv => StepCounts
  <2> SUFFICES ASSUME SteppingInv, goal.cmd \in {"step", "next"} PROVE StepCounts
    BY DEF StepCounts
  <2>1. mode = "run" => Counted(dbg, goal) /\ dbg \in Debuggers /\ goal \in Goals
    BY RunsFacts
  <2>2. mode = "run" => goal.left > 0 \/ dbg.stepIgnore = -1
    BY <2>1, FrameNumbers DEF Counted, Debuggers, Goals
  <2> QED BY <2>2 DEF StepCounts, SteppingInv, Asked
<1> QED BY <1>1, SteppingInductive, PTL

\* After continue the user is asked at a line with a breakpoint only, whatever
\* frames and counts earlier commands left behind.
THEOREM ContinueStopsAtBreaks == Spec => []ContinueOnlyBreaks
<1>1. SteppingInv => ContinueOnlyBreaks
  BY DEF SteppingInv, Asked
<1> QED BY <1>1, SteppingInductive, PTL

\* finish asks the user before the frame it is for is left.
THEOREM FinishIsSeen == Spec => FinishSeen
<1> DEFINE Seen == mode = "run" /\ goal.cmd = "finish" /\ Depth = goal.frame /\ Traced
                     => goal'.frame = goal.frame \/ goal'.cmd = "continue"
<1>1. SteppingInv /\ [Next]_<<vars, session>> => [Seen]_vars
  <2> SUFFICES ASSUME SteppingInv, Next, mode = "run", goal.cmd = "finish",
                      Depth = goal.frame, Traced
               PROVE  goal'.frame = goal.frame \/ goal'.cmd = "continue"
    BY DEF vars
  <2>1. /\ Depth \in Nat /\ Depth >= 1 /\ Matches(dbg, goal, Depth) /\ goal \in Goals
    BY RunsFacts
  <2>2. dbg.returnframe = Depth /\ dbg.returnframe # NoFrame
    BY <2>1 DEF Matches, NoFrame
  <2>3. Program
    BY DEF Next, User, do_step, do_next, do_finish, do_continue, do_continue_to, do_quit, do_run,
           LeavePostMortem, do_frame, set_sigcheck, do_commands, EditBreakpoints, May, MayEdit
  <2>4. ASSUME NEW d, NEW l, NEW what \in Goals, Stop(d, l, what)
        PROVE  goal' = what \/ goal'.cmd = "continue"
    BY <2>4 DEF Stop, Goal
  <2>5. \A b \in BOOLEAN : LET what == [goal EXCEPT !.broke = b] IN
          what \in Goals /\ what.frame = goal.frame
    BY <2>1 DEF Goals
  <2>6. \A l : Reached(l) = goal
    BY DEF Reached
  <2>7. ASSUME NEW l, NEW truth, LineUntraced(l) \/ LineStepping(l, truth) \/ LineRunning(l, truth)
        PROVE  goal'.frame = goal.frame \/ goal'.cmd = "continue"
    <3>1. CASE LineUntraced(l)
      BY <3>1 DEF LineUntraced
    <3>2. CASE LineStepping(l, truth)
      <4> DEFINE hit == BreakHere(bps, l, truth)
                 d == Note(dbg, hit.num)
                 b == hit.num # 0
                 what == [goal EXCEPT !.broke = b]
      <4>1. goal' = goal \/ Stop(d, l, what)
        BY <2>6, <3>2 DEF LineStepping
      <4>2. b \in BOOLEAN
        OBVIOUS
      <4> HIDE DEF b, d
      <4>3. what \in Goals /\ what.frame = goal.frame
        BY <2>5, <4>2
      <4> HIDE DEF what
      <4> QED BY <2>4, <4>1, <4>3
    <3>3. CASE LineRunning(l, truth)
      <4>1. \/ goal' = goal \/ goal' = [goal EXCEPT !.lost = @ + 1]
            \/ \E d : Stop(d, l, [goal EXCEPT !.broke = TRUE])
        BY <3>3 DEF LineRunning
      <4> QED BY <2>1, <2>4, <2>5, <4>1 DEF Goals
    <3> QED BY <2>7, <3>1, <3>2, <3>3
  <2>8. CASE Leave
    BY <2>2, <2>8 DEF Leave
  <2>9. CASE \E fn \in session.calls : Call(fn)
    BY <2>9 DEF Call
  <2>10. CASE (\E exception \in {"error", "exit"} : Raise(exception)) \/ Catch
    BY <2>10 DEF Raise, Catch
  <2>11. CASE \E l \in AllLines : \/ LineUntraced(l)
                                  \/ \E truth \in Truths : LineStepping(l, truth) \/ LineRunning(l, truth)
    BY <2>7, <2>11
  <2> QED BY <2>3, <2>8, <2>9, <2>10, <2>11 DEF Program
<1>2. Spec => [][Seen]_vars
  <2> HIDE DEF Seen
  <2> QED BY <1>1, SteppingInductive, PTL DEF Spec
<1> QED BY <1>2 DEF FinishSeen

\* A breakpoint of the line that is enabled, unconditional and not to be ignored.
PlainBreak(b, n, l) ==
    /\ n \in DOMAIN b /\ b[n].alive /\ b[n].enabled /\ b[n].line = l
    /\ ~b[n].conditional /\ b[n].ignore = 0

\* break_here answers when there is such a breakpoint, and unless a temporary one
\* of the line was the answer it answers again.
LEMMA PlainAnswered ==
    ASSUME NEW b \in Seq(Breakpoint), NEW l, NEW truth, NEW n, PlainBreak(b, n, l)
    PROVE  LET hit == BreakHere(b, l, truth) IN
           /\ hit.num # 0
           /\ (\A m \in DOMAIN b : b[m].alive /\ b[m].enabled /\ b[m].line = l => ~b[m].temporary)
                => PlainBreak(hit.bps, n, l)
<1> DEFINE hit == BreakHere(b, l, truth)
<1>1. n \in Honoured(b, l, truth)
  BY DEF PlainBreak, Honoured, Candidates, Applies
<1>2. hit.num # 0
  BY <1>1, BreakHereType
<1>3. ASSUME \A m \in DOMAIN b : b[m].alive /\ b[m].enabled /\ b[m].line = l => ~b[m].temporary
      PROVE  PlainBreak(hit.bps, n, l)
  <2>1. hit.num = Effective(b, l, truth) /\ Effective(b, l, truth) \in Honoured(b, l, truth)
    <3>1. Honoured(b, l, truth) \in SUBSET Nat /\ Honoured(b, l, truth) # {}
      BY <1>1, SeqParts DEF Honoured, Candidates
    <3>2. Min(Honoured(b, l, truth)) \in Honoured(b, l, truth)
      BY <3>1, MinNumber
    <3> QED BY <3>1, <3>2 DEF BreakHere, Effective
  <2>2. ~b[hit.num].temporary
    BY <1>3, <2>1 DEF Honoured, Candidates
  <2>3. hit.bps = Counting(b, l, truth)
    BY <2>1, <2>2 DEF BreakHere, Counting
  <2>4. n \notin PassedOver(b, l, truth)
    <3>1. n \in Nat
      BY SeqParts DEF PlainBreak
    <3> QED BY <1>1, <3>1 DEF PassedOver
  <2>5. n \in DOMAIN b /\ n \in DOMAIN Counting(b, l, truth) /\ Counting(b, l, truth)[n] = b[n]
    BY <2>4 DEF Counting, PlainBreak
  <2> QED BY <2>3, <2>5 DEF PlainBreak
<1> QED BY <1>2, <1>3

\* No traced line with a breakpoint that asks for a stop is passed over, except
\* for steps left to skip and for a count of 0 where bdb stops at every line, and
\* for steps left to skip and a temporary breakpoint of the line elsewhere.
THEOREM BreaksAreSeen == Spec => BreakStops
<1> DEFINE On(n, l) == bps[n].alive /\ bps[n].enabled /\ bps[n].line = l
           Excused(l) == \/ dbg.stepIgnore # 0 /\ StopHere(dbg, Depth)
                         \/ Skipping(dbg) /\ \E n \in DOMAIN bps : On(n, l) /\ bps[n].temporary
           Seen == LET l == stack'[Depth].line IN
                   (/\ Runs /\ event' = "line" /\ Traced
                    /\ \E n \in DOMAIN bps : On(n, l) /\ ~bps[n].conditional /\ bps[n].ignore = 0)
                     /\ ~Excused(l)
                   => mode' = "prompt" \/ (ran' # Nothing /\ ran'.line = l)
<1>1. SteppingInv /\ [Next]_<<vars, session>> => [Seen]_vars
  <2> SUFFICES ASSUME SteppingInv, Next, Runs, event' = "line", Traced,
                      NEW n \in DOMAIN bps, On(n, stack'[Depth].line),
                      ~bps[n].conditional, bps[n].ignore = 0, ~Excused(stack'[Depth].line)
               PROVE  mode' = "prompt" \/ (ran' # Nothing /\ ran'.line = stack'[Depth].line)
    BY DEF vars
  <2>0. mode = "run" /\ raising = "none" /\ Depth > 1
    BY DEF Runs
  <2>1. /\ FlowType /\ EditsType /\ dbg \in Debuggers /\ dbg.currentbp \in 0..Len(bps)
        /\ bps \in Seq(Breakpoint) /\ Len(bps) \in Nat /\ session' = session
        /\ Matches(dbg, goal, Depth) /\ goal \in Goals
    BY <2>0, RunsFacts, SeqParts DEF EditsType, Next
  <2>2. Program
    BY <2>0 DEF Next, User, do_step, do_next, do_finish, do_continue, do_continue_to, do_quit, do_run,
           LeavePostMortem, do_frame, set_sigcheck, do_commands, EditBreakpoints, May, MayEdit
  <2>3. ~(\E fn \in session.calls : Call(fn)) /\ ~(\E exception \in {"error", "exit"} : Raise(exception))
        /\ ~Catch
    BY <2>0 DEF Call, Raise, Catch
  <2>4. ~Leave
    <3> SUFFICES ASSUME Leave PROVE FALSE
      OBVIOUS
    <3>1. Pop(dbg, raising, goal)
      BY DEF Leave
    <3> QED BY <2>0, <3>1 DEF Pop
  <2>5. PICK l \in AllLines : \/ LineUntraced(l)
                              \/ \E truth \in Truths : LineStepping(l, truth) \/ LineRunning(l, truth)
    BY <2>2, <2>3, <2>4 DEF Program
  <2>6. PICK truth : LineStepping(l, truth) \/ LineRunning(l, truth)
    BY <2>5 DEF LineUntraced
  <2>7. Arrive(l) /\ stack'[Depth].line = l
    BY <2>6, ArriveStack DEF LineStepping, LineRunning
  <2>8. PlainBreak(bps, n, l) /\ ~Excused(l)
    BY <2>7 DEF PlainBreak
  <2> HIDE DEF Excused
  <2>10. CASE LineStepping(l, truth)
    <3> DEFINE hit == BreakHere(bps, l, truth)
               d == Note(dbg, hit.num)
    <3>1. StopHere(dbg, Depth)
      BY <2>10 DEF LineStepping
    <3>2. dbg.stepIgnore = 0
      BY <2>8, <3>1 DEF Excused
    <3>3. hit.num # 0 /\ hit.num \in 0..MaxBps
      <4>1. hit.num # 0 /\ hit.num \in 0..Len(bps)
        BY <2>1, <2>8, PlainAnswered, BreakHereType
      <4> QED BY <2>1, <4>1, FrameNumbers DEF EditsType
    <3>4. Stop(d, l, [Reached(l) EXCEPT !.broke = (hit.num # 0)])
      BY <2>10, <3>2, <3>3 DEF LineStepping, Skipping
    <3> HIDE DEF hit
    <3>5. d.currentbp # 0
      BY <2>1, <3>3, NoteType
    <3> HIDE DEF d
    <3> QED BY <2>7, <3>4, <3>5 DEF Stop, Prompt, Nothing
  <2>11. CASE LineRunning(l, truth)
    <3> DEFINE first == BreakHere(bps, l, truth)
               again == BreakHere(first.bps, l, truth)
               d == Note(Note(dbg, first.num), again.num)
    <3>1. first.num # 0 /\ first.num \in 0..Len(bps) /\ Edited(bps, first.bps)
      BY <2>1, <2>8, PlainAnswered, BreakHereType
    <3>2. again.num \in 0..Len(bps)
      <4> HIDE DEF first
      <4> QED BY <3>1, BreakHereType DEF Edited
    <3>3. again.num # 0 \/ ~Skipping(dbg)
      <4> SUFFICES ASSUME Skipping(dbg) PROVE again.num # 0
        OBVIOUS
      <4>1. \A m \in DOMAIN bps : bps[m].alive /\ bps[m].enabled /\ bps[m].line = l
                                     => ~bps[m].temporary
        BY <2>8 DEF Excused
      <4>2. PlainBreak(first.bps, n, l)
        BY <2>1, <2>8, <4>1, PlainAnswered
      <4> HIDE DEF first
      <4>3. first.bps \in Seq(Breakpoint)
        BY <3>1 DEF Edited
      <4> QED BY <4>2, <4>3, PlainAnswered
    <3>4. Stop(d, l, [goal EXCEPT !.broke = TRUE])
      BY <2>11, <3>1, <3>3 DEF LineRunning
    <3>5. first.num \in 0..MaxBps /\ again.num \in 0..MaxBps
      BY <2>1, <3>1, <3>2, FrameNumbers DEF EditsType
    <3> HIDE DEF first, again
    <3>6. d.currentbp # 0
      BY <2>1, <3>1, <3>5, NoteType
    <3> HIDE DEF d
    <3> QED BY <2>7, <3>4, <3>6 DEF Stop, Prompt, Nothing
  <2> QED BY <2>6, <2>7, <2>10, <2>11
<1>2. Spec => [][Seen]_vars
  <2> HIDE DEF Seen
  <2> QED BY <1>1, SteppingInductive, PTL DEF Spec
<1> QED BY <1>2 DEF BreakStops
=============================================================================
