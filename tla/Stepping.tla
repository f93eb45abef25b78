------------------------------ MODULE Stepping ------------------------------
(***************************************************************************)
(* How pydb stops a program and lets it go on: the trace callbacks of      *)
(* pydbbdb.Bdb, the resuming and breakpoint commands of gdb.Gdb, and the   *)
(* restart loop of pydb.main.                                              *)
(*                                                                         *)
(* The debugged program is arbitrary: in the frame on top of the stack it  *)
(* reaches any line, calls, returns or raises, and a frame of a function   *)
(* in catchers may catch whatever is raised in it, the debugger's own      *)
(* exceptions included.  Frame 1 is the statement execfile(...), frame 2   *)
(* the script; 0 stands for bdb's botframe.  The events before the first   *)
(* line of the script, which _wait_for_mainpyfile lets pass, are left out. *)
(*                                                                         *)
(* bdb is Python's own; its part (stop_here, the stop information and the  *)
(* dispatch of trace events) is modelled from how pydb uses it.            *)
(***************************************************************************)
EXTENDS Integers, Breakpoints

CONSTANTS Script, Functions,   \* the script and the functions it may call
          LinesOf,             \* function -> the lines of its body
          FileOf,              \* function -> its source file
          DefLines,            \* the lines that are def statements
          MaxDepth,            \* bound: the frames on the stack
          MaxCount,            \* bound: the count given to step and next
          Sessions             \* bound: the sessions there are

VARIABLES stack,    \* frames, oldest first
          mode,     \* the program runs, the user is asked, or it is over
          event,    \* the trace event the program is at
          raising,  \* the exception that is propagating
          dbg,      \* the debugger's attributes
          bps,      \* breakpoint number -> breakpoint
          lists,    \* breakpoint number -> its command list
          at,       \* the frame selected and the newest one shown
          goal,     \* what the user asked for last, and what came of it
          ran,      \* the breakpoint whose commands were run last, and the line
          session   \* what there is in this session, and stays

vars == <<stack, mode, event, raising, dbg, bps, lists, at, goal, ran>>

(* A session: the commands its user gives, the functions its script calls, *)
(* those that catch every exception, and the lines and the number of its   *)
(* breakpoints.                                                            *)
SessionsAssumption ==
  \A s \in Sessions : /\ s.calls \subseteq Functions
                      /\ s.catchers \subseteq Functions \union {Script}
                      /\ s.breakLines \subseteq BreakLines /\ s.maxBps \in 0..MaxBps
ASSUME SessionsAssumption
ASSUME DepthAssumption == MaxDepth \in Nat \ {0, 1} /\ MaxCount \in Nat

Gone == -2     \* a frame that is not on the stack any more
NoFrame == -1  \* None
Nobody == [sel |-> 0, newest |-> 0]
Nothing == [num |-> 0, line |-> 0]
NoLine == 0
Frame(fn) == [fn |-> fn, line |-> NoLine, traced |-> TRUE]
Statement == [Frame(Script) EXCEPT !.line = 1]

AllLines == UNION {LinesOf[fn] : fn \in DOMAIN LinesOf}
LinesIn(file) == UNION {LinesOf[fn] : fn \in {g \in DOMAIN FileOf : FileOf[g] = file}}

-----------------------------------------------------------------------------
Depth == Len(stack)
Top == stack[Depth]
Started == Top.line # NoLine
Traced == dbg.tracing /\ Top.traced

(* bdb.stop_here: the frame is the one to stop in, or the one to stop in   *)
(* is not among its callers.                                               *)
StopHere(d, i) == d.stopframe = i \/ d.stopframe \notin 0..i

(* bdb's stop information, and the commands that set it. *)
StopInfo(d, stopframe, returnframe) ==
  [d EXCEPT !.stopframe = stopframe, !.returnframe = returnframe, !.quitting = FALSE]
SetStep(d) == StopInfo(d, NoFrame, NoFrame)
(* Mutant: next stops anywhere. *)
SetNext_Anywhere(d, i) == StopInfo(d, NoFrame, NoFrame)
SetNext(d, i) == StopInfo(d, i, NoFrame)
(* Mutant: the frame to finish is not kept. *)
SetReturn_Forgets(d, i) == StopInfo(d, i - 1, NoFrame)
SetReturn(d, i) == StopInfo(d, i - 1, i)

(* Mutant: continue leaves the frame to stop in. *)
SetContinue_Keeps(d, b) == StopInfo(d, d.stopframe, NoFrame)

(* set_continue_gdb, or bdb's own when sigcheck is off: without any        *)
(* breakpoint left in b that one stops tracing.                            *)
SetContinue(d, b) ==
  [StopInfo(d, 0, NoFrame) EXCEPT
     !.tracing = @ /\ (d.sigcheck \/ \E n \in DOMAIN b : b[n].alive)]

(* Mutant: whatever is not zero is counted down. *)
Skipping_NotZero(d) == d.stepIgnore # 0
(* step_ignore: the lines still to be skipped; a count of 0 makes it -1,   *)
(* and then no line that is stepped to is a stop.                          *)
Skipping(d) == d.stepIgnore > 0
Skip(d) == [d EXCEPT !.stepIgnore = @ - 1]
Note(d, num) == IF num = 0 THEN d ELSE [d EXCEPT !.currentbp = num]

(* A frame leaves the stack: references to it match no frame any more. *)
Forget(d, i) ==
  [d EXCEPT !.stopframe = IF @ = i THEN Gone ELSE @,
            !.returnframe = IF @ = i THEN Gone ELSE @]

(* do_quit and do_EOF. *)
SetQuit(d) ==
  [StopInfo(d, 0, NoFrame) EXCEPT !.quitting = TRUE, !.tracing = FALSE,
                                  !.quitRequested = TRUE]

(* A resuming command, the frame it is for, the lines left to its stop,    *)
(* the stops at breakpoints its count has swallowed, and whether it is a   *)
(* breakpoint that stopped the program.                                    *)
Goal(cmd, frame, left) ==
  [cmd |-> cmd, frame |-> frame, left |-> left, lost |-> 0, broke |-> FALSE]
NoGoal == Goal("start", Gone, 0)

-----------------------------------------------------------------------------
(* interaction: the user is asked, with the newest frame selected. *)
Prompt(d, depth) ==
  /\ mode' = "prompt"
  /\ dbg' = d
  /\ at' = [sel |-> depth, newest |-> depth]

(* The program goes on. *)
Resume(d) == mode' = "run" /\ dbg' = d /\ at' = Nobody

(* run and reset: the script starts, again or for the first time. *)
Restart(d) ==
  /\ stack' = <<Statement, Frame(Script)>>
  /\ event' = "call" /\ raising' = "none"
  /\ Resume([SetStep(d) EXCEPT !.tracing = TRUE, !.stepIgnore = 0])
  /\ goal' = NoGoal

(* Mutant: a restart is taken for an end of the program. *)
EndRun_NoRestart(d, exception, what) ==
  \/ /\ exception # "error"
     /\ mode' = "exited"
     /\ stack' = <<>> /\ event' = "return" /\ raising' = "none"
     /\ dbg' = d /\ at' = Nobody /\ goal' = what
  \/ /\ exception = "error"
     /\ mode' = "postmortem"
     /\ stack' = <<>> /\ event' = "exception" /\ raising' = "none"
     /\ dbg' = [d EXCEPT !.tracing = FALSE, !.quitting = TRUE]
     /\ at' = Nobody /\ goal' = what

(* run has returned or raised; the restart loop of main decides. *)
EndRun(d, exception, what) ==
  \/ /\ exception \in {"none", "quit"} /\ d.quitRequested
     /\ mode' = "exited"
     /\ stack' = <<>> /\ event' = "return" /\ raising' = "none"
     /\ dbg' = d /\ at' = Nobody /\ goal' = what
  \/ /\ exception = "error"
     /\ mode' = "postmortem"
     /\ stack' = <<>> /\ event' = "exception" /\ raising' = "none"
     /\ dbg' = [d EXCEPT !.tracing = FALSE, !.quitting = TRUE]
     /\ at' = Nobody /\ goal' = what
  \/ /\ exception \in {"exit", "restart"} \/ (exception # "error" /\ ~d.quitRequested)
     /\ Restart(d)

(* The top frame is left; an exception of the program reaches its caller,  *)
(* where user_exception asks the user if bdb is to stop there.             *)
Pop(d, exception, what) ==
  LET left == Forget(d, Depth)
      caller == Depth - 1
      goes == [what EXCEPT !.frame = IF @ = Depth THEN Gone ELSE @]
      arrives == exception \in {"error", "exit"} /\ left.tracing /\ stack[caller].traced
  IN IF Depth = 1 THEN EndRun(left, exception, goes)
     ELSE /\ stack' = SubSeq(stack, 1, caller)
          /\ raising' = exception /\ event' = "exception" /\ goal' = goes
          /\ IF arrives /\ StopHere(left, caller) THEN Prompt(left, caller)
             ELSE Resume(left)

(* bp_commands, then interaction: the commands of the current breakpoint   *)
(* are run first, and in place of the prompt when they resume the program. *)
Stop(d, l, what) ==
  LET list == IF d.currentbp = 0 THEN "none" ELSE lists[d.currentbp]
      cleared == [d EXCEPT !.currentbp = 0]
  IN \/ list = "none" /\ Prompt(d, Depth) /\ goal' = what /\ UNCHANGED ran
     \/ /\ list = "show" /\ Prompt(cleared, Depth) /\ goal' = what
        /\ ran' = [num |-> d.currentbp, line |-> l]
     \/ /\ list = "continue" /\ Resume(SetContinue(cleared, bps'))
        /\ ran' = [num |-> d.currentbp, line |-> l]
        /\ goal' = Goal("continue", Gone, 0)

-----------------------------------------------------------------------------
(* The program's steps, with the trace callback each one makes. *)

(* What the user asked for gets one line nearer. *)
Reached(l) ==
  LET counts == \/ goal.cmd = "step"
                \/ goal.cmd = "next" /\ goal.frame \in {Depth, Gone}
  IN IF ~counts \/ goal.left = 0 \/ (goal.left = 1 /\ l \in DefLines) THEN goal
     ELSE [goal EXCEPT !.left = @ - 1]

Runs == mode = "run" /\ raising = "none" /\ Depth > 1

Arrive(l) ==
  /\ Runs /\ l \in LinesOf[Top.fn]
  /\ stack' = [stack EXCEPT ![Depth].line = l]
  /\ event' = "line"
  /\ UNCHANGED <<raising, lists>>

LineUntraced(l) ==
  Arrive(l) /\ ~Traced /\ UNCHANGED <<mode, dbg, bps, at, goal, ran>>

(* user_line where bdb stops: steps left to skip are counted off without a *)
(* look at the breakpoints of the line, a count below zero goes on, without *)
(* a look at them either, and a def statement is no stop.                  *)
LineStepping(l, truth) ==
  LET hit == BreakHere(bps, l, truth)
      d == Note(dbg, hit.num)
  IN /\ Arrive(l) /\ Traced /\ StopHere(dbg, Depth)
     /\ \/ /\ Skipping(dbg)
           /\ Resume(Skip(dbg)) /\ goal' = Reached(l) /\ UNCHANGED <<bps, ran>>
        \/ /\ dbg.stepIgnore < 0
           /\ Resume(dbg) /\ UNCHANGED <<bps, goal, ran>>
        \/ /\ dbg.stepIgnore = 0 /\ hit.num = 0 /\ l \in DefLines
           /\ bps' = hit.bps /\ Resume(d) /\ goal' = Reached(l) /\ UNCHANGED ran
        \/ /\ dbg.stepIgnore = 0 /\ (hit.num # 0 \/ l \notin DefLines)
           /\ bps' = hit.bps
           /\ Stop(d, l, [Reached(l) EXCEPT !.broke = (hit.num # 0)])

(* user_line where bdb does not stop: dispatch_line has asked break_here,  *)
(* user_line asks again, and when the second answer is none a step left to *)
(* skip swallows the stop and is counted off with it.                      *)
LineRunning(l, truth) ==
  LET first == BreakHere(bps, l, truth)
      again == BreakHere(first.bps, l, truth)
      d == Note(Note(dbg, first.num), again.num)
  IN /\ Arrive(l) /\ Traced /\ ~StopHere(dbg, Depth)
     /\ \/ /\ first.num = 0
           /\ bps' = first.bps /\ UNCHANGED <<mode, dbg, at, goal, ran>>
        \/ /\ first.num # 0 /\ again.num = 0 /\ Skipping(dbg)
           /\ bps' = again.bps /\ Resume(Skip(d))
           /\ goal' = [goal EXCEPT !.lost = @ + 1] /\ UNCHANGED ran
        \/ /\ first.num # 0 /\ (again.num # 0 \/ ~Skipping(dbg))
           /\ bps' = again.bps /\ Stop(d, l, [goal EXCEPT !.broke = TRUE])

(* dispatch_call and user_call: a new frame is traced when bdb stops in it *)
(* or break_anywhere says so, and the user is asked in the first case,     *)
(* whatever number of steps is left to skip.                               *)
BreakAnywhere(fn) ==
  \/ dbg.sigcheck
  \/ \E n \in DOMAIN bps : bps[n].alive /\ bps[n].line \in LinesIn(FileOf[fn])

Call(fn) ==
  LET i == Depth + 1
      stops == dbg.tracing /\ StopHere(dbg, i)
      traced == dbg.tracing /\ (stops \/ BreakAnywhere(fn))
  IN /\ Runs /\ Started /\ i <= MaxDepth
     /\ stack' = Append(stack, [Frame(fn) EXCEPT !.traced = traced])
     /\ event' = "call"
     /\ IF stops THEN Prompt(dbg, i) ELSE Resume(dbg)
     /\ UNCHANGED <<raising, bps, lists, goal, ran>>

(* dispatch_return and user_return: the user is asked only while a finish  *)
(* is under way, before the frame is left.                                 *)
Leave ==
  LET asks == /\ Traced
              /\ StopHere(dbg, Depth) \/ dbg.returnframe = Depth
              /\ dbg.returnframe # NoFrame
  IN /\ mode = "run"
     /\ raising # "none" \/ Depth = 1 \/ Started
     /\ IF asks THEN /\ Prompt(dbg, Depth) /\ event' = "return"
                     /\ UNCHANGED <<stack, raising, goal>>
        ELSE Pop(dbg, raising, goal)
     /\ UNCHANGED <<bps, lists, ran>>

(* dispatch_exception and user_exception. *)
Raise(exception) ==
  /\ Runs /\ Started
  /\ raising' = exception /\ event' = "exception"
  /\ IF Traced /\ StopHere(dbg, Depth) THEN Prompt(dbg, Depth) ELSE Resume(dbg)
  /\ UNCHANGED <<stack, bps, lists, goal, ran>>

(* An except clause without a class catches the debugger's BdbQuit and     *)
(* Restart too; the trace function that raised them is gone by then.       *)
Catch ==
  /\ mode = "run" /\ raising # "none" /\ Depth > 1
  /\ Started /\ Top.fn \in session.catchers
  /\ raising' = "none" /\ event' = "line"
  /\ UNCHANGED <<stack, mode, dbg, bps, lists, at, goal, ran>>

-----------------------------------------------------------------------------
(* The user's commands.  After an uncaught exception is_running refuses    *)
(* the resuming ones, so they are commands of "prompt" only.               *)
May(cmd) == mode = "prompt" /\ cmd \in session.commands
MayEdit(cmd) == mode \in {"prompt", "postmortem"} /\ cmd \in session.commands

(* interaction returns and the callback with it: the program goes on from  *)
(* the event it was at.                                                    *)
GoOn(d, what) ==
  /\ IF event = "return" THEN Pop([d EXCEPT !.currentbp = 0], raising, what)
     ELSE /\ Resume([d EXCEPT !.currentbp = 0]) /\ goal' = what
          /\ UNCHANGED <<stack, event, raising>>
  /\ ran' = Nothing /\ UNCHANGED lists

(* Mutant: the count is one too many. *)
do_step_Late(n) ==
  /\ May("step") /\ UNCHANGED bps
  /\ GoOn([SetStep(dbg) EXCEPT !.stepIgnore = n], Goal("step", Gone, n))

(* The count may be 0: get_pos_int takes it, and step_ignore becomes -1. *)
do_step(n) ==
  /\ May("step") /\ UNCHANGED bps
  /\ GoOn([SetStep(dbg) EXCEPT !.stepIgnore = n - 1], Goal("step", Gone, n))

do_next(n) ==
  /\ May("next") /\ UNCHANGED bps
  /\ GoOn([SetNext(dbg, at.sel) EXCEPT !.stepIgnore = n - 1], Goal("next", at.sel, n))

do_finish ==
  /\ May("finish") /\ UNCHANGED bps
  /\ GoOn(SetReturn(dbg, at.sel), Goal("finish", at.sel, 0))

do_continue ==
  /\ May("continue") /\ UNCHANGED bps
  /\ GoOn(SetContinue(dbg, bps), Goal("continue", Gone, 0))

(* continue with a position: a temporary breakpoint, then a plain continue. *)
do_continue_to(l) ==
  /\ May("continue_to") /\ Len(bps) < session.maxBps
  /\ bps' = SetBreak(bps, l, TRUE, FALSE)
  /\ GoOn(StopInfo(dbg, 0, NoFrame), Goal("continue", Gone, 0))

(* A callback that raises: the trace function is switched off, and the     *)
(* exception takes the place of what the program was doing.  A call or a   *)
(* return that is interrupted ends the frame.                              *)
Abort(d, exception) ==
  /\ IF event \in {"call", "return"} THEN Pop(d, exception, NoGoal)
     ELSE /\ raising' = exception /\ Resume(d) /\ goal' = NoGoal
          /\ UNCHANGED <<stack, event>>
  /\ ran' = Nothing /\ UNCHANGED <<bps, lists>>

do_quit == May("quit") /\ Abort([SetQuit(dbg) EXCEPT !.currentbp = 0], "quit")

(* run raises Restart out of interaction, which then forgets no breakpoint. *)
do_run == May("run") /\ Abort([dbg EXCEPT !.tracing = FALSE], "restart")

(* Leaving the post mortem prompt, with quit or with run, starts the       *)
(* script again: the loop of main looks at _user_requested_quit only after *)
(* a run that ended without an exception.                                  *)
LeavePostMortem(quits) ==
  /\ mode = "postmortem"
  /\ Restart(IF quits THEN [SetQuit(dbg) EXCEPT !.currentbp = 0] ELSE dbg)
  /\ UNCHANGED <<bps, lists, ran>>

(* up, down and frame; botframe is the oldest frame shown. *)
do_frame(i) ==
  /\ May("frame") /\ i \in 0..at.newest
  /\ at' = [at EXCEPT !.sel = i]
  /\ UNCHANGED <<stack, mode, event, raising, dbg, bps, lists, goal, ran>>

set_sigcheck(on) ==
  /\ MayEdit("sigcheck") /\ dbg' = [dbg EXCEPT !.sigcheck = on]
  /\ UNCHANGED <<stack, mode, event, raising, bps, lists, at, goal, ran>>

(* commands: the list replaces the one the number had, and the stack shown *)
(* afterwards ends at the selected frame.                                  *)
do_commands(n, list) ==
  /\ MayEdit("commands")
  /\ lists' = [lists EXCEPT ![n] = list] /\ at' = [at EXCEPT !.newest = at.sel]
  /\ UNCHANGED <<stack, mode, event, raising, dbg, bps, goal, ran>>

Edit(b) ==
  bps' = b /\ UNCHANGED <<stack, mode, event, raising, dbg, lists, at, goal, ran>>

EditBreakpoints ==
  \/ /\ MayEdit("break") /\ Len(bps) < session.maxBps
     /\ \E l \in session.breakLines, temporary \in BOOLEAN : Edit(SetBreak(bps, l, temporary, FALSE))
  \/ /\ MayEdit("condition") /\ Len(bps) < session.maxBps
     /\ \E l \in session.breakLines, temporary \in BOOLEAN : Edit(SetBreak(bps, l, temporary, TRUE))
  \/ MayEdit("clear") /\ \E l \in session.breakLines : Edit(ClearBreak(bps, l))
  \/ MayEdit("delete") /\ \E n \in DOMAIN bps : Edit(DeleteBreak(bps, n))
  \/ MayEdit("delete") /\ Edit(DeleteAll(bps))
  \/ MayEdit("enable") /\ \E n \in DOMAIN bps, on \in BOOLEAN : Edit(SetEnabled(bps, n, on))
  \/ MayEdit("ignore") /\ \E n \in DOMAIN bps, c \in 0..MaxIgnore : Edit(SetIgnore(bps, n, c))
  \/ MayEdit("condition") /\ \E n \in DOMAIN bps, on \in BOOLEAN : Edit(SetCondition(bps, n, on))

-----------------------------------------------------------------------------
Init ==
  /\ stack = <<Statement, Frame(Script)>>
  /\ mode = "run" /\ event = "call" /\ raising = "none"
  /\ dbg = [stopframe |-> NoFrame, returnframe |-> NoFrame, quitting |-> FALSE,
            tracing |-> TRUE, stepIgnore |-> 0, currentbp |-> 0,
            quitRequested |-> FALSE, sigcheck |-> TRUE]
  /\ bps = <<>> /\ lists = [n \in 1..MaxBps |-> "none"]
  /\ at = Nobody /\ goal = NoGoal /\ ran = Nothing
  /\ session \in Sessions

Program ==
  \/ \E l \in AllLines : LineUntraced(l)
  \/ \E l \in AllLines, truth \in Truths : LineStepping(l, truth)
  \/ \E l \in AllLines, truth \in Truths : LineRunning(l, truth)
  \/ \E fn \in session.calls : Call(fn)
  \/ \E exception \in {"error", "exit"} : Raise(exception)
  \/ Leave
  \/ Catch

User ==
  \/ \E n \in 0..MaxCount : do_step(n) \/ do_next(n)
  \/ do_finish \/ do_continue \/ do_quit \/ do_run
  \/ \E l \in session.breakLines : do_continue_to(l)
  \/ \E quits \in BOOLEAN : LeavePostMortem(quits)
  \/ \E i \in 0..MaxDepth : do_frame(i)
  \/ \E on \in BOOLEAN : set_sigcheck(on)
  \/ \E n \in DOMAIN bps, list \in {"none", "show", "continue"} : do_commands(n, list)
  \/ EditBreakpoints

Next == (Program \/ User) /\ UNCHANGED session
Spec == Init /\ [][Next]_<<vars, session>>

(* The interpreter leaves a frame whose exception nobody catches; a frame  *)
(* that runs may do so for ever.                                           *)
Unwind == raising # "none" /\ Leave
FairSpec == Spec /\ WF_vars(Unwind)
-----------------------------------------------------------------------------
TypeOK ==
  /\ stack \in Seq([fn : Functions \union {Script}, line : AllLines \union {NoLine, Statement.line},
                    traced : BOOLEAN])
  /\ Depth <= MaxDepth
  /\ mode \in {"run", "prompt", "postmortem", "exited"}
  /\ event \in {"line", "call", "return", "exception"}
  /\ raising \in {"none", "error", "exit", "quit", "restart"}
  /\ dbg \in [stopframe : Gone..MaxDepth, returnframe : Gone..MaxDepth,
              quitting : BOOLEAN, tracing : BOOLEAN, stepIgnore : -1..MaxCount,
              currentbp : 0..MaxBps, quitRequested : BOOLEAN, sigcheck : BOOLEAN]
  /\ bps \in Seq(Breakpoint) /\ Len(bps) <= MaxBps
  /\ lists \in [1..MaxBps -> {"none", "show", "continue"}]
  /\ at \in [sel : 0..MaxDepth, newest : 0..MaxDepth]
  /\ goal \in [cmd : {"start", "step", "next", "finish", "continue"},
               frame : Gone..MaxDepth, left : 0..MaxCount, lost : Nat, broke : BOOLEAN]
  /\ ran \in [num : 0..MaxBps, line : AllLines \union {0}] /\ session \in Sessions

(* After next the user is asked again in the frame the command was given   *)
(* in, or, once that frame has been left, wherever the program is then; a  *)
(* deeper frame stops the program only at a breakpoint (do_next, set_next, *)
(* user_line, user_call).                                                  *)
NextStays ==
  mode = "prompt" /\ goal.cmd = "next" /\ goal.frame # Gone /\ ~goal.broke
    => Depth = goal.frame \/ goal.frame \notin 1..Depth

(* step n and next n stop at the n-th line they count, and not after it,   *)
(* when neither a breakpoint nor a call nor an exception stops the program *)
(* earlier; def statements do not count as the last line.  They stop       *)
(* before it only by as many lines as the count has swallowed stops of     *)
(* breakpoints (user_line lowers step_ignore for those too).  A count of 0 *)
(* stops at no line at all (step_ignore in do_step, do_next and user_line). *)
StepCounts ==
  goal.cmd \in {"step", "next"} =>
    /\ mode = "prompt" /\ event = "line" /\ ~goal.broke
         => goal.left <= goal.lost /\ dbg.stepIgnore = 0
    /\ mode = "run" /\ dbg.tracing => goal.left > 0 \/ dbg.stepIgnore = -1

(* Continue "only stops when a breakpoint is encountered": the user is     *)
(* asked at a line, and for a breakpoint that is set on that line, even    *)
(* with steps left over from an earlier command (do_continue, user_line).  *)
ContinueOnlyBreaks ==
  mode = "prompt" /\ goal.cmd = "continue" =>
    /\ event = "line" /\ goal.broke
    /\ dbg.currentbp # 0 => bps[dbg.currentbp].line = Top.line

(* A breakpoint that is enabled, unconditional and not to be ignored stops *)
(* the program, or has its commands run, at every traced line it is set    *)
(* on, with two exceptions.  Where bdb stops at every line, steps left to  *)
(* skip pass over breakpoints, and so does a count of 0, for as long as it *)
(* lasts; elsewhere steps left to skip swallow the stop of a temporary     *)
(* breakpoint with all others of its line (user_line asking break_here a   *)
(* second time).                                                           *)
BreakStops ==
  [][LET l == stack'[Depth].line
         On(n) == bps[n].alive /\ bps[n].enabled /\ bps[n].line = l
         Plain(n) == On(n) /\ ~bps[n].conditional /\ bps[n].ignore = 0
         excused == \/ dbg.stepIgnore # 0 /\ StopHere(dbg, Depth)
                    \/ Skipping(dbg) /\ \E n \in DOMAIN bps : On(n) /\ bps[n].temporary
     IN (/\ Runs /\ event' = "line" /\ Traced
         /\ \E n \in DOMAIN bps : Plain(n)) /\ ~excused
        => mode' = "prompt" \/ (ran' # Nothing /\ ran'.line = l)]_vars

(* After finish the selected frame is not left unseen: the user is asked   *)
(* at its return, whether it returns or raises, and whatever was stopped   *)
(* for in between did not make the debugger forget it, unless the commands *)
(* of a breakpoint continued the program (do_finish, user_return).  A      *)
(* frame that is not traced is not watched: none is once tracing is off,   *)
(* and, with sigcheck off, one that was called while nothing asked for it  *)
(* is not, although up and frame may select it for finish.                 *)
FinishSeen ==
  [][mode = "run" /\ goal.cmd = "finish" /\ Depth = goal.frame /\ Traced
       => goal'.frame = goal.frame \/ goal'.cmd = "continue"]_vars

(* The commands of a breakpoint are run where it is set: bp_commands says  *)
(* it calls "every command that was set for the current active             *)
(* breakpoint".                                                            *)
CommandsBelong == ran.num # 0 => bps[ran.num].line = ran.line

(* The debugger's way out is not lost in the program: quit ends the        *)
(* session, and run starts the script again, with no question asked in     *)
(* between, unless a frame of the program catches the exception they are   *)
(* made of (do_quit, do_run, Bdb.run, main).                               *)
Caught == raising = "none" /\ Depth > 1 /\ Top.fn \in session.catchers
AbortsEnd ==
  /\ raising = "quit" ~> mode = "exited" \/ Caught
  /\ raising = "restart" ~> (raising = "none" /\ Depth = 2 /\ event = "call") \/ Caught
=============================================================================
