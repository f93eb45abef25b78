---- MODULE MCStepping ----
(* A script of two lines, the second a def, a function of the same file    *)
(* and one of another file.                                                *)
EXTENDS Stepping, TLC

MCFunctions == {"f", "g"}
MCLinesOf == "main" :> {1, 2} @@ "f" :> {3} @@ "g" :> {4}
MCFileOf == "main" :> "a" @@ "f" :> "a" @@ "g" :> "b"

\* A user who resumes the program in every way, with one breakpoint at most.
Resuming ==
  [commands |-> {"step", "next", "finish", "continue", "continue_to", "quit", "run",
                 "frame", "break", "sigcheck", "clear", "delete", "enable"},
   calls |-> MCFunctions, catchers |-> {"main", "f"}, breakLines |-> {1, 3}, maxBps |-> 1]

\* A user who sets two breakpoints on one line, with conditions, ignore counts
\* and commands.
Breaking ==
  [commands |-> {"step", "continue", "break", "commands", "ignore", "condition"},
   calls |-> {}, catchers |-> {}, breakLines |-> {1}, maxBps |-> 2]

MCSessions == {Resuming, Breaking}
====
