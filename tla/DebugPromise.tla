---------------------------- MODULE DebugPromise ----------------------------
(***************************************************************************)
(* What the debugger calls of gemOS promise their user: a program calls    *)
(* functions, stops where a breakpoint is set and, if asked, also where    *)
(* such a function has returned; meanwhile the debugger is suspended.      *)
(* There is no stack of the child here, no instruction is patched and no   *)
(* return address is replaced: frames only says who called whom.           *)
(***************************************************************************)
EXTENDS Naturals, Sequences, SequencesExt

CONSTANTS Fns,              \* the functions a breakpoint may be set on
          Main, EndHandler, \* where the child starts; where ends are reported
          MaxBreakpoints    \* entries of the list of breakpoints

VARIABLES phase,   \* who has control, and whether there is a child at all
          points,  \* the flag of every breakpoint that is set
          frames,  \* the calls of the child that have not returned, last one innermost
          at,      \* how far the child is in its innermost function
          report,  \* what info_registers and backtrace show of the last stop
          answer   \* what the debugger's last call returned

vars == <<phase, points, frames, at, report, answer>>

Failed == [kind |-> "error"]
Done == [kind |-> "done"]
ChildExit == [kind |-> "done"]
Entry(f) == [kind |-> "entry", of |-> f]
Site(f) == [kind |-> "site", of |-> f]

NoReport == [rip |-> Done, depth |-> 0, trace |-> <<>>]
NoPoint == [f \in {} |-> FALSE]
Outermost == [fn |-> Main, ends |-> FALSE]
Depth == Len(frames)

\* The return addresses from the innermost of the frames fs out to main.
Callers(fs) == [i \in 1..Len(fs) - 1 |-> Site(fs[Len(fs) - i].fn)]
InControl == phase \in {"plain", "alone", "stopped", "exited"}

Init ==
  /\ phase = "plain" /\ points = NoPoint
  /\ frames = <<>> /\ at = "none"
  /\ report = NoReport /\ answer = Done

\* The end of a call of f is still to be reported.
EndPending(f) == \E i \in 1..Depth : frames[i] = [fn |-> f, ends |-> TRUE]

\* Once more, with nothing set and no end to come, it forgets the last report.
BecomeDebugger ==
  /\ InControl /\ points = NoPoint /\ \A f \in Fns : ~EndPending(f)
  /\ phase' = (IF phase = "plain" THEN "alone" ELSE phase)
  /\ report' = NoReport /\ answer' = Done
  /\ UNCHANGED <<points, frames, at>>

Fork ==
  /\ phase = "alone"
  /\ phase' = "stopped" /\ frames' = <<Outermost>> /\ at' = "body" /\ answer' = Done
  /\ UNCHANGED <<points, report>>

\* A call that says no and does nothing else.
Refuse ==
  /\ InControl
  /\ answer' = Failed
  /\ UNCHANGED <<phase, points, frames, at, report>>

SetBreakpoint(f, flag) ==
  /\ InControl /\ phase # "plain"
  /\ f \in DOMAIN points \/ Cardinality(DOMAIN points) < MaxBreakpoints
  /\ ~(f \in DOMAIN points /\ points[f] /\ ~flag /\ EndPending(f))
  /\ points' = [g \in DOMAIN points \cup {f} |-> IF g = f THEN flag ELSE points[g]]
  /\ answer' = Done
  /\ UNCHANGED <<phase, frames, at, report>>

RemoveBreakpoint(f) ==
  /\ InControl /\ f \in DOMAIN points
  /\ ~(points[f] /\ EndPending(f))
  /\ points' = [g \in DOMAIN points \ {f} |-> points[g]]
  /\ answer' = Done
  /\ UNCHANGED <<phase, frames, at, report>>

\* A wait for a child that is not there, or no more, is refused like any other
\* call that fails.
WaitAndContinue ==
  /\ phase = "stopped"
  /\ phase' = "running" /\ answer' = Done
  /\ UNCHANGED <<points, frames, at, report>>

Call(f) ==
  /\ phase = "running" /\ at = "body"
  /\ frames' = Append(frames, [fn |-> f, ends |-> FALSE]) /\ at' = "entry"
  /\ UNCHANGED <<phase, points, report, answer>>

\* The child reaches a breakpoint: the debugger learns where, and the trace
\* starts with the function itself.
Stop ==
  /\ phase = "running" /\ at = "entry"
  /\ LET f == frames[Depth].fn IN
       /\ f \in DOMAIN points
       /\ frames' = [frames EXCEPT ![Depth].ends = points[f]]
       /\ report' = [rip |-> Entry(f), depth |-> Depth,
                     trace |-> <<Entry(f)>> \o Callers(frames)]
       /\ answer' = Entry(f)
  /\ phase' = "stopped" /\ at' = "pushed"
  /\ UNCHANGED points

Enter ==
  /\ phase = "running" /\ at = "entry" /\ frames[Depth].fn \notin DOMAIN points
  /\ at' = "pushed"
  /\ UNCHANGED <<phase, points, frames, report, answer>>

Establish ==
  /\ phase = "running" /\ at = "pushed"
  /\ at' = "body"
  /\ UNCHANGED <<phase, points, frames, report, answer>>

\* A call returns to whoever made it; the end handler is not in between.
Return ==
  /\ phase = "running" /\ at = "body" /\ Depth > 1 /\ ~frames[Depth].ends
  /\ frames' = Front(frames)
  /\ UNCHANGED <<phase, points, at, report, answer>>

\* A call whose end is reported: the end handler takes its place.
Finish ==
  /\ phase = "running" /\ at = "body" /\ frames[Depth].ends
  /\ frames' = [frames EXCEPT ![Depth] = [fn |-> EndHandler, ends |-> FALSE]]
  /\ at' = "over"
  /\ UNCHANGED <<phase, points, report, answer>>

\* The stop after a function has returned: it is in no trace any more.
StopAtEnd ==
  /\ phase = "running" /\ at = "over"
  /\ report' = [rip |-> Entry(EndHandler), depth |-> Depth, trace |-> Callers(frames)]
  /\ answer' = Entry(EndHandler)
  /\ phase' = "stopped" /\ at' = "pushed"
  /\ UNCHANGED <<points, frames>>

Exit ==
  /\ phase = "running" /\ at = "body"
  /\ phase' = "exited" /\ frames' = <<>> /\ at' = "none" /\ answer' = ChildExit
  /\ UNCHANGED <<points, report>>

Quit ==
  /\ phase \in {"plain", "alone", "exited"}
  /\ phase' = "gone" /\ points' = NoPoint /\ report' = NoReport
  /\ UNCHANGED <<frames, at, answer>>

Next ==
  \/ BecomeDebugger \/ Fork \/ Refuse \/ WaitAndContinue
  \/ \E f \in Fns : RemoveBreakpoint(f) \/ Call(f) \/ \E flag \in BOOLEAN : SetBreakpoint(f, flag)
  \/ Stop \/ Enter \/ Establish \/ Return \/ Finish \/ StopAtEnd \/ Exit \/ Quit

Spec == Init /\ [][Next]_vars
=============================================================================
