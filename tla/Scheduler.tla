----------------------------- MODULE Scheduler -----------------------------
(***************************************************************************)
(* The scheduler of gemOS (schedule.c) and the exit and fork of entry.c:   *)
(* round robin over the contexts, sleeping, a debugger that hands the      *)
(* processor to its child, and the shutdown with the last process.         *)
(* Context 0 is the swapper, which runs when nobody is ready.  sleep and   *)
(* cfork exist only as object code and are external.  Alarms change no     *)
(* context's state and are left out.                                       *)
(***************************************************************************)
EXTENDS Integers, FiniteSets, FiniteSetsExt

CONSTANTS MAX_PROCESSES,
          MaxTicks,   \* bound: longest sleep
          Debuggers   \* contexts whose process becomes a debugger

ASSUME SchedulerAssumption ==
  /\ MAX_PROCESSES \in Nat /\ MAX_PROCESSES > 1
  /\ MaxTicks \in Nat
  /\ Debuggers \subseteq 1..MAX_PROCESSES - 1

Pids == 0..MAX_PROCESSES - 1
Users == 1..MAX_PROCESSES - 1

VARIABLES state, ppid,
          ticks,   \* ticks_to_sleep
          cur,     \* the current context
          gone,    \* contexts whose process has called exit, until reused
          halted   \* do_cleanup was called

vars == <<state, ppid, ticks, cur, gone, halted>>

Init ==
  /\ state = [p \in Pids |-> IF p = 0 THEN "READY" ELSE IF p = 1 THEN "RUNNING" ELSE "UNUSED"]
  /\ ppid = [p \in Pids |-> 0] /\ ticks = [p \in Pids |-> 0]
  /\ cur = 1 /\ gone = {} /\ halted = FALSE

-----------------------------------------------------------------------------
\* The loop of pick_next_context for the context c, in the states st: where
\* it goes on after pid, and the first ready context it finds.
After(c, pid) ==
  LET next == IF pid + 1 = c + 1 THEN 0 ELSE pid + 1
  IN IF next # MAX_PROCESSES THEN next ELSE IF c = 0 THEN 0 ELSE 1

pick_next_contextFromFirst(st, c) ==   \* mutant: the search starts at 1
  LET ready == {p \in Users : st[p] = "READY"} IN IF ready = {} THEN 0 ELSE Min(ready)
pick_next_context(st, c) ==
  LET scan[pid \in Pids] == IF pid = 0 THEN 0
                            ELSE IF st[pid] = "READY" THEN pid ELSE scan[After(c, pid)]
  IN scan[IF c + 1 = MAX_PROCESSES THEN 1 ELSE c + 1]

\* schedule(p) from a system call that left the states st.
schedule(st, p) ==
  /\ state' = [st EXCEPT ![p] = "RUNNING"]
  /\ cur' = p

Asleep(p) == state[p] = "WAITING" /\ ticks[p] > 0

Accounted == [p \in Pids |-> IF Asleep(p) THEN ticks[p] - 1 ELSE ticks[p]]
Woken(after) == [p \in Pids |-> IF Asleep(p) /\ after[p] = 0 THEN "READY" ELSE state[p]]

handle_timer_tickKept ==   \* mutant: the context that is left stays RUNNING
  LET after == Accounted
      next == pick_next_context(Woken(after), cur)
  IN /\ ~halted
     /\ ticks' = after
     /\ schedule(Woken(after), next)
     /\ UNCHANGED <<ppid, gone, halted>>
handle_timer_tick ==
  LET after == Accounted
      st == [Woken(after) EXCEPT ![cur] = "READY"]
      next == pick_next_context(st, cur)
  IN /\ ~halted
     /\ ticks' = after
     /\ \/ next = cur /\ state' = st /\ UNCHANGED cur
        \/ next # cur /\ schedule(st, next)
     /\ UNCHANGED <<ppid, gone, halted>>

-----------------------------------------------------------------------------
(* System calls of the current process.                                    *)

Calls == cur # 0 /\ ~halted

do_sleep(n) ==
  LET st == [state EXCEPT ![cur] = "WAITING"] IN
  /\ Calls
  /\ ticks' = [ticks EXCEPT ![cur] = n]
  /\ schedule(st, pick_next_context(st, cur))
  /\ UNCHANGED <<ppid, gone, halted>>

Free == {p \in Users : state[p] = "UNUSED"}

\* A child in the lowest free context, ready or waiting.
Child(how) ==
  /\ Calls /\ Free # {}
  /\ LET p == Min(Free) IN
       /\ state' = [state EXCEPT ![p] = how]
       /\ ppid' = [ppid EXCEPT ![p] = cur]
       /\ ticks' = [ticks EXCEPT ![p] = ticks[cur]]   \* *new_ctx = *ctx
       /\ gone' = gone \ {p}
  /\ UNCHANGED <<cur, halted>>

\* A process is a debugger until it exits (ctx->dbg).
IsDebugger(p) == p \in Debuggers \ gone
LivesUnder(p) == {q \in Users \ gone : ppid[q] = p /\ state[q] # "UNUSED"}

\* fork leaves the child waiting for its debugger (debugger_on_fork); a
\* process that is debugged does not fork (assignment text, 4).
do_fork == IsDebugger(cur) /\ LivesUnder(cur) = {} /\ Child("WAITING")
do_cfork == ~IsDebugger(cur) /\ ~IsDebugger(ppid[cur]) /\ Child("READY")

\* wait_and_continue, and the stop of the child that ends it.  The first
\* context with the debugger's pid as ppid is scheduled, in use or not: a
\* wait after the exit of the child runs its context again.
Kin == {p \in Users : ppid[p] = cur}
do_wait_and_continue ==
  /\ Calls /\ IsDebugger(cur) /\ Kin # {}
  /\ schedule([state EXCEPT ![cur] = "WAITING", ![Min(Kin)] = "READY"], Min(Kin))
  /\ UNCHANGED <<ppid, ticks, gone, halted>>

int3_handler ==
  /\ Calls /\ IsDebugger(ppid[cur])
  /\ schedule([state EXCEPT ![cur] = "WAITING"], ppid[cur])
  /\ UNCHANGED <<ppid, ticks, gone, halted>>

\* The parent of a process that is no debugger is made ready, whatever it
\* waits for and whether or not it has exited.
debugger_on_exit ==
  IF IsDebugger(cur) THEN state ELSE [state EXCEPT ![ppid[cur]] = "READY"]

NobodyLeft(st) == \A p \in Users : st[p] = "UNUSED"

\* A debugger does not exit before its child (assignment text, 5.6); other
\* processes may leave orphans.
ends(st) ==
  /\ Calls
  /\ IsDebugger(cur) => LivesUnder(cur) = {}
  /\ gone' = gone \cup {cur}
  /\ \/ NobodyLeft(st) /\ halted' = TRUE /\ state' = st /\ UNCHANGED cur
     \/ ~NobodyLeft(st) /\ schedule(st, pick_next_context(st, cur)) /\ UNCHANGED halted
  /\ UNCHANGED <<ppid, ticks>>
do_exitReady == ends([debugger_on_exit EXCEPT ![cur] = "READY"])   \* mutant
do_exit == ends([debugger_on_exit EXCEPT ![cur] = "UNUSED"])

Next ==
  \/ handle_timer_tick
  \/ \E n \in 1..MaxTicks : do_sleep(n)
  \/ do_fork \/ do_cfork \/ do_wait_and_continue \/ int3_handler \/ do_exit

\* The timer interrupts whatever runs.
Spec == Init /\ [][Next]_vars /\ WF_vars(handle_timer_tick)

-----------------------------------------------------------------------------
(* Properties.                                                             *)

\* Two contexts never run, and the current one is running, or ready after
\* a tick that found nobody else (schedule, handle_timer_tick).
OneRuns ==
  /\ \A p \in Pids : state[p] = "RUNNING" => p = cur
  /\ ~halted => state[cur] \in {"RUNNING", "READY"}

\* Every ready process gets the processor again, whoever sleeps, forks or
\* exits meanwhile (pick_next_context), unless a debugger and its child hand
\* the processor to each other for ever, past the round robin; and every
\* sleeper wakes (do_sleep_and_alarm_account).
HandsOver == do_wait_and_continue \/ int3_handler
NoStarvation ==
  /\ <>[][~HandsOver]_vars => \A p \in Users : state[p] = "READY" ~> cur = p
  /\ \A p \in Users : Asleep(p) ~> ~Asleep(p)

\* The context of a process that has exited stays free until a fork reuses
\* it, with two exceptions the code makes: an orphan it left behind exits
\* and makes it ready (debug.c:212), or its debugger waits once more
\* (debug.c:438).  The system shuts down exactly when no context is in use
\* (entry.c:63-73).
Reused(p) == p \notin gone'
OrphanExits(p) == ppid[cur] = p /\ ~IsDebugger(cur) /\ state'[cur] = "UNUSED"
WaitedForAgain(p) == ppid[p] = cur /\ IsDebugger(cur) /\ state'[cur] = "WAITING"
ExitedStayGone ==
  /\ [](halted <=> \A p \in Users : state[p] = "UNUSED")
  /\ [][/\ \A p \in gone' \ gone : state'[p] = "UNUSED"
        /\ \A p \in gone : state[p] = "UNUSED" /\ state'[p] # "UNUSED" =>
             Reused(p) \/ OrphanExits(p) \/ WaitedForAgain(p)]_vars
=============================================================================
