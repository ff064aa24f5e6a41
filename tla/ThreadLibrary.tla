---------------------------- MODULE ThreadLibrary ----------------------------
(***************************************************************************)
(* What the thread library of Assignment4 promises to a program: a thread  *)
(* that was created runs until it gives a value or crashes, and a join     *)
(* returns exactly that value, once, and only after the thread gave it.    *)
(***************************************************************************)
CONSTANTS Tids,      \* the names gthread_create hands out
          Values,    \* what a thread may return
          NULL       \* what a join returns for a thread that crashed

VARIABLES thread,    \* for each name: absent, running, or ended with a value
          returned   \* what the last join returned

vars == <<thread, returned>>

Absent == [phase |-> "absent", value |-> NULL]
Running == [phase |-> "running", value |-> NULL]
Ended(v) == [phase |-> "ended", value |-> v]

Init ==
  /\ thread = [t \in Tids |-> Absent]
  /\ returned = NULL

\* A thread comes to life under a name that is not in use.
Create(t) ==
  /\ thread[t] = Absent
  /\ thread' = [thread EXCEPT ![t] = Running]
  /\ UNCHANGED returned

\* The thread gives the value v, or crashes and leaves NULL.
End(t, v) ==
  /\ thread[t] = Running
  /\ thread' = [thread EXCEPT ![t] = Ended(v)]
  /\ UNCHANGED returned

\* The process collects what a thread left.
Join(t) ==
  /\ thread[t].phase = "ended"
  /\ returned' = thread[t].value
  /\ thread' = [thread EXCEPT ![t] = Absent]

\* The process exits, and all its threads with it.
Exit ==
  /\ thread' = [t \in Tids |-> Absent]
  /\ UNCHANGED returned

Next ==
  \/ \E t \in Tids : Create(t) \/ Join(t)
  \/ \E t \in Tids, v \in Values \cup {NULL} : End(t, v)
  \/ Exit

Spec == Init /\ [][Next]_vars
=============================================================================
