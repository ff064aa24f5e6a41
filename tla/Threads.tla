------------------------------- MODULE Threads -------------------------------
(***************************************************************************)
(* A process and its threads: the user library (user/gthread.c) over the   *)
(* system calls clone, make_thread_ready, wait_for_thread, exit, sleep     *)
(* (clone_threads.c, clone_threads_helper.c).                              *)
(*                                                                         *)
(* A system call is one step: interrupts are off in the kernel.  The       *)
(* library runs in user mode and may be preempted anywhere, so each access *)
(* to the table tinfo that another context can observe is a step of its    *)
(* own.  The scheduler may pick any context whose state is READY (which    *)
(* stands for RUNNING as well: the context on the processor is preemptible *)
(* like the others).  Private mappings are left to another module.         *)
(***************************************************************************)
EXTENDS Naturals, FiniteSets

CONSTANTS Process,     \* the context of the process
          Pids,        \* the contexts that threads can get
          MaxThreads,  \* MAX_THREADS
          Stacks,      \* areas mmap can return for a stack
          Values,      \* values a thread can return
          NULL,
          NoPid,       \* the (u8)-1 that join leaves in tinfo
          MaxSleep,    \* bound: ticks of a sleep
          Sleepers     \* contexts whose program calls sleep

ASSUME ContextsAssumption == Process \notin Pids /\ NoPid \notin Pids \cup {Process}
ASSUME SizesAssumption == MaxThreads \in Nat \ {0} /\ MaxSleep \in Nat
ASSUME ValuesAssumption == NULL \notin Values /\ NULL \notin Stacks

VARIABLES
  state,           \* state of every context
  ticks_to_sleep,  \* of every context
  threads,         \* ctx_threads: the kernel's table
  tinfo,           \* the library's table
  num_threads,     \* of tinfo
  mapped,          \* stack areas that are mapped
  parent,          \* where the process is in the library, and its locals
  thread           \* the same for each thread, and its stack pointer

vars == <<state, ticks_to_sleep, threads, tinfo, num_threads, mapped, parent, thread>>

Contexts == {Process} \cup Pids
Slots == 0..(MaxThreads - 1)
CtxStates == {"UNUSED", "READY", "RUNNING", "WAITING", "EXITING"}

\* The contexts that the kernel's table calls used.
Used == {i \in Slots : threads[i].used}

\* What the scans of the tables look for; they stop at the first hit.
Unused == Slots \ Used
OfPid(p) == {i \in Slots : threads[i].pid = p}
Free == {i \in Slots : tinfo[i].status = 0}
Own(p) == {i \in Slots : tinfo[i].pid = p /\ tinfo[i].status # 2}
IsFirst(i, S) == i \in S /\ \A j \in S : i <= j

\* Back in the program, with what the last join returned; the library's locals
\* are gone.
InMain(v) == [pc |-> "main", stack |-> NULL, pid |-> NoPid, idx |-> 0, failed |-> FALSE, retval |-> v]

\* A thread in its function.
InBody(s) == [pc |-> "body", stack |-> s, idx |-> 0, retval |-> NULL]

Init ==
  /\ state = [c \in Contexts |-> IF c = Process THEN "READY" ELSE "UNUSED"]
  /\ ticks_to_sleep = [c \in Contexts |-> 0]
  /\ threads = [i \in Slots |-> [used |-> FALSE, pid |-> NoPid]]
  /\ tinfo = [i \in Slots |-> [pid |-> NoPid, status |-> 0, ret_addr |-> NULL, stack |-> NULL]]
  /\ num_threads = 0
  /\ mapped = {}
  /\ parent = InMain(NULL)
  /\ thread = [p \in Pids |-> InBody(NULL)]

At(label) == parent.pc = label /\ state[Process] = "READY"
ThreadAt(p, label) == thread[p].pc = label /\ state[p] = "READY"

-----------------------------------------------------------------------------
(* gthread_create, run by the process.                                     *)

\* Check the limit and map a stack.
gthread_create ==
  /\ At("main")
  /\ num_threads # MaxThreads
  /\ \E s \in Stacks \ mapped :
       /\ mapped' = mapped \cup {s}
       /\ parent' = [parent EXCEPT !.pc = "clone", !.stack = s]
  /\ UNCHANGED <<state, ticks_to_sleep, threads, tinfo, num_threads, thread>>

\* The system call.  The new context is a copy of the caller's before a slot is
\* looked for: without a slot it keeps the caller's state, and the call fails.
\* The copy includes what is left of a sleep.  (With no context left the code
\* writes through a null pointer: not modelled, see ContextsSuffice.)
do_clone ==
  /\ At("clone")
  /\ \E p \in Pids :
       /\ state[p] = "UNUSED"
       /\ ticks_to_sleep' = [ticks_to_sleep EXCEPT ![p] = ticks_to_sleep[Process]]
       /\ \/ \E i \in Slots :
               /\ IsFirst(i, Unused)
               /\ threads' = [threads EXCEPT ![i] = [used |-> TRUE, pid |-> p]]
               /\ state' = [state EXCEPT ![p] = "WAITING"]
               /\ thread' = [thread EXCEPT ![p] = InBody(parent.stack)]
               /\ parent' = [parent EXCEPT !.pc = "note_pid", !.pid = p]
          \/ /\ Unused = {}
             /\ state' = [state EXCEPT ![p] = "RUNNING"]
             /\ parent' = InMain(parent.retval)
             /\ UNCHANGED <<threads, thread>>
  /\ UNCHANGED <<tinfo, num_threads, mapped>>

\* Look for a free entry of tinfo and write the pid there.
note_pid ==
  /\ At("note_pid")
  /\ \/ \E i \in Slots :
          /\ IsFirst(i, Free)
          /\ tinfo' = [tinfo EXCEPT ![i].pid = parent.pid]
          /\ parent' = [parent EXCEPT !.pc = "note_status", !.idx = i]
     \/ /\ Free = {}
        /\ parent' = InMain(parent.retval)
        /\ UNCHANGED tinfo
  /\ UNCHANGED <<state, ticks_to_sleep, threads, num_threads, mapped, thread>>

note_status ==
  /\ At("note_status")
  /\ tinfo' = [tinfo EXCEPT ![parent.idx].status = 1, ![parent.idx].stack = parent.stack]
  /\ num_threads' = num_threads + 1
  /\ parent' = [parent EXCEPT !.pc = "make_ready"]
  /\ UNCHANGED <<state, ticks_to_sleep, threads, mapped, thread>>

\* The system call; its answer is ignored.
do_make_thread_ready ==
  /\ At("make_ready")
  /\ state' = IF state[parent.pid] \in {"EXITING", "UNUSED"} THEN state
              ELSE [state EXCEPT ![parent.pid] = "READY"]
  /\ parent' = InMain(parent.retval)
  /\ UNCHANGED <<ticks_to_sleep, threads, tinfo, num_threads, mapped, thread>>

-----------------------------------------------------------------------------
(* gthread_join, run by the process for a thread it created and has not    *)
(* joined.                                                                 *)

gthread_join(t) ==
  /\ At("main")
  /\ tinfo[t].status # 0
  /\ parent' = [parent EXCEPT !.pc = "join", !.idx = t, !.failed = FALSE]
  /\ UNCHANGED <<state, ticks_to_sleep, threads, tinfo, num_threads, mapped, thread>>

\* The loop's test.
join_test ==
  /\ At("join")
  /\ parent' = [parent EXCEPT
       !.pc = IF tinfo[parent.idx].status # 2 /\ ~ parent.failed THEN "wait" ELSE "reclaim"]
  /\ UNCHANGED <<state, ticks_to_sleep, threads, tinfo, num_threads, mapped, thread>>

\* The system call: wait until some thread exits, or find the thread dead; the
\* context of a crashed thread is released here.
do_wait_for_threadOnce ==   (* mutant of do_wait_for_thread: any return ends the loop *)
  /\ At("wait")
  /\ LET p == tinfo[parent.idx].pid
         dead == state[p] \in {"UNUSED", "EXITING"}
     IN  state' = IF dead THEN [state EXCEPT ![p] = "UNUSED"]
                  ELSE [state EXCEPT ![Process] = "WAITING"]
  /\ parent' = [parent EXCEPT !.pc = "join", !.failed = TRUE]
  /\ UNCHANGED <<ticks_to_sleep, threads, tinfo, num_threads, mapped, thread>>

do_wait_for_threadUnreaped ==      (* mutant of do_wait_for_thread: EXITING stays *)
  /\ At("wait")
  /\ LET dead == state[tinfo[parent.idx].pid] \in {"UNUSED", "EXITING"}
     IN  /\ state' = IF dead THEN state ELSE [state EXCEPT ![Process] = "WAITING"]
         /\ parent' = [parent EXCEPT !.pc = "join", !.failed = dead]
  /\ UNCHANGED <<ticks_to_sleep, threads, tinfo, num_threads, mapped, thread>>

do_wait_for_thread ==
  /\ At("wait")
  /\ LET p == tinfo[parent.idx].pid
         dead == state[p] \in {"UNUSED", "EXITING"}
     IN  /\ state' = IF dead THEN [state EXCEPT ![p] = "UNUSED"]
                     ELSE [state EXCEPT ![Process] = "WAITING"]
         /\ parent' = [parent EXCEPT !.pc = "join", !.failed = dead]
  /\ UNCHANGED <<ticks_to_sleep, threads, tinfo, num_threads, mapped, thread>>

\* Take the value and clear the entry.
join_reclaimKeepingValue ==        (* mutant of join_reclaim: ret_addr is not reset *)
  /\ At("reclaim")
  /\ parent' = [parent EXCEPT !.pc = "munmap", !.retval = tinfo[parent.idx].ret_addr]
  /\ num_threads' = num_threads - 1
  /\ tinfo' = [tinfo EXCEPT ![parent.idx].status = 0, ![parent.idx].pid = NoPid]
  /\ UNCHANGED <<state, ticks_to_sleep, threads, mapped, thread>>

join_reclaim ==
  /\ At("reclaim")
  /\ parent' = [parent EXCEPT !.pc = "munmap", !.retval = tinfo[parent.idx].ret_addr]
  /\ num_threads' = num_threads - 1
  /\ tinfo' = [tinfo EXCEPT ![parent.idx].status = 0, ![parent.idx].pid = NoPid,
                            ![parent.idx].ret_addr = NULL]
  /\ UNCHANGED <<state, ticks_to_sleep, threads, mapped, thread>>

\* Unmap the stack.  (The code leaves stack_addr in the entry; nothing reads it
\* before the next create writes it, so the model forgets it.)
join_munmap ==
  /\ At("munmap")
  /\ mapped' = mapped \ {tinfo[parent.idx].stack}
  /\ tinfo' = [tinfo EXCEPT ![parent.idx].stack = NULL]
  /\ parent' = InMain(parent.retval)
  /\ UNCHANGED <<state, ticks_to_sleep, threads, num_threads, thread>>

-----------------------------------------------------------------------------
(* The end of a context.                                                   *)

\* The first kernel slot with the pid, used or not.
find_thread_from_pidLast(i, p) ==     (* mutant of find_thread_from_pid: keeps the last *)
  i \in OfPid(p) /\ \A j \in OfPid(p) : j <= i
find_thread_from_pid(i, p) == IsFirst(i, OfPid(p))

\* Whoever exits makes the process ready, whatever it waits for.
WakeParentNever(s) == s                             (* mutant of WakeParent *)
WakeParent(s) == [s EXCEPT ![Process] = "READY"]

\* handle_thread_exit, as do_exit calls it: release the slot and wake the process.
handle_thread_exit(p, normal) ==
  /\ \/ \E i \in Slots :
          /\ find_thread_from_pid(i, p)
          /\ threads' = [threads EXCEPT ![i].used = FALSE]
          /\ state' = WakeParent([state EXCEPT ![p] = IF normal THEN "UNUSED" ELSE "EXITING"])
     \/ /\ OfPid(p) = {}
        /\ state' = [state EXCEPT ![p] = "UNUSED"]
        /\ UNCHANGED threads
  /\ thread' = [thread EXCEPT ![p].stack = NULL, ![p].pc = IF normal THEN "body" ELSE @]
  /\ UNCHANGED <<ticks_to_sleep, tinfo, num_threads, mapped, parent>>

\* The process exits; its threads go with it.
cleanup_all_threads ==
  /\ At("main")
  /\ state' = [c \in Contexts |->
       IF c = Process \/ c \in {threads[i].pid : i \in Used} THEN "UNUSED" ELSE state[c]]
  /\ threads' = [i \in Slots |-> [threads[i] EXCEPT !.used = FALSE]]
  /\ UNCHANGED <<ticks_to_sleep, tinfo, num_threads, mapped, parent, thread>>

-----------------------------------------------------------------------------
(* gthread_exit, run by a thread, also when its function returns.          *)

\* Find the thread's own entry: the first with its pid that has not ended.
gthread_exit(p, v) ==
  /\ ThreadAt(p, "body")
  /\ \/ \E i \in Slots :
          /\ IsFirst(i, Own(p))
          /\ thread' = [thread EXCEPT ![p].pc = "store_value", ![p].idx = i, ![p].retval = v]
     \/ /\ Own(p) = {}
        /\ thread' = [thread EXCEPT ![p].pc = "exit", ![p].retval = v]
  /\ UNCHANGED <<state, ticks_to_sleep, threads, tinfo, num_threads, mapped, parent>>

store_value(p) ==
  /\ ThreadAt(p, "store_value")
  /\ tinfo' = [tinfo EXCEPT ![thread[p].idx].ret_addr = thread[p].retval]
  /\ thread' = [thread EXCEPT ![p].pc = "store_status"]
  /\ UNCHANGED <<state, ticks_to_sleep, threads, num_threads, mapped, parent>>

store_statusCounting(p) ==  (* mutant of store_status: the thread counts itself out *)
  /\ ThreadAt(p, "store_status")
  /\ tinfo' = [tinfo EXCEPT ![thread[p].idx].status = 2]
  /\ thread' = [thread EXCEPT ![p].pc = "exit", ![p].idx = 0, ![p].retval = NULL]
  /\ num_threads' = num_threads - 1
  /\ UNCHANGED <<state, ticks_to_sleep, threads, mapped, parent>>

store_status(p) ==
  /\ ThreadAt(p, "store_status")
  /\ tinfo' = [tinfo EXCEPT ![thread[p].idx].status = 2]
  /\ thread' = [thread EXCEPT ![p].pc = "exit", ![p].idx = 0, ![p].retval = NULL]
  /\ UNCHANGED <<state, ticks_to_sleep, threads, num_threads, mapped, parent>>

\* exit(0).  A preempted thread may come back to an unmapped stack: then the
\* call faults, unless only the trap instruction was left.
thread_exit(p) ==
  /\ ThreadAt(p, "exit")
  /\ \/ handle_thread_exit(p, TRUE)
     \/ thread[p].stack \notin mapped /\ handle_thread_exit(p, FALSE)

\* The thread's function makes an illegal access.
segfault_exit(p) == ThreadAt(p, "body") /\ handle_thread_exit(p, FALSE)

-----------------------------------------------------------------------------
(* Sleep.                                                                  *)

do_sleep(c) ==
  /\ c \in Sleepers
  /\ IF c = Process THEN At("main") ELSE ThreadAt(c, "body")
  /\ \E n \in 1..MaxSleep : ticks_to_sleep' = [ticks_to_sleep EXCEPT ![c] = n]
  /\ state' = [state EXCEPT ![c] = "WAITING"]
  /\ UNCHANGED <<threads, tinfo, num_threads, mapped, parent, thread>>

\* The timer: every waiting context with ticks left.
Sleeping == {c \in Contexts : state[c] = "WAITING" /\ ticks_to_sleep[c] # 0}

do_sleep_account ==
  /\ Sleeping # {}
  /\ ticks_to_sleep' = [c \in Contexts |->
       IF c \in Sleeping THEN ticks_to_sleep[c] - 1 ELSE ticks_to_sleep[c]]
  /\ state' = [c \in Contexts |->
       IF c \in Sleeping /\ ticks_to_sleep[c] = 1 THEN "READY" ELSE state[c]]
  /\ UNCHANGED <<threads, tinfo, num_threads, mapped, parent, thread>>

-----------------------------------------------------------------------------
InLibrary ==
  \/ do_clone \/ note_pid \/ note_status \/ do_make_thread_ready
  \/ join_test \/ do_wait_for_thread \/ join_reclaim \/ join_munmap

InExit(p) == store_value(p) \/ store_status(p) \/ thread_exit(p)

Next ==
  \/ gthread_create \/ InLibrary \/ cleanup_all_threads \/ do_sleep_account
  \/ \E t \in Slots : gthread_join(t)
  \/ \E p \in Pids : InExit(p) \/ segfault_exit(p)
  \/ \E p \in Pids, v \in Values : gthread_exit(p, v)
  \/ \E c \in Contexts : do_sleep(c)

Spec == Init /\ [][Next]_vars

(***************************************************************************)
(* Fairness: the round-robin scheduler runs every ready context again, and *)
(* the timer ticks; and the functions the program gives to its threads end *)
(* (they may sleep on the way, hence the strong form).                     *)
(***************************************************************************)
Fairness ==
  /\ WF_vars(InLibrary) /\ WF_vars(do_sleep_account)
  /\ \A p \in Pids : WF_vars(InExit(p)) /\ SF_vars(\E v \in Values : gthread_exit(p, v))

FairSpec == Spec /\ Fairness
-----------------------------------------------------------------------------
(* Properties.                                                             *)

KernelSlot == [used : BOOLEAN, pid : Pids \cup {NoPid}]
Entry == [pid : Pids \cup {NoPid}, status : 0..2,
          ret_addr : Values \cup {NULL}, stack : Stacks \cup {NULL}]
ParentLocals == [pc : {"main", "clone", "note_pid", "note_status", "make_ready",
                       "join", "wait", "reclaim", "munmap"},
                 stack : Stacks \cup {NULL}, pid : Pids \cup {NoPid}, idx : Slots,
                 failed : BOOLEAN, retval : Values \cup {NULL}]
ThreadLocals == [pc : {"body", "store_value", "store_status", "exit"},
                 stack : Stacks \cup {NULL}, idx : Slots, retval : Values \cup {NULL}]

TypeOK ==
  /\ state \in [Contexts -> CtxStates]
  /\ ticks_to_sleep \in [Contexts -> 0..MaxSleep]
  /\ threads \in [Slots -> KernelSlot]
  /\ tinfo \in [Slots -> Entry]
  /\ num_threads \in 0..MaxThreads
  /\ mapped \in SUBSET Stacks
  /\ parent \in ParentLocals
  /\ thread \in [Pids -> ThreadLocals]

Alive(p) == state[p] \in {"READY", "WAITING"}
Creating(p) == parent.pc \in {"note_pid", "note_status"} /\ parent.pid = p
Entries(p) == {t \in Slots : tinfo[t].pid = p /\ tinfo[t].status = 1}

\* The kernel's table has a used slot for exactly the threads that live, also
\* when the process has exited, and the lookup by pid, which ignores whether a
\* slot is used, finds that slot and not a stale one (find_thread_from_pid).
KernelKnowsThreads ==
  /\ \A i \in Used : IsFirst(i, OfPid(threads[i].pid))
  /\ {threads[i].pid : i \in Used} = {p \in Pids : Alive(p)}

\* A thread whose function has not ended, or crashed and was not joined, has one
\* entry in the library's table, so it can be joined; while it lives, its stack
\* is mapped and is nobody else's (gthread_create, gthread_join).
LibraryKnowsThreads ==
  state[Process] # "UNUSED" =>
    \A p \in Pids : thread[p].pc = "body" /\ (Alive(p) \/ state[p] = "EXITING") /\ ~ Creating(p) =>
      /\ Cardinality(Entries(p)) = 1
      /\ Alive(p) =>
           /\ thread[p].stack \in mapped
           /\ \A t \in Entries(p) : tinfo[t].stack = thread[p].stack
           /\ \A q \in Pids \ {p} : Alive(q) /\ thread[q].pc # "exit" =>
                thread[q].stack # thread[p].stack

\* A context that outlived its entry: its thread was joined between the store
\* of its status and its exit, or clone failed after copying it.
Overtaken(p) ==
  /\ state[p] # "UNUSED"
  /\ thread[p].pc = "exit" \/ state[p] = "RUNNING"

\* clone finds a context, unless joins overtook exits (get_new_ctx in do_clone).
ContextsSuffice ==
  parent.pc = "clone" => \E p \in Pids : state[p] = "UNUSED" \/ Overtaken(p)

\* What a join of the entry would return, and whether it would wait.
InUse(t) == state[Process] # "UNUSED" /\ tinfo[t].status # 0
Works(t) == tinfo[t].status = 1 /\ Alive(tinfo[t].pid) /\ thread[tinfo[t].pid].pc = "body"
Left(t) == IF tinfo[t].status = 2 THEN tinfo[t].ret_addr
           ELSE IF Alive(tinfo[t].pid) THEN thread[tinfo[t].pid].retval ELSE NULL

Outcome(t) ==
  IF ~ InUse(t) THEN [phase |-> "absent", value |-> NULL]
  ELSE IF Works(t) THEN [phase |-> "running", value |-> NULL]
  ELSE [phase |-> "ended", value |-> Left(t)]
Outcomes == [t \in Slots |-> Outcome(t)]

Library == INSTANCE ThreadLibrary WITH
  Tids <- Slots, returned <- parent.retval, thread <- Outcomes

\* A join returns what its thread returned, once, whatever contexts and table
\* entries are reused in between (gthread_exit, gthread_join).
KeepsLibraryPromise == Library!Spec

\* A join returns (the loop of gthread_join, do_wait_for_thread and the wake-up
\* in handle_thread_exit).
JoinReturns == (parent.pc = "join") ~> (parent.pc = "main")

\* "It should return the value returned by the thread either through the
\* invocation of gthread_exit() or return from the thread function" (4.3): a
\* join that finds no value found a thread that never gave one.
NoValueLost ==
  parent.pc = "reclaim" /\ tinfo[parent.idx].status # 2 =>
    thread[tinfo[parent.idx].pid].retval = NULL
=============================================================================
