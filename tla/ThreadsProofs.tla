---------------------------- MODULE ThreadsProofs ----------------------------
(***************************************************************************)
(* Proofs about Threads for any number of contexts, slots and stacks: the  *)
(* kernel's table and the count of the library's, with or without a        *)
(* process that sleeps; then, without one, the library's table, the        *)
(* stacks, and that the library keeps its promise (ThreadLibrary).         *)
(***************************************************************************)
EXTENDS Threads, FiniteSetTheorems, TLAPS

InCreate == parent.pc \in {"note_pid", "note_status", "make_ready"}
InJoin == parent.pc \in {"join", "wait", "reclaim"}
Joined == tinfo[parent.idx]

\* What the process relies on between its steps.
ParentInv ==
  /\ parent.pc \in {"clone", "note_pid", "note_status"} => num_threads < MaxThreads
  /\ InCreate => parent.pid \in Pids /\ state[parent.pid] # "RUNNING"
  /\ InJoin => Joined.status # 0
  /\ InJoin /\ parent.failed /\ Joined.pid \in Pids => ~ Alive(Joined.pid)
  /\ parent.pc = "reclaim" => parent.failed \/ Joined.status = 2

\* An entry with status 0 names nobody, unless it is being filled.
BeingFilled(t) == parent.pc = "note_status" /\ parent.idx = t
EntriesInv == \A t \in Slots : tinfo[t].status = 0 => tinfo[t].pid = NoPid \/ BeingFilled(t)

\* A thread on its way out writes to an entry that is its own.
Storing(p) == Alive(p) /\ thread[p].pc \in {"store_value", "store_status"}
StoringInv ==
  \A p \in Pids : Storing(p) => tinfo[thread[p].idx].pid = p /\ tinfo[thread[p].idx].status # 2

\* num_threads counts the entries in use.  A thread started too early may end
\* while its entry is being filled, which is not counted yet.
Counted == {t \in Slots : tinfo[t].status # 0 /\ ~ BeingFilled(t)}
CountInv == num_threads = Cardinality(Counted)

IInv == TypeOK /\ KernelKnowsThreads /\ ParentInv /\ EntriesInv /\ StoringInv /\ CountInv

-----------------------------------------------------------------------------
LEMMA SlotsFinite == IsFiniteSet(Slots)
  BY SizesAssumption, FS_Interval DEF Slots

LEMMA CountedFinite == IsFiniteSet(Counted) /\ Cardinality(Counted) \in Nat
  BY SlotsFinite, FS_Subset, FS_CardinalityType DEF Counted

LEMMA ContextFacts ==
  /\ \A p \in Pids : p \in Contexts /\ p # Process /\ p # NoPid
  /\ Process \in Contexts
  /\ 0 \in Slots /\ Slots \subseteq Nat
  BY ContextsAssumption, SizesAssumption DEF Contexts, Slots

\* KernelKnowsThreads, slot by slot and thread by thread.
Living == {"READY", "WAITING"}
Known ==
  /\ \A i \in Slots : threads[i].used =>
       /\ threads[i].pid \in Pids /\ state[threads[i].pid] \in Living
       /\ \A j \in Slots : threads[j].pid = threads[i].pid => i <= j
  /\ \A q \in Pids : state[q] \in Living => \E i \in Slots : threads[i].used /\ threads[i].pid = q

LEMMA KnownIsKnowing ==
  /\ KernelKnowsThreads <=> Known
  /\ KernelKnowsThreads' <=> Known'
  BY DEF KernelKnowsThreads, Known, Living, Alive, Used, OfPid, IsFirst

\* Kernel table untouched, and nobody born or dead.
SameLiving == \A q \in Pids : state'[q] \in Living <=> state[q] \in Living

LEMMA KnowingKept ==
  ASSUME KernelKnowsThreads, threads' = threads, SameLiving
  PROVE  KernelKnowsThreads'
  BY KnownIsKnowing DEF Known, SameLiving

LEMMA InitIInv == Init => IInv
<1> SUFFICES ASSUME Init PROVE IInv
  OBVIOUS
<1>1. TypeOK
  <2>1. /\ state \in [Contexts -> CtxStates] /\ ticks_to_sleep \in [Contexts -> 0..MaxSleep]
        /\ mapped \in SUBSET Stacks /\ num_threads \in 0..MaxThreads
    BY SizesAssumption DEF Init, CtxStates
  <2>2. threads \in [Slots -> KernelSlot] /\ tinfo \in [Slots -> Entry]
    BY DEF Init, KernelSlot, Entry
  <2>3. parent \in ParentLocals /\ thread \in [Pids -> ThreadLocals]
    BY ContextFacts DEF Init, ParentLocals, ThreadLocals, InMain, InBody
  <2> QED
    BY <2>1, <2>2, <2>3 DEF TypeOK
<1>2. KernelKnowsThreads
  BY ContextFacts DEF Init, KernelKnowsThreads, Used, Alive
<1>3. ParentInv
  BY DEF Init, ParentInv, InCreate, InJoin, InMain
<1>4. EntriesInv /\ StoringInv
  BY DEF Init, EntriesInv, StoringInv, Storing, InBody
<1>5. CountInv
  <2>1. Counted = {}
    BY DEF Init, Counted
  <2> QED
    BY <2>1, FS_EmptySet DEF Init, CountInv
<1> QED
  BY <1>1, <1>2, <1>3, <1>4, <1>5 DEF IInv

-----------------------------------------------------------------------------
(* Steps of the process in gthread_create.                                 *)

LEMMA CreateKeeps ==
  ASSUME IInv, gthread_create
  PROVE  IInv'
<1> USE DEF IInv
<1>1. TypeOK'
  <2>1. PICK s \in Stacks : /\ mapped' = mapped \cup {s}
                            /\ parent' = [parent EXCEPT !.pc = "clone", !.stack = s]
    BY DEF gthread_create
  <2>2. parent' \in ParentLocals /\ mapped' \in SUBSET Stacks
    BY <2>1 DEF TypeOK, ParentLocals
  <2> QED
    BY <2>2 DEF gthread_create, TypeOK
<1>2. parent'.pc = "clone" /\ parent.pc = "main"
  BY DEF gthread_create, TypeOK, ParentLocals, At
<1>3. KernelKnowsThreads'
  BY DEF gthread_create, KernelKnowsThreads, IsFirst, OfPid, Used, Alive
<1>4. ParentInv'
  BY <1>2, SizesAssumption DEF gthread_create, ParentInv, InCreate, InJoin, TypeOK
<1>5. EntriesInv' /\ StoringInv'
  BY <1>2 DEF gthread_create, EntriesInv, BeingFilled, StoringInv, Storing, Alive
<1>6. CountInv'
  BY <1>2 DEF gthread_create, CountInv, Counted, BeingFilled
<1> QED
  BY <1>1, <1>3, <1>4, <1>5, <1>6

LEMMA CloneKeeps ==
  ASSUME IInv, do_clone
  PROVE  IInv'
<1> USE DEF IInv
<1>1. PICK p \in Pids :
       /\ state[p] = "UNUSED"
       /\ ticks_to_sleep' = [ticks_to_sleep EXCEPT ![p] = ticks_to_sleep[Process]]
       /\ \/ \E i \in Slots :
               /\ IsFirst(i, Unused)
               /\ threads' = [threads EXCEPT ![i] = [used |-> TRUE, pid |-> p]]
               /\ state' = [state EXCEPT ![p] = "WAITING"]
               /\ thread' = [thread EXCEPT ![p] = InBody(parent.stack)]
               /\ parent' = [parent EXCEPT !.pc = "note_pid", !.pid = p]
          \/ /\ Unused = {}
             /\ state' = [state EXCEPT ![p] = "RUNNING"]
             /\ parent' = InMain(parent.retval)
             /\ UNCHANGED <<threads, thread>>
  BY DEF do_clone
<1>2. /\ parent.pc = "clone" /\ tinfo' = tinfo /\ num_threads' = num_threads
      /\ mapped' = mapped
  BY DEF do_clone, At
<1>3. ticks_to_sleep' \in [Contexts -> 0..MaxSleep]
  BY <1>1, ContextFacts DEF TypeOK
<1>a. CASE \E i \in Slots :
               /\ IsFirst(i, Unused)
               /\ threads' = [threads EXCEPT ![i] = [used |-> TRUE, pid |-> p]]
               /\ state' = [state EXCEPT ![p] = "WAITING"]
               /\ thread' = [thread EXCEPT ![p] = InBody(parent.stack)]
               /\ parent' = [parent EXCEPT !.pc = "note_pid", !.pid = p]
  <2>1. PICK i \in Slots :
               /\ IsFirst(i, Unused)
               /\ threads' = [threads EXCEPT ![i] = [used |-> TRUE, pid |-> p]]
               /\ state' = [state EXCEPT ![p] = "WAITING"]
               /\ thread' = [thread EXCEPT ![p] = InBody(parent.stack)]
               /\ parent' = [parent EXCEPT !.pc = "note_pid", !.pid = p]
    BY <1>a
  <2>2. TypeOK'
    <3>1. state' \in [Contexts -> CtxStates]
      BY <2>1 DEF TypeOK, CtxStates
    <3>2. threads' \in [Slots -> KernelSlot]
      BY <2>1 DEF TypeOK, KernelSlot
    <3>3. InBody(parent.stack) \in ThreadLocals
      BY ContextFacts DEF TypeOK, ParentLocals, InBody, ThreadLocals
    <3>4. thread' \in [Pids -> ThreadLocals]
      BY <2>1, <3>3 DEF TypeOK
    <3>5. parent' \in ParentLocals
      BY <2>1 DEF TypeOK, ParentLocals
    <3> QED
      BY <3>1, <3>2, <3>4, <3>5, <1>2, <1>3 DEF TypeOK
  <2>3. \A q \in Pids : Alive(q)' <=> Alive(q) \/ q = p
    BY <2>1, ContextFacts DEF Alive, TypeOK
  <2>4. ~ Alive(p)
    BY <1>1 DEF Alive
  <2>5. parent'.pc = "note_pid" /\ parent'.pid = p
    BY <2>1 DEF TypeOK, ParentLocals
  <2>6. \A j \in Slots : /\ threads'[j].used = (threads[j].used \/ j = i)
                         /\ threads'[j].pid = IF j = i THEN p ELSE threads[j].pid
    BY <2>1 DEF TypeOK, KernelSlot
  <2>7. KernelKnowsThreads'
    <3>0. \A q \in Pids : state'[q] \in Living <=> state[q] \in Living \/ q = p
      BY <2>1, ContextFacts DEF Living, TypeOK
    <3>1. ~ threads[i].used /\ \A j \in Slots : j < i => threads[j].used
      BY <2>1, ContextFacts DEF IsFirst, Unused, Used
    <3>2. Known
      BY KnownIsKnowing
    <3>3. \A j \in Slots : threads[j].used => threads[j].pid # p
      BY <3>2, <2>4 DEF Known, Living, Alive
    <3>4. ASSUME NEW k \in Slots, threads'[k].used
          PROVE  /\ threads'[k].pid \in Pids /\ state'[threads'[k].pid] \in Living
                 /\ \A j \in Slots : threads'[j].pid = threads'[k].pid => k <= j
      <4>1. CASE k = i
        <5>1. threads'[k].pid = p
          BY <4>1, <2>6
        <5>2. \A j \in Slots : threads'[j].pid = p => i <= j
          BY <3>1, <3>3, <2>6, ContextFacts
        <5> QED
          BY <5>1, <5>2, <4>1, <3>0
      <4>2. CASE k # i
        <5>1. threads[k].used /\ threads'[k].pid = threads[k].pid
          BY <4>2, <3>4, <2>6
        <5>2. threads[k].pid # p
          BY <5>1, <3>3
        <5>3. /\ threads[k].pid \in Pids /\ state[threads[k].pid] \in Living
              /\ \A j \in Slots : threads[j].pid = threads[k].pid => k <= j
          BY <5>1, <3>2 DEF Known
        <5> QED
          BY <5>1, <5>2, <5>3, <3>0, <2>6
      <4> QED
        BY <4>1, <4>2
    <3>5. ASSUME NEW q \in Pids, state'[q] \in Living
          PROVE  \E k \in Slots : threads'[k].used /\ threads'[k].pid = q
      <4>1. CASE q = p
        BY <4>1, <2>6
      <4>2. CASE q # p
        <5>1. PICK k \in Slots : threads[k].used /\ threads[k].pid = q
          BY <4>2, <3>5, <3>0, <3>2 DEF Known
        <5> QED
          BY <5>1, <2>6, <3>1
      <4> QED
        BY <4>1, <4>2
    <3> QED
      BY <3>4, <3>5, KnownIsKnowing DEF Known
  <2>8. ParentInv'
    BY <2>5, <2>1, <1>2, ContextFacts DEF ParentInv, InCreate, InJoin, TypeOK
  <2>9. EntriesInv'
    BY <1>2, <2>5 DEF EntriesInv, BeingFilled
  <2>10. StoringInv'
    <3>1. thread'[p].pc = "body" /\ \A q \in Pids \ {p} : thread'[q] = thread[q]
      BY <2>1 DEF TypeOK, InBody
    <3> QED
      BY <3>1, <2>3, <1>2 DEF StoringInv, Storing
  <2>11. CountInv'
    BY <1>2, <2>5 DEF CountInv, Counted, BeingFilled
  <2> QED
    BY <2>2, <2>7, <2>8, <2>9, <2>10, <2>11
<1>b. CASE /\ Unused = {}
           /\ state' = [state EXCEPT ![p] = "RUNNING"]
           /\ parent' = InMain(parent.retval)
           /\ UNCHANGED <<threads, thread>>
  <2>1. TypeOK'
    <3>1. state' \in [Contexts -> CtxStates]
      BY <1>b DEF TypeOK, CtxStates
    <3>2. parent' \in ParentLocals
      BY <1>b, ContextFacts DEF TypeOK, ParentLocals, InMain
    <3> QED
      BY <3>1, <3>2, <1>2, <1>3, <1>b DEF TypeOK
  <2>2. \A q \in Pids : Alive(q)' <=> Alive(q)
    BY <1>b, <1>1, ContextFacts DEF Alive, TypeOK
  <2>3. parent'.pc = "main"
    BY <1>b DEF InMain
  <2>4. KernelKnowsThreads'
    BY <1>b, <2>2 DEF KernelKnowsThreads, IsFirst, OfPid, Used
  <2>5. ParentInv' /\ EntriesInv'
    BY <2>3, <1>2 DEF ParentInv, InCreate, InJoin, EntriesInv, BeingFilled
  <2>6. StoringInv'
    BY <2>2, <1>2, <1>b DEF StoringInv, Storing
  <2>7. CountInv'
    BY <1>2, <2>3 DEF CountInv, Counted, BeingFilled
  <2> QED
    BY <2>1, <2>4, <2>5, <2>6, <2>7
<1> QED
  BY <1>1, <1>a, <1>b

LEMMA NotePidKeeps ==
  ASSUME IInv, note_pid
  PROVE  IInv'
<1> USE DEF IInv
<1>1. /\ parent.pc = "note_pid" /\ threads' = threads /\ state' = state
      /\ num_threads' = num_threads /\ mapped' = mapped /\ thread' = thread
      /\ ticks_to_sleep' = ticks_to_sleep
  BY DEF note_pid, At
<1>2. KernelKnowsThreads'
  BY <1>1, KnowingKept DEF SameLiving
<1>a. CASE \E i \in Slots :
             /\ IsFirst(i, Free)
             /\ tinfo' = [tinfo EXCEPT ![i].pid = parent.pid]
             /\ parent' = [parent EXCEPT !.pc = "note_status", !.idx = i]
  <2>1. PICK i \in Slots :
             /\ IsFirst(i, Free)
             /\ tinfo' = [tinfo EXCEPT ![i].pid = parent.pid]
             /\ parent' = [parent EXCEPT !.pc = "note_status", !.idx = i]
    BY <1>a
  <2>2. tinfo[i].status = 0
    BY <2>1 DEF IsFirst, Free
  <2>3. parent' \in ParentLocals
    BY <2>1 DEF TypeOK, ParentLocals
  <2>4. tinfo' \in [Slots -> Entry]
    BY <2>1 DEF TypeOK, ParentLocals, Entry
  <2>5. parent'.pc = "note_status" /\ parent'.idx = i /\ parent'.pid = parent.pid
    BY <2>1 DEF TypeOK, ParentLocals
  <2>6. \A t \in Slots : /\ tinfo'[t].status = tinfo[t].status
                         /\ t # i => tinfo'[t] = tinfo[t]
    BY <2>1 DEF TypeOK, Entry
  <2>7. ParentInv'
    BY <1>1, <2>5 DEF ParentInv, InCreate, InJoin
  <2>8. EntriesInv'
    BY <1>1, <2>5, <2>6 DEF EntriesInv, BeingFilled
  <2>9. StoringInv'
    <3>1. ASSUME NEW p \in Pids, Storing(p)
          PROVE  thread[p].idx \in Slots /\ thread[p].idx # i
      <4>1. tinfo[thread[p].idx].pid = p /\ thread[p].idx \in Slots
        BY <3>1 DEF StoringInv, TypeOK, ThreadLocals
      <4>2. tinfo[i].pid = NoPid
        BY <2>2, <1>1 DEF EntriesInv, BeingFilled
      <4> QED
        BY <4>1, <4>2, ContextFacts
    <3>2. \A p \in Pids : Storing(p)' <=> Storing(p)
      BY <1>1 DEF Storing, Alive
    <3> QED
      BY <3>1, <3>2, <2>6, <1>1 DEF StoringInv
  <2>10. CountInv'
    <3>1. Counted' = Counted
      BY <1>1, <2>2, <2>5, <2>6 DEF Counted, BeingFilled
    <3> QED
      BY <3>1, <1>1 DEF CountInv
  <2> QED
    BY <1>1, <1>2, <2>3, <2>4, <2>7, <2>8, <2>9, <2>10 DEF TypeOK
<1>b. CASE /\ Free = {}
           /\ parent' = InMain(parent.retval)
           /\ UNCHANGED tinfo
  <2>1. parent' \in ParentLocals /\ parent'.pc = "main"
    BY <1>b, ContextFacts DEF TypeOK, ParentLocals, InMain
  <2>2. ParentInv' /\ EntriesInv' /\ CountInv'
    BY <1>1, <1>b, <2>1
    DEF ParentInv, InCreate, InJoin, EntriesInv, BeingFilled, CountInv, Counted
  <2>3. StoringInv'
    BY <1>1, <1>b DEF StoringInv, Storing, Alive
  <2> QED
    BY <1>1, <1>2, <1>b, <2>1, <2>2, <2>3 DEF TypeOK
<1> QED
  BY <1>a, <1>b DEF note_pid

LEMMA NoteStatusKeeps ==
  ASSUME IInv, note_status
  PROVE  IInv'
<1> USE DEF IInv
<1> DEFINE i == parent.idx
<1>1. /\ parent.pc = "note_status" /\ threads' = threads /\ state' = state
      /\ num_threads' = num_threads + 1 /\ mapped' = mapped /\ thread' = thread
      /\ ticks_to_sleep' = ticks_to_sleep
      /\ tinfo' = [tinfo EXCEPT ![i].status = 1, ![i].stack = parent.stack]
      /\ parent' = [parent EXCEPT !.pc = "make_ready"]
  BY DEF note_status, At
<1>2. KernelKnowsThreads'
  BY <1>1, KnowingKept DEF SameLiving
<1>3. i \in Slots /\ parent.stack \in Stacks \cup {NULL}
  BY DEF TypeOK, ParentLocals
<1>4. /\ tinfo' \in [Slots -> Entry]
      /\ tinfo'[i].status = 1
      /\ \A t \in Slots : tinfo'[t].pid = tinfo[t].pid /\ (t # i => tinfo'[t] = tinfo[t])
  BY <1>1, <1>3 DEF TypeOK, Entry
<1>5. parent' \in ParentLocals /\ parent'.pc = "make_ready" /\ parent'.pid = parent.pid
  BY <1>1 DEF TypeOK, ParentLocals
<1>6. num_threads' \in 0..MaxThreads
  BY <1>1, SizesAssumption DEF TypeOK, ParentInv
<1>7. TypeOK'
  BY <1>1, <1>4, <1>5, <1>6 DEF TypeOK
<1>8. ParentInv'
  BY <1>1, <1>5 DEF ParentInv, InCreate, InJoin
<1>9. EntriesInv'
  BY <1>1, <1>4 DEF EntriesInv, BeingFilled
<1>10. StoringInv'
  <2>1. \A p \in Pids : Storing(p)' <=> Storing(p)
    BY <1>1 DEF Storing, Alive
  <2>2. \A p \in Pids : thread[p].idx \in Slots
    BY DEF TypeOK, ThreadLocals
  <2> QED
    BY <2>1, <2>2, <1>1, <1>3, <1>4 DEF StoringInv
<1>11. CountInv'
  <2>1. Counted' = Counted \cup {i}
    BY <1>1, <1>3, <1>4, <1>5 DEF Counted, BeingFilled
  <2>2. i \notin Counted
    BY <1>1 DEF Counted, BeingFilled
  <2>3. Cardinality(Counted') = Cardinality(Counted) + 1
    BY <2>1, <2>2, CountedFinite, FS_AddElement
  <2> QED
    BY <2>3, <1>1 DEF CountInv
<1> QED
  BY <1>2, <1>7, <1>8, <1>9, <1>10, <1>11

LEMMA MakeReadyKeeps ==
  ASSUME IInv, do_make_thread_ready
  PROVE  IInv'
<1> USE DEF IInv
<1> DEFINE p == parent.pid
<1>1. /\ parent.pc = "make_ready" /\ threads' = threads /\ tinfo' = tinfo
      /\ num_threads' = num_threads /\ mapped' = mapped /\ thread' = thread
      /\ ticks_to_sleep' = ticks_to_sleep /\ parent' = InMain(parent.retval)
      /\ state' = IF state[p] \in {"EXITING", "UNUSED"} THEN state
                  ELSE [state EXCEPT ![p] = "READY"]
  BY DEF do_make_thread_ready, At
<1>2. p \in Pids /\ state[p] # "RUNNING"
  BY <1>1 DEF ParentInv, InCreate
<1>3. state' \in [Contexts -> CtxStates]
  BY <1>1 DEF TypeOK, CtxStates
<1>4. SameLiving
  BY <1>1, <1>2, ContextFacts DEF SameLiving, Living, TypeOK, CtxStates
<1>5. parent' \in ParentLocals /\ parent'.pc = "main"
  BY <1>1, ContextFacts DEF TypeOK, ParentLocals, InMain
<1>6. ParentInv' /\ EntriesInv' /\ CountInv'
  BY <1>1, <1>5 DEF ParentInv, InCreate, InJoin, EntriesInv, BeingFilled, CountInv, Counted
<1>7. StoringInv'
  BY <1>1, <1>4 DEF StoringInv, Storing, Alive, SameLiving, Living
<1>8. TypeOK'
  BY <1>1, <1>3, <1>5 DEF TypeOK
<1> QED
  BY <1>1, <1>4, <1>6, <1>7, <1>8, KnowingKept

-----------------------------------------------------------------------------
(* Steps of the process in gthread_join.                                   *)

LEMMA JoinKeeps ==
  ASSUME IInv, NEW t \in Slots, gthread_join(t)
  PROVE  IInv'
<1> USE DEF IInv
<1>1. /\ parent.pc = "main" /\ tinfo[t].status # 0
      /\ parent' = [parent EXCEPT !.pc = "join", !.idx = t, !.failed = FALSE]
      /\ UNCHANGED <<state, ticks_to_sleep, threads, tinfo, num_threads, mapped, thread>>
  BY DEF gthread_join, At
<1>2. /\ parent' \in ParentLocals /\ parent'.pc = "join" /\ parent'.idx = t
      /\ parent'.failed = FALSE
  BY <1>1 DEF TypeOK, ParentLocals
<1>3. TypeOK' /\ KernelKnowsThreads'
  BY <1>1, <1>2, KnowingKept DEF TypeOK, SameLiving
<1>4. ParentInv'
  BY <1>1, <1>2 DEF ParentInv, InCreate, InJoin, Joined
<1>5. EntriesInv' /\ CountInv'
  BY <1>1, <1>2 DEF EntriesInv, BeingFilled, CountInv, Counted
<1>6. StoringInv'
  BY <1>1 DEF StoringInv, Storing, Alive
<1> QED
  BY <1>3, <1>4, <1>5, <1>6

LEMMA JoinTestKeeps ==
  ASSUME IInv, join_test
  PROVE  IInv'
<1> USE DEF IInv
<1>1. /\ parent.pc = "join"
      /\ parent' = [parent EXCEPT
           !.pc = IF tinfo[parent.idx].status # 2 /\ ~ parent.failed THEN "wait" ELSE "reclaim"]
      /\ UNCHANGED <<state, ticks_to_sleep, threads, tinfo, num_threads, mapped, thread>>
  BY DEF join_test, At
<1>2. /\ parent' \in ParentLocals
      /\ parent'.pc \in {"wait", "reclaim"} /\ parent'.idx = parent.idx
      /\ parent'.failed = parent.failed
      /\ parent'.pc = "reclaim" => parent.failed \/ tinfo[parent.idx].status = 2
  BY <1>1 DEF TypeOK, ParentLocals
<1>3. TypeOK' /\ KernelKnowsThreads'
  BY <1>1, <1>2, KnowingKept DEF TypeOK, SameLiving
<1>4. ParentInv'
  BY <1>1, <1>2 DEF ParentInv, InCreate, InJoin, Joined, Alive
<1>5. EntriesInv' /\ CountInv'
  BY <1>1, <1>2 DEF EntriesInv, BeingFilled, CountInv, Counted
<1>6. StoringInv'
  BY <1>1 DEF StoringInv, Storing, Alive
<1> QED
  BY <1>3, <1>4, <1>5, <1>6

LEMMA WaitKeeps ==
  ASSUME IInv, do_wait_for_thread
  PROVE  IInv'
<1> USE DEF IInv
<1> DEFINE p == tinfo[parent.idx].pid
           dead == state[p] \in {"UNUSED", "EXITING"}
<1>1. /\ parent.pc = "wait" /\ state[Process] = "READY"
      /\ state' = IF dead THEN [state EXCEPT ![p] = "UNUSED"]
                  ELSE [state EXCEPT ![Process] = "WAITING"]
      /\ parent' = [parent EXCEPT !.pc = "join", !.failed = dead]
      /\ UNCHANGED <<ticks_to_sleep, threads, tinfo, num_threads, mapped, thread>>
  BY DEF do_wait_for_thread, At
<1>2. p \in Pids \cup {NoPid}
  BY DEF TypeOK, ParentLocals, Entry
<1>3. /\ parent' \in ParentLocals /\ parent'.pc = "join" /\ parent'.idx = parent.idx
      /\ parent'.failed => dead
  <2>1. CASE dead
    <3>1. parent' = [parent EXCEPT !.pc = "join", !.failed = TRUE]
      BY <2>1, <1>1
    <3> QED
      BY <3>1, <2>1 DEF TypeOK, ParentLocals
  <2>2. CASE ~ dead
    <3>0. dead = FALSE
      BY <2>2
    <3>1. parent' = [parent EXCEPT !.pc = "join", !.failed = FALSE]
      BY <3>0, <1>1, Zenon
    <3> QED
      BY <3>1 DEF TypeOK, ParentLocals
  <2> QED
    BY <2>1, <2>2
<1>4. state' \in [Contexts -> CtxStates]
  BY <1>1 DEF TypeOK, CtxStates
<1>5. SameLiving
  BY <1>1, <1>2, ContextFacts DEF SameLiving, Living, TypeOK
<1>6. TypeOK' /\ KernelKnowsThreads'
  BY <1>1, <1>3, <1>4, <1>5, KnowingKept DEF TypeOK
<1>7. ParentInv'
  <2>1. dead /\ p \in Pids => state'[p] \notin Living
    BY <1>5 DEF SameLiving, Living
  <2>2. tinfo[parent.idx].status # 0
    BY <1>1 DEF ParentInv, InJoin, Joined
  <2> QED
    BY <1>1, <1>3, <2>1, <2>2 DEF ParentInv, InCreate, InJoin, Joined, Alive, Living
<1>8. EntriesInv' /\ CountInv'
  BY <1>1, <1>3 DEF EntriesInv, BeingFilled, CountInv, Counted
<1>9. StoringInv'
  BY <1>1, <1>5 DEF StoringInv, Storing, Alive, SameLiving, Living
<1> QED
  BY <1>6, <1>7, <1>8, <1>9

LEMMA ReclaimKeeps ==
  ASSUME IInv, join_reclaim
  PROVE  IInv'
<1> USE DEF IInv
<1> DEFINE i == parent.idx
<1>1. /\ parent.pc = "reclaim"
      /\ parent' = [parent EXCEPT !.pc = "munmap", !.retval = tinfo[i].ret_addr]
      /\ num_threads' = num_threads - 1
      /\ tinfo' = [tinfo EXCEPT ![i].status = 0, ![i].pid = NoPid, ![i].ret_addr = NULL]
      /\ UNCHANGED <<state, ticks_to_sleep, threads, mapped, thread>>
  BY DEF join_reclaim, At
<1>2. i \in Slots /\ tinfo[i].ret_addr \in Values \cup {NULL}
  BY DEF TypeOK, ParentLocals, Entry
<1>3. parent' \in ParentLocals /\ parent'.pc = "munmap"
  BY <1>1, <1>2 DEF TypeOK, ParentLocals
<1>4. /\ tinfo' \in [Slots -> Entry]
      /\ tinfo'[i].status = 0 /\ tinfo'[i].pid = NoPid
      /\ \A t \in Slots : t # i => tinfo'[t] = tinfo[t]
  BY <1>1, <1>2, SMTT(30) DEF TypeOK, Entry
<1>5. i \in Counted
  BY <1>1, <1>2 DEF ParentInv, InJoin, Joined, Counted, BeingFilled
<1>6. Counted' = Counted \ {i}
  BY <1>1, <1>2, <1>3, <1>4 DEF Counted, BeingFilled
<1>7. CountInv' /\ num_threads' \in 0..MaxThreads
  <2>1. Cardinality(Counted') = Cardinality(Counted) - 1
    BY <1>5, <1>6, CountedFinite, FS_RemoveElement
  <2>2. IsFiniteSet(Counted') /\ Cardinality(Counted') \in Nat
    BY <1>6, CountedFinite, FS_RemoveElement, FS_CardinalityType
  <2> QED
    BY <2>1, <2>2, <1>1, SizesAssumption DEF CountInv, TypeOK
<1>8. TypeOK' /\ KernelKnowsThreads'
  BY <1>1, <1>3, <1>4, <1>7, KnowingKept DEF TypeOK, SameLiving
<1>9. ParentInv'
  BY <1>3 DEF ParentInv, InCreate, InJoin
<1>10. EntriesInv'
  BY <1>1, <1>4 DEF EntriesInv, BeingFilled
<1>11. StoringInv'
  <2>1. ASSUME NEW p \in Pids, Storing(p)
        PROVE  thread[p].idx \in Slots /\ thread[p].idx # i
    <3>1. tinfo[thread[p].idx].pid = p /\ tinfo[thread[p].idx].status # 2 /\ Alive(p)
      BY <2>1 DEF StoringInv, Storing
    <3>2. thread[p].idx \in Slots
      BY DEF TypeOK, ThreadLocals
    <3>3. CASE thread[p].idx = i
      BY <3>1, <3>3, <1>1 DEF ParentInv, InJoin, Joined
    <3> QED
      BY <3>2, <3>3
  <2>2. \A p \in Pids : Storing(p)' <=> Storing(p)
    BY <1>1 DEF Storing, Alive
  <2> QED
    BY <2>1, <2>2, <1>1, <1>4 DEF StoringInv
<1> QED
  BY <1>7, <1>8, <1>9, <1>10, <1>11

LEMMA MunmapKeeps ==
  ASSUME IInv, join_munmap
  PROVE  IInv'
<1> USE DEF IInv
<1>1. /\ parent.pc = "munmap"
      /\ mapped' = mapped \ {tinfo[parent.idx].stack}
      /\ tinfo' = [tinfo EXCEPT ![parent.idx].stack = NULL]
      /\ parent' = InMain(parent.retval)
      /\ UNCHANGED <<state, ticks_to_sleep, threads, num_threads, thread>>
  BY DEF join_munmap, At
<1>2. parent' \in ParentLocals /\ parent'.pc = "main"
  BY <1>1, ContextFacts DEF TypeOK, ParentLocals, InMain
<1>3. /\ tinfo' \in [Slots -> Entry]
      /\ \A t \in Slots : tinfo'[t].status = tinfo[t].status /\ tinfo'[t].pid = tinfo[t].pid
  <2> DEFINE i == parent.idx
             r == [tinfo[i] EXCEPT !.stack = NULL]
  <2>1. tinfo \in [Slots -> Entry] /\ i \in Slots
    BY DEF TypeOK, ParentLocals
  <2>2. tinfo[i] \in Entry
    BY <2>1
  <2>3. r \in Entry /\ r.status = tinfo[i].status /\ r.pid = tinfo[i].pid
    BY <2>2 DEF Entry
  <2>4. tinfo' = [tinfo EXCEPT ![i] = r]
    BY <1>1
  <2> HIDE DEF i, r
  <2> QED
    BY <2>1, <2>3, <2>4
<1>4. TypeOK' /\ KernelKnowsThreads'
  BY <1>1, <1>2, <1>3, KnowingKept DEF TypeOK, SameLiving
<1>5. ParentInv'
  BY <1>2 DEF ParentInv, InCreate, InJoin
<1>6. EntriesInv'
  BY <1>1, <1>3 DEF EntriesInv, BeingFilled
<1>7. StoringInv'
  <2>1. \A p \in Pids : thread[p].idx \in Slots
    BY DEF TypeOK, ThreadLocals
  <2> QED
    BY <2>1, <1>1, <1>3 DEF StoringInv, Storing, Alive
<1>8. CountInv'
  <2>1. Counted' = Counted
    BY <1>1, <1>2, <1>3 DEF Counted, BeingFilled
  <2> QED
    BY <2>1, <1>1 DEF CountInv
<1> QED
  BY <1>4, <1>5, <1>6, <1>7, <1>8

-----------------------------------------------------------------------------
(* The end of a context.                                                   *)

LEMMA ExitKeeps ==
  ASSUME IInv, NEW p \in Pids, NEW normal \in BOOLEAN, state[p] = "READY",
         handle_thread_exit(p, normal)
  PROVE  IInv'
<1> USE DEF IInv
<1>1. /\ thread' = [thread EXCEPT ![p].stack = NULL, ![p].pc = IF normal THEN "body" ELSE @]
      /\ UNCHANGED <<ticks_to_sleep, tinfo, num_threads, mapped, parent>>
  BY DEF handle_thread_exit
<1>2. Known
  BY KnownIsKnowing
<1>3. PICK k \in Slots : threads[k].used /\ threads[k].pid = p
  BY <1>2 DEF Known, Living
<1>4. PICK i \in Slots :
        /\ IsFirst(i, OfPid(p))
        /\ threads' = [threads EXCEPT ![i].used = FALSE]
        /\ state' = WakeParent([state EXCEPT ![p] = IF normal THEN "UNUSED" ELSE "EXITING"])
  BY <1>3 DEF handle_thread_exit, find_thread_from_pid, OfPid
<1>5. \A j \in Slots : threads[j].pid = p /\ threads[j].used => j = i
  <2>1. threads[i].pid = p /\ \A j \in Slots : threads[j].pid = p => i <= j
    BY <1>4 DEF IsFirst, OfPid
  <2>2. ASSUME NEW j \in Slots, threads[j].pid = p, threads[j].used
        PROVE  j = i
    <3>1. j <= i
      BY <2>1, <2>2, <1>2 DEF Known
    <3>2. i <= j
      BY <2>1, <2>2
    <3> QED
      BY <3>1, <3>2, ContextFacts
  <2> QED
    BY <2>2
<1>6. \A j \in Slots : /\ threads'[j].pid = threads[j].pid
                       /\ threads'[j].used <=> threads[j].used /\ j # i
  BY <1>4 DEF TypeOK, KernelSlot
<1>7. /\ state'[p] \in {"UNUSED", "EXITING"}
      /\ \A q \in Pids : q # p => state'[q] = state[q]
      /\ state' \in [Contexts -> CtxStates]
  BY <1>4, ContextFacts DEF WakeParent, TypeOK, CtxStates
<1>8. thread' \in [Pids -> ThreadLocals] /\ \A q \in Pids : q # p => thread'[q] = thread[q]
  <2> DEFINE r == [thread[p] EXCEPT !.stack = NULL, !.pc = IF normal THEN "body" ELSE @]
  <2>1. thread' = [thread EXCEPT ![p] = r]
    BY <1>1
  <2>2. r \in ThreadLocals
    BY DEF TypeOK, ThreadLocals
  <2> QED
    BY <2>1, <2>2 DEF TypeOK
<1>9. threads' \in [Slots -> KernelSlot]
  BY <1>4 DEF TypeOK, KernelSlot
<1>10. TypeOK'
  BY <1>1, <1>7, <1>8, <1>9 DEF TypeOK
<1>11. KernelKnowsThreads'
  <2>1. ASSUME NEW j \in Slots, threads'[j].used
        PROVE  /\ threads'[j].pid \in Pids /\ state'[threads'[j].pid] \in Living
               /\ \A l \in Slots : threads'[l].pid = threads'[j].pid => j <= l
    BY <2>1, <1>2, <1>5, <1>6, <1>7 DEF Known
  <2>2. ASSUME NEW q \in Pids, state'[q] \in Living
        PROVE  \E j \in Slots : threads'[j].used /\ threads'[j].pid = q
    <3>1. q # p
      BY <2>2, <1>7 DEF Living
    <3>2. PICK j \in Slots : threads[j].used /\ threads[j].pid = q
      BY <2>2, <3>1, <1>2, <1>7 DEF Known
    <3>3. threads[i].pid = p
      BY <1>4 DEF IsFirst, OfPid
    <3> QED
      BY <3>1, <3>2, <3>3, <1>6
  <2> QED
    BY <2>1, <2>2, KnownIsKnowing DEF Known
<1>12. ParentInv'
  BY <1>1, <1>7 DEF ParentInv, InCreate, InJoin, Joined, Alive
<1>13. EntriesInv'
  BY <1>1 DEF EntriesInv, BeingFilled
<1>14. StoringInv'
  <2>1. \A q \in Pids : Storing(q)' => q # p /\ Storing(q)
    BY <1>7, <1>8 DEF Storing, Alive
  <2> QED
    BY <2>1, <1>1, <1>8 DEF StoringInv
<1>15. CountInv'
  BY <1>1 DEF CountInv, Counted, BeingFilled
<1> QED
  BY <1>10, <1>11, <1>12, <1>13, <1>14, <1>15

LEMMA ThreadEndsKeeps ==
  ASSUME IInv, NEW p \in Pids, thread_exit(p) \/ segfault_exit(p)
  PROVE  IInv'
  BY ExitKeeps DEF thread_exit, segfault_exit, ThreadAt

LEMMA CleanupKeeps ==
  ASSUME IInv, cleanup_all_threads
  PROVE  IInv'
<1> USE DEF IInv
<1>1. /\ parent.pc = "main"
      /\ state' = [c \in Contexts |->
           IF c = Process \/ c \in {threads[i].pid : i \in Used} THEN "UNUSED" ELSE state[c]]
      /\ threads' = [i \in Slots |-> [threads[i] EXCEPT !.used = FALSE]]
      /\ UNCHANGED <<ticks_to_sleep, tinfo, num_threads, mapped, parent, thread>>
  BY DEF cleanup_all_threads, At
<1>2. state' \in [Contexts -> CtxStates]
  BY <1>1 DEF TypeOK, CtxStates
<1>3. threads' \in [Slots -> KernelSlot] /\ \A i \in Slots : ~ threads'[i].used
  BY <1>1 DEF TypeOK, KernelSlot
<1>4. \A q \in Pids : state'[q] \notin Living
  <2>1. ASSUME NEW q \in Pids PROVE state'[q] \notin Living
    <3>1. CASE state[q] \in Living
      <4>1. PICK i \in Slots : threads[i].used /\ threads[i].pid = q
        BY <3>1, KnownIsKnowing DEF Known
      <4> QED
        BY <4>1, <1>1, ContextFacts DEF Used, Living
    <3>2. CASE state[q] \notin Living
      BY <3>2, <1>1, ContextFacts DEF Living
    <3> QED
      BY <3>1, <3>2
  <2> QED
    BY <2>1
<1>5. TypeOK'
  BY <1>1, <1>2, <1>3 DEF TypeOK
<1>6. KernelKnowsThreads'
  BY <1>3, <1>4, KnownIsKnowing DEF Known
<1>7. ParentInv' /\ EntriesInv' /\ CountInv'
  BY <1>1 DEF ParentInv, InCreate, InJoin, EntriesInv, BeingFilled, CountInv, Counted
<1>8. StoringInv'
  BY <1>4 DEF StoringInv, Storing, Alive, Living
<1> QED
  BY <1>5, <1>6, <1>7, <1>8

-----------------------------------------------------------------------------
(* Steps of a thread in gthread_exit.                                      *)

LEMMA ThreadExitKeeps ==
  ASSUME IInv, NEW p \in Pids, NEW v \in Values, gthread_exit(p, v)
  PROVE  IInv'
<1> USE DEF IInv
<1>1. UNCHANGED <<state, ticks_to_sleep, threads, tinfo, num_threads, mapped, parent>>
  BY DEF gthread_exit
<1>2. /\ thread' \in [Pids -> ThreadLocals] /\ \A q \in Pids : q # p => thread'[q] = thread[q]
      /\ \/ thread'[p].pc = "exit"
         \/ thread'[p].pc = "store_value" /\ thread'[p].idx \in Own(p)
  <2>1. CASE \E i \in Slots :
               /\ IsFirst(i, Own(p))
               /\ thread' = [thread EXCEPT ![p].pc = "store_value", ![p].idx = i, ![p].retval = v]
    <3>1. PICK i \in Slots :
               /\ IsFirst(i, Own(p))
               /\ thread' = [thread EXCEPT ![p].pc = "store_value", ![p].idx = i, ![p].retval = v]
      BY <2>1
    <3>2. i \in Own(p)
      BY <3>1 DEF IsFirst
    <3> DEFINE r == [thread[p] EXCEPT !.pc = "store_value", !.idx = i, !.retval = v]
    <3>3. thread' = [thread EXCEPT ![p] = r]
      BY <3>1
    <3>4. r \in ThreadLocals /\ r.pc = "store_value" /\ r.idx = i
      BY DEF TypeOK, ThreadLocals
    <3> QED
      BY <3>2, <3>3, <3>4 DEF TypeOK
  <2>2. CASE thread' = [thread EXCEPT ![p].pc = "exit", ![p].retval = v]
    <3> DEFINE r == [thread[p] EXCEPT !.pc = "exit", !.retval = v]
    <3>1. thread \in [Pids -> ThreadLocals] /\ thread[p] \in ThreadLocals
      BY DEF TypeOK
    <3>2. r \in ThreadLocals /\ r.pc = "exit"
      BY <3>1 DEF ThreadLocals
    <3>3. thread' = [thread EXCEPT ![p] = r]
      BY <2>2
    <3> HIDE DEF r
    <3> QED
      BY <3>1, <3>2, <3>3
  <2> QED
    BY <2>1, <2>2 DEF gthread_exit
<1>3. TypeOK' /\ KernelKnowsThreads'
  BY <1>1, <1>2, KnowingKept DEF TypeOK, SameLiving
<1>4. ParentInv' /\ EntriesInv' /\ CountInv'
  BY <1>1 DEF ParentInv, InCreate, InJoin, Joined, Alive, EntriesInv, BeingFilled, CountInv, Counted
<1>5. StoringInv'
  BY <1>1, <1>2 DEF StoringInv, Storing, Alive, Own
<1> QED
  BY <1>3, <1>4, <1>5

LEMMA StoreValueKeeps ==
  ASSUME IInv, NEW p \in Pids, store_value(p)
  PROVE  IInv'
<1> USE DEF IInv
<1>1. /\ thread[p].pc = "store_value" /\ state[p] = "READY"
      /\ tinfo' = [tinfo EXCEPT ![thread[p].idx].ret_addr = thread[p].retval]
      /\ thread' = [thread EXCEPT ![p].pc = "store_status"]
      /\ UNCHANGED <<state, ticks_to_sleep, threads, num_threads, mapped, parent>>
  BY DEF store_value, ThreadAt
<1>2. thread[p].retval \in Values \cup {NULL}
  BY DEF TypeOK, ThreadLocals
<1>3. /\ tinfo' \in [Slots -> Entry]
      /\ \A t \in Slots : tinfo'[t].status = tinfo[t].status /\ tinfo'[t].pid = tinfo[t].pid
  <2> DEFINE i == thread[p].idx
             r == [tinfo[i] EXCEPT !.ret_addr = thread[p].retval]
  <2>1. tinfo \in [Slots -> Entry] /\ i \in Slots
    BY DEF TypeOK, ThreadLocals
  <2>2. tinfo[i] \in Entry
    BY <2>1
  <2>3. r \in Entry /\ r.status = tinfo[i].status /\ r.pid = tinfo[i].pid
    BY <1>2, <2>2 DEF Entry
  <2>4. tinfo' = [tinfo EXCEPT ![i] = r]
    BY <1>1
  <2> HIDE DEF i, r
  <2> QED
    BY <2>1, <2>3, <2>4
<1>4. /\ thread' \in [Pids -> ThreadLocals]
      /\ \A q \in Pids : thread'[q].idx = thread[q].idx
      /\ \A q \in Pids : q # p => thread'[q] = thread[q]
  BY <1>1 DEF TypeOK, ThreadLocals
<1>5. TypeOK' /\ KernelKnowsThreads'
  BY <1>1, <1>3, <1>4, KnowingKept DEF TypeOK, SameLiving
<1>6. parent.idx \in Slots
  BY DEF TypeOK, ParentLocals
<1>7. ParentInv'
  BY <1>1, <1>3, <1>6 DEF ParentInv, InCreate, InJoin, Joined, Alive
<1>8. EntriesInv'
  BY <1>1, <1>3 DEF EntriesInv, BeingFilled
<1>9. StoringInv'
  <2>1. \A q \in Pids : Storing(q)' => Storing(q)
    BY <1>1, <1>4 DEF Storing, Alive
  <2>2. \A q \in Pids : thread[q].idx \in Slots
    BY DEF TypeOK, ThreadLocals
  <2> QED
    BY <2>1, <2>2, <1>3, <1>4 DEF StoringInv
<1>10. CountInv'
  <2>1. Counted' = Counted
    BY <1>1, <1>3 DEF Counted, BeingFilled
  <2> QED
    BY <2>1, <1>1 DEF CountInv
<1> QED
  BY <1>5, <1>7, <1>8, <1>9, <1>10

LEMMA StoreStatusKeeps ==
  ASSUME IInv, NEW p \in Pids, store_status(p)
  PROVE  IInv'
<1> USE DEF IInv
<1> DEFINE i == thread[p].idx
<1>1. /\ thread[p].pc = "store_status" /\ state[p] = "READY"
      /\ tinfo' = [tinfo EXCEPT ![i].status = 2]
      /\ thread' = [thread EXCEPT ![p].pc = "exit", ![p].idx = 0, ![p].retval = NULL]
      /\ UNCHANGED <<state, ticks_to_sleep, threads, num_threads, mapped, parent>>
  BY DEF store_status, ThreadAt
<1>2. i \in Slots /\ parent.idx \in Slots
  BY DEF TypeOK, ThreadLocals, ParentLocals
<1>3. /\ tinfo' \in [Slots -> Entry]
      /\ tinfo'[i].status = 2
      /\ \A t \in Slots : tinfo'[t].pid = tinfo[t].pid /\ (t # i => tinfo'[t] = tinfo[t])
  BY <1>1, <1>2 DEF TypeOK, Entry
<1>4. /\ thread' \in [Pids -> ThreadLocals] /\ thread'[p].pc = "exit"
      /\ \A q \in Pids : q # p => thread'[q] = thread[q]
  <2> DEFINE r == [thread[p] EXCEPT !.pc = "exit", !.idx = 0, !.retval = NULL]
  <2>1. thread' = [thread EXCEPT ![p] = r]
    BY <1>1
  <2>2. r \in ThreadLocals /\ r.pc = "exit"
    BY ContextFacts DEF TypeOK, ThreadLocals
  <2> QED
    BY <2>1, <2>2 DEF TypeOK
<1>5. TypeOK' /\ KernelKnowsThreads'
  BY <1>1, <1>3, <1>4, KnowingKept DEF TypeOK, SameLiving
<1>6. ParentInv'
  BY <1>1, <1>2, <1>3 DEF ParentInv, InCreate, InJoin, Joined, Alive
<1>7. EntriesInv'
  BY <1>1, <1>3 DEF EntriesInv, BeingFilled
<1>8. tinfo[i].pid = p
  BY <1>1 DEF StoringInv, Storing, Alive
<1>9. StoringInv'
  <2>1. ASSUME NEW q \in Pids, Storing(q)'
        PROVE  tinfo'[thread'[q].idx].pid = q /\ tinfo'[thread'[q].idx].status # 2
    <3>1. q # p /\ thread'[q] = thread[q] /\ Storing(q)
      BY <2>1, <1>1, <1>4 DEF Storing, Alive
    <3>2. tinfo[thread[q].idx].pid = q /\ tinfo[thread[q].idx].status # 2
      BY <3>1 DEF StoringInv
    <3>3. thread[q].idx \in Slots
      BY DEF TypeOK, ThreadLocals
    <3> QED
      BY <3>1, <3>2, <3>3, <1>3, <1>8
  <2> QED
    BY <2>1 DEF StoringInv
<1>10. CountInv'
  <2>1. tinfo[i].status = 0 => BeingFilled(i)
    BY <1>2, <1>8, ContextFacts DEF EntriesInv
  <2>2. Counted' = Counted
    BY <2>1, <1>1, <1>2, <1>3 DEF Counted, BeingFilled
  <2> QED
    BY <2>2, <1>1 DEF CountInv
<1> QED
  BY <1>5, <1>6, <1>7, <1>9, <1>10

-----------------------------------------------------------------------------
(* Sleep, and no step.                                                     *)

\* Steps that leave the tables and the library's locals alone.
LEMMA TablesKept ==
  ASSUME IInv, TypeOK', SameLiving,
         \A q \in Pids : state'[q] = "RUNNING" => state[q] = "RUNNING",
         UNCHANGED <<threads, tinfo, num_threads, parent, thread>>
  PROVE  IInv'
<1> USE DEF IInv
<1>1. KernelKnowsThreads'
  BY KnowingKept
<1>2. ParentInv' /\ EntriesInv' /\ CountInv'
  BY DEF ParentInv, InCreate, InJoin, Joined, Alive, SameLiving, Living,
         EntriesInv, BeingFilled, CountInv, Counted
<1>3. StoringInv'
  BY DEF StoringInv, Storing, Alive, SameLiving, Living
<1> QED
  BY <1>1, <1>2, <1>3

LEMMA SleepKeeps ==
  ASSUME IInv, NEW c \in Contexts, do_sleep(c)
  PROVE  IInv'
<1>1. /\ state[c] = "READY"
      /\ state' = [state EXCEPT ![c] = "WAITING"]
      /\ UNCHANGED <<threads, tinfo, num_threads, mapped, parent, thread>>
  BY DEF do_sleep, At, ThreadAt
<1>2. ticks_to_sleep' \in [Contexts -> 0..MaxSleep]
  <2>1. PICK n \in 1..MaxSleep : ticks_to_sleep' = [ticks_to_sleep EXCEPT ![c] = n]
    BY DEF do_sleep
  <2>2. n \in 0..MaxSleep
    BY SizesAssumption
  <2> QED
    BY <2>1, <2>2 DEF IInv, TypeOK
<1>3. TypeOK'
  BY <1>1, <1>2 DEF IInv, TypeOK, CtxStates
<1>4. SameLiving /\ \A q \in Pids : state'[q] = "RUNNING" => state[q] = "RUNNING"
  BY <1>1, ContextFacts DEF SameLiving, Living, IInv, TypeOK
<1> QED
  BY <1>1, <1>3, <1>4, TablesKept

LEMMA SleepAccountKeeps ==
  ASSUME IInv, do_sleep_account
  PROVE  IInv'
<1>1. /\ ticks_to_sleep' = [c \in Contexts |->
           IF c \in Sleeping THEN ticks_to_sleep[c] - 1 ELSE ticks_to_sleep[c]]
      /\ state' = [c \in Contexts |->
           IF c \in Sleeping /\ ticks_to_sleep[c] = 1 THEN "READY" ELSE state[c]]
      /\ UNCHANGED <<threads, tinfo, num_threads, mapped, parent, thread>>
  BY DEF do_sleep_account
<1>2. state' \in [Contexts -> CtxStates]
  BY <1>1 DEF IInv, TypeOK, CtxStates
<1>3. ticks_to_sleep' \in [Contexts -> 0..MaxSleep]
  <2>1. \A c \in Contexts : ticks_to_sleep[c] \in 0..MaxSleep
    BY DEF IInv, TypeOK
  <2>2. \A c \in Sleeping : ticks_to_sleep[c] - 1 \in 0..MaxSleep
    BY <2>1, SizesAssumption DEF Sleeping
  <2> QED
    BY <2>1, <2>2, <1>1
<1>4. TypeOK'
  BY <1>1, <1>2, <1>3 DEF IInv, TypeOK
<1>5. SameLiving /\ \A q \in Pids : state'[q] = "RUNNING" => state[q] = "RUNNING"
  BY <1>1, ContextFacts DEF SameLiving, Living, Sleeping
<1> QED
  BY <1>1, <1>4, <1>5, TablesKept

LEMMA NextIInv == IInv /\ [Next]_vars => IInv'
<1> SUFFICES ASSUME IInv, [Next]_vars PROVE IInv'
  OBVIOUS
<1>1. CASE gthread_create
  BY <1>1, CreateKeeps
<1>2. CASE InLibrary
  BY <1>2, CloneKeeps, NotePidKeeps, NoteStatusKeeps, MakeReadyKeeps,
     JoinTestKeeps, WaitKeeps, ReclaimKeeps, MunmapKeeps DEF InLibrary
<1>3. CASE cleanup_all_threads
  BY <1>3, CleanupKeeps
<1>4. CASE do_sleep_account
  BY <1>4, SleepAccountKeeps
<1>5. CASE \E t \in Slots : gthread_join(t)
  BY <1>5, JoinKeeps
<1>6. CASE \E p \in Pids : InExit(p) \/ segfault_exit(p)
  BY <1>6, StoreValueKeeps, StoreStatusKeeps, ThreadEndsKeeps DEF InExit
<1>7. CASE \E p \in Pids, v \in Values : gthread_exit(p, v)
  BY <1>7, ThreadExitKeeps
<1>8. CASE \E c \in Contexts : do_sleep(c)
  BY <1>8, SleepKeeps
<1>9. CASE UNCHANGED vars
  <2>1. TypeOK' /\ SameLiving /\ \A q \in Pids : state'[q] = "RUNNING" => state[q] = "RUNNING"
    BY <1>9 DEF vars, IInv, TypeOK, SameLiving
  <2> QED
    BY <1>9, <2>1, TablesKept DEF vars
<1> QED
  BY <1>1, <1>2, <1>3, <1>4, <1>5, <1>6, <1>7, <1>8, <1>9 DEF Next

-----------------------------------------------------------------------------
\* What process, threads and kernel rely on while the others move holds after
\* every step of each (gthread.c, clone_threads.c).
THEOREM Invariance == Spec => []IInv
  BY InitIInv, NextIInv, PTL DEF Spec

\* Every variable keeps its type.  What this takes is that num_threads, which
\* the process changes and threads end behind its back, stays within the table
\* (gthread_create, gthread_join).
THEOREM TypeCorrect == Spec => []TypeOK
<1>1. IInv => TypeOK
  BY DEF IInv
<1> QED
  BY Invariance, <1>1, PTL

\* Through every interleaving of creations, exits, crashes, joins and the end
\* of the process, the kernel's table has a used slot for exactly the live
\* threads, and the lookup by pid finds that slot even when older slots still
\* hold the same pid (do_clone, find_thread_from_pid, handle_thread_exit).
THEOREM KernelTableCorrect == Spec => []KernelKnowsThreads
<1>1. IInv => KernelKnowsThreads
  BY DEF IInv
<1> QED
  BY Invariance, <1>1, PTL

\* num_threads is the number of entries of tinfo in use, not counting the one
\* being filled: gthread_create refuses a thread only when the table is full,
\* and a thread that stores its result finds its own entry, never another's
\* (gthread_create, gthread_exit, gthread_join).
THEOREM LibraryTableCorrect == Spec => [](CountInv /\ StoringInv)
<1>1. IInv => CountInv /\ StoringInv
  BY DEF IInv
<1> QED
  BY Invariance, <1>1, PTL

-----------------------------------------------------------------------------
(***************************************************************************)
(* The library's table.  What follows holds for a process that never       *)
(* sleeps: clone hands the ticks that are left of a sleep to the new       *)
(* context, and the timer could start the thread before it has an entry.   *)
(***************************************************************************)

Serving == state[Process] # "UNUSED"

\* A thread that has not given its value, or has crashed and was not reaped.
InTable(p) == /\ thread[p].pc # "exit" /\ state[p] \in {"READY", "WAITING", "EXITING"}
              /\ ~ Creating(p)
EntryOf(t, p) == tinfo[t].status = 1 /\ tinfo[t].pid = p
GivenUp(t) == InJoin /\ parent.failed /\ parent.idx = t

EnteredInv == \A p \in Pids : InTable(p) =>
  \E t \in Slots : EntryOf(t, p) /\ (Alive(p) => tinfo[t].stack = thread[p].stack)

NamedInv ==
  \A t \in Slots : tinfo[t].status = 1 =>
    \E p \in Pids : /\ tinfo[t].pid = p
                    /\ IF GivenUp(t) THEN state[p] = "UNUSED" ELSE InTable(p)

NamedOnceInv ==
  \A t, u \in Slots : EntryOf(t, tinfo[u].pid) /\ tinfo[u].status = 1 => t = u

\* Nobody but the process starts the thread it is creating.
FillingInv ==
  /\ \A p \in Pids : Creating(p) =>
       /\ state[p] = "WAITING" /\ ticks_to_sleep[p] = 0
       /\ thread[p].pc = "body" /\ thread[p].stack = parent.stack
  /\ parent.pc = "note_status" =>
       tinfo[parent.idx].pid = parent.pid /\ tinfo[parent.idx].status = 0

\* No area is in two entries, or in an entry and not mapped.
StacksInv ==
  /\ \A t \in Slots : /\ tinfo[t].stack # NULL => tinfo[t].stack \in mapped
                      /\ tinfo[t].status # 0 => tinfo[t].stack # NULL
                      /\ \A u \in Slots : tinfo[t].stack # NULL /\ tinfo[u].stack = tinfo[t].stack => t = u
  /\ parent.pc \in {"clone", "note_pid", "note_status"} =>
       parent.stack \in mapped /\ \A t \in Slots : tinfo[t].stack # parent.stack
  /\ parent.pc = "munmap" => tinfo[parent.idx].status = 0

\* The thread that is joined has no second entry.
WaitInv ==
  parent.pc = "wait" =>
    \A t \in Slots : t # parent.idx /\ tinfo[t].status = 1 => tinfo[t].pid # Joined.pid

LibraryInv ==
  /\ ticks_to_sleep[Process] = 0
  /\ ~ Serving => parent.pc = "main" /\ \A p \in Pids : ~ Alive(p)
  /\ Serving => EnteredInv /\ NamedInv /\ NamedOnceInv /\ FillingInv /\ StacksInv /\ WaitInv

LEMMA InitLibrary == Init => LibraryInv
<1> SUFFICES ASSUME Init PROVE LibraryInv
  OBVIOUS
<1>1. /\ Serving /\ ticks_to_sleep[Process] = 0 /\ parent.pc = "main"
      /\ \A p \in Pids : state[p] = "UNUSED"
      /\ \A t \in Slots : tinfo[t].status = 0 /\ tinfo[t].stack = NULL
  BY ContextFacts DEF Init, Serving, InMain
<1>2. EnteredInv /\ NamedInv /\ NamedOnceInv
  BY <1>1 DEF EnteredInv, NamedInv, NamedOnceInv, InTable, EntryOf
<1>3. FillingInv /\ StacksInv /\ WaitInv
  BY <1>1 DEF FillingInv, Creating, StacksInv, WaitInv
<1> QED
  BY <1>1, <1>2, <1>3 DEF LibraryInv

\* A step that changes nothing of what the table is about.
SameEntries == \A t \in Slots : /\ tinfo'[t].pid = tinfo[t].pid
                                /\ tinfo'[t].status = tinfo[t].status
                                /\ tinfo'[t].stack = tinfo[t].stack
SameUse == \A p \in Pids :
  state'[p] = state[p] \/ {state[p], state'[p]} \subseteq Living
SameThreads == \A p \in Pids : /\ thread'[p].stack = thread[p].stack
                               /\ thread'[p].pc = "exit" <=> thread[p].pc = "exit"
SameCreating == \A p \in Pids : Creating(p)' <=> Creating(p)

LEMMA TableKept ==
  ASSUME EnteredInv, NamedInv, NamedOnceInv, SameEntries, SameUse, SameThreads, SameCreating,
         \A t \in Slots : GivenUp(t)' <=> GivenUp(t)
  PROVE  EnteredInv' /\ NamedInv' /\ NamedOnceInv'
<1>1. \A p \in Pids : InTable(p)' <=> InTable(p)
  BY DEF InTable, SameUse, SameThreads, SameCreating, Living
<1>2. \A p \in Pids : Alive(p)' <=> Alive(p)
  BY DEF Alive, SameUse, Living
<1>3. \A t \in Slots, p \in Pids : EntryOf(t, p)' <=> EntryOf(t, p)
  BY DEF EntryOf, SameEntries
<1>4. EnteredInv'
  BY <1>1, <1>2, <1>3 DEF EnteredInv, SameEntries, SameThreads
<1>5. NamedInv'
  BY <1>1 DEF NamedInv, SameEntries, SameUse, Living
<1>6. NamedOnceInv'
  BY DEF NamedOnceInv, EntryOf, SameEntries
<1> QED
  BY <1>4, <1>5, <1>6

\* The process has done nothing, and nothing to the thread it is creating.
LEMMA OthersKeep ==
  ASSUME LibraryInv, Serving, SameEntries, SameUse, SameThreads,
         mapped' = mapped, parent' = parent, parent.idx \in Slots,
         \A p \in Pids : Creating(p) =>
           state'[p] = state[p] /\ ticks_to_sleep'[p] = ticks_to_sleep[p] /\ thread'[p] = thread[p]
  PROVE  EnteredInv' /\ NamedInv' /\ NamedOnceInv' /\ FillingInv' /\ StacksInv' /\ WaitInv'
<1>1. EnteredInv /\ NamedInv /\ NamedOnceInv /\ FillingInv /\ StacksInv /\ WaitInv
  BY DEF LibraryInv
<1>2. SameCreating /\ \A t \in Slots : GivenUp(t)' <=> GivenUp(t)
  BY DEF SameCreating, Creating, GivenUp, InJoin
<1>3. EnteredInv' /\ NamedInv' /\ NamedOnceInv'
  BY <1>1, <1>2, TableKept
<1>4. FillingInv'
  BY <1>1, <1>2 DEF FillingInv, SameCreating, SameEntries
<1>5. StacksInv'
  BY <1>1 DEF StacksInv, SameEntries
<1>6. WaitInv'
  BY <1>1 DEF WaitInv, Joined, SameEntries
<1> QED
  BY <1>3, <1>4, <1>5, <1>6

LEMMA Serves ==
  ASSUME LibraryInv, Serving
  PROVE  EnteredInv /\ NamedInv /\ NamedOnceInv /\ FillingInv /\ StacksInv /\ WaitInv
  BY DEF LibraryInv

\* What is left to show of a step that leaves the process there.
LEMMA StillServes ==
  ASSUME Serving', ticks_to_sleep'[Process] = 0,
         EnteredInv' /\ NamedInv' /\ NamedOnceInv' /\ FillingInv' /\ StacksInv' /\ WaitInv'
  PROVE  LibraryInv'
  BY DEF LibraryInv

LEMMA CreateKeepsLibrary ==
  ASSUME IInv, LibraryInv, gthread_create
  PROVE  LibraryInv'
<1>1. PICK s \in Stacks \ mapped : /\ mapped' = mapped \cup {s}
                                   /\ parent' = [parent EXCEPT !.pc = "clone", !.stack = s]
  BY DEF gthread_create
<1>2. /\ parent.pc = "main" /\ state[Process] = "READY"
      /\ UNCHANGED <<state, ticks_to_sleep, threads, tinfo, num_threads, thread>>
  BY DEF gthread_create, At
<1>3. parent'.pc = "clone" /\ parent'.stack = s
  BY <1>1 DEF IInv, TypeOK, ParentLocals
<1>4. Serving /\ Serving' /\ ticks_to_sleep'[Process] = 0
  BY <1>2 DEF Serving, LibraryInv
<1>5. /\ SameEntries /\ SameUse /\ SameThreads /\ SameCreating
      /\ \A t \in Slots : GivenUp(t)' <=> GivenUp(t)
  BY <1>2, <1>3 DEF SameEntries, SameUse, SameThreads, SameCreating, Creating, GivenUp, InJoin
<1>6. EnteredInv' /\ NamedInv' /\ NamedOnceInv'
  BY <1>4, <1>5, Serves, TableKept
<1>7. FillingInv' /\ WaitInv'
  BY <1>3 DEF FillingInv, Creating, WaitInv
<1>8. StacksInv'
  <2>1. StacksInv
    BY <1>4, Serves
  <2>2. \A t \in Slots : tinfo[t].stack # s
    BY <2>1, <1>1, ValuesAssumption DEF StacksInv
  <2> QED
    BY <2>1, <2>2, <1>1, <1>2, <1>3 DEF StacksInv
<1> QED
  BY <1>4, <1>6, <1>7, <1>8, StillServes

LEMMA CloneKeepsLibrary ==
  ASSUME IInv, LibraryInv, do_clone
  PROVE  LibraryInv'
<1>1. PICK p \in Pids :
       /\ state[p] = "UNUSED"
       /\ ticks_to_sleep' = [ticks_to_sleep EXCEPT ![p] = ticks_to_sleep[Process]]
       /\ \/ \E i \in Slots :
               /\ IsFirst(i, Unused)
               /\ threads' = [threads EXCEPT ![i] = [used |-> TRUE, pid |-> p]]
               /\ state' = [state EXCEPT ![p] = "WAITING"]
               /\ thread' = [thread EXCEPT ![p] = InBody(parent.stack)]
               /\ parent' = [parent EXCEPT !.pc = "note_pid", !.pid = p]
          \/ /\ Unused = {}
             /\ state' = [state EXCEPT ![p] = "RUNNING"]
             /\ parent' = InMain(parent.retval)
             /\ UNCHANGED <<threads, thread>>
  BY DEF do_clone
<1>2. /\ parent.pc = "clone" /\ state[Process] = "READY"
      /\ UNCHANGED <<tinfo, num_threads, mapped>>
  BY DEF do_clone, At
<1>3. Serving /\ Serving' /\ ticks_to_sleep'[Process] = 0 /\ ticks_to_sleep'[p] = 0
  BY <1>1, <1>2, ContextFacts DEF Serving, LibraryInv, IInv, TypeOK
<1>4. \A q \in Pids : ~ Creating(q) /\ \A t \in Slots : ~ GivenUp(t)
  BY <1>2 DEF Creating, GivenUp, InJoin
<1>5. EnteredInv /\ NamedInv /\ NamedOnceInv /\ StacksInv
  BY <1>3, Serves
<1>6. \A t \in Slots : ~ EntryOf(t, p)
  BY <1>1, <1>4, <1>5 DEF EntryOf, NamedInv, InTable
<1>7. CASE \E i \in Slots :
             /\ IsFirst(i, Unused)
             /\ threads' = [threads EXCEPT ![i] = [used |-> TRUE, pid |-> p]]
             /\ state' = [state EXCEPT ![p] = "WAITING"]
             /\ thread' = [thread EXCEPT ![p] = InBody(parent.stack)]
             /\ parent' = [parent EXCEPT !.pc = "note_pid", !.pid = p]
  <2>1. /\ parent'.pc = "note_pid" /\ parent'.pid = p /\ parent'.stack = parent.stack
        /\ \A q \in Pids : Creating(q)' <=> q = p
    BY <1>7 DEF IInv, TypeOK, ParentLocals, Creating
  <2>2. /\ state'[p] = "WAITING" /\ thread'[p] = InBody(parent.stack)
        /\ \A q \in Pids : q # p => state'[q] = state[q] /\ thread'[q] = thread[q]
    BY <1>7, ContextFacts DEF IInv, TypeOK
  <2>3. \A q \in Pids : InTable(q)' <=> InTable(q)
    BY <2>1, <2>2, <1>1, <1>4 DEF InTable
  <2>4. EnteredInv'
    BY <2>2, <2>1, <2>3, <1>2, <1>5 DEF EnteredInv, InTable, EntryOf, Alive
  <2>5. NamedInv'
    <3>1. \A t \in Slots : ~ GivenUp(t)'
      BY <2>1 DEF GivenUp, InJoin
    <3> QED
      BY <2>3, <3>1, <1>2, <1>4, <1>5 DEF NamedInv
  <2>6. NamedOnceInv'
    BY <1>2, <1>5 DEF NamedOnceInv, EntryOf
  <2>7. FillingInv'
    BY <2>1, <2>2, <1>3 DEF FillingInv, InBody
  <2>8. StacksInv' /\ WaitInv'
    BY <2>1, <1>2, <1>5 DEF StacksInv, WaitInv
  <2> QED
    BY <1>3, <2>4, <2>5, <2>6, <2>7, <2>8, StillServes
<1>8. CASE /\ Unused = {}
           /\ state' = [state EXCEPT ![p] = "RUNNING"]
           /\ parent' = InMain(parent.retval)
           /\ UNCHANGED <<threads, thread>>
  <2>1. parent'.pc = "main"
    BY <1>8 DEF InMain
  <2>2. state'[p] = "RUNNING" /\ \A q \in Pids : q # p => state'[q] = state[q]
    BY <1>8, ContextFacts DEF IInv, TypeOK
  <2>3. \A q \in Pids : InTable(q)' <=> InTable(q)
    BY <2>1, <2>2, <1>1, <1>4, <1>8 DEF InTable, Creating
  <2>4. EnteredInv'
    BY <2>2, <2>3, <1>1, <1>2, <1>5, <1>8 DEF EnteredInv, InTable, EntryOf, Alive
  <2>5. NamedInv' /\ NamedOnceInv'
    <3>1. \A t \in Slots : ~ GivenUp(t)'
      BY <2>1 DEF GivenUp, InJoin
    <3> QED
      BY <2>3, <3>1, <1>2, <1>4, <1>5 DEF NamedInv, NamedOnceInv, EntryOf
  <2>6. FillingInv' /\ StacksInv' /\ WaitInv'
    BY <2>1, <1>2, <1>5 DEF FillingInv, Creating, StacksInv, WaitInv
  <2> QED
    BY <1>3, <2>4, <2>5, <2>6, StillServes
<1> QED
  BY <1>1, <1>7, <1>8

\* gthread_create has seen that the table has room.
LEMMA RoomLeft ==
  ASSUME IInv, parent.pc \in {"clone", "note_pid"}
  PROVE  Free # {}
<1> SUFFICES ASSUME Free = {} PROVE FALSE
  OBVIOUS
<1>1. Counted = Slots
  BY DEF Counted, Free, BeingFilled
<1>2. Cardinality(Slots) = MaxThreads
  BY SizesAssumption, FS_Interval DEF Slots
<1>3. num_threads < MaxThreads /\ num_threads = Cardinality(Counted)
  BY DEF IInv, ParentInv, CountInv
<1> QED
  BY <1>1, <1>2, <1>3, SizesAssumption

LEMMA NotePidKeepsLibrary ==
  ASSUME IInv, LibraryInv, note_pid
  PROVE  LibraryInv'
<1>1. /\ parent.pc = "note_pid" /\ state[Process] = "READY" /\ parent.pid \in Pids
      /\ UNCHANGED <<state, ticks_to_sleep, threads, num_threads, mapped, thread>>
  BY DEF note_pid, At, IInv, ParentInv, InCreate
<1>2. Serving /\ Serving' /\ ticks_to_sleep'[Process] = 0
  BY <1>1 DEF Serving, LibraryInv
<1>3. EnteredInv /\ NamedInv /\ NamedOnceInv /\ FillingInv /\ StacksInv
  BY <1>2, Serves
<1>4. PICK i \in Slots : /\ IsFirst(i, Free)
                         /\ tinfo' = [tinfo EXCEPT ![i].pid = parent.pid]
                         /\ parent' = [parent EXCEPT !.pc = "note_status", !.idx = i]
  BY <1>1, RoomLeft DEF note_pid
<1>5. tinfo[i].status = 0
  BY <1>4 DEF IsFirst, Free
<1>6. /\ parent'.pc = "note_status" /\ parent'.idx = i
      /\ parent'.pid = parent.pid /\ parent'.stack = parent.stack
  BY <1>4 DEF IInv, TypeOK, ParentLocals
<1>7. \A t \in Slots : /\ tinfo'[t].status = tinfo[t].status /\ tinfo'[t].stack = tinfo[t].stack
                       /\ tinfo'[t].status = 1 => tinfo'[t] = tinfo[t]
                       /\ tinfo'[i].pid = parent.pid
  BY <1>4, <1>5 DEF IInv, TypeOK, Entry
<1>8. SameCreating
  BY <1>1, <1>6 DEF SameCreating, Creating
<1>9. /\ \A p \in Pids : InTable(p)' <=> InTable(p)
      /\ \A t \in Slots, p \in Pids : EntryOf(t, p)' <=> EntryOf(t, p)
      /\ \A t \in Slots : ~ GivenUp(t) /\ ~ GivenUp(t)'
  BY <1>1, <1>6, <1>7, <1>8 DEF InTable, SameCreating, EntryOf, GivenUp, InJoin
<1>10. EnteredInv'
  BY <1>1, <1>3, <1>7, <1>9 DEF EnteredInv, Alive
<1>11. NamedInv' /\ NamedOnceInv'
  BY <1>3, <1>7, <1>9 DEF NamedInv, NamedOnceInv, EntryOf
<1>12. FillingInv'
  BY <1>1, <1>3, <1>5, <1>6, <1>7, <1>8 DEF FillingInv, SameCreating
<1>13. StacksInv' /\ WaitInv'
  BY <1>1, <1>3, <1>6, <1>7 DEF StacksInv, WaitInv
<1> QED
  BY <1>2, <1>10, <1>11, <1>12, <1>13, StillServes

LEMMA NoteStatusKeepsLibrary ==
  ASSUME IInv, LibraryInv, note_status
  PROVE  LibraryInv'
<1> DEFINE i == parent.idx
           p == parent.pid
<1>1. /\ parent.pc = "note_status" /\ state[Process] = "READY" /\ p \in Pids /\ i \in Slots
      /\ tinfo' = [tinfo EXCEPT ![i].status = 1, ![i].stack = parent.stack]
      /\ parent' = [parent EXCEPT !.pc = "make_ready"]
      /\ UNCHANGED <<state, ticks_to_sleep, threads, mapped, thread>>
  BY DEF note_status, At, IInv, ParentInv, InCreate, TypeOK, ParentLocals
<1>2. Serving /\ Serving' /\ ticks_to_sleep'[Process] = 0
  BY <1>1 DEF Serving, LibraryInv
<1>3. EnteredInv /\ NamedInv /\ NamedOnceInv /\ FillingInv /\ StacksInv
  BY <1>2, Serves
<1>4. parent'.pc = "make_ready" /\ \A q \in Pids : ~ Creating(q)' /\ (Creating(q) <=> q = p)
  BY <1>1 DEF IInv, TypeOK, ParentLocals, Creating
<1>5. /\ state[p] = "WAITING" /\ thread[p].pc = "body" /\ thread[p].stack = parent.stack
      /\ tinfo[i].pid = p /\ tinfo[i].status = 0
  BY <1>1, <1>3, <1>4 DEF FillingInv
<1>6. /\ tinfo'[i].status = 1 /\ tinfo'[i].stack = parent.stack /\ tinfo'[i].pid = p
      /\ \A t \in Slots : t # i => tinfo'[t] = tinfo[t]
  BY <1>1, <1>5 DEF IInv, TypeOK, Entry
<1>7. \A q \in Pids : InTable(q)' <=> InTable(q) \/ q = p
  BY <1>1, <1>4, <1>5 DEF InTable
<1>8. \A t \in Slots : ~ EntryOf(t, p) /\ ~ GivenUp(t) /\ ~ GivenUp(t)'
  BY <1>1, <1>3, <1>4 DEF EntryOf, NamedInv, InTable, GivenUp, InJoin
<1>9. \A t \in Slots, q \in Pids : EntryOf(t, q)' <=> IF t = i THEN q = p ELSE EntryOf(t, q)
  BY <1>6 DEF EntryOf
<1>10. EnteredInv'
  <2> SUFFICES ASSUME NEW q \in Pids, InTable(q)'
               PROVE  \E t \in Slots : EntryOf(t, q)' /\ (Alive(q)' => tinfo'[t].stack = thread'[q].stack)
    BY DEF EnteredInv
  <2>1. CASE q = p
    BY <2>1, <1>1, <1>5, <1>6, <1>9
  <2>2. CASE q # p
    <3>1. PICK t \in Slots : EntryOf(t, q) /\ (Alive(q) => tinfo[t].stack = thread[q].stack)
      BY <2>2, <1>3, <1>7 DEF EnteredInv
    <3>2. t # i
      BY <3>1, <1>5 DEF EntryOf
    <3> QED
      BY <3>1, <3>2, <1>1, <1>6, <1>9 DEF Alive
  <2> QED
    BY <2>1, <2>2
<1>11. NamedInv'
  BY <1>1, <1>3, <1>6, <1>7, <1>8 DEF NamedInv
<1>12. NamedOnceInv'
  BY <1>3, <1>6, <1>8 DEF NamedOnceInv, EntryOf
<1>13. FillingInv' /\ WaitInv'
  BY <1>4 DEF FillingInv, WaitInv
<1>14. StacksInv'
  <2>1. parent.stack # NULL
    BY <1>1, <1>3, ValuesAssumption DEF StacksInv, IInv, TypeOK
  <2> QED
    <3>0. /\ parent.stack \in mapped' /\ tinfo'[i].stack = parent.stack
          /\ \A t \in Slots : t # i => /\ tinfo'[t].stack = tinfo[t].stack
                                       /\ tinfo[t].stack # parent.stack
          /\ \A t \in Slots : tinfo[t].stack # NULL => tinfo[t].stack \in mapped'
          /\ \A t, u \in Slots : tinfo[t].stack # NULL /\ tinfo[u].stack = tinfo[t].stack => t = u
      BY <1>1, <1>3, <1>6 DEF StacksInv
    <3>1. \A t \in Slots : tinfo'[t].stack # NULL => tinfo'[t].stack \in mapped'
      BY <3>0
    <3>2. \A t \in Slots : tinfo'[t].status # 0 => tinfo'[t].stack # NULL
      BY <2>1, <1>1, <1>3, <1>6 DEF StacksInv
    <3>3. \A t, u \in Slots : tinfo'[t].stack # NULL /\ tinfo'[u].stack = tinfo'[t].stack => t = u
      BY <3>0
    <3> QED
      BY <3>1, <3>2, <3>3, <1>4 DEF StacksInv
<1> QED
  BY <1>2, <1>10, <1>11, <1>12, <1>13, <1>14, StillServes

LEMMA MakeReadyKeepsLibrary ==
  ASSUME IInv, LibraryInv, do_make_thread_ready
  PROVE  LibraryInv'
<1>1. /\ parent.pc = "make_ready" /\ state[Process] = "READY"
      /\ parent.pid \in Pids /\ state[parent.pid] # "RUNNING"
      /\ state' = IF state[parent.pid] \in {"EXITING", "UNUSED"} THEN state
                  ELSE [state EXCEPT ![parent.pid] = "READY"]
      /\ parent' = InMain(parent.retval)
      /\ UNCHANGED <<ticks_to_sleep, threads, tinfo, num_threads, mapped, thread>>
  BY DEF do_make_thread_ready, At, IInv, ParentInv, InCreate
<1>2. Serving /\ Serving' /\ ticks_to_sleep'[Process] = 0
  BY <1>1, ContextFacts DEF Serving, LibraryInv, IInv, TypeOK
<1>3. EnteredInv /\ NamedInv /\ NamedOnceInv /\ StacksInv
  BY <1>2, Serves
<1>4. parent'.pc = "main"
  BY <1>1 DEF InMain
<1>5. SameUse
  BY <1>1, ContextFacts DEF SameUse, Living, IInv, TypeOK, CtxStates
<1>6. /\ SameEntries /\ SameThreads /\ SameCreating
      /\ \A t \in Slots : GivenUp(t)' <=> GivenUp(t)
  BY <1>1, <1>4 DEF SameEntries, SameThreads, SameCreating, Creating, GivenUp, InJoin
<1>7. FillingInv' /\ WaitInv' /\ StacksInv'
  BY <1>1, <1>3, <1>4 DEF FillingInv, Creating, WaitInv, StacksInv
<1> QED
  BY <1>2, <1>3, <1>5, <1>6, <1>7, TableKept, StillServes

LEMMA JoinKeepsLibrary ==
  ASSUME IInv, LibraryInv, NEW t \in Slots, gthread_join(t)
  PROVE  LibraryInv'
<1>1. /\ parent.pc = "main" /\ state[Process] = "READY"
      /\ parent' = [parent EXCEPT !.pc = "join", !.idx = t, !.failed = FALSE]
      /\ UNCHANGED <<state, ticks_to_sleep, threads, tinfo, num_threads, mapped, thread>>
  BY DEF gthread_join, At
<1>2. Serving /\ Serving' /\ ticks_to_sleep'[Process] = 0
  BY <1>1 DEF Serving, LibraryInv
<1>3. EnteredInv /\ NamedInv /\ NamedOnceInv /\ StacksInv
  BY <1>2, Serves
<1>4. parent'.pc = "join" /\ ~ parent'.failed
  BY <1>1 DEF IInv, TypeOK, ParentLocals
<1>5. /\ SameEntries /\ SameUse /\ SameThreads /\ SameCreating
      /\ \A u \in Slots : GivenUp(u)' <=> GivenUp(u)
  BY <1>1, <1>4 DEF SameEntries, SameUse, SameThreads, SameCreating, Creating, GivenUp, InJoin
<1>6. FillingInv' /\ WaitInv' /\ StacksInv'
  BY <1>1, <1>3, <1>4 DEF FillingInv, Creating, WaitInv, StacksInv
<1> QED
  BY <1>2, <1>3, <1>5, <1>6, TableKept, StillServes

LEMMA JoinTestKeepsLibrary ==
  ASSUME IInv, LibraryInv, join_test
  PROVE  LibraryInv'
<1> DEFINE next == IF Joined.status # 2 /\ ~ parent.failed THEN "wait" ELSE "reclaim"
<1>1. /\ parent.pc = "join" /\ state[Process] = "READY"
      /\ parent' = [parent EXCEPT !.pc = next]
      /\ UNCHANGED <<state, ticks_to_sleep, threads, tinfo, num_threads, mapped, thread>>
  BY DEF join_test, At, Joined
<1>2. Serving /\ Serving' /\ ticks_to_sleep'[Process] = 0
  BY <1>1 DEF Serving, LibraryInv
<1>3. EnteredInv /\ NamedInv /\ NamedOnceInv /\ StacksInv
  BY <1>2, Serves
<1>4. parent'.pc = next /\ parent'.idx = parent.idx /\ parent'.failed = parent.failed
  BY <1>1 DEF IInv, TypeOK, ParentLocals
<1>5. /\ SameEntries /\ SameUse /\ SameThreads /\ SameCreating
      /\ \A u \in Slots : GivenUp(u)' <=> GivenUp(u)
  BY <1>1, <1>4 DEF SameEntries, SameUse, SameThreads, SameCreating, Creating, GivenUp, InJoin
<1>6. FillingInv' /\ StacksInv'
  BY <1>1, <1>3, <1>4 DEF FillingInv, Creating, StacksInv
<1>7. WaitInv'
  <2>1. parent'.pc = "wait" => Joined.status = 1 /\ parent.idx \in Slots
    BY <1>1, <1>4 DEF IInv, ParentInv, InJoin, Joined, TypeOK, ParentLocals, Entry
  <2> QED
    BY <2>1, <1>1, <1>3, <1>4 DEF WaitInv, Joined, NamedOnceInv, EntryOf
<1> QED
  BY <1>2, <1>3, <1>5, <1>6, <1>7, TableKept, StillServes

LEMMA WaitKeepsLibrary ==
  ASSUME IInv, LibraryInv, do_wait_for_thread
  PROVE  LibraryInv'
<1> DEFINE i == parent.idx
           p == tinfo[i].pid
           dead == state[p] \in {"UNUSED", "EXITING"}
<1>1. /\ parent.pc = "wait" /\ state[Process] = "READY" /\ i \in Slots
      /\ state' = IF dead THEN [state EXCEPT ![p] = "UNUSED"]
                  ELSE [state EXCEPT ![Process] = "WAITING"]
      /\ parent' = [parent EXCEPT !.pc = "join", !.failed = dead]
      /\ UNCHANGED <<ticks_to_sleep, threads, tinfo, num_threads, mapped, thread>>
  BY DEF do_wait_for_thread, At, IInv, TypeOK, ParentLocals
<1>2. p \in Pids \cup {NoPid} /\ p # Process
  BY <1>1, ContextsAssumption, ContextFacts DEF IInv, TypeOK, Entry
<1>3. Serving /\ Serving' /\ ticks_to_sleep'[Process] = 0
  BY <1>1, <1>2, ContextFacts DEF Serving, LibraryInv, IInv, TypeOK
<1>4. EnteredInv /\ NamedInv /\ NamedOnceInv /\ StacksInv /\ WaitInv
  BY <1>3, Serves
<1>5. parent'.pc = "join" /\ parent'.idx = i /\ (parent'.failed <=> dead)
  BY <1>1 DEF IInv, TypeOK, ParentLocals
<1>6. \A q \in Pids : state'[q] = IF dead /\ q = p THEN "UNUSED" ELSE state[q]
  BY <1>1, ContextFacts DEF IInv, TypeOK
<1>7. \A q \in Pids : InTable(q)' <=> InTable(q) /\ ~ (dead /\ q = p)
  BY <1>1, <1>5, <1>6 DEF InTable, Creating
<1>8. \A t \in Slots : (GivenUp(t) <=> t = i /\ parent.failed) /\ (GivenUp(t)' <=> t = i /\ dead)
  BY <1>1, <1>5 DEF GivenUp, InJoin
<1>9. EnteredInv'
  BY <1>1, <1>4, <1>6, <1>7 DEF EnteredInv, EntryOf, Alive
<1>10. NamedInv'
  <2> SUFFICES ASSUME NEW t \in Slots, tinfo[t].status = 1
               PROVE  \E q \in Pids : /\ tinfo[t].pid = q
                                      /\ IF GivenUp(t)' THEN state'[q] = "UNUSED" ELSE InTable(q)'
    BY <1>1 DEF NamedInv
  <2>1. PICK q \in Pids : /\ tinfo[t].pid = q
                          /\ IF GivenUp(t) THEN state[q] = "UNUSED" ELSE InTable(q)
    BY <1>4 DEF NamedInv
  <2>2. CASE t = i
    <3>1. CASE dead
      BY <2>1, <2>2, <3>1, <1>6, <1>8
    <3>2. CASE ~ dead
      BY <2>1, <2>2, <3>2, <1>7, <1>8
    <3> QED
      BY <3>1, <3>2
  <2>3. CASE t # i
    <3>1. q # p
      BY <2>1, <2>3, <1>1, <1>4 DEF WaitInv, Joined
    <3> QED
      BY <2>1, <2>3, <3>1, <1>7, <1>8
  <2> QED
    BY <2>2, <2>3
<1>11. NamedOnceInv'
  BY <1>1, <1>4 DEF NamedOnceInv, EntryOf
<1>12. FillingInv' /\ StacksInv' /\ WaitInv'
  BY <1>1, <1>4, <1>5 DEF FillingInv, Creating, StacksInv, WaitInv
<1> QED
  BY <1>3, <1>9, <1>10, <1>11, <1>12, StillServes

LEMMA ReclaimKeepsLibrary ==
  ASSUME IInv, LibraryInv, join_reclaim
  PROVE  LibraryInv'
<1> DEFINE i == parent.idx
<1>1. /\ parent.pc = "reclaim" /\ state[Process] = "READY" /\ i \in Slots
      /\ parent' = [parent EXCEPT !.pc = "munmap", !.retval = tinfo[i].ret_addr]
      /\ tinfo' = [tinfo EXCEPT ![i].status = 0, ![i].pid = NoPid, ![i].ret_addr = NULL]
      /\ UNCHANGED <<state, ticks_to_sleep, threads, mapped, thread>>
  BY DEF join_reclaim, At, IInv, TypeOK, ParentLocals
<1>2. Serving /\ Serving' /\ ticks_to_sleep'[Process] = 0
  BY <1>1 DEF Serving, LibraryInv
<1>3. EnteredInv /\ NamedInv /\ NamedOnceInv /\ StacksInv
  BY <1>2, Serves
<1>4. parent'.pc = "munmap" /\ parent'.idx = i
  BY <1>1 DEF IInv, TypeOK, ParentLocals
<1>5. /\ tinfo'[i].status = 0
      /\ \A t \in Slots : tinfo'[t].stack = tinfo[t].stack /\ (t # i => tinfo'[t] = tinfo[t])
  BY <1>1 DEF IInv, TypeOK, Entry
<1>6. \A q \in Pids : InTable(q)' <=> InTable(q)
  BY <1>1, <1>4 DEF InTable, Creating
<1>7. \A t \in Slots : (GivenUp(t) => t = i) /\ ~ GivenUp(t)'
  BY <1>1, <1>4 DEF GivenUp, InJoin
<1>8. ASSUME NEW q \in Pids, EntryOf(i, q) PROVE ~ InTable(q)
  <2>1. parent.failed
    BY <1>1, <1>8 DEF IInv, ParentInv, Joined, EntryOf
  <2>2. state[q] = "UNUSED"
    BY <2>1, <1>1, <1>3, <1>8 DEF NamedInv, GivenUp, InJoin, EntryOf
  <2> QED
    BY <2>2 DEF InTable
<1>9. EnteredInv'
  <2> SUFFICES ASSUME NEW q \in Pids, InTable(q)
               PROVE  \E t \in Slots : EntryOf(t, q)' /\ (Alive(q)' => tinfo'[t].stack = thread'[q].stack)
    BY <1>6 DEF EnteredInv
  <2>1. PICK t \in Slots : EntryOf(t, q) /\ (Alive(q) => tinfo[t].stack = thread[q].stack)
    BY <1>3 DEF EnteredInv
  <2>2. t # i
    BY <2>1, <1>8
  <2> QED
    BY <2>1, <2>2, <1>1, <1>5 DEF EntryOf, Alive
<1>10. NamedInv'
  <2> SUFFICES ASSUME NEW t \in Slots, tinfo'[t].status = 1
               PROVE  ~ GivenUp(t)' /\ \E q \in Pids : tinfo'[t].pid = q /\ InTable(q)'
    BY DEF NamedInv
  <2>1. t # i /\ tinfo'[t] = tinfo[t] /\ ~ GivenUp(t) /\ ~ GivenUp(t)'
    BY <1>5, <1>7
  <2> QED
    BY <2>1, <1>3, <1>6 DEF NamedInv
<1>11. NamedOnceInv'
  BY <1>3, <1>5 DEF NamedOnceInv, EntryOf
<1>12. StacksInv'
  <2>1. \A t \in Slots : tinfo'[t].status # 0 => tinfo[t].status # 0
    BY <1>5
  <2>2. \A t \in Slots : tinfo'[t].stack = tinfo[t].stack
    BY <1>5
  <2>3. mapped' = mapped /\ \A t \in Slots : tinfo[t].stack # NULL => tinfo[t].stack \in mapped
    BY <1>1, <1>3 DEF StacksInv
  <2> QED
    <3>1. \A t \in Slots : tinfo'[t].stack # NULL => tinfo'[t].stack \in mapped'
      BY <2>2, <2>3
    <3>2. \A t \in Slots : tinfo'[t].status # 0 => tinfo'[t].stack # NULL
      BY <2>1, <2>2, <1>3 DEF StacksInv
    <3>3. \A t, u \in Slots : tinfo'[t].stack # NULL /\ tinfo'[u].stack = tinfo'[t].stack => t = u
      BY <2>2, <1>3 DEF StacksInv
    <3> QED
      BY <3>1, <3>2, <3>3, <1>4, <1>5 DEF StacksInv
<1>13. FillingInv' /\ WaitInv'
  BY <1>4 DEF FillingInv, Creating, WaitInv
<1> QED
  BY <1>2, <1>9, <1>10, <1>11, <1>12, <1>13, StillServes

LEMMA MunmapKeepsLibrary ==
  ASSUME IInv, LibraryInv, join_munmap
  PROVE  LibraryInv'
<1> DEFINE i == parent.idx
<1>1. /\ parent.pc = "munmap" /\ state[Process] = "READY" /\ i \in Slots
      /\ mapped' = mapped \ {tinfo[i].stack}
      /\ tinfo' = [tinfo EXCEPT ![i].stack = NULL]
      /\ parent' = InMain(parent.retval)
      /\ UNCHANGED <<state, ticks_to_sleep, threads, num_threads, thread>>
  BY DEF join_munmap, At, IInv, TypeOK, ParentLocals
<1>2. Serving /\ Serving' /\ ticks_to_sleep'[Process] = 0
  BY <1>1 DEF Serving, LibraryInv
<1>3. EnteredInv /\ NamedInv /\ NamedOnceInv /\ StacksInv
  BY <1>2, Serves
<1>4. parent'.pc = "main"
  BY <1>1 DEF InMain
<1>5. /\ \A t \in Slots : /\ tinfo'[t].pid = tinfo[t].pid /\ tinfo'[t].status = tinfo[t].status
                          /\ t # i => tinfo'[t] = tinfo[t]
      /\ tinfo'[i].stack = NULL /\ tinfo[i].status = 0
  BY <1>1, <1>3 DEF IInv, TypeOK, Entry, StacksInv
<1>6. /\ \A q \in Pids : InTable(q)' <=> InTable(q)
      /\ \A t \in Slots : ~ GivenUp(t) /\ ~ GivenUp(t)'
  BY <1>1, <1>4 DEF InTable, Creating, GivenUp, InJoin
<1>7. EnteredInv'
  BY <1>1, <1>3, <1>5, <1>6 DEF EnteredInv, EntryOf, Alive
<1>8. NamedInv' /\ NamedOnceInv'
  BY <1>1, <1>3, <1>5, <1>6 DEF NamedInv, NamedOnceInv, EntryOf
<1>9. StacksInv'
  BY <1>1, <1>3, <1>4, <1>5 DEF StacksInv
<1>10. FillingInv' /\ WaitInv'
  BY <1>4 DEF FillingInv, Creating, WaitInv
<1> QED
  BY <1>2, <1>7, <1>8, <1>9, <1>10, StillServes

LEMMA CleanupKeepsLibrary ==
  ASSUME IInv, LibraryInv, cleanup_all_threads
  PROVE  LibraryInv'
<1>1. /\ state' = [c \in Contexts |->
            IF c = Process \/ c \in {threads[i].pid : i \in Used} THEN "UNUSED" ELSE state[c]]
      /\ ticks_to_sleep' = ticks_to_sleep
  BY DEF cleanup_all_threads
<1>2. state'[Process] = "UNUSED"
  BY <1>1, ContextFacts
<1>3. ASSUME NEW p \in Pids PROVE ~ Alive(p)'
  BY <1>1, ContextFacts DEF IInv, KernelKnowsThreads, Alive
<1> QED
  BY <1>1, <1>2, <1>3 DEF LibraryInv, Serving, cleanup_all_threads, At

\* A thread that runs is not being created, and its process is there.
LEMMA RunningThread ==
  ASSUME IInv, LibraryInv, NEW p \in Pids, state[p] = "READY"
  PROVE  /\ Serving /\ ~ Creating(p)
         /\ EnteredInv /\ NamedInv /\ NamedOnceInv /\ FillingInv /\ StacksInv /\ WaitInv
         /\ parent.idx \in Slots
<1>1. Serving
  BY DEF LibraryInv, Alive
<1>2. EnteredInv /\ NamedInv /\ NamedOnceInv /\ FillingInv /\ StacksInv /\ WaitInv
  BY <1>1, Serves
<1> QED
  BY <1>1, <1>2 DEF FillingInv, IInv, TypeOK, ParentLocals

LEMMA ThreadExitKeepsLibrary ==
  ASSUME IInv, LibraryInv, NEW p \in Pids, NEW v \in Values, gthread_exit(p, v)
  PROVE  LibraryInv'
<1>1. /\ state[p] = "READY" /\ thread[p].pc = "body"
      /\ UNCHANGED <<state, ticks_to_sleep, threads, tinfo, num_threads, mapped, parent>>
  BY DEF gthread_exit, ThreadAt
<1>2. Serving /\ ~ Creating(p) /\ EnteredInv /\ parent.idx \in Slots
  BY <1>1, RunningThread
<1>3. Own(p) # {}
  BY <1>1, <1>2 DEF EnteredInv, InTable, EntryOf, Own
<1>4. PICK i \in Slots :
        thread' = [thread EXCEPT ![p].pc = "store_value", ![p].idx = i, ![p].retval = v]
  BY <1>3 DEF gthread_exit
<1>5. /\ thread'[p].pc = "store_value" /\ thread'[p].stack = thread[p].stack
      /\ \A q \in Pids : q # p => thread'[q] = thread[q]
  BY <1>4 DEF IInv, TypeOK, ThreadLocals
<1>6. SameEntries /\ SameUse /\ SameThreads
  BY <1>1, <1>5 DEF SameEntries, SameUse, SameThreads
<1>7. EnteredInv' /\ NamedInv' /\ NamedOnceInv' /\ FillingInv' /\ StacksInv' /\ WaitInv'
  BY <1>1, <1>2, <1>5, <1>6, OthersKeep
<1> QED
  BY <1>1, <1>2, <1>7, StillServes DEF Serving, LibraryInv

LEMMA StoreValueKeepsLibrary ==
  ASSUME IInv, LibraryInv, NEW p \in Pids, store_value(p)
  PROVE  LibraryInv'
<1>1. /\ state[p] = "READY" /\ thread[p].pc = "store_value"
      /\ tinfo' = [tinfo EXCEPT ![thread[p].idx].ret_addr = thread[p].retval]
      /\ thread' = [thread EXCEPT ![p].pc = "store_status"]
      /\ UNCHANGED <<state, ticks_to_sleep, threads, num_threads, mapped, parent>>
  BY DEF store_value, ThreadAt
<1>2. Serving /\ ~ Creating(p) /\ parent.idx \in Slots
  BY <1>1, RunningThread
<1>3. /\ thread'[p].pc = "store_status" /\ thread'[p].stack = thread[p].stack
      /\ \A q \in Pids : q # p => thread'[q] = thread[q]
  BY <1>1 DEF IInv, TypeOK, ThreadLocals
<1>4. SameEntries
  BY <1>1 DEF SameEntries, IInv, TypeOK, Entry
<1>5. SameUse /\ SameThreads
  BY <1>1, <1>3 DEF SameUse, SameThreads
<1>6. EnteredInv' /\ NamedInv' /\ NamedOnceInv' /\ FillingInv' /\ StacksInv' /\ WaitInv'
  BY <1>1, <1>2, <1>3, <1>4, <1>5, OthersKeep
<1> QED
  BY <1>1, <1>2, <1>6, StillServes DEF Serving, LibraryInv

\* A thread on its way out writes to the entry it was created under.
LEMMA OwnEntry ==
  ASSUME IInv, LibraryInv, NEW p \in Pids, state[p] = "READY",
         thread[p].pc \in {"store_value", "store_status"}
  PROVE  thread[p].idx \in Slots /\ EntryOf(thread[p].idx, p)
<1> DEFINE j == thread[p].idx
<1>1. j \in Slots /\ tinfo[j].pid = p /\ tinfo[j].status # 2
  BY DEF IInv, StoringInv, Storing, Alive, TypeOK, ThreadLocals
<1>2. ~ Creating(p) /\ FillingInv
  BY RunningThread
<1>3. tinfo[j].status # 0
  BY <1>1, <1>2, ContextFacts DEF IInv, EntriesInv, BeingFilled, FillingInv, Creating
<1>4. tinfo[j].status \in 0..2
  BY <1>1 DEF IInv, TypeOK, Entry
<1> QED
  BY <1>1, <1>3, <1>4 DEF EntryOf

LEMMA StoreStatusKeepsLibrary ==
  ASSUME IInv, LibraryInv, NEW p \in Pids, store_status(p)
  PROVE  LibraryInv'
<1> DEFINE j == thread[p].idx
<1>1. /\ state[p] = "READY" /\ thread[p].pc = "store_status" /\ j \in Slots
      /\ tinfo' = [tinfo EXCEPT ![j].status = 2]
      /\ thread' = [thread EXCEPT ![p].pc = "exit", ![p].idx = 0, ![p].retval = NULL]
      /\ UNCHANGED <<state, ticks_to_sleep, threads, num_threads, mapped, parent>>
  BY DEF store_status, ThreadAt, IInv, TypeOK, ThreadLocals
<1>2. /\ Serving /\ ~ Creating(p) /\ parent.idx \in Slots
      /\ EnteredInv /\ NamedInv /\ NamedOnceInv /\ FillingInv /\ StacksInv /\ WaitInv
  BY <1>1, RunningThread
<1>3. EntryOf(j, p)
  BY <1>1, OwnEntry
<1>4. /\ thread'[p].pc = "exit"
      /\ \A q \in Pids : q # p => thread'[q] = thread[q]
  BY <1>1 DEF IInv, TypeOK, ThreadLocals
<1>5. /\ tinfo'[j].status = 2 /\ \A t \in Slots : t # j => tinfo'[t] = tinfo[t]
      /\ \A t \in Slots : tinfo'[t].pid = tinfo[t].pid /\ tinfo'[t].stack = tinfo[t].stack
  BY <1>1 DEF IInv, TypeOK, Entry
<1>6. /\ \A q \in Pids : InTable(q)' <=> InTable(q) /\ q # p
      /\ \A t \in Slots : GivenUp(t)' <=> GivenUp(t)
  BY <1>1, <1>4 DEF InTable, Creating, GivenUp, InJoin
<1>7. \A t \in Slots : tinfo[t].status = 1 /\ t # j => tinfo[t].pid # p
  BY <1>1, <1>2, <1>3 DEF NamedOnceInv, EntryOf
<1>8. EnteredInv'
  <2> SUFFICES ASSUME NEW q \in Pids, InTable(q)'
               PROVE  \E t \in Slots : EntryOf(t, q)' /\ (Alive(q)' => tinfo'[t].stack = thread'[q].stack)
    BY DEF EnteredInv
  <2>1. q # p /\ InTable(q)
    BY <1>6
  <2>2. PICK t \in Slots : EntryOf(t, q) /\ (Alive(q) => tinfo[t].stack = thread[q].stack)
    BY <2>1, <1>2 DEF EnteredInv
  <2>3. t # j
    BY <2>1, <2>2, <1>3 DEF EntryOf
  <2>4. EntryOf(t, q)' /\ tinfo'[t].stack = tinfo[t].stack
    BY <2>2, <2>3, <1>5 DEF EntryOf
  <2>5. (Alive(q)' <=> Alive(q)) /\ thread'[q].stack = thread[q].stack
    BY <2>1, <1>1, <1>4 DEF Alive
  <2> QED
    BY <2>2, <2>4, <2>5
<1>9. NamedInv'
  BY <1>1, <1>2, <1>5, <1>6, <1>7 DEF NamedInv
<1>10. NamedOnceInv'
  BY <1>1, <1>2, <1>5 DEF NamedOnceInv, EntryOf
<1>11. FillingInv'
  <2>1. \A q \in Pids : Creating(q)' => Creating(q) /\ q # p
    BY <1>1, <1>2 DEF Creating
  <2>2. parent.pc = "note_status" => parent.idx # j
    BY <1>2, <1>3 DEF FillingInv, EntryOf
  <2>3. \A q \in Pids : Creating(q)' =>
          /\ state'[q] = "WAITING" /\ ticks_to_sleep'[q] = 0
          /\ thread'[q].pc = "body" /\ thread'[q].stack = parent'.stack
    <3> SUFFICES ASSUME NEW q \in Pids, Creating(q)'
                 PROVE  /\ state'[q] = "WAITING" /\ ticks_to_sleep'[q] = 0
                        /\ thread'[q].pc = "body" /\ thread'[q].stack = parent'.stack
      OBVIOUS
    <3>1. Creating(q) /\ thread'[q] = thread[q]
      BY <2>1, <1>4
    <3> QED
      BY <3>1, <1>1, <1>2 DEF FillingInv
  <2>4. parent'.pc = "note_status" =>
          tinfo'[parent'.idx].pid = parent'.pid /\ tinfo'[parent'.idx].status = 0
    BY <2>2, <1>1, <1>2, <1>5 DEF FillingInv
  <2> QED
    BY <2>3, <2>4 DEF FillingInv
<1>12. StacksInv'
  BY <1>1, <1>2, <1>3, <1>5 DEF StacksInv, EntryOf
<1>13. WaitInv'
  BY <1>1, <1>2, <1>5 DEF WaitInv, Joined
<1> QED
  BY <1>1, <1>2, <1>8, <1>9, <1>10, <1>11, <1>12, <1>13, StillServes DEF Serving, LibraryInv

\* The states that handle_thread_exit leaves.
LEMMA ExitState ==
  ASSUME IInv, NEW p \in Pids, state[p] = "READY", NEW normal \in BOOLEAN, handle_thread_exit(p, normal)
  PROVE  /\ state'[Process] = "READY" /\ state'[p] = IF normal THEN "UNUSED" ELSE "EXITING"
         /\ \A q \in Pids : q # p => state'[q] = state[q] /\ thread'[q] = thread[q]
<1>1. OfPid(p) # {}
  BY KnownIsKnowing DEF IInv, Known, Living, OfPid
<1>2. state' = WakeParent([state EXCEPT ![p] = IF normal THEN "UNUSED" ELSE "EXITING"])
  BY <1>1 DEF handle_thread_exit
<1>3. \A q \in Pids : q # p => thread'[q] = thread[q]
  BY DEF handle_thread_exit, IInv, TypeOK
<1> QED
  BY <1>2, <1>3, ContextFacts DEF WakeParent, IInv, TypeOK

LEMMA ExitKeepsLibrary ==
  ASSUME IInv, LibraryInv, NEW p \in Pids, NEW normal \in BOOLEAN, state[p] = "READY",
         thread[p].pc = "exit" \/ (thread[p].pc = "body" /\ ~ normal),
         handle_thread_exit(p, normal)
  PROVE  LibraryInv'
<1>1. /\ thread' = [thread EXCEPT ![p].stack = NULL, ![p].pc = IF normal THEN "body" ELSE @]
      /\ UNCHANGED <<ticks_to_sleep, tinfo, num_threads, mapped, parent>>
  BY DEF handle_thread_exit
<1>2. /\ Serving /\ ~ Creating(p) /\ parent.idx \in Slots
      /\ EnteredInv /\ NamedInv /\ NamedOnceInv /\ FillingInv /\ StacksInv /\ WaitInv
  BY RunningThread
<1>5. /\ state'[Process] = "READY" /\ state'[p] = IF normal THEN "UNUSED" ELSE "EXITING"
      /\ \A q \in Pids : q # p => state'[q] = state[q]
  BY ExitState
<1>6. /\ ~ normal => thread'[p].pc = thread[p].pc
      /\ \A q \in Pids : q # p => thread'[q] = thread[q]
  BY <1>1 DEF IInv, TypeOK, ThreadLocals
<1>7. /\ \A q \in Pids : Creating(q)' <=> Creating(q)
      /\ \A t \in Slots : GivenUp(t)' <=> GivenUp(t)
  BY <1>1 DEF Creating, GivenUp, InJoin
<1>8. ASSUME NEW q \in Pids PROVE InTable(q)' <=> InTable(q)
  <2>1. CASE q = p
    BY <2>1, <1>2, <1>5, <1>6, <1>7 DEF InTable
  <2>2. CASE q # p
    BY <2>2, <1>5, <1>6, <1>7 DEF InTable
  <2> QED
    BY <2>1, <2>2
<1>9. EnteredInv'
  <2> SUFFICES ASSUME NEW q \in Pids, InTable(q)'
               PROVE  \E t \in Slots : EntryOf(t, q)' /\ (Alive(q)' => tinfo'[t].stack = thread'[q].stack)
    BY DEF EnteredInv
  <2>1. PICK t \in Slots : EntryOf(t, q) /\ (Alive(q) => tinfo[t].stack = thread[q].stack)
    BY <1>2, <1>8 DEF EnteredInv
  <2>2. EntryOf(t, q)' /\ tinfo'[t].stack = tinfo[t].stack
    BY <2>1, <1>1 DEF EntryOf
  <2>3. Alive(q)' => Alive(q) /\ thread'[q].stack = thread[q].stack
    BY <1>5, <1>6 DEF Alive
  <2> QED
    BY <2>1, <2>2, <2>3
<1>10. NamedInv'
  BY <1>1, <1>2, <1>5, <1>7, <1>8 DEF NamedInv
<1>11. NamedOnceInv' /\ StacksInv' /\ WaitInv'
  BY <1>1, <1>2 DEF NamedOnceInv, EntryOf, StacksInv, WaitInv, Joined
<1>12. FillingInv'
  <2>1. ASSUME NEW q \in Pids, Creating(q)'
        PROVE  /\ state'[q] = "WAITING" /\ ticks_to_sleep'[q] = 0
               /\ thread'[q].pc = "body" /\ thread'[q].stack = parent'.stack
    <3>1. Creating(q) /\ q # p
      BY <1>2, <1>7, <2>1
    <3>2. state'[q] = state[q] /\ thread'[q] = thread[q]
      BY <1>5, <1>6, <3>1
    <3> QED
      BY <1>1, <1>2, <3>1, <3>2 DEF FillingInv
  <2>2. parent'.pc = "note_status" =>
          tinfo'[parent'.idx].pid = parent'.pid /\ tinfo'[parent'.idx].status = 0
    BY <1>1, <1>2 DEF FillingInv
  <2> QED
    BY <2>1, <2>2 DEF FillingInv
<1> QED
  BY <1>1, <1>5, <1>9, <1>10, <1>11, <1>12, StillServes DEF Serving, LibraryInv

LEMMA ThreadEndsKeepsLibrary ==
  ASSUME IInv, LibraryInv, NEW p \in Pids, thread_exit(p) \/ segfault_exit(p)
  PROVE  LibraryInv'
<1>1. CASE thread_exit(p)
  <2>1. state[p] = "READY" /\ thread[p].pc = "exit"
    BY <1>1 DEF thread_exit, ThreadAt
  <2>2. PICK normal \in BOOLEAN : handle_thread_exit(p, normal)
    BY <1>1 DEF thread_exit
  <2> QED
    BY <2>1, <2>2, ExitKeepsLibrary
<1>2. CASE segfault_exit(p)
  BY <1>2, ExitKeepsLibrary DEF segfault_exit, ThreadAt
<1> QED
  BY <1>1, <1>2

LEMMA SleepKeepsLibrary ==
  ASSUME IInv, LibraryInv, Process \notin Sleepers, NEW c \in Contexts, do_sleep(c)
  PROVE  LibraryInv'
<1>1. /\ c \in Pids /\ state[c] = "READY"
      /\ state' = [state EXCEPT ![c] = "WAITING"]
      /\ UNCHANGED <<threads, tinfo, num_threads, mapped, parent, thread>>
  BY DEF do_sleep, ThreadAt, Contexts
<1>2. PICK n \in 1..MaxSleep : ticks_to_sleep' = [ticks_to_sleep EXCEPT ![c] = n]
  BY DEF do_sleep
<1>3. /\ state'[c] = "WAITING" /\ state'[Process] = state[Process]
      /\ ticks_to_sleep'[Process] = ticks_to_sleep[Process]
      /\ \A q \in Pids : q # c => state'[q] = state[q] /\ ticks_to_sleep'[q] = ticks_to_sleep[q]
  BY <1>1, <1>2, ContextFacts DEF IInv, TypeOK
<1>4. Serving /\ ~ Creating(c) /\ parent.idx \in Slots
  BY <1>1, RunningThread
<1>5. SameEntries /\ SameUse /\ SameThreads
  BY <1>1, <1>3 DEF SameEntries, SameUse, SameThreads, Living
<1>6. EnteredInv' /\ NamedInv' /\ NamedOnceInv' /\ FillingInv' /\ StacksInv' /\ WaitInv'
  BY <1>1, <1>3, <1>4, <1>5, OthersKeep
<1> QED
  BY <1>3, <1>4, <1>6, StillServes DEF Serving, LibraryInv

LEMMA SleepAccountKeepsLibrary ==
  ASSUME IInv, LibraryInv, do_sleep_account
  PROVE  LibraryInv'
<1>1. /\ ticks_to_sleep' = [c \in Contexts |->
           IF c \in Sleeping THEN ticks_to_sleep[c] - 1 ELSE ticks_to_sleep[c]]
      /\ state' = [c \in Contexts |->
           IF c \in Sleeping /\ ticks_to_sleep[c] = 1 THEN "READY" ELSE state[c]]
      /\ UNCHANGED <<threads, tinfo, num_threads, mapped, parent, thread>>
      /\ Sleeping # {}
  BY DEF do_sleep_account
<1>2. Process \notin Sleeping
  BY DEF Sleeping, LibraryInv
<1>3. Serving /\ parent.idx \in Slots
  BY <1>1, <1>2 DEF Sleeping, Serving, Contexts, LibraryInv, Alive, IInv, TypeOK, ParentLocals
<1>4. state'[Process] = state[Process] /\ ticks_to_sleep'[Process] = ticks_to_sleep[Process]
  BY <1>1, <1>2, ContextFacts
<1>5. ASSUME NEW q \in Pids, Creating(q) PROVE q \notin Sleeping
  BY <1>3, <1>5, Serves DEF FillingInv, Sleeping
<1>6. \A q \in Pids : Creating(q) =>
        state'[q] = state[q] /\ ticks_to_sleep'[q] = ticks_to_sleep[q] /\ thread'[q] = thread[q]
  BY <1>1, <1>5, ContextFacts
<1>7. SameEntries /\ SameUse /\ SameThreads
  BY <1>1, ContextFacts DEF SameEntries, SameUse, SameThreads, Living, Sleeping
<1>8. EnteredInv' /\ NamedInv' /\ NamedOnceInv' /\ FillingInv' /\ StacksInv' /\ WaitInv'
  BY <1>1, <1>3, <1>6, <1>7, OthersKeep
<1> QED
  BY <1>3, <1>4, <1>8, StillServes DEF Serving, LibraryInv

LEMMA UnchangedKeepsLibrary ==
  ASSUME LibraryInv, UNCHANGED vars
  PROVE  LibraryInv'
<1>1. /\ (Serving' <=> Serving) /\ ticks_to_sleep' = ticks_to_sleep
      /\ \A p \in Pids : Alive(p)' <=> Alive(p)
  BY DEF vars, Serving, Alive
<1>2. (EnteredInv' <=> EnteredInv) /\ (NamedInv' <=> NamedInv) /\ (NamedOnceInv' <=> NamedOnceInv)
  BY DEF vars, EnteredInv, NamedInv, NamedOnceInv, InTable, EntryOf, GivenUp, InJoin, Creating, Alive
<1>3. (FillingInv' <=> FillingInv) /\ (StacksInv' <=> StacksInv) /\ (WaitInv' <=> WaitInv)
  BY DEF vars, FillingInv, StacksInv, WaitInv, Joined, Creating
<1> QED
  BY <1>1, <1>2, <1>3 DEF LibraryInv, vars

LEMMA NextLibrary ==
  ASSUME IInv, LibraryInv, Process \notin Sleepers, [Next]_vars
  PROVE  LibraryInv'
<1>1. CASE gthread_create \/ cleanup_all_threads \/ \E t \in Slots : gthread_join(t)
  BY <1>1, CreateKeepsLibrary, CleanupKeepsLibrary, JoinKeepsLibrary
<1>2. CASE InLibrary
  BY <1>2, CloneKeepsLibrary, NotePidKeepsLibrary, NoteStatusKeepsLibrary, MakeReadyKeepsLibrary,
     JoinTestKeepsLibrary, WaitKeepsLibrary, ReclaimKeepsLibrary, MunmapKeepsLibrary DEF InLibrary
<1>3. CASE \E p \in Pids : InExit(p) \/ segfault_exit(p)
  BY <1>3, StoreValueKeepsLibrary, StoreStatusKeepsLibrary, ThreadEndsKeepsLibrary DEF InExit
<1>4. CASE \E p \in Pids, v \in Values : gthread_exit(p, v)
  BY <1>4, ThreadExitKeepsLibrary
<1>5. CASE do_sleep_account \/ \E c \in Contexts : do_sleep(c)
  BY <1>5, SleepAccountKeepsLibrary, SleepKeepsLibrary
<1>6. CASE UNCHANGED vars
  BY <1>6, UnchangedKeepsLibrary
<1> QED
  BY <1>1, <1>2, <1>3, <1>4, <1>5, <1>6 DEF Next

\* The library knows its threads, and clone finds a context.
LEMMA EntriesAreKnown ==
  ASSUME IInv, LibraryInv
  PROVE  LibraryKnowsThreads
<1> SUFFICES ASSUME Serving, NEW p \in Pids, thread[p].pc = "body",
                    Alive(p) \/ state[p] = "EXITING", ~ Creating(p)
             PROVE  /\ Cardinality(Entries(p)) = 1
                    /\ Alive(p) =>
                         /\ thread[p].stack \in mapped
                         /\ \A t \in Entries(p) : tinfo[t].stack = thread[p].stack
                         /\ \A q \in Pids \ {p} : Alive(q) /\ thread[q].pc # "exit" =>
                              thread[q].stack # thread[p].stack
  BY DEF LibraryKnowsThreads, Serving
<1>1. EnteredInv /\ NamedOnceInv /\ FillingInv /\ StacksInv
  BY Serves
<1>2. PICK t \in Slots : EntryOf(t, p) /\ (Alive(p) => tinfo[t].stack = thread[p].stack)
  BY <1>1 DEF EnteredInv, InTable, Alive
<1>3. Entries(p) = {t}
  BY <1>1, <1>2 DEF Entries, EntryOf, NamedOnceInv
<1>4. Cardinality(Entries(p)) = 1
  BY <1>3, FS_Singleton
<1>5. tinfo[t].stack \in mapped /\ tinfo[t].stack # NULL
  BY <1>1, <1>2 DEF EntryOf, StacksInv
<1>6. ASSUME NEW q \in Pids \ {p}, Alive(p), Alive(q), thread[q].pc # "exit"
      PROVE  thread[q].stack # thread[p].stack
  <2>1. CASE Creating(q)
    BY <2>1, <1>1, <1>2, <1>6 DEF FillingInv, StacksInv, Creating
  <2>2. CASE ~ Creating(q)
    <3>1. PICK u \in Slots : EntryOf(u, q) /\ tinfo[u].stack = thread[q].stack
      BY <2>2, <1>1, <1>6 DEF EnteredInv, InTable, Alive
    <3>2. u # t
      BY <3>1, <1>2, <1>6 DEF EntryOf
    <3> QED
      BY <3>1, <3>2, <1>1, <1>2, <1>5, <1>6 DEF StacksInv
  <2> QED
    BY <2>1, <2>2
<1> QED
  BY <1>2, <1>3, <1>4, <1>5, <1>6

LEMMA ContextIsLeft ==
  ASSUME IInv, LibraryInv, IsFiniteSet(Pids), MaxThreads <= Cardinality(Pids)
  PROVE  ContextsSuffice
<1> SUFFICES ASSUME parent.pc = "clone", \A p \in Pids : state[p] # "UNUSED" /\ ~ Overtaken(p)
             PROVE  FALSE
  BY DEF ContextsSuffice
<1>1. num_threads < MaxThreads /\ num_threads = Cardinality(Counted)
  BY DEF IInv, ParentInv, CountInv
<1>3. \A p \in Pids : InTable(p)
  BY DEF Overtaken, InTable, Creating, IInv, TypeOK, Contexts, CtxStates
<1>4. Serving
  BY DEF LibraryInv
<1>5. EnteredInv
  BY <1>4, Serves
<1> DEFINE entry == [p \in Pids |-> CHOOSE t \in Slots : EntryOf(t, p)]
<1>6. \A p \in Pids : entry[p] \in Slots /\ EntryOf(entry[p], p)
  BY <1>3, <1>5 DEF EnteredInv
<1>7. entry \in Injection(Pids, Counted)
  <2>1. \A p \in Pids : entry[p] \in Counted
    BY <1>6 DEF Counted, EntryOf, BeingFilled
  <2>2. \A p, q \in Pids : entry[p] = entry[q] => p = q
    BY <1>6 DEF EntryOf
  <2> QED
    BY <2>1, <2>2, Zenon DEF Injection, IsInjective
<1>8. Cardinality(Pids) <= Cardinality(Counted)
  BY <1>7, CountedFinite, FS_Injection
<1> QED
  BY <1>1, <1>8, CountedFinite, FS_CardinalityType, SizesAssumption

\* Without a sleeping process, so does what ties entries, stacks and waits to
\* the threads they were made for (gthread_create, gthread_join).
THEOREM LibraryInvariance ==
  ASSUME Process \notin Sleepers
  PROVE  Spec => []LibraryInv
<1>1. IInv /\ LibraryInv /\ [Next]_vars => LibraryInv'
  BY NextLibrary
<1> QED
  BY InitLibrary, Invariance, <1>1, PTL DEF Spec

\* Unless the process itself sleeps, a thread that runs or has crashed has one
\* entry, and while it runs a stack of its own that is mapped: no order of
\* creations, exits, crashes, reaped contexts and joins that overtake an exit
\* loses a thread, names it twice or gives its area away (gthread_create,
\* gthread_join, do_wait_for_thread).
THEOREM LibraryKnows ==
  ASSUME Process \notin Sleepers
  PROVE  Spec => []LibraryKnowsThreads
<1>1. IInv /\ LibraryInv => LibraryKnowsThreads
  BY EntriesAreKnown
<1> QED
  BY Invariance, LibraryInvariance, <1>1, PTL

\* With as many contexts as the limit of threads, clone finds one, unless a
\* context is held by a thread that was joined before its exit: no context is
\* lost to a thread that crashed and was joined (get_new_ctx, do_clone).
THEOREM CloneFindsContext ==
  ASSUME Process \notin Sleepers, IsFiniteSet(Pids), MaxThreads <= Cardinality(Pids)
  PROVE  Spec => []ContextsSuffice
<1>1. IInv /\ LibraryInv => ContextsSuffice
  BY ContextIsLeft
<1> QED
  BY Invariance, LibraryInvariance, <1>1, PTL

-----------------------------------------------------------------------------
(***************************************************************************)
(* Threads implements ThreadLibrary, again for a process that never        *)
(* sleeps.  An entry's value is NULL until its thread stores one.          *)
(***************************************************************************)

ValueAt(t) ==
  /\ tinfo[t].status = 0 => tinfo[t].ret_addr = NULL
  /\ \A p \in Pids : EntryOf(t, p) =>
       /\ Alive(p) => /\ thread[p].pc = "body" => tinfo[t].ret_addr = NULL
                      /\ thread[p].pc = "store_status" => tinfo[t].ret_addr = thread[p].retval
       /\ ~ Alive(p) => tinfo[t].ret_addr = NULL

ValueInv == Serving => \A t \in Slots : ValueAt(t)

LEMMA InitMapped == Init => ValueInv /\ Library!Init
<1> SUFFICES ASSUME Init PROVE ValueInv /\ Library!Init
  OBVIOUS
<1>1. \A t \in Slots : tinfo[t].status = 0 /\ tinfo[t].ret_addr = NULL
  BY DEF Init
<1>2. parent.retval = NULL
  BY DEF Init, InMain
<1>3. Outcomes = [t \in Slots |-> [phase |-> "absent", value |-> NULL]]
  BY <1>1 DEF Outcomes, Outcome, InUse
<1> QED
  BY <1>1, <1>2, <1>3 DEF ValueInv, ValueAt, EntryOf, Library!Init, Library!Absent

\* An entry that a step does not touch, nor the thread it names.
Untouched(t) ==
  /\ tinfo'[t].status = tinfo[t].status /\ tinfo'[t].ret_addr = tinfo[t].ret_addr
  /\ tinfo[t].status = 1 => tinfo'[t].pid = tinfo[t].pid
  /\ \A p \in Pids : EntryOf(t, p) =>
       /\ Alive(p)' <=> Alive(p)
       /\ Alive(p) => thread'[p].pc = thread[p].pc /\ thread'[p].retval = thread[p].retval

LEMMA OutcomeKept ==
  ASSUME TypeOK, Serving, Serving', NamedInv, NEW t \in Slots, ValueAt(t), Untouched(t)
  PROVE  Outcome(t)' = Outcome(t) /\ ValueAt(t)'
<1>1. /\ tinfo'[t].status = tinfo[t].status /\ tinfo'[t].ret_addr = tinfo[t].ret_addr
      /\ state[Process] # "UNUSED" /\ state'[Process] # "UNUSED"
  BY DEF Untouched, Serving
<1>2. CASE tinfo[t].status = 1
  <2>1. PICK p \in Pids : tinfo[t].pid = p
    BY <1>2 DEF NamedInv
  <2>2. /\ tinfo'[t].pid = p /\ (Alive(p)' <=> Alive(p))
        /\ Alive(p) => thread'[p].pc = thread[p].pc /\ thread'[p].retval = thread[p].retval
    BY <1>2, <2>1 DEF Untouched, EntryOf
  <2>3. (Works(t)' <=> Works(t)) /\ (~ Works(t) => Left(t)' = Left(t))
    BY <1>1, <1>2, <2>1, <2>2 DEF Works, Left, Alive
  <2>4. ValueAt(t)'
    BY <1>1, <1>2, <2>1, <2>2 DEF ValueAt, EntryOf
  <2> QED
    BY <1>1, <1>2, <2>3, <2>4 DEF Outcome, InUse
<1>3. CASE tinfo[t].status # 1
  <2>1. ~ Works(t) /\ ~ Works(t)'
    BY <1>1, <1>3 DEF Works
  <2>2. CASE tinfo[t].status = 2
    BY <1>1, <2>1, <2>2 DEF Outcome, InUse, Left, ValueAt, EntryOf
  <2>3. CASE tinfo[t].status = 0
    BY <1>1, <2>1, <2>3 DEF Outcome, InUse, ValueAt, EntryOf
  <2> QED
    BY <1>3, <2>2, <2>3 DEF TypeOK, Entry
<1> QED
  BY <1>2, <1>3

LEMMA QuietStep ==
  ASSUME IInv, LibraryInv, ValueInv, Serving, Serving', parent'.retval = parent.retval,
         \A t \in Slots : Untouched(t)
  PROVE  ValueInv' /\ UNCHANGED Library!vars
<1>1. \A t \in Slots : Outcome(t)' = Outcome(t) /\ ValueAt(t)'
  BY OutcomeKept, Serves DEF ValueInv, IInv
<1>2. Outcomes' = Outcomes
  BY <1>1 DEF Outcomes
<1> QED
  BY <1>1, <1>2 DEF ValueInv, Library!vars

\* A step that touches one entry.
LEMMA OneTouched ==
  ASSUME IInv, LibraryInv, ValueInv, Serving, Serving', NEW t \in Slots, ValueAt(t)',
         \A u \in Slots : u # t => Untouched(u)
  PROVE  ValueInv' /\ Outcomes' = [Outcomes EXCEPT ![t] = Outcome(t)']
<1>1. \A u \in Slots : u # t => Outcome(u)' = Outcome(u) /\ ValueAt(u)'
  BY OutcomeKept, Serves DEF ValueInv, IInv
<1>2. \A u \in Slots : ValueAt(u)'
  BY <1>1
<1>3. Outcomes' = [Outcomes EXCEPT ![t] = Outcome(t)']
  BY <1>1 DEF Outcomes
<1> QED
  BY <1>2, <1>3 DEF ValueInv

LEMMA CreateMapped ==
  ASSUME IInv, LibraryInv, ValueInv, gthread_create
  PROVE  ValueInv' /\ UNCHANGED Library!vars
<1>1. UNCHANGED <<state, tinfo, thread>> /\ state[Process] = "READY"
  BY DEF gthread_create, At
<1>2. parent'.retval = parent.retval
  BY DEF gthread_create, IInv, TypeOK, ParentLocals
<1>3. \A t \in Slots : Untouched(t)
  BY <1>1 DEF Untouched, Alive
<1> QED
  BY <1>1, <1>2, <1>3, QuietStep DEF Serving

LEMMA CloneMapped ==
  ASSUME IInv, LibraryInv, ValueInv, do_clone
  PROVE  ValueInv' /\ UNCHANGED Library!vars
<1>1. /\ parent.pc = "clone" /\ state[Process] = "READY" /\ tinfo' = tinfo
  BY DEF do_clone, At
<1>2. PICK p \in Pids :
        /\ state[p] = "UNUSED"
        /\ \/ /\ state' = [state EXCEPT ![p] = "WAITING"]
              /\ thread' = [thread EXCEPT ![p] = InBody(parent.stack)]
              /\ parent' = [parent EXCEPT !.pc = "note_pid", !.pid = p]
           \/ /\ state' = [state EXCEPT ![p] = "RUNNING"]
              /\ parent' = InMain(parent.retval)
              /\ UNCHANGED thread
  BY DEF do_clone
<1>3. /\ Serving /\ Serving' /\ parent'.retval = parent.retval
      /\ \A q \in Pids : q # p => state'[q] = state[q] /\ thread'[q] = thread[q]
  <2>1. \A q \in Pids : q # p => state'[q] = state[q] /\ thread'[q] = thread[q]
    BY <1>2, ContextFacts DEF IInv, TypeOK
  <2>2. state'[Process] = state[Process]
    BY <1>2, ContextFacts DEF IInv, TypeOK
  <2>3. parent'.retval = parent.retval
    <3>1. CASE parent' = [parent EXCEPT !.pc = "note_pid", !.pid = p]
      BY <3>1 DEF IInv, TypeOK, ParentLocals
    <3>2. CASE parent' = InMain(parent.retval)
      BY <3>2 DEF InMain
    <3> QED
      BY <1>2, <3>1, <3>2
  <2> QED
    BY <1>1, <2>1, <2>2, <2>3 DEF Serving
<1>4. ASSUME NEW t \in Slots PROVE ~ EntryOf(t, p)
  BY <1>1, <1>2, <1>3, Serves DEF NamedInv, EntryOf, GivenUp, InJoin, InTable
<1>5. \A t \in Slots : Untouched(t)
  BY <1>1, <1>3, <1>4 DEF Untouched, Alive
<1> QED
  BY <1>3, <1>5, QuietStep

LEMMA NotePidMapped ==
  ASSUME IInv, LibraryInv, ValueInv, note_pid
  PROVE  ValueInv' /\ UNCHANGED Library!vars
<1>1. parent.pc = "note_pid" /\ state[Process] = "READY" /\ UNCHANGED <<state, thread>>
  BY DEF note_pid, At
<1>2. PICK i \in Slots : /\ IsFirst(i, Free)
                         /\ tinfo' = [tinfo EXCEPT ![i].pid = parent.pid]
                         /\ parent' = [parent EXCEPT !.pc = "note_status", !.idx = i]
  BY <1>1, RoomLeft DEF note_pid
<1>3. parent'.retval = parent.retval
  BY <1>2 DEF IInv, TypeOK, ParentLocals
<1>4. \A t \in Slots : /\ tinfo'[t].status = tinfo[t].status /\ tinfo'[t].ret_addr = tinfo[t].ret_addr
                       /\ tinfo[t].status = 1 => tinfo'[t] = tinfo[t]
  BY <1>2 DEF IInv, TypeOK, Entry, IsFirst, Free
<1>5. \A t \in Slots : Untouched(t)
  BY <1>1, <1>4 DEF Untouched, Alive
<1> QED
  BY <1>1, <1>3, <1>5, QuietStep DEF Serving

LEMMA NoteStatusMapped ==
  ASSUME IInv, LibraryInv, ValueInv, note_status
  PROVE  ValueInv' /\ \E t \in Slots : Library!Create(t)
<1> DEFINE i == parent.idx
           p == parent.pid
<1>1. /\ parent.pc = "note_status" /\ state[Process] = "READY" /\ p \in Pids /\ i \in Slots
      /\ tinfo' = [tinfo EXCEPT ![i].status = 1, ![i].stack = parent.stack]
      /\ parent' = [parent EXCEPT !.pc = "make_ready"]
      /\ UNCHANGED <<state, thread>>
  BY DEF note_status, At, IInv, ParentInv, InCreate, TypeOK, ParentLocals
<1>2. Serving /\ Serving' /\ parent'.retval = parent.retval
  BY <1>1 DEF Serving, IInv, TypeOK, ParentLocals
<1>3. /\ state[p] = "WAITING" /\ thread[p].pc = "body"
      /\ tinfo[i].pid = p /\ tinfo[i].status = 0 /\ tinfo[i].ret_addr = NULL
  BY <1>1, <1>2, Serves DEF FillingInv, Creating, ValueInv, ValueAt
<1>4. /\ tinfo'[i].status = 1 /\ tinfo'[i].pid = p /\ tinfo'[i].ret_addr = NULL
      /\ \A t \in Slots : t # i => tinfo'[t] = tinfo[t]
  BY <1>1, <1>3 DEF IInv, TypeOK, Entry
<1>5. /\ Outcome(i) = [phase |-> "absent", value |-> NULL]
      /\ Outcome(i)' = [phase |-> "running", value |-> NULL]
  BY <1>1, <1>3, <1>4 DEF Outcome, InUse, Works, Alive
<1>6. ValueAt(i)'
  <2>1. thread'[p].pc = "body" /\ i' = i
    BY <1>1, <1>3 DEF IInv, TypeOK, ParentLocals
  <2> QED
    BY <2>1, <1>4 DEF ValueAt, EntryOf
<1>7. \A t \in Slots : t # i => Untouched(t)
  BY <1>1, <1>4 DEF Untouched, Alive
<1>8. ValueInv' /\ Outcomes' = [Outcomes EXCEPT ![i] = Outcome(i)']
  BY <1>1, <1>2, <1>6, <1>7, OneTouched
<1>9. Library!Create(i)
  BY <1>1, <1>2, <1>5, <1>8 DEF Library!Create, Library!Absent, Library!Running, Outcomes
<1> QED
  BY <1>1, <1>8, <1>9

LEMMA MakeReadyMapped ==
  ASSUME IInv, LibraryInv, ValueInv, do_make_thread_ready
  PROVE  ValueInv' /\ UNCHANGED Library!vars
<1>1. /\ state[Process] = "READY" /\ parent.pid \in Pids /\ state[parent.pid] # "RUNNING"
      /\ state' = IF state[parent.pid] \in {"EXITING", "UNUSED"} THEN state
                  ELSE [state EXCEPT ![parent.pid] = "READY"]
      /\ parent' = InMain(parent.retval)
      /\ UNCHANGED <<tinfo, thread>>
  BY DEF do_make_thread_ready, At, IInv, ParentInv, InCreate
<1>2. Serving /\ Serving' /\ parent'.retval = parent.retval
  BY <1>1, ContextFacts DEF Serving, IInv, TypeOK, InMain
<1>3. \A q \in Pids : Alive(q)' <=> Alive(q)
  BY <1>1, ContextFacts DEF Alive, IInv, TypeOK, CtxStates
<1>4. \A t \in Slots : Untouched(t)
  BY <1>1, <1>3 DEF Untouched
<1> QED
  BY <1>2, <1>4, QuietStep

LEMMA JoinMapped ==
  ASSUME IInv, LibraryInv, ValueInv, join_test \/ \E t \in Slots : gthread_join(t)
  PROVE  ValueInv' /\ UNCHANGED Library!vars
<1>1. UNCHANGED <<state, tinfo, thread>> /\ state[Process] = "READY"
  BY DEF gthread_join, join_test, At
<1>2. parent'.retval = parent.retval
  BY DEF gthread_join, join_test, IInv, TypeOK, ParentLocals
<1>3. \A t \in Slots : Untouched(t)
  BY <1>1 DEF Untouched, Alive
<1> QED
  BY <1>1, <1>2, <1>3, QuietStep DEF Serving

LEMMA WaitMapped ==
  ASSUME IInv, LibraryInv, ValueInv, do_wait_for_thread
  PROVE  ValueInv' /\ UNCHANGED Library!vars
<1> DEFINE p == tinfo[parent.idx].pid
           dead == state[p] \in {"UNUSED", "EXITING"}
<1>1. /\ state[Process] = "READY" /\ p \in Pids \cup {NoPid}
      /\ state' = IF dead THEN [state EXCEPT ![p] = "UNUSED"]
                  ELSE [state EXCEPT ![Process] = "WAITING"]
      /\ parent' = [parent EXCEPT !.pc = "join", !.failed = dead]
      /\ UNCHANGED <<tinfo, thread>>
  BY DEF do_wait_for_thread, At, IInv, TypeOK, ParentLocals, Entry
<1>2. /\ Serving /\ Serving'
      /\ \A q \in Pids : Alive(q)' <=> Alive(q)
  BY <1>1, ContextsAssumption, ContextFacts DEF Serving, Alive, IInv, TypeOK
<1>3. parent'.retval = parent.retval
  BY <1>1 DEF IInv, TypeOK, ParentLocals
<1>4. \A t \in Slots : Untouched(t)
  BY <1>1, <1>2 DEF Untouched
<1> QED
  BY <1>2, <1>3, <1>4, QuietStep

\* The value goes to the program in the step that clears the entry.
LEMMA ReclaimMapped ==
  ASSUME IInv, LibraryInv, ValueInv, join_reclaim
  PROVE  ValueInv' /\ \E t \in Slots : Library!Join(t)
<1> SUFFICES ASSUME NEW i \in Slots, i = parent.idx
             PROVE  ValueInv' /\ Library!Join(i)
  BY DEF IInv, TypeOK, ParentLocals
<1>1. /\ parent.pc = "reclaim" /\ state[Process] = "READY"
      /\ parent' = [parent EXCEPT !.pc = "munmap", !.retval = tinfo[i].ret_addr]
      /\ tinfo' = [tinfo EXCEPT ![i].status = 0, ![i].pid = NoPid, ![i].ret_addr = NULL]
      /\ UNCHANGED <<state, thread>>
  BY DEF join_reclaim, At
<1>2. Serving /\ Serving' /\ parent'.retval = tinfo[i].ret_addr
  BY <1>1 DEF Serving, IInv, TypeOK, ParentLocals
<1>3. /\ tinfo'[i].status = 0 /\ tinfo'[i].ret_addr = NULL
      /\ \A t \in Slots : t # i => tinfo'[t] = tinfo[t]
  BY <1>1 DEF IInv, TypeOK, Entry
<1>4. Outcome(i) = [phase |-> "ended", value |-> tinfo[i].ret_addr]
  <2>1. tinfo[i].status \in {1, 2} /\ (tinfo[i].status = 1 => parent.failed)
    BY <1>1 DEF IInv, ParentInv, InJoin, Joined, TypeOK, Entry
  <2>2. CASE tinfo[i].status = 2
    BY <2>2, <1>1 DEF Outcome, InUse, Works, Left
  <2>3. CASE tinfo[i].status = 1
    <3>1. PICK p \in Pids : tinfo[i].pid = p /\ state[p] = "UNUSED"
      BY <2>1, <2>3, <1>1, <1>2, Serves DEF NamedInv, GivenUp, InJoin
    <3>2. ~ Alive(p) /\ tinfo[i].ret_addr = NULL
      BY <2>3, <3>1, <1>2 DEF Alive, ValueInv, ValueAt, EntryOf
    <3> QED
      BY <2>3, <3>1, <3>2, <1>1 DEF Outcome, InUse, Works, Left
  <2> QED
    BY <2>1, <2>2, <2>3
<1>5. Outcome(i)' = [phase |-> "absent", value |-> NULL]
  BY <1>3 DEF Outcome, InUse
<1>6. ValueAt(i)'
  BY <1>3 DEF ValueAt, EntryOf
<1>7. \A t \in Slots : t # i => Untouched(t)
  BY <1>1, <1>3 DEF Untouched, Alive
<1>8. ValueInv' /\ Outcomes' = [Outcomes EXCEPT ![i] = Outcome(i)']
  BY <1>2, <1>6, <1>7, OneTouched
<1>9. Library!Join(i)
  BY <1>2, <1>4, <1>5, <1>8 DEF Library!Join, Library!Absent, Outcomes
<1> QED
  BY <1>8, <1>9

LEMMA MunmapMapped ==
  ASSUME IInv, LibraryInv, ValueInv, join_munmap
  PROVE  ValueInv' /\ UNCHANGED Library!vars
<1>1. /\ state[Process] = "READY" /\ parent' = InMain(parent.retval)
      /\ tinfo' = [tinfo EXCEPT ![parent.idx].stack = NULL] /\ UNCHANGED <<state, thread>>
  BY DEF join_munmap, At
<1>2. \A t \in Slots : /\ tinfo'[t].status = tinfo[t].status /\ tinfo'[t].ret_addr = tinfo[t].ret_addr
                       /\ tinfo'[t].pid = tinfo[t].pid
  BY <1>1 DEF IInv, TypeOK, Entry
<1>3. parent'.retval = parent.retval
  BY <1>1 DEF InMain
<1>4. \A t \in Slots : Untouched(t)
  BY <1>1, <1>2 DEF Untouched, Alive
<1> QED
  BY <1>1, <1>3, <1>4, QuietStep DEF Serving

LEMMA CleanupMapped ==
  ASSUME IInv, cleanup_all_threads
  PROVE  ValueInv' /\ Library!Exit
<1>1. state'[Process] = "UNUSED" /\ parent' = parent
  BY ContextFacts DEF cleanup_all_threads
<1>2. Outcomes' = [t \in Slots |-> [phase |-> "absent", value |-> NULL]]
  BY <1>1 DEF Outcomes, Outcome, InUse
<1> QED
  BY <1>1, <1>2 DEF ValueInv, Serving, Library!Exit, Library!Absent

\* What a thread does touches no entry but its own.
LEMMA OnlyOwn ==
  ASSUME IInv, LibraryInv, NEW p \in Pids, state[p] = "READY", NEW t \in Slots, EntryOf(t, p),
         \A u \in Slots : u # t => tinfo'[u] = tinfo[u],
         \A q \in Pids : q # p => state'[q] = state[q] /\ thread'[q] = thread[q]
  PROVE  \A u \in Slots : u # t => Untouched(u)
<1>1. \A u \in Slots : u # t => ~ EntryOf(u, p)
  BY RunningThread DEF NamedOnceInv, EntryOf
<1> QED
  BY <1>1 DEF Untouched, Alive

LEMMA ThreadExitMapped ==
  ASSUME IInv, LibraryInv, ValueInv, NEW p \in Pids, NEW v \in Values, gthread_exit(p, v)
  PROVE  ValueInv' /\ \E t \in Slots : Library!End(t, v)
<1>1. /\ state[p] = "READY" /\ thread[p].pc = "body"
      /\ UNCHANGED <<state, tinfo, parent>>
  BY DEF gthread_exit, ThreadAt
<1>2. /\ Serving /\ Serving' /\ ~ Creating(p) /\ EnteredInv
  BY <1>1, RunningThread DEF Serving
<1>3. PICK t \in Slots : EntryOf(t, p)
  BY <1>1, <1>2 DEF EnteredInv, InTable
<1>4. PICK i \in Slots :
        thread' = [thread EXCEPT ![p].pc = "store_value", ![p].idx = i, ![p].retval = v]
  <2>1. Own(p) # {}
    BY <1>3 DEF Own, EntryOf
  <2> QED
    BY <2>1 DEF gthread_exit
<1>5. /\ thread'[p].pc = "store_value" /\ thread'[p].retval = v
      /\ \A q \in Pids : q # p => thread'[q] = thread[q]
  BY <1>4 DEF IInv, TypeOK, ThreadLocals
<1>6. \A u \in Slots : u # t => Untouched(u)
  BY <1>1, <1>3, <1>5, OnlyOwn
<1>7. /\ Outcome(t) = [phase |-> "running", value |-> NULL]
      /\ Outcome(t)' = [phase |-> "ended", value |-> v]
  BY <1>1, <1>2, <1>3, <1>5 DEF Outcome, InUse, Works, Left, Alive, EntryOf, Serving
<1>8. ValueAt(t)'
  BY <1>1, <1>3, <1>5 DEF ValueAt, EntryOf, Alive
<1>9. ValueInv' /\ Outcomes' = [Outcomes EXCEPT ![t] = Outcome(t)']
  BY <1>2, <1>6, <1>8, OneTouched
<1>10. Library!End(t, v)
  BY <1>1, <1>7, <1>9 DEF Library!End, Library!Running, Library!Ended, Outcomes
<1> QED
  BY <1>9, <1>10

LEMMA StoreValueMapped ==
  ASSUME IInv, LibraryInv, ValueInv, NEW p \in Pids, store_value(p)
  PROVE  ValueInv' /\ UNCHANGED Library!vars
<1> SUFFICES ASSUME NEW t \in Slots, t = thread[p].idx, EntryOf(t, p)
             PROVE  ValueInv' /\ UNCHANGED Library!vars
  BY OwnEntry DEF store_value, ThreadAt
<1>1. /\ state[p] = "READY" /\ thread[p].pc = "store_value"
      /\ tinfo' = [tinfo EXCEPT ![t].ret_addr = thread[p].retval]
      /\ thread' = [thread EXCEPT ![p].pc = "store_status"]
      /\ UNCHANGED <<state, parent>>
  BY DEF store_value, ThreadAt
<1>2. Serving /\ Serving'
  BY <1>1, RunningThread DEF Serving
<1>3. /\ thread'[p].pc = "store_status" /\ thread'[p].retval = thread[p].retval
      /\ \A q \in Pids : q # p => thread'[q] = thread[q]
  BY <1>1 DEF IInv, TypeOK, ThreadLocals
<1>4. /\ tinfo'[t].ret_addr = thread[p].retval
      /\ tinfo'[t].status = 1 /\ tinfo'[t].pid = p
      /\ \A u \in Slots : u # t => tinfo'[u] = tinfo[u]
  BY <1>1 DEF IInv, TypeOK, Entry, EntryOf
<1>5. \A u \in Slots : u # t => Untouched(u)
  BY <1>1, <1>3, <1>4, OnlyOwn
<1>6. Outcome(t)' = Outcome(t)
  BY <1>1, <1>2, <1>3, <1>4 DEF Outcome, InUse, Works, Left, Alive, EntryOf, Serving
<1>7. ValueAt(t)'
  BY <1>1, <1>3, <1>4 DEF ValueAt, EntryOf, Alive
<1>8. ValueInv' /\ Outcomes' = [Outcomes EXCEPT ![t] = Outcome(t)']
  BY <1>2, <1>5, <1>7, OneTouched
<1>9. Outcomes' = Outcomes
  BY <1>6, <1>8 DEF Outcomes
<1> QED
  BY <1>1, <1>8, <1>9 DEF Library!vars

LEMMA StoreStatusMapped ==
  ASSUME IInv, LibraryInv, ValueInv, NEW p \in Pids, store_status(p)
  PROVE  ValueInv' /\ UNCHANGED Library!vars
<1> SUFFICES ASSUME NEW t \in Slots, t = thread[p].idx, EntryOf(t, p)
             PROVE  ValueInv' /\ UNCHANGED Library!vars
  BY OwnEntry DEF store_status, ThreadAt
<1>1. /\ state[p] = "READY" /\ thread[p].pc = "store_status"
      /\ tinfo' = [tinfo EXCEPT ![t].status = 2]
      /\ thread' = [thread EXCEPT ![p].pc = "exit", ![p].idx = 0, ![p].retval = NULL]
      /\ UNCHANGED <<state, parent>>
  BY DEF store_status, ThreadAt
<1>2. Serving /\ Serving'
  BY <1>1, RunningThread DEF Serving
<1>3. \A q \in Pids : q # p => thread'[q] = thread[q]
  BY <1>1 DEF IInv, TypeOK
<1>4. tinfo[t].ret_addr = thread[p].retval
  BY <1>1, <1>2 DEF ValueInv, ValueAt, Alive
<1>5. /\ tinfo'[t].status = 2 /\ tinfo'[t].ret_addr = tinfo[t].ret_addr
      /\ \A u \in Slots : u # t => tinfo'[u] = tinfo[u]
  BY <1>1 DEF IInv, TypeOK, Entry
<1>6. \A u \in Slots : u # t => Untouched(u)
  BY <1>1, <1>3, <1>5, OnlyOwn
<1>7. Outcome(t)' = Outcome(t)
  BY <1>1, <1>2, <1>4, <1>5 DEF Outcome, InUse, Works, Left, Alive, EntryOf, Serving
<1>8. ValueAt(t)'
  BY <1>5 DEF ValueAt, EntryOf
<1>9. ValueInv' /\ Outcomes' = [Outcomes EXCEPT ![t] = Outcome(t)']
  BY <1>2, <1>6, <1>8, OneTouched
<1>10. Outcomes' = Outcomes
  BY <1>7, <1>9 DEF Outcomes
<1> QED
  BY <1>1, <1>9, <1>10 DEF Library!vars

\* Without the process the library shows nothing.
LEMMA AllAbsent ==
  ASSUME ~ Serving, ~ Serving'
  PROVE  Outcomes' = Outcomes
  BY DEF Outcomes, Outcome, InUse, Serving

LEMMA CrashMapped ==
  ASSUME IInv, LibraryInv, ValueInv, NEW p \in Pids, segfault_exit(p)
  PROVE  ValueInv' /\ \E t \in Slots : Library!End(t, NULL)
<1>1. /\ state[p] = "READY" /\ thread[p].pc = "body" /\ handle_thread_exit(p, FALSE)
      /\ UNCHANGED <<tinfo, parent>>
  BY DEF segfault_exit, ThreadAt, handle_thread_exit
<1>2. /\ Serving /\ ~ Creating(p) /\ EnteredInv
  BY <1>1, RunningThread DEF Serving
<1>3. PICK t \in Slots : EntryOf(t, p)
  BY <1>1, <1>2 DEF EnteredInv, InTable
<1>4. /\ state'[p] = "EXITING" /\ state'[Process] = "READY"
      /\ \A q \in Pids : q # p => state'[q] = state[q] /\ thread'[q] = thread[q]
  BY <1>1, ExitState
<1>5. \A u \in Slots : u # t => Untouched(u)
  BY <1>1, <1>3, <1>4, OnlyOwn
<1>6. /\ Outcome(t) = [phase |-> "running", value |-> NULL]
      /\ Outcome(t)' = [phase |-> "ended", value |-> NULL]
  BY <1>1, <1>2, <1>3, <1>4 DEF Outcome, InUse, Works, Left, Alive, EntryOf, Serving
<1>7. ValueAt(t)'
  <2>1. tinfo[t].ret_addr = NULL
    BY <1>1, <1>2, <1>3 DEF ValueInv, ValueAt, Alive
  <2> QED
    BY <2>1, <1>1, <1>3, <1>4 DEF ValueAt, EntryOf, Alive
<1>8. ValueInv' /\ Outcomes' = [Outcomes EXCEPT ![t] = Outcome(t)']
  BY <1>2, <1>4, <1>5, <1>7, OneTouched DEF Serving
<1>9. Library!End(t, NULL)
  BY <1>1, <1>6, <1>8 DEF Library!End, Library!Running, Library!Ended, Outcomes
<1> QED
  BY <1>8, <1>9

LEMMA GoneMapped ==
  ASSUME IInv, LibraryInv, ValueInv, NEW p \in Pids, thread_exit(p)
  PROVE  ValueInv' /\ UNCHANGED Library!vars
<1>1. /\ state[p] = "READY" /\ thread[p].pc = "exit"
      /\ UNCHANGED <<tinfo, parent>>
  BY DEF thread_exit, ThreadAt, handle_thread_exit
<1>2. PICK normal \in BOOLEAN : handle_thread_exit(p, normal)
  BY DEF thread_exit
<1>3. Serving /\ NamedInv
  BY <1>1, RunningThread
<1>4. /\ state'[Process] = "READY"
      /\ \A q \in Pids : q # p => state'[q] = state[q] /\ thread'[q] = thread[q]
  BY <1>1, <1>2, ExitState
<1>5. \A t \in Slots : ~ EntryOf(t, p)
  BY <1>1, <1>3 DEF NamedInv, InTable, EntryOf
<1>6. \A t \in Slots : Untouched(t)
  BY <1>1, <1>4, <1>5 DEF Untouched, Alive
<1> QED
  BY <1>1, <1>3, <1>4, <1>6, QuietStep DEF Serving

LEMMA SleepMapped ==
  ASSUME IInv, LibraryInv, ValueInv,
         do_sleep_account \/ (Process \notin Sleepers /\ \E c \in Contexts : do_sleep(c))
  PROVE  ValueInv' /\ UNCHANGED Library!vars
<1>1. UNCHANGED <<tinfo, parent, thread>>
  BY DEF do_sleep_account, do_sleep
<1>2. \A q \in Pids : Alive(q)' <=> Alive(q)
  <2>1. CASE do_sleep_account
    BY <2>1, ContextFacts DEF do_sleep_account, Alive, Sleeping
  <2>2. CASE \E c \in Contexts : do_sleep(c)
    BY <2>2, ContextFacts DEF do_sleep, At, ThreadAt, Alive, IInv, TypeOK
  <2> QED
    BY <2>1, <2>2
<1>3. Serving' <=> Serving
  <2>1. CASE do_sleep_account
    BY <2>1, ContextFacts DEF do_sleep_account, Serving, Sleeping
  <2>2. CASE \E c \in Contexts : do_sleep(c)
    BY <2>2, ContextFacts DEF do_sleep, At, ThreadAt, Serving, IInv, TypeOK
  <2> QED
    BY <2>1, <2>2
<1>4. \A t \in Slots : Untouched(t)
  BY <1>1, <1>2 DEF Untouched
<1>5. CASE Serving
  BY <1>1, <1>3, <1>4, <1>5, QuietStep
<1>6. CASE ~ Serving
  BY <1>1, <1>3, <1>6, AllAbsent DEF ValueInv, Library!vars
<1> QED
  BY <1>5, <1>6

LEMMA StutterMapped ==
  ASSUME ValueInv, UNCHANGED vars
  PROVE  ValueInv' /\ UNCHANGED Library!vars
<1>1. ValueInv'
  BY DEF vars, ValueInv, Serving, ValueAt, EntryOf, Alive
<1>2. Outcomes' = Outcomes
  BY DEF vars, Outcomes, Outcome, InUse, Works, Left, Alive
<1> QED
  BY <1>1, <1>2 DEF vars, Library!vars

LEMMA StepMapped ==
  ASSUME IInv, LibraryInv, ValueInv, Process \notin Sleepers, [Next]_vars
  PROVE  ValueInv' /\ [Library!Next]_(Library!vars)
<1>1. CASE gthread_create \/ cleanup_all_threads \/ \E t \in Slots : gthread_join(t)
  BY <1>1, CreateMapped, CleanupMapped, JoinMapped DEF Library!Next
<1>2. CASE do_clone \/ note_pid \/ do_make_thread_ready \/ join_test \/ do_wait_for_thread \/ join_munmap
  BY <1>2, CloneMapped, NotePidMapped, MakeReadyMapped, JoinMapped, WaitMapped, MunmapMapped
<1>3. CASE note_status \/ join_reclaim
  BY <1>3, NoteStatusMapped, ReclaimMapped DEF Library!Next
<1>4. CASE \E p \in Pids : InExit(p)
  BY <1>4, StoreValueMapped, StoreStatusMapped, GoneMapped DEF InExit
<1>5. CASE \E p \in Pids : segfault_exit(p)
  BY <1>5, CrashMapped DEF Library!Next
<1>6. CASE \E p \in Pids, v \in Values : gthread_exit(p, v)
  BY <1>6, ThreadExitMapped DEF Library!Next
<1>7. CASE do_sleep_account \/ \E c \in Contexts : do_sleep(c)
  BY <1>7, SleepMapped
<1>8. CASE UNCHANGED vars
  BY <1>8, StutterMapped
<1> QED
  BY <1>1, <1>2, <1>3, <1>4, <1>5, <1>6, <1>7, <1>8 DEF Next, InLibrary

\* Unless the process itself sleeps, a join returns what its thread returned,
\* once, and only after the thread gave it or crashed, for any number of
\* threads, contexts and values and every order of their steps (gthread_create,
\* gthread_exit, gthread_join over the system calls).
THEOREM ImplementsLibrary ==
  ASSUME Process \notin Sleepers
  PROVE  Spec => KeepsLibraryPromise
<1>1. IInv /\ LibraryInv /\ ValueInv /\ [Next]_vars => ValueInv' /\ [Library!Next]_(Library!vars)
  BY StepMapped
<1> QED
  BY <1>1, InitMapped, Invariance, LibraryInvariance, PTL
  DEF Spec, KeepsLibraryPromise, Library!Spec

=============================================================================
