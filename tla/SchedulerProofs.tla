--------------------------- MODULE SchedulerProofs ---------------------------
(***************************************************************************)
(* Proofs about the scheduler for any number of contexts: what the loop of *)
(* pick_next_context finds, that two contexts never run, and when a        *)
(* process that has exited runs again.                                     *)
(***************************************************************************)
EXTENDS Scheduler, WellFoundedInduction, FiniteSetTheorems, TLAPS

States == {"UNUSED", "READY", "RUNNING", "WAITING"}

TypeOK ==
  /\ state \in [Pids -> States]
  /\ ppid \in [Pids -> Pids]
  /\ ticks \in [Pids -> Nat]
  /\ cur \in Pids
  /\ gone \in SUBSET Users
  /\ halted \in BOOLEAN

IInv == TypeOK /\ OneRuns

-------------------------------------------------------------------------------
(* Facts about numbers. *)

(* A non-empty set of naturals has a least element. *)
LEMMA LeastOf ==
  ASSUME NEW S, S \subseteq Nat, S # {}
  PROVE  \E n \in S : \A m \in S : n <= m
<1> DEFINE Below == {d \in Nat \X Nat : d[1] < d[2]}
<1>1. IsWellFoundedOn(Below, Nat)
  BY NatLessThanWellFounded, Zenon DEF OpToRel
<1>2. \A m, n \in Nat : m < n => <<m, n>> \in Below
  OBVIOUS
<1> HIDE DEF Below
<1>3. PICK n \in S : \A m \in S : ~(<<m, n>> \in Below)
  BY <1>1, WFMin
<1>4. ASSUME NEW m \in S PROVE n <= m
  <2>1. m \in Nat /\ n \in Nat
    BY Zenon
  <2>2. ~(m < n)
    BY <1>2, <1>3, <2>1, Zenon
  <2> QED
    BY <2>1, <2>2, SMT
<1> QED
  BY <1>4

(* Induction, as a fact about a set. *)
LEMMA Inductive ==
  ASSUME NEW S, NEW N \in Nat, 0 \in S, \A n \in 0..(N - 1) : n \in S => n + 1 \in S
  PROVE  0..N \subseteq S
<1> DEFINE Bad == {n \in 0..N : n \notin S}
<1>1. ASSUME Bad # {} PROVE FALSE
  <2>1. Bad \subseteq Nat
    OBVIOUS
  <2> HIDE DEF Bad
  <2>2. PICK n \in Bad : \A m \in Bad : n <= m
    BY <1>1, <2>1, LeastOf
  <2>3. n \in 0..N /\ n \notin S /\ \A m \in 0..N : m \notin S => n <= m
    BY <2>2 DEF Bad
  <2>4. n # 0 /\ n - 1 \in 0..(N - 1)
    BY <2>3
  <2>5. n - 1 \in S
    BY <2>3, <2>4
  <2>6. (n - 1) + 1 \in S
    BY <2>4, <2>5
  <2>7. (n - 1) + 1 = n
    BY <2>3
  <2> QED
    BY <2>3, <2>6, <2>7
<1> QED
  BY <1>1

-------------------------------------------------------------------------------
LEMMA PidFacts ==
  /\ MAX_PROCESSES \in Nat /\ MAX_PROCESSES > 1
  /\ Pids = Users \cup {0} /\ 0 \notin Users /\ 0 \in Pids /\ 1 \in Users
  /\ Users \subseteq Nat /\ Debuggers \subseteq Users
  BY SchedulerAssumption DEF Pids, Users

-----------------------------------------------------------------------------
(***************************************************************************)
(* The loop.  It comes to the contexts in the order of Distance, the       *)
(* number of turns it has left: past c to the last, then from 1 to c, and  *)
(* then it gives up.                                                       *)
(***************************************************************************)

Distance(c, pid) ==
  IF pid = 0 THEN 0
  ELSE IF pid > c THEN MAX_PROCESSES - pid + c ELSE c - pid + 1

ReadyAhead(st, c, n) == {q \in Users : st[q] = "READY" /\ Distance(c, q) <= n}
IsNext(c, S, q) == q \in S /\ \A r \in S : Distance(c, r) <= Distance(c, q)
Nearest(c, S) == IF S = {} THEN 0 ELSE CHOOSE q \in S : IsNext(c, S, q)
Found(st, c, n) == Nearest(c, ReadyAhead(st, c, n))

LEMMA Distances ==
  ASSUME NEW c \in Pids
  PROVE  /\ \A p \in Pids : Distance(c, p) \in 0..MAX_PROCESSES
         /\ \A p \in Pids : Distance(c, p) = 0 <=> p = 0
         /\ \A p, q \in Users : Distance(c, p) = Distance(c, q) => p = q
         /\ \A p \in Users : After(c, p) \in Pids /\ Distance(c, After(c, p)) = Distance(c, p) - 1
<1>1. c \in Nat /\ c < MAX_PROCESSES /\ MAX_PROCESSES \in Nat /\ MAX_PROCESSES > 1
  BY SchedulerAssumption DEF Pids
<1>2. \A p \in Pids : p \in Nat /\ p < MAX_PROCESSES
  BY <1>1 DEF Pids
<1>3. \A p \in Users : p \in Nat /\ 0 < p /\ p < MAX_PROCESSES
  BY <1>1 DEF Users
<1>4. \A p \in Pids : Distance(c, p) \in 0..MAX_PROCESSES /\ (Distance(c, p) = 0 <=> p = 0)
  BY <1>1, <1>2 DEF Distance
<1>5. \A p, q \in Users : Distance(c, p) = Distance(c, q) => p = q
  BY <1>1, <1>3 DEF Distance
<1>6. ASSUME NEW p \in Users
      PROVE  After(c, p) \in Pids /\ Distance(c, After(c, p)) = Distance(c, p) - 1
  <2>1. CASE p = c
    BY <2>1, <1>1, <1>3 DEF After, Distance, Pids
  <2>2. CASE p # c /\ p + 1 # MAX_PROCESSES
    BY <2>2, <1>1, <1>3 DEF After, Distance, Pids
  <2>3. CASE p # c /\ p + 1 = MAX_PROCESSES
    BY <2>3, <1>1, <1>3 DEF After, Distance, Pids
  <2> QED
    BY <2>1, <2>2, <2>3
<1> QED
  BY <1>4, <1>5, <1>6

LEMMA FoundNext ==
  ASSUME NEW c \in Pids, NEW st, NEW n \in Nat, ReadyAhead(st, c, n) # {}
  PROVE  IsNext(c, ReadyAhead(st, c, n), Found(st, c, n))
<1> DEFINE Turns == {MAX_PROCESSES - Distance(c, q) : q \in ReadyAhead(st, c, n)}
<1>1. \A q \in ReadyAhead(st, c, n) : Distance(c, q) \in 0..MAX_PROCESSES
  BY Distances, PidFacts DEF ReadyAhead
<1>2. Turns \subseteq Nat /\ Turns # {}
  BY <1>1, PidFacts
<1>3. PICK k \in Turns : \A m \in Turns : k <= m
  <2> HIDE DEF Turns
  <2> QED
    BY <1>2, LeastOf
<1>4. PICK q \in ReadyAhead(st, c, n) : k = MAX_PROCESSES - Distance(c, q)
  BY <1>3
<1>5. \A r \in ReadyAhead(st, c, n) : Distance(c, r) <= Distance(c, q)
  <2> SUFFICES ASSUME NEW r \in ReadyAhead(st, c, n) PROVE Distance(c, r) <= Distance(c, q)
    OBVIOUS
  <2>1. MAX_PROCESSES - Distance(c, q) <= MAX_PROCESSES - Distance(c, r)
    BY <1>3, <1>4
  <2> QED
    BY <2>1, <1>1, PidFacts
<1>6. IsNext(c, ReadyAhead(st, c, n), q)
  BY <1>5 DEF IsNext
<1> QED
  BY <1>6 DEF Found, Nearest, IsNext

\* One turn of the loop.
LEMMA FoundTurns ==
  ASSUME NEW c \in Pids, NEW st, NEW p \in Pids
  PROVE  Found(st, c, Distance(c, p)) =
           IF p = 0 THEN 0 ELSE IF st[p] = "READY" THEN p ELSE Found(st, c, Distance(c, After(c, p)))
<1> DEFINE n == Distance(c, p)
<1>1. CASE p = 0
  <2>1. ReadyAhead(st, c, n) = {}
    <3> SUFFICES ASSUME NEW q \in Users PROVE ~ (Distance(c, q) <= n)
      BY DEF ReadyAhead
    <3>1. q \in Pids /\ q # 0 /\ n = 0
      BY <1>1, Distances, PidFacts
    <3>2. Distance(c, q) # 0 /\ Distance(c, q) \in Nat
      BY <3>1, Distances, PidFacts
    <3> QED
      BY <3>1, <3>2
  <2> QED
    BY <1>1, <2>1 DEF Found, Nearest
<1>2. CASE p # 0 /\ st[p] = "READY"
  <2>1. p \in ReadyAhead(st, c, n) /\ n \in Nat /\ p \in Users
    BY <1>2, Distances, PidFacts DEF ReadyAhead
  <2>2. IsNext(c, ReadyAhead(st, c, n), Found(st, c, n))
    BY <2>1, FoundNext
  <2>3. Found(st, c, n) \in Users /\ Distance(c, Found(st, c, n)) \in Nat
    <3>1. Found(st, c, n) \in Users /\ Found(st, c, n) \in Pids
      BY <2>2, PidFacts DEF IsNext, ReadyAhead
    <3>2. \A q \in Pids : Distance(c, q) \in Nat
      BY Distances, PidFacts
    <3> HIDE DEF n
    <3> QED
      BY <3>1, <3>2
  <2>4. Distance(c, Found(st, c, n)) <= n /\ n <= Distance(c, Found(st, c, n))
    BY <2>1, <2>2 DEF IsNext, ReadyAhead
  <2>5. Distance(c, Found(st, c, n)) = n
    BY <2>1, <2>3, <2>4
  <2> QED
    BY <1>2, <2>1, <2>3, <2>5, Distances
<1>3. CASE p # 0 /\ st[p] # "READY"
  <2>1. p \in Users /\ Distance(c, After(c, p)) = n - 1 /\ n \in Nat
    BY <1>3, Distances, PidFacts
  <2>2. ASSUME NEW q \in Users, st[q] = "READY" PROVE Distance(c, q) <= n <=> Distance(c, q) <= n - 1
    <3>1. Distance(c, q) # n /\ Distance(c, q) \in Nat
      BY <1>3, <2>1, <2>2, Distances, PidFacts
    <3> QED
      BY <3>1, <2>1
  <2>3. ReadyAhead(st, c, n) = ReadyAhead(st, c, n - 1)
    BY <2>2 DEF ReadyAhead
  <2>4. Found(st, c, n) = Found(st, c, n - 1)
    BY <2>3 DEF Found
  <2> QED
    BY <1>3, <2>1, <2>4
<1> QED
  BY <1>1, <1>2, <1>3
LEMMA PickIsFound ==
  ASSUME NEW c \in Pids, NEW st
  PROVE  LET first == IF c + 1 = MAX_PROCESSES THEN 1 ELSE c + 1
         IN  /\ first \in Users
             /\ pick_next_context(st, c) = Found(st, c, Distance(c, first))
<1> DEFINE first == IF c + 1 = MAX_PROCESSES THEN 1 ELSE c + 1
           Body(scan) == [pid \in Pids |-> IF pid = 0 THEN 0
                            ELSE IF st[pid] = "READY" THEN pid ELSE scan[After(c, pid)]]
           scanned == CHOOSE scan : scan = Body(scan)
           found == [pid \in Pids |-> Found(st, c, Distance(c, pid))]
<1>1. found = Body(found)
  <2>1. ASSUME NEW p \in Pids
        PROVE  found[p] = IF p = 0 THEN 0
                          ELSE IF st[p] = "READY" THEN p ELSE found[After(c, p)]
    BY FoundTurns, Distances, PidFacts
  <2> QED
    BY <2>1
<1>2. scanned = Body(scanned)
  <2> HIDE DEF Body, found
  <2> QED
    BY <1>1
<1> HIDE DEF scanned
<1> DEFINE S == {n \in Nat : \A p \in Pids : Distance(c, p) = n => scanned[p] = found[p]}
<1>3. 0 \in S
  <2>1. \A p \in Pids : Distance(c, p) = 0 => p = 0
    BY Distances
  <2>2. 0 \in Pids /\ scanned[0] = 0 /\ found[0] = 0
    BY <1>1, <1>2, PidFacts
  <2> QED
    BY <2>1, <2>2
<1>4. ASSUME NEW n \in 0..(MAX_PROCESSES - 1), n \in S PROVE n + 1 \in S
  <2> SUFFICES ASSUME NEW p \in Pids, Distance(c, p) = n + 1 PROVE scanned[p] = found[p]
    BY <1>4
  <2>1. p \in Users /\ p # 0 /\ After(c, p) \in Pids /\ Distance(c, After(c, p)) = n
    BY Distances, PidFacts
  <2>2. scanned[After(c, p)] = found[After(c, p)]
    BY <2>1, <1>4
  <2>3. Body(scanned)[p] = Body(found)[p]
    BY <2>1, <2>2
  <2> QED
    BY <2>3, <1>1, <1>2
<1>5. 0..MAX_PROCESSES \subseteq S
  <2> HIDE DEF S
  <2> QED
    BY <1>3, <1>4, Inductive, PidFacts
<1>6. first \in Users
  BY SchedulerAssumption DEF Pids, Users
<1>7. scanned[first] = found[first]
  BY <1>5, <1>6, Distances, PidFacts
<1>8. pick_next_context(st, c) = scanned[first]
  BY DEF pick_next_context, scanned
<1> QED
  BY <1>6, <1>7, <1>8, PidFacts

\* What the callers rely on.
LEMMA Picked ==
  ASSUME NEW c \in Pids, NEW st
  PROVE  LET q == pick_next_context(st, c) IN q = 0 \/ (q \in Users /\ st[q] = "READY")
<1> DEFINE first == IF c + 1 = MAX_PROCESSES THEN 1 ELSE c + 1
           n == Distance(c, first)
<1>1. pick_next_context(st, c) = Found(st, c, n) /\ n \in Nat
  BY PickIsFound, Distances, PidFacts
<1> QED
  BY <1>1, FoundNext DEF Found, Nearest, IsNext, ReadyAhead
-----------------------------------------------------------------------------
(* One context runs.                                                       *)

\* The states that a caller of schedule has prepared: nobody runs any more.
Idle(st) == st \in [Pids -> States] /\ \A p \in Pids : st[p] # "RUNNING"

LEMMA ScheduleRuns ==
  ASSUME NEW st, Idle(st), NEW q \in Pids, schedule(st, q)
  PROVE  /\ state' \in [Pids -> States] /\ cur' = q
         /\ \A p \in Pids : state'[p] = "RUNNING" <=> p = q
         /\ \A p \in Pids : p # q => state'[p] = st[p]
  BY DEF schedule, Idle, States

LEMMA PickedPid ==
  ASSUME NEW c \in Pids, NEW st
  PROVE  pick_next_context(st, c) \in Pids
  BY Picked, PidFacts

LEMMA TickRuns ==
  ASSUME IInv, handle_timer_tick
  PROVE  IInv'
<1> DEFINE st == [Woken(Accounted) EXCEPT ![cur] = "READY"]
<1>1. /\ cur \in Pids /\ state \in [Pids -> States] /\ ~ halted
      /\ ticks \in [Pids -> Nat] /\ ticks' = Accounted /\ UNCHANGED <<ppid, gone, halted>>
  BY DEF handle_timer_tick, IInv, TypeOK
<1>2. Idle(st) /\ st[cur] = "READY"
  BY <1>1 DEF Idle, Woken, States, IInv, OneRuns
<1>3. ticks' \in [Pids -> Nat]
  BY <1>1 DEF Accounted, Asleep
<1> HIDE DEF st
<1>4. \/ state' = st /\ cur' = cur
      \/ schedule(st, pick_next_context(st, cur))
  BY DEF handle_timer_tick, st
<1>5. /\ state' \in [Pids -> States] /\ cur' \in Pids /\ state'[cur'] \in {"RUNNING", "READY"}
      /\ \A p \in Pids : state'[p] = "RUNNING" => p = cur'
  BY <1>1, <1>2, <1>4, PickedPid, ScheduleRuns DEF Idle
<1> QED
  BY <1>1, <1>3, <1>5 DEF IInv, TypeOK, OneRuns

\* A call that ends in schedule.
LEMMA CallRuns ==
  ASSUME IInv, NEW st, Idle(st), NEW q \in Pids, schedule(st, q),
         ppid' = ppid, ticks' \in [Pids -> Nat], gone' \in SUBSET Users, halted' \in BOOLEAN
  PROVE  IInv'
<1>1. /\ state' \in [Pids -> States] /\ cur' \in Pids /\ state'[cur'] = "RUNNING"
      /\ \A p \in Pids : state'[p] = "RUNNING" => p = cur'
  BY ScheduleRuns
<1> QED
  BY <1>1 DEF IInv, TypeOK, OneRuns

LEMMA SleepRuns ==
  ASSUME IInv, NEW n \in 1..MaxTicks, do_sleep(n)
  PROVE  IInv'
<1> DEFINE st == [state EXCEPT ![cur] = "WAITING"]
<1>1. Idle(st)
  BY DEF Idle, States, IInv, TypeOK, OneRuns
<1>2. /\ schedule(st, pick_next_context(st, cur)) /\ cur \in Pids
      /\ UNCHANGED <<ppid, gone, halted>> /\ ticks' = [ticks EXCEPT ![cur] = n]
  BY DEF do_sleep, IInv, TypeOK
<1>3. ticks' \in [Pids -> Nat]
  BY <1>2, SchedulerAssumption DEF IInv, TypeOK
<1> HIDE DEF st
<1> QED
  BY <1>1, <1>2, <1>3, PickedPid, CallRuns DEF IInv, TypeOK

LEMMA FreeFound ==
  ASSUME Free # {}
  PROVE  Min(Free) \in Users /\ state[Min(Free)] = "UNUSED"
<1>1. Free \subseteq Nat
  BY PidFacts DEF Free
<1>2. \E n \in Free : \A m \in Free : n <= m
  BY <1>1, LeastOf
<1>3. Min(Free) \in Free
  BY <1>2 DEF Min
<1> QED
  BY <1>3 DEF Free

LEMMA KinFound ==
  ASSUME Kin # {}
  PROVE  Min(Kin) \in Users /\ ppid[Min(Kin)] = cur
<1>1. Kin \subseteq Nat
  BY PidFacts DEF Kin
<1>2. \E n \in Kin : \A m \in Kin : n <= m
  BY <1>1, LeastOf
<1>3. Min(Kin) \in Kin
  BY <1>2 DEF Min
<1> QED
  BY <1>3 DEF Kin

LEMMA ChildRuns ==
  ASSUME IInv, NEW how \in {"READY", "WAITING"}, Child(how)
  PROVE  IInv'
<1>1. PICK p \in Users : /\ state[p] = "UNUSED"
                         /\ state' = [state EXCEPT ![p] = how]
                         /\ ppid' = [ppid EXCEPT ![p] = cur]
                         /\ ticks' = [ticks EXCEPT ![p] = ticks[cur]]
                         /\ gone' = gone \ {p}
  BY FreeFound DEF Child
<1>2. UNCHANGED <<cur, halted>> /\ cur \in Users /\ p # cur
  BY <1>1, PidFacts DEF Child, Calls, IInv, TypeOK, OneRuns
<1>3. TypeOK'
  BY <1>1, <1>2, PidFacts DEF IInv, TypeOK, States
<1>4. \A q \in Pids : state'[q] = IF q = p THEN how ELSE state[q]
  BY <1>1, PidFacts DEF IInv, TypeOK
<1>5. OneRuns'
  BY <1>2, <1>4, PidFacts DEF IInv, OneRuns
<1> QED
  BY <1>3, <1>5 DEF IInv

LEMMA HandOverRuns ==
  ASSUME IInv, HandsOver
  PROVE  IInv'
<1>1. CASE do_wait_and_continue
  <2>1. PICK p \in Users : ppid[p] = cur /\ schedule([state EXCEPT ![cur] = "WAITING", ![p] = "READY"], p)
    BY <1>1, KinFound DEF do_wait_and_continue
  <2>2. Idle([state EXCEPT ![cur] = "WAITING", ![p] = "READY"])
    BY PidFacts DEF Idle, States, IInv, TypeOK, OneRuns
  <2>3. UNCHANGED <<ppid, ticks, gone, halted>> /\ p \in Pids
    BY <1>1, PidFacts DEF do_wait_and_continue
  <2> QED
    BY <2>1, <2>2, <2>3, CallRuns DEF IInv, TypeOK
<1>2. CASE int3_handler
  <2>1. /\ schedule([state EXCEPT ![cur] = "WAITING"], ppid[cur])
        /\ UNCHANGED <<ppid, ticks, gone, halted>> /\ ppid[cur] \in Pids
    BY <1>2 DEF int3_handler, IInv, TypeOK
  <2>2. Idle([state EXCEPT ![cur] = "WAITING"])
    BY DEF Idle, States, IInv, TypeOK, OneRuns
  <2> QED
    BY <2>1, <2>2, CallRuns DEF IInv, TypeOK
<1> QED
  BY <1>1, <1>2 DEF HandsOver

\* What an exit leaves before the next context is picked.
Left == [debugger_on_exit EXCEPT ![cur] = "UNUSED"]

LEMMA LeftIdle ==
  ASSUME IInv, cur # 0
  PROVE  /\ Idle(Left) /\ cur \in Users /\ Left[cur] = "UNUSED"
         /\ \A p \in Pids : p # cur =>
              Left[p] = IF ~ IsDebugger(cur) /\ p = ppid[cur] THEN "READY" ELSE state[p]
<1>1. cur \in Users /\ cur \in Pids /\ state \in [Pids -> States]
  BY PidFacts DEF IInv, TypeOK
<1>2. debugger_on_exit \in [Pids -> States]
  BY <1>1 DEF debugger_on_exit, States
<1>3. \A p \in Pids : debugger_on_exit[p] =
        IF ~ IsDebugger(cur) /\ p = ppid[cur] THEN "READY" ELSE state[p]
  BY <1>1 DEF debugger_on_exit
<1>4. /\ Left \in [Pids -> States] /\ Left[cur] = "UNUSED"
      /\ \A p \in Pids : p # cur => Left[p] = debugger_on_exit[p]
  BY <1>1, <1>2 DEF Left, States
<1>5. \A p \in Pids : Left[p] # "RUNNING"
  BY <1>3, <1>4 DEF IInv, OneRuns
<1> QED
  BY <1>1, <1>3, <1>4, <1>5 DEF Idle

LEMMA ExitRuns ==
  ASSUME IInv, do_exit
  PROVE  IInv'
<1>1. /\ cur # 0 /\ UNCHANGED <<ppid, ticks>> /\ gone' = gone \cup {cur}
      /\ \/ halted' = TRUE /\ state' = Left /\ cur' = cur
         \/ schedule(Left, pick_next_context(Left, cur)) /\ halted' = halted
  BY DEF do_exit, ends, Calls, Left
<1>2. Idle(Left) /\ gone' \in SUBSET Users /\ cur \in Pids
  BY <1>1, LeftIdle, PidFacts DEF IInv, TypeOK
<1>3. CASE halted' = TRUE /\ state' = Left /\ cur' = cur
  BY <1>1, <1>2, <1>3 DEF IInv, TypeOK, OneRuns, Idle
<1>4. CASE schedule(Left, pick_next_context(Left, cur)) /\ halted' = halted
  BY <1>1, <1>2, <1>4, PickedPid, CallRuns DEF IInv, TypeOK
<1> QED
  BY <1>1, <1>3, <1>4

LEMMA InitIInv == Init => IInv
<1> SUFFICES ASSUME Init PROVE IInv
  OBVIOUS
<1>1. 0 \in Pids /\ 1 \in Pids
  BY PidFacts
<1>2. /\ state = [p \in Pids |-> IF p = 0 THEN "READY" ELSE IF p = 1 THEN "RUNNING" ELSE "UNUSED"]
      /\ cur = 1 /\ halted = FALSE
  BY DEF Init
<1>3. state \in [Pids -> States]
  BY <1>2 DEF States
<1>4. TypeOK
  BY <1>1, <1>3 DEF Init, TypeOK
<1>5. OneRuns
  BY <1>1, <1>2 DEF OneRuns
<1> QED
  BY <1>4, <1>5 DEF IInv

LEMMA NextIInv == IInv /\ [Next]_vars => IInv'
<1> SUFFICES ASSUME IInv, [Next]_vars PROVE IInv'
  OBVIOUS
<1>1. CASE handle_timer_tick
  BY <1>1, TickRuns
<1>2. CASE \E n \in 1..MaxTicks : do_sleep(n)
  BY <1>2, SleepRuns
<1>3. CASE do_fork \/ do_cfork
  BY <1>3, ChildRuns DEF do_fork, do_cfork
<1>4. CASE do_wait_and_continue \/ int3_handler
  BY <1>4, HandOverRuns DEF HandsOver
<1>5. CASE do_exit
  BY <1>5, ExitRuns
<1>6. CASE UNCHANGED vars
  BY <1>6 DEF vars, IInv, TypeOK, OneRuns
<1> QED
  BY <1>1, <1>2, <1>3, <1>4, <1>5, <1>6 DEF Next

\* The states keep to those of the contexts and one of them runs, through
\* every call and tick (schedule).
THEOREM Invariance == Spec => []IInv
  BY InitIInv, NextIInv, PTL DEF Spec

\* Two contexts never run and the current one can, whoever is picked while
\* others sleep, are woken, forked, debugged or leave, orphans or not
\* (schedule, handle_timer_tick, do_exit).
THEOREM OneContextRuns == Spec => []OneRuns
<1>1. IInv => OneRuns
  BY DEF IInv
<1> QED
  BY Invariance, <1>1, PTL

-----------------------------------------------------------------------------
(***************************************************************************)
(* How a context that is not in use comes back, and the shutdown.          *)
(***************************************************************************)

Alive(st) == {p \in Users : st[p] # "UNUSED"}

ShutDownWithLast == halted <=> \A p \in Users : state[p] = "UNUSED"
StaysGone ==
  /\ \A p \in gone' \ gone : state'[p] = "UNUSED"
  /\ \A p \in gone : state[p] = "UNUSED" /\ state'[p] # "UNUSED" =>
       Reused(p) \/ OrphanExits(p) \/ WaitedForAgain(p)

\* Of nobody who was free a schedule makes a living one, nor the reverse.
LEMMA ScheduleAlive ==
  ASSUME NEW st, Idle(st), NEW q \in Pids, schedule(st, q), q = 0 \/ q \in Alive(st)
  PROVE  Alive(state') = Alive(st)
<1>1. ASSUME NEW p \in Users PROVE state'[p] # "UNUSED" <=> st[p] # "UNUSED"
  <2>1. p \in Pids /\ p # 0
    BY PidFacts
  <2>2. CASE p = q
    BY <2>1, <2>2, ScheduleRuns DEF Alive
  <2>3. CASE p # q
    BY <2>1, <2>3, ScheduleRuns
  <2> QED
    BY <2>2, <2>3
<1> QED
  BY <1>1 DEF Alive

LEMMA PickedAlive ==
  ASSUME NEW c \in Pids, NEW st
  PROVE  LET q == pick_next_context(st, c) IN q = 0 \/ q \in Alive(st)
  BY Picked DEF Alive

LEMMA CurrentAlive ==
  ASSUME IInv, Calls
  PROVE  cur \in Alive(state)
  BY PidFacts DEF IInv, TypeOK, OneRuns, Calls, Alive

\* Where the same contexts are in use after a step, nothing is to be shown.
LEMMA SameAlive ==
  ASSUME IInv, ShutDownWithLast, Alive(state') = Alive(state), UNCHANGED <<gone, halted>>
  PROVE  ShutDownWithLast' /\ StaysGone
<1>1. \A p \in Users : state'[p] = "UNUSED" <=> state[p] = "UNUSED"
  BY DEF Alive
<1> QED
  BY <1>1 DEF ShutDownWithLast, StaysGone, IInv, TypeOK

LEMMA TickStays ==
  ASSUME IInv, ShutDownWithLast, handle_timer_tick
  PROVE  ShutDownWithLast' /\ StaysGone
<1> DEFINE st == [Woken(Accounted) EXCEPT ![cur] = "READY"]
<1>1. /\ cur \in Pids /\ state \in [Pids -> States] /\ state[cur] # "UNUSED"
  BY DEF handle_timer_tick, IInv, TypeOK, OneRuns
<1>2. Idle(st) /\ \A p \in Pids : st[p] # "UNUSED" <=> state[p] # "UNUSED"
  BY <1>1 DEF Idle, Woken, States, IInv, OneRuns, Asleep
<1> HIDE DEF st
<1>3. Alive(st) = Alive(state)
  BY <1>2, PidFacts DEF Alive
<1>4. state' = st \/ schedule(st, pick_next_context(st, cur))
  BY DEF handle_timer_tick, st
<1>5. Alive(state') = Alive(state)
  BY <1>1, <1>2, <1>3, <1>4, PickedPid, PickedAlive, ScheduleAlive
<1> QED
  BY <1>5, SameAlive DEF handle_timer_tick

LEMMA SleepStays ==
  ASSUME IInv, ShutDownWithLast, NEW n \in 1..MaxTicks, do_sleep(n)
  PROVE  ShutDownWithLast' /\ StaysGone
<1> DEFINE st == [state EXCEPT ![cur] = "WAITING"]
<1>1. cur \in Alive(state) /\ cur \in Pids
  BY CurrentAlive, PidFacts DEF do_sleep, Alive
<1>2. Idle(st) /\ Alive(st) = Alive(state)
  BY <1>1, PidFacts DEF Idle, States, IInv, TypeOK, OneRuns, Alive
<1>3. schedule(st, pick_next_context(st, cur))
  BY DEF do_sleep
<1> HIDE DEF st
<1>4. Alive(state') = Alive(state)
  BY <1>1, <1>2, <1>3, PickedPid, PickedAlive, ScheduleAlive
<1> QED
  BY <1>4, SameAlive DEF do_sleep

\* A child's context is in use and no longer among those left free.
LEMMA ChildStays ==
  ASSUME IInv, NEW how \in {"READY", "WAITING"}, Child(how)
  PROVE  ShutDownWithLast' /\ StaysGone
<1>1. cur \in Alive(state) /\ ~ halted /\ halted' = halted
  BY CurrentAlive DEF Child, Calls
<1>2. PICK p \in Users : /\ state[p] = "UNUSED"
                         /\ state' = [state EXCEPT ![p] = how]
                         /\ gone' = gone \ {p}
  BY FreeFound DEF Child
<1>3. \A q \in Users : state'[q] = IF q = p THEN how ELSE state[q]
  BY <1>1, <1>2, PidFacts DEF IInv, TypeOK
<1>4. \A q \in gone : state[q] = "UNUSED" /\ state'[q] # "UNUSED" => Reused(q)
  BY <1>2, <1>3 DEF IInv, TypeOK, Reused
<1>5. ShutDownWithLast'
  BY <1>1, <1>3 DEF ShutDownWithLast, Alive
<1> QED
  BY <1>2, <1>4, <1>5 DEF StaysGone

LEMMA HandOverStays ==
  ASSUME IInv, HandsOver
  PROVE  ShutDownWithLast' /\ StaysGone
<1>1. cur \in Users /\ cur \in Pids /\ ~ halted /\ UNCHANGED <<gone, halted>>
  BY CurrentAlive, PidFacts DEF HandsOver, do_wait_and_continue, int3_handler, Alive, Calls
<1>2. CASE do_wait_and_continue
  <2>1. PICK p \in Users : ppid[p] = cur /\ schedule([state EXCEPT ![cur] = "WAITING", ![p] = "READY"], p)
    BY <1>2, KinFound DEF do_wait_and_continue
  <2>2. p \in Pids /\ IsDebugger(cur)
    BY <1>2, PidFacts DEF do_wait_and_continue
  <2>3. \A q \in Pids : state'[q] = IF q = p THEN "RUNNING" ELSE IF q = cur THEN "WAITING" ELSE state[q]
    BY <2>1, <2>2, <1>1 DEF schedule, IInv, TypeOK
  <2>4. ShutDownWithLast'
    BY <1>1, <2>2, <2>3 DEF ShutDownWithLast
  <2>5. ASSUME NEW q \in gone, state[q] = "UNUSED", state'[q] # "UNUSED"
        PROVE  WaitedForAgain(q)
    <3>1. q \in Pids /\ (q = p \/ q = cur)
      BY <2>3, <2>5, PidFacts DEF IInv, TypeOK
    <3>2. q # cur
      BY <2>2, <2>5 DEF IsDebugger
    <3>3. state'[cur] = "WAITING"
      BY <1>1, <2>3, <3>1, <3>2
    <3> QED
      BY <2>1, <2>2, <3>1, <3>2, <3>3 DEF WaitedForAgain
  <2> QED
    BY <1>1, <2>4, <2>5 DEF StaysGone
<1>3. CASE int3_handler
  <2>1. /\ schedule([state EXCEPT ![cur] = "WAITING"], ppid[cur])
        /\ ppid[cur] \in Pids /\ ppid[cur] \notin gone
    BY <1>1, <1>3 DEF int3_handler, IInv, TypeOK, IsDebugger
  <2>2. \A q \in Pids : state'[q] =
          IF q = ppid[cur] THEN "RUNNING" ELSE IF q = cur THEN "WAITING" ELSE state[q]
    BY <1>1, <2>1 DEF schedule, IInv, TypeOK
  <2>3. ShutDownWithLast'
    BY <1>1, <2>2 DEF ShutDownWithLast
  <2>4. \A q \in gone : ~ (state[q] = "UNUSED" /\ state'[q] # "UNUSED")
    <3>1. state[cur] # "UNUSED"
      BY <1>3, CurrentAlive DEF int3_handler, Alive
    <3> QED
      BY <2>1, <2>2, <3>1, PidFacts DEF IInv, TypeOK
  <2> QED
    BY <1>1, <2>3, <2>4 DEF StaysGone
<1> QED
  BY <1>2, <1>3 DEF HandsOver

LEMMA ExitStays ==
  ASSUME IInv, do_exit
  PROVE  ShutDownWithLast' /\ StaysGone
<1>1. IInv /\ cur \in Alive(state) /\ cur # 0 /\ cur \in Pids /\ ~ halted
  BY CurrentAlive, PidFacts DEF do_exit, ends, Calls, Alive
<1>2. /\ gone' = gone \cup {cur}
      /\ \/ NobodyLeft(Left) /\ halted' = TRUE /\ state' = Left
         \/ ~ NobodyLeft(Left) /\ schedule(Left, pick_next_context(Left, cur)) /\ halted' = halted
  BY DEF do_exit, ends, Left
<1>3. Alive(state') = Alive(Left)
  BY <1>1, <1>2, LeftIdle, PickedPid, PickedAlive, ScheduleAlive
<1>4. \A p \in Users : state'[p] = "UNUSED" <=> Left[p] = "UNUSED"
  BY <1>3 DEF Alive
<1>5. ShutDownWithLast'
  BY <1>1, <1>2, <1>4 DEF ShutDownWithLast, NobodyLeft
<1>6. cur \in Users /\ state'[cur] = "UNUSED"
  BY <1>1, <1>4, LeftIdle
<1>7. ASSUME NEW p \in gone, state[p] = "UNUSED", state'[p] # "UNUSED"
      PROVE  OrphanExits(p)
  <2>1. p \in Users /\ p \in Pids /\ p # cur /\ Left[p] # "UNUSED"
    BY <1>4, <1>6, <1>7, PidFacts DEF IInv, TypeOK
  <2>2. ~ IsDebugger(cur) /\ p = ppid[cur]
    BY <1>1, <1>7, <2>1, LeftIdle
  <2> QED
    BY <1>6, <2>2 DEF OrphanExits
<1> QED
  BY <1>2, <1>5, <1>6, <1>7 DEF StaysGone

LEMMA StaysInit == Init => ShutDownWithLast
<1>1. 1 \in Users /\ 1 \in Pids
  BY PidFacts
<1> QED
  BY <1>1 DEF Init, ShutDownWithLast

LEMMA StaysNext == IInv /\ ShutDownWithLast /\ [Next]_vars => ShutDownWithLast' /\ StaysGone
<1> SUFFICES ASSUME IInv, ShutDownWithLast, [Next]_vars
             PROVE  ShutDownWithLast' /\ StaysGone
  OBVIOUS
<1>1. CASE handle_timer_tick
  BY <1>1, TickStays
<1>2. CASE \E n \in 1..MaxTicks : do_sleep(n)
  BY <1>2, SleepStays
<1>3. CASE do_fork \/ do_cfork
  BY <1>3, ChildStays DEF do_fork, do_cfork
<1>4. CASE do_wait_and_continue \/ int3_handler
  BY <1>4, HandOverStays DEF HandsOver
<1>5. CASE do_exit
  BY <1>5, ExitStays
<1>6. CASE UNCHANGED vars
  BY <1>6, SameAlive DEF vars, Alive
<1> QED
  BY <1>1, <1>2, <1>3, <1>4, <1>5, <1>6 DEF Next

\* A context left by an exit is free until it is reused, unless an orphan
\* of the process exits or its debugger waits for it again, and the system
\* shuts down exactly with the last context in use (do_exit,
\* debugger_on_exit, do_wait_and_continue).
THEOREM ReturnOfTheExited == Spec => ExitedStayGone
<1>1. StaysGone => [ /\ \A p \in gone' \ gone : state'[p] = "UNUSED"
                     /\ \A p \in gone : state[p] = "UNUSED" /\ state'[p] # "UNUSED" =>
                          Reused(p) \/ OrphanExits(p) \/ WaitedForAgain(p)]_vars
  BY DEF StaysGone
<1> QED
  BY <1>1, Invariance, StaysInit, StaysNext, PTL DEF Spec, ExitedStayGone, ShutDownWithLast, StaysGone

=============================================================================
