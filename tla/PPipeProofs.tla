------------------------------ MODULE PPipeProofs ------------------------------
(***************************************************************************)
(* Proofs about PPipe for every number of processes and slots, every size  *)
(* of the ring and every width of an int that can hold it, and that it     *)
(* implements PersistentStream.                                            *)
(***************************************************************************)
EXTENDS PPipe, WellFoundedInduction, FiniteSetTheorems, SequenceTheorems, TLAPS

SlotRecord == [pid : Pids \cup {NoPid}, open : SUBSET End,
               read_pos : Index, loc_offset : 0..(IntRange - 1)]

TypeOK ==
  /\ alive \in SUBSET Pids
  /\ holds \in [Pids -> SUBSET End]
  /\ live \in BOOLEAN
  /\ ppipe_per_proc \in [Slot -> SlotRecord]
  /\ ppipe_buff \in [Index -> Data]
  /\ write_pos \in Index
  /\ buff_offset \in 0..MAX_PPIPE_SIZE

(* The slot table, the descriptors and the positions only make sense        *)
(* together: each action that changes one of them relies on the others.     *)
IInv == TypeOK /\ SlotsMatchDescriptors /\ ReadersInStep

-------------------------------------------------------------------------------
(* Facts about numbers. *)

(* A position on a ring of M places, n places further. *)
LEMMA ModFacts ==
  ASSUME NEW M \in Nat \ {0}, NEW a \in 0..(M - 1), NEW n \in 0..M
  PROVE  (a + n) % M = IF a + n < M THEN a + n ELSE a + n - M
  OBVIOUS

(* A non-empty set of naturals has a least element. *)
LEMMA LeastOf ==
  ASSUME NEW S, S \subseteq Nat, S # {}
  PROVE  \E n \in S : \A m \in S : n <= m
<1> DEFINE Below == {d \in Nat \X Nat : d[1] < d[2]}
<1>1. IsWellFoundedOn(Below, Nat)
  BY NatLessThanWellFounded, Zenon DEF OpToRel
<1>2. \A m, n \in Nat : m < n => <<m, n>> \in Below
  OBVIOUS
<1> HIDE DEF Below
<1>3. PICK n \in S : \A m \in S : ~(<<m, n>> \in Below)
  BY <1>1, WFMin
<1>4. ASSUME NEW m \in S PROVE n <= m
  <2>1. m \in Nat /\ n \in Nat
    BY Zenon
  <2>2. ~(m < n)
    BY <1>2, <1>3, <2>1, Zenon
  <2> QED
    BY <2>1, <2>2, SMT
<1> QED
  BY <1>4

-------------------------------------------------------------------------------
LEMMA NoPidFact == NoPid \notin Pids /\ 0 \in Slot /\ 0 \in Index /\ Pids \subseteq Int
  BY PPipePids, PPipeSizes DEF NoPid, Slot, Index

LEMMA AheadType ==
  ASSUME NEW a \in Index, NEW n \in 0..MAX_PPIPE_SIZE
  PROVE  /\ Ahead(a, n) = IF a + n < MAX_PPIPE_SIZE THEN a + n ELSE a + n - MAX_PPIPE_SIZE
         /\ Ahead(a, n) \in Index
<1>1. MAX_PPIPE_SIZE \in Nat \ {0} /\ a \in 0..(MAX_PPIPE_SIZE - 1)
  BY PPipeSizes DEF Index
<1>2. (a + n) % MAX_PPIPE_SIZE =
        IF a + n < MAX_PPIPE_SIZE THEN a + n ELSE a + n - MAX_PPIPE_SIZE
  BY <1>1, ModFacts
<1> QED
  BY <1>1, <1>2 DEF Ahead, Index

LEMMA AheadSum ==
  ASSUME NEW a \in Index, NEW m \in Nat, NEW n \in Nat, m + n <= MAX_PPIPE_SIZE
  PROVE  Ahead(Ahead(a, m), n) = Ahead(a, m + n)
<1>1. m \in 0..MAX_PPIPE_SIZE /\ n \in 0..MAX_PPIPE_SIZE /\ m + n \in 0..MAX_PPIPE_SIZE
  BY PPipeSizes
<1>2. /\ Ahead(a, m) = IF a + m < MAX_PPIPE_SIZE THEN a + m ELSE a + m - MAX_PPIPE_SIZE
      /\ Ahead(a, m + n) = IF a + (m + n) < MAX_PPIPE_SIZE
                           THEN a + (m + n) ELSE a + (m + n) - MAX_PPIPE_SIZE
      /\ Ahead(a, m) \in Index
  BY <1>1, AheadType
<1>3. Ahead(Ahead(a, m), n) = IF Ahead(a, m) + n < MAX_PPIPE_SIZE
                              THEN Ahead(a, m) + n ELSE Ahead(a, m) + n - MAX_PPIPE_SIZE
  BY <1>1, <1>2, AheadType
<1> QED
  BY <1>1, <1>2, <1>3, PPipeSizes DEF Index

-------------------------------------------------------------------------------
(* The two invariants, slot by slot, for a table and its surroundings.      *)

Good(slots, al, hd) ==
  /\ \A i, j \in Slot : slots[i].pid = slots[j].pid /\ slots[i].pid # NoPid => i = j
  /\ \A i \in Slot : slots[i].pid # NoPid =>
       /\ slots[i].pid \in al /\ slots[i].open # {}
       /\ slots[i].open \subseteq hd[slots[i].pid]
Backed(slots, hd) ==
  \A p \in Pids : \A e \in hd[p] : \E i \in Slot : slots[i].pid = p /\ e \in slots[i].open
InStep(slots, wp, kept) ==
  \A i \in Slot : slots[i].pid # NoPid /\ "r" \in slots[i].open =>
    /\ Ahead(slots[i].read_pos, slots[i].loc_offset) = wp
    /\ slots[i].loc_offset <= kept

LEMMA Restated ==
  /\ SlotsMatchDescriptors <=>
       /\ Good(ppipe_per_proc, alive, holds)
       /\ live <=> SomeEndOpen(ppipe_per_proc)
       /\ ~fork_failed => Backed(ppipe_per_proc, holds)
  /\ SlotsMatchDescriptors' <=>
       /\ Good(ppipe_per_proc', alive', holds')
       /\ live' <=> SomeEndOpen(ppipe_per_proc')
       /\ ~fork_failed' => Backed(ppipe_per_proc', holds')
  /\ ReadersInStep <=> InStep(ppipe_per_proc, write_pos, buff_offset)
  /\ ReadersInStep' <=> InStep(ppipe_per_proc', write_pos', buff_offset')
  BY DEF SlotsMatchDescriptors, ReadersInStep, Good, Backed, InStep, SomeEndOpen, Reading

(* The slot of a process is its first one and its last one. *)
LEMMA OnlySlot ==
  ASSUME Good(ppipe_per_proc, alive, holds), NEW i \in Slot, ppipe_per_proc[i].pid # NoPid
  PROVE  /\ IsFirstSlot(i, ppipe_per_proc[i].pid) /\ IsLastSlot(i, ppipe_per_proc[i].pid)
         /\ \A j \in Slot : IsFirstSlot(j, ppipe_per_proc[i].pid)
                            \/ IsLastSlot(j, ppipe_per_proc[i].pid) => j = i
<1>1. \A j \in Slot : ppipe_per_proc[j].pid = ppipe_per_proc[i].pid => j = i
  BY DEF Good
<1>2. \A j \in Slot : j \in Int
  BY DEF Slot
<1> QED
  BY <1>1, <1>2 DEF IsFirstSlot, IsLastSlot

LEMMA InitInv == Init => IInv
<1> SUFFICES ASSUME Init PROVE IInv
  OBVIOUS
<1> USE DEF Init
<1>1. /\ FreeSlot \in SlotRecord /\ FreeSlot.pid = NoPid
      /\ \A i \in Slot : ppipe_per_proc[i] = FreeSlot
  BY NoPidFact, PPipeSizes DEF FreeSlot, SlotRecord, Index
<1>2. TypeOK
  <2>1. alive \in SUBSET Pids /\ live \in BOOLEAN /\ ppipe_buff \in [Index -> Data]
    OBVIOUS
  <2>2. holds \in [Pids -> SUBSET End] /\ ppipe_per_proc \in [Slot -> SlotRecord]
    BY <1>1
  <2>3. write_pos \in Index /\ buff_offset \in 0..MAX_PPIPE_SIZE
    BY NoPidFact, PPipeSizes
  <2> HIDE DEF Init
  <2> QED
    BY <2>1, <2>2, <2>3 DEF TypeOK
<1>3. SlotsMatchDescriptors /\ ReadersInStep
  BY <1>1, Restated DEF Good, Backed, InStep, SomeEndOpen
<1> QED
  BY <1>2, <1>3 DEF IInv

LEMMA CreateStep ==
  ASSUME IInv, NEW p \in alive, create_persistent_pipe(p)
  PROVE  IInv'
<1>0. p \in Pids /\ TypeOK /\ ~live /\ \A q \in Pids : holds[q] = {}
  BY DEF IInv, TypeOK, create_persistent_pipe
<1> DEFINE mine == [FreeSlot EXCEPT !.pid = p, !.open = End]
<1>1. CASE /\ holds' = [holds EXCEPT ![p] = End]
           /\ live' = TRUE
           /\ ppipe_per_proc' = [i \in Slot |-> IF i = 0 THEN mine ELSE FreeSlot]
           /\ write_pos' = 0 /\ buff_offset' = 0
           /\ UNCHANGED <<alive, ppipe_buff>>
  <2>1. /\ FreeSlot \in SlotRecord /\ FreeSlot.pid = NoPid
        /\ mine \in SlotRecord /\ mine.pid = p /\ mine.open = End
        /\ mine.read_pos = 0 /\ mine.loc_offset = 0
    <3>1. 0 \in Index /\ 0 \in 0..(IntRange - 1) /\ NoPid \in Pids \cup {NoPid}
      BY NoPidFact, PPipeSizes
    <3>2. /\ FreeSlot \in SlotRecord /\ FreeSlot.pid = NoPid
          /\ FreeSlot.read_pos = 0 /\ FreeSlot.loc_offset = 0
      BY <3>1 DEF FreeSlot, SlotRecord
    <3> HIDE DEF FreeSlot
    <3> QED
      BY <1>0, <3>2 DEF SlotRecord
  <2> HIDE DEF mine
  <2>2. /\ ppipe_per_proc' \in [Slot -> SlotRecord]
        /\ \A i \in Slot : ppipe_per_proc'[i] = IF i = 0 THEN mine ELSE FreeSlot
    BY <1>1, <2>1
  <2>3. /\ holds' \in [Pids -> SUBSET End]
        /\ \A q \in Pids : holds'[q] = IF q = p THEN End ELSE {}
    BY <1>0, <1>1 DEF TypeOK
  <2>4. TypeOK'
    BY <1>0, <1>1, <2>2, <2>3, PPipeSizes DEF TypeOK, Index
  <2>5. p \in alive' /\ p \in Pids /\ p # NoPid /\ 0 \in Slot
    BY <1>0, <1>1, NoPidFact
  <2>6. Good(ppipe_per_proc', alive', holds')
    <3>1. \A i \in Slot : ppipe_per_proc'[i].pid # NoPid => i = 0 /\ ppipe_per_proc'[i] = mine
      BY <2>1, <2>2
    <3>2. mine.open # {} /\ mine.open \subseteq holds'[mine.pid]
      BY <2>1, <2>3, <2>5 DEF End
    <3> QED
      BY <2>1, <2>5, <3>1, <3>2 DEF Good
  <2>7. SomeEndOpen(ppipe_per_proc') /\ Backed(ppipe_per_proc', holds')
    BY <2>1, <2>2, <2>3, <2>5 DEF SomeEndOpen, Backed, End
  <2>8. Ahead(0, 0) = 0
    BY AheadType, NoPidFact, PPipeSizes
  <2>9. InStep(ppipe_per_proc', 0, 0)
    BY <2>1, <2>2, <2>8 DEF InStep
  <2> QED
    BY <1>1, <2>4, <2>6, <2>7, <2>9, Restated DEF IInv
<1>2. CASE UNCHANGED <<procs, ppipe_per_proc, ppipe_buff, write_pos, buff_offset>>
  BY <1>2 DEF IInv, TypeOK, SlotsMatchDescriptors, ReadersInStep, SomeEndOpen, Reading, procs
<1> QED
  BY <1>1, <1>2 DEF create_persistent_pipe

(* Which slot a fork fills, and from which. *)
LEMMA ForkedTable ==
  ASSUME IInv, NEW p \in alive, NEW c \in Pids, c \notin alive, do_ppipe_fork(p, c)
  PROVE  /\ ~Recorded(c)
         /\ ~CanRecord(p) => ppipe_per_proc' = ppipe_per_proc
         /\ CanRecord(p) =>
              \E i, j \in Slot :
                /\ ppipe_per_proc[i].pid = NoPid /\ ppipe_per_proc[j].pid = p
                /\ ppipe_per_proc' =
                     [ppipe_per_proc EXCEPT ![i] = [ppipe_per_proc[j] EXCEPT !.pid = c]]
<1>1. /\ TypeOK /\ Good(ppipe_per_proc, alive, holds) /\ p \in Pids /\ p # NoPid /\ c # NoPid
  BY NoPidFact, Restated DEF IInv, TypeOK
<1>2. ~Recorded(c)
  BY <1>1 DEF Recorded, Good
<1>3. ~CanRecord(p) => ppipe_per_proc' = ppipe_per_proc
  BY DEF do_ppipe_fork
<1>4. ASSUME CanRecord(p)
      PROVE  \E i, j \in Slot :
                /\ ppipe_per_proc[i].pid = NoPid /\ ppipe_per_proc[j].pid = p
                /\ ppipe_per_proc' =
                     [ppipe_per_proc EXCEPT ![i] = [ppipe_per_proc[j] EXCEPT !.pid = c]]
  <2>1. PICK j \in Slot : ppipe_per_proc[j].pid = p
    BY <1>4 DEF CanRecord, Recorded
  <2>2. (CHOOSE k \in Slot : IsLastSlot(k, p)) = j
    BY <1>1, <2>1, OnlySlot
  <2>3. PICK i \in Slot : IsFirstSlot(i, NoPid)
    <3>1. {k \in Slot : ppipe_per_proc[k].pid = NoPid} # {}
      BY <1>4 DEF CanRecord, Recorded
    <3>2. {k \in Slot : ppipe_per_proc[k].pid = NoPid} \subseteq Nat /\ Slot \subseteq Nat
      BY PPipeSizes DEF Slot
    <3>3. PICK i \in {k \in Slot : ppipe_per_proc[k].pid = NoPid} :
            \A m \in {k \in Slot : ppipe_per_proc[k].pid = NoPid} : i <= m
      BY <3>1, <3>2, LeastOf
    <3> QED
      BY <3>2, <3>3 DEF IsFirstSlot
  <2>4. \A k \in Slot : IsFirstSlot(k, NoPid) <=> k = i
    BY <2>3 DEF IsFirstSlot, Slot
  <2>5. ppipe_per_proc' =
          [k \in Slot |-> IF k = i THEN [ppipe_per_proc[j] EXCEPT !.pid = c]
                          ELSE ppipe_per_proc[k]]
    BY <1>2, <1>4, <2>2, <2>4 DEF do_ppipe_fork
  <2>6. ppipe_per_proc[i].pid = NoPid
    BY <2>3 DEF IsFirstSlot
  <2> QED
    BY <1>1, <2>1, <2>5, <2>6 DEF TypeOK
<1> QED
  BY <1>2, <1>3, <1>4

LEMMA ForkStep ==
  ASSUME IInv, NEW p \in alive, NEW c \in Pids, do_fork(p, c)
  PROVE  IInv'
<1> USE DEF do_fork
<1>1. /\ TypeOK /\ Good(ppipe_per_proc, alive, holds) /\ p \in Pids /\ c \notin alive /\ c # NoPid
      /\ live <=> SomeEndOpen(ppipe_per_proc)
      /\ ~fork_failed => Backed(ppipe_per_proc, holds)
      /\ InStep(ppipe_per_proc, write_pos, buff_offset)
  BY NoPidFact, Restated DEF IInv, TypeOK
<1>2. /\ holds' \in [Pids -> SUBSET End]
      /\ \A q \in Pids : holds'[q] = IF q = c THEN holds[p] ELSE holds[q]
      /\ alive' = alive \cup {c} /\ alive' \subseteq Pids
  BY <1>1 DEF TypeOK
<1>3. \A i \in Slot : ppipe_per_proc[i].pid # c
  BY <1>1 DEF Good
<1>4. CASE ppipe_per_proc' = ppipe_per_proc /\ (~fork_failed' => ~fork_failed /\ holds[p] = {})
  <2>1. TypeOK'
    BY <1>1, <1>2, <1>4 DEF TypeOK
  <2>2. Good(ppipe_per_proc', alive', holds')
    BY <1>1, <1>2, <1>3, <1>4 DEF Good, TypeOK, SlotRecord
  <2>3. ~fork_failed' => Backed(ppipe_per_proc', holds')
    BY <1>1, <1>2, <1>4 DEF Backed
  <2>4. InStep(ppipe_per_proc', write_pos', buff_offset') /\ (live' <=> SomeEndOpen(ppipe_per_proc'))
    BY <1>1, <1>4
  <2> QED
    BY <2>1, <2>2, <2>3, <2>4, Restated DEF IInv
<1>5. ASSUME NEW i \in Slot, NEW j \in Slot,
             ppipe_per_proc[i].pid = NoPid, ppipe_per_proc[j].pid = p,
             ppipe_per_proc' = [ppipe_per_proc EXCEPT ![i] = [ppipe_per_proc[j] EXCEPT !.pid = c]],
             ~fork_failed' => ~fork_failed
      PROVE  IInv'
  <2> DEFINE new == [ppipe_per_proc[j] EXCEPT !.pid = c]
  <2>1. /\ new \in SlotRecord /\ new.pid = c
        /\ new.open = ppipe_per_proc[j].open /\ new.read_pos = ppipe_per_proc[j].read_pos
        /\ new.loc_offset = ppipe_per_proc[j].loc_offset
    BY <1>1 DEF TypeOK, SlotRecord
  <2>2. ppipe_per_proc' = [ppipe_per_proc EXCEPT ![i] = new]
    BY <1>5
  <2> HIDE DEF new
  <2>3. /\ ppipe_per_proc' \in [Slot -> SlotRecord]
        /\ \A k \in Slot : ppipe_per_proc'[k] = IF k = i THEN new ELSE ppipe_per_proc[k]
    BY <1>1, <2>1, <2>2 DEF TypeOK
  <2>4. TypeOK'
    BY <1>1, <1>2, <2>3 DEF TypeOK
  <2>5. p # NoPid /\ p # c /\ ppipe_per_proc[j].open # {} /\ ppipe_per_proc[j].open \subseteq holds[p]
    BY <1>1, <1>5, NoPidFact DEF Good
  <2>6. Good(ppipe_per_proc', alive', holds')
    <3>1. \A k, l \in Slot :
            ppipe_per_proc'[k].pid = ppipe_per_proc'[l].pid /\ ppipe_per_proc'[k].pid # NoPid => k = l
      BY <1>1, <1>3, <2>1, <2>3 DEF Good
    <3>2. ASSUME NEW k \in Slot, ppipe_per_proc'[k].pid # NoPid
          PROVE  /\ ppipe_per_proc'[k].pid \in alive' /\ ppipe_per_proc'[k].open # {}
                 /\ ppipe_per_proc'[k].open \subseteq holds'[ppipe_per_proc'[k].pid]
      <4>1. CASE k = i
        BY <1>2, <2>1, <2>3, <2>5, <4>1
      <4>2. CASE k # i
        BY <1>1, <1>2, <1>3, <2>3, <3>2, <4>2 DEF Good, TypeOK
      <4> QED
        BY <4>1, <4>2
    <3> QED
      BY <3>1, <3>2 DEF Good
  <2>7. SomeEndOpen(ppipe_per_proc') /\ live'
    <3>1. SomeEndOpen(ppipe_per_proc)
      BY <1>5, <2>5 DEF SomeEndOpen
    <3>2. SomeEndOpen(ppipe_per_proc')
      BY <1>5, <2>1, <2>3, <2>5, <1>1 DEF SomeEndOpen
    <3> QED
      BY <1>1, <3>1, <3>2
  <2>8. ~fork_failed' => Backed(ppipe_per_proc', holds')
    <3> SUFFICES ASSUME ~fork_failed', NEW q \in Pids, NEW e \in holds'[q]
                 PROVE  \E k \in Slot : ppipe_per_proc'[k].pid = q /\ e \in ppipe_per_proc'[k].open
      BY DEF Backed
    <3>1. CASE q = c
      <4>1. PICK k \in Slot : ppipe_per_proc[k].pid = p /\ e \in ppipe_per_proc[k].open
        BY <1>1, <1>2, <1>5, <3>1 DEF Backed
      <4>2. k = j
        BY <1>1, <1>5, <2>5, <4>1 DEF Good
      <4> QED
        BY <2>1, <2>3, <3>1, <4>1, <4>2
    <3>2. CASE q # c
      <4>1. PICK k \in Slot : ppipe_per_proc[k].pid = q /\ e \in ppipe_per_proc[k].open
        BY <1>1, <1>2, <1>5, <3>2 DEF Backed
      <4>2. k # i
        BY <1>5, <4>1, NoPidFact
      <4> QED
        BY <2>3, <4>1, <4>2
    <3> QED
      BY <3>1, <3>2
  <2>9. InStep(ppipe_per_proc', write_pos', buff_offset')
    <3> SUFFICES ASSUME NEW k \in Slot, ppipe_per_proc'[k].pid # NoPid, "r" \in ppipe_per_proc'[k].open
                 PROVE  /\ Ahead(ppipe_per_proc'[k].read_pos, ppipe_per_proc'[k].loc_offset) = write_pos
                        /\ ppipe_per_proc'[k].loc_offset <= buff_offset
      BY DEF InStep
    <3>1. CASE k = i
      BY <1>1, <1>5, <2>1, <2>3, <2>5, <3>1 DEF InStep
    <3>2. CASE k # i
      BY <1>1, <2>3, <3>2 DEF InStep
    <3> QED
      BY <3>1, <3>2
  <2> QED
    BY <2>4, <2>6, <2>7, <2>8, <2>9, Restated DEF IInv
<1>6. CASE holds[p] = {}
  BY <1>4, <1>6
<1>7. CASE holds[p] # {}
  <2>1. /\ do_ppipe_fork(p, c)
        /\ fork_failed' = (fork_failed \/ ~(Recorded(c) \/ CanRecord(p)))
    BY <1>7
  <2>2. /\ ~Recorded(c)
        /\ ~CanRecord(p) => ppipe_per_proc' = ppipe_per_proc
        /\ CanRecord(p) =>
              \E i, j \in Slot :
                /\ ppipe_per_proc[i].pid = NoPid /\ ppipe_per_proc[j].pid = p
                /\ ppipe_per_proc' =
                     [ppipe_per_proc EXCEPT ![i] = [ppipe_per_proc[j] EXCEPT !.pid = c]]
    BY <1>1, <2>1, ForkedTable
  <2>3. (~fork_failed' => ~fork_failed) /\ (~CanRecord(p) => fork_failed')
    BY <2>1, <2>2
  <2>4. CASE CanRecord(p)
    BY <1>5, <2>2, <2>3, <2>4
  <2>5. CASE ~CanRecord(p)
    BY <1>4, <2>2, <2>3, <2>5
  <2> QED
    BY <2>4, <2>5
<1> QED
  BY <1>6, <1>7

(* What ppipe_close leaves in each slot. *)
LEMMA ClosedTable ==
  ASSUME IInv, NEW p \in Pids, NEW E \in SUBSET End, ppipe_close(p, E)
  PROVE  /\ ppipe_per_proc' \in [Slot -> SlotRecord]
         /\ \A i \in Slot : ppipe_per_proc[i].pid # p => ppipe_per_proc'[i] = ppipe_per_proc[i]
         /\ \A i \in Slot : ppipe_per_proc[i].pid = p =>
              IF ppipe_per_proc[i].open \subseteq E THEN ppipe_per_proc'[i] = FreeSlot
              ELSE /\ ppipe_per_proc'[i].pid = p
                   /\ ppipe_per_proc'[i].open = ppipe_per_proc[i].open \ E
                   /\ ppipe_per_proc'[i].read_pos = ppipe_per_proc[i].read_pos
                   /\ ppipe_per_proc'[i].loc_offset = ppipe_per_proc[i].loc_offset
         /\ live' <=> SomeEndOpen(ppipe_per_proc')
<1>1. /\ TypeOK /\ Good(ppipe_per_proc, alive, holds) /\ p # NoPid
      /\ live <=> SomeEndOpen(ppipe_per_proc)
  BY NoPidFact, Restated DEF IInv
<1>2. FreeSlot \in SlotRecord /\ FreeSlot.pid = NoPid
  BY NoPidFact, PPipeSizes DEF FreeSlot, SlotRecord
<1>3. \A i \in Slot : IsLastSlot(i, p) <=> ppipe_per_proc[i].pid = p
  BY <1>1, OnlySlot DEF IsLastSlot
<1>4. /\ \A i \in Slot : ppipe_per_proc[i].pid = p =>
           Closable(p, E) = E \cap ppipe_per_proc[i].open
      /\ Closable(p, E) # {} => \E i \in Slot : ppipe_per_proc[i].pid = p
  <2>1. Closable(p, E) = {e \in E : \E i \in Slot :
                            ppipe_per_proc[i].pid = p /\ e \in ppipe_per_proc[i].open}
    BY <1>3 DEF Closable
  <2> QED
    BY <1>1, <2>1 DEF Good
<1>5. ppipe_per_proc' = [i \in Slot |->
        IF ppipe_per_proc[i].pid = p /\ Closable(p, E) # {}
        THEN IF ppipe_per_proc[i].open \subseteq E THEN FreeSlot
             ELSE [ppipe_per_proc[i] EXCEPT !.open = @ \ E]
        ELSE ppipe_per_proc[i]]
  BY <1>3 DEF ppipe_close
<1>6. \A i \in Slot : ppipe_per_proc[i] \in SlotRecord
  BY <1>1 DEF TypeOK
<1> HIDE DEF FreeSlot
<1>7. ASSUME NEW i \in Slot, ppipe_per_proc[i].pid = p,
             ~(ppipe_per_proc[i].open \subseteq E)
      PROVE  /\ ppipe_per_proc'[i] \in SlotRecord
             /\ ppipe_per_proc'[i].pid = p
             /\ ppipe_per_proc'[i].open = ppipe_per_proc[i].open \ E
             /\ ppipe_per_proc'[i].read_pos = ppipe_per_proc[i].read_pos
             /\ ppipe_per_proc'[i].loc_offset = ppipe_per_proc[i].loc_offset
  <2> DEFINE new == [ppipe_per_proc[i] EXCEPT !.open = @ \ E]
  <2>1. /\ new \in SlotRecord /\ new.pid = p /\ new.open = ppipe_per_proc[i].open \ E
        /\ new.read_pos = ppipe_per_proc[i].read_pos
        /\ new.loc_offset = ppipe_per_proc[i].loc_offset
    BY <1>6, <1>7 DEF SlotRecord
  <2>2. CASE Closable(p, E) # {}
    BY <1>5, <1>7, <2>1, <2>2
  <2>3. CASE Closable(p, E) = {}
    <3>1. E \cap ppipe_per_proc[i].open = {} /\ ppipe_per_proc'[i] = ppipe_per_proc[i]
      BY <1>4, <1>5, <1>7, <2>3
    <3>2. ppipe_per_proc[i].open \ E = ppipe_per_proc[i].open
      BY <3>1
    <3> QED
      BY <1>6, <1>7, <3>1, <3>2
  <2> QED
    BY <2>2, <2>3
<1>8. ASSUME NEW i \in Slot, ppipe_per_proc[i].pid = p, ppipe_per_proc[i].open \subseteq E
      PROVE  ppipe_per_proc'[i] = FreeSlot
  <2>1. Closable(p, E) # {}
    BY <1>1, <1>4, <1>8 DEF Good
  <2> QED
    BY <1>5, <1>8, <2>1
<1>9. \A i \in Slot : ppipe_per_proc[i].pid # p => ppipe_per_proc'[i] = ppipe_per_proc[i]
  BY <1>5
<1>10. \A i \in Slot : ppipe_per_proc'[i] \in SlotRecord
  BY <1>2, <1>6, <1>7, <1>8, <1>9
<1>11. live' <=> SomeEndOpen(ppipe_per_proc')
  <2>1. CASE Closable(p, E) = {}
    <3>1. ppipe_per_proc' = ppipe_per_proc
      BY <1>1, <1>5, <2>1 DEF TypeOK
    <3> QED
      BY <1>1, <2>1, <3>1 DEF ppipe_close
  <2>2. CASE Closable(p, E) # {}
    <3>1. SomeEndOpen(ppipe_per_proc)
      BY <1>1, <1>4, <2>2 DEF SomeEndOpen
    <3> QED
      BY <1>1, <2>2, <3>1 DEF ppipe_close
  <2> QED
    BY <2>1, <2>2
<1> QED
  BY <1>5, <1>7, <1>8, <1>9, <1>10, <1>11

(* Closing ends, alone or because the process exits. *)
LEMMA CloseSlots ==
  ASSUME IInv, NEW p \in alive, NEW E \in SUBSET End, ppipe_close(p, E),
         holds' = [holds EXCEPT ![p] = @ \ E],
         alive' = alive \/ (alive' = alive \ {p} /\ E = holds[p]),
         UNCHANGED <<ppipe_buff, write_pos, buff_offset, fork_failed>>
  PROVE  IInv'
<1>1. /\ TypeOK /\ Good(ppipe_per_proc, alive, holds) /\ p \in Pids /\ p # NoPid
      /\ ~fork_failed => Backed(ppipe_per_proc, holds)
      /\ InStep(ppipe_per_proc, write_pos, buff_offset)
  BY NoPidFact, Restated DEF IInv, TypeOK
<1>2. /\ ppipe_per_proc' \in [Slot -> SlotRecord]
      /\ \A i \in Slot : ppipe_per_proc[i].pid # p => ppipe_per_proc'[i] = ppipe_per_proc[i]
      /\ \A i \in Slot : ppipe_per_proc[i].pid = p =>
           IF ppipe_per_proc[i].open \subseteq E THEN ppipe_per_proc'[i] = FreeSlot
           ELSE /\ ppipe_per_proc'[i].pid = p
                /\ ppipe_per_proc'[i].open = ppipe_per_proc[i].open \ E
                /\ ppipe_per_proc'[i].read_pos = ppipe_per_proc[i].read_pos
                /\ ppipe_per_proc'[i].loc_offset = ppipe_per_proc[i].loc_offset
      /\ live' <=> SomeEndOpen(ppipe_per_proc')
  BY <1>1, ClosedTable
<1>3. /\ holds' \in [Pids -> SUBSET End]
      /\ \A q \in Pids : holds'[q] = IF q = p THEN holds[q] \ E ELSE holds[q]
  BY <1>1 DEF TypeOK
<1>4. TypeOK'
  <2>1. live' \in BOOLEAN
    BY DEF ppipe_close
  <2> QED
    BY <1>1, <1>2, <1>3, <2>1 DEF TypeOK
<1>5. FreeSlot.pid = NoPid
  BY DEF FreeSlot
<1> HIDE DEF FreeSlot
<1>6. ASSUME NEW i \in Slot, ppipe_per_proc'[i].pid # NoPid
      PROVE  /\ ppipe_per_proc'[i].pid = ppipe_per_proc[i].pid
             /\ ppipe_per_proc'[i].pid = p =>
                  ppipe_per_proc'[i].open = ppipe_per_proc[i].open \ E /\ alive' = alive
             /\ ppipe_per_proc'[i].pid # p => ppipe_per_proc'[i].open = ppipe_per_proc[i].open
             /\ ppipe_per_proc'[i].open # {}
             /\ ppipe_per_proc'[i].read_pos = ppipe_per_proc[i].read_pos
             /\ ppipe_per_proc'[i].loc_offset = ppipe_per_proc[i].loc_offset
  <2>1. CASE ppipe_per_proc[i].pid # p
    BY <1>1, <1>2, <1>6, <2>1 DEF Good
  <2>2. CASE ppipe_per_proc[i].pid = p
    <3>1. ~(ppipe_per_proc[i].open \subseteq E)
      BY <1>2, <1>5, <1>6, <2>2
    <3>2. ppipe_per_proc[i].open \subseteq holds[p]
      BY <1>1, <2>2 DEF Good
    <3> QED
      BY <1>2, <2>2, <3>1, <3>2
  <2> QED
    BY <2>1, <2>2
<1>7. Good(ppipe_per_proc', alive', holds')
  <2>1. \A i, j \in Slot :
          ppipe_per_proc'[i].pid = ppipe_per_proc'[j].pid /\ ppipe_per_proc'[i].pid # NoPid => i = j
    BY <1>1, <1>6 DEF Good
  <2>2. ASSUME NEW i \in Slot, ppipe_per_proc'[i].pid # NoPid
        PROVE  /\ ppipe_per_proc'[i].pid \in alive'
               /\ ppipe_per_proc'[i].open \subseteq holds'[ppipe_per_proc'[i].pid]
    <3>1. ppipe_per_proc[i].pid \in alive /\ ppipe_per_proc[i].pid \in Pids
          /\ ppipe_per_proc[i].open \subseteq holds[ppipe_per_proc[i].pid]
      BY <1>1, <1>6, <2>2 DEF Good, TypeOK
    <3> QED
      BY <1>3, <1>6, <2>2, <3>1
  <2> QED
    BY <1>6, <2>1, <2>2 DEF Good
<1>8. ~fork_failed' => Backed(ppipe_per_proc', holds')
  <2> SUFFICES ASSUME ~fork_failed', NEW q \in Pids, NEW e \in holds'[q]
               PROVE  \E k \in Slot : ppipe_per_proc'[k].pid = q /\ e \in ppipe_per_proc'[k].open
    BY DEF Backed
  <2>1. PICK k \in Slot : ppipe_per_proc[k].pid = q /\ e \in ppipe_per_proc[k].open
    BY <1>1, <1>3 DEF Backed
  <2>2. q = p => e \notin E
    BY <1>3
  <2> QED
    BY <1>2, <2>1, <2>2
<1>9. InStep(ppipe_per_proc', write_pos', buff_offset')
  <2> SUFFICES ASSUME NEW i \in Slot, ppipe_per_proc'[i].pid # NoPid, "r" \in ppipe_per_proc'[i].open
               PROVE  /\ Ahead(ppipe_per_proc'[i].read_pos, ppipe_per_proc'[i].loc_offset) = write_pos
                      /\ ppipe_per_proc'[i].loc_offset <= buff_offset
    BY DEF InStep
  <2>1. ppipe_per_proc[i].pid # NoPid /\ "r" \in ppipe_per_proc[i].open
    BY <1>6
  <2> QED
    BY <1>1, <1>6, <2>1 DEF InStep
<1> QED
  BY <1>2, <1>4, <1>7, <1>8, <1>9, Restated DEF IInv

LEMMA CloseStep ==
  ASSUME IInv, NEW p \in alive, NEW e \in End, do_close(p, e)
  PROVE  IInv'
  BY CloseSlots DEF do_close

LEMMA ExitStep ==
  ASSUME IInv, NEW p \in alive, do_exit(p)
  PROVE  IInv'
<1>1. p \in Pids /\ holds \in [Pids -> SUBSET End]
  BY DEF IInv, TypeOK
<1>2. holds[p] \in SUBSET End /\ holds[p] \ holds[p] = {}
  BY <1>1
<1>3. holds' = [holds EXCEPT ![p] = @ \ holds[p]]
  BY <1>1, <1>2 DEF do_exit
<1>4. /\ ppipe_close(p, holds[p]) /\ alive' = alive \ {p}
      /\ UNCHANGED <<ppipe_buff, write_pos, buff_offset, fork_failed>>
  BY DEF do_exit
<1> QED
  BY <1>2, <1>3, <1>4, CloseSlots

-------------------------------------------------------------------------------
LEMMA ModType ==
  ASSUME NEW x \in Nat
  PROVE  x % IntRange \in 0..(IntRange - 1) /\ (x < IntRange => x % IntRange = x)
  BY PPipeSizes

LEMMA ReadStep ==
  ASSUME IInv, NEW p \in alive, NEW e \in End, NEW valid \in BOOLEAN,
         NEW count \in 0..MaxCount, ppipe_read(p, e, valid, count)
  PROVE  IInv'
<1>1. /\ TypeOK /\ Good(ppipe_per_proc, alive, holds) /\ p \in Pids /\ p # NoPid
      /\ live <=> SomeEndOpen(ppipe_per_proc)
      /\ ~fork_failed => Backed(ppipe_per_proc, holds)
      /\ InStep(ppipe_per_proc, write_pos, buff_offset)
  BY NoPidFact, Restated DEF IInv, TypeOK
<1>2. UNCHANGED <<alive, holds, live, fork_failed, ppipe_buff, write_pos, buff_offset>>
  BY DEF ppipe_read, procs
<1>3. ASSUME NEW i \in Slot, IsFirstSlot(i, p), "r" \in ppipe_per_proc[i].open,
             NEW n, n = Lesser(count, ppipe_per_proc[i].loc_offset),
             ppipe_per_proc' = [ppipe_per_proc EXCEPT
               ![i].read_pos = Ahead(@, n), ![i].loc_offset = @ - n]
      PROVE  IInv'
  <2> DEFINE mine == ppipe_per_proc[i]
             new == [mine EXCEPT !.read_pos = Ahead(@, n), !.loc_offset = @ - n]
  <2>1. mine \in SlotRecord /\ mine.pid = p /\ mine.loc_offset <= buff_offset
        /\ Ahead(mine.read_pos, mine.loc_offset) = write_pos /\ mine.open # {}
    BY <1>1, <1>3 DEF TypeOK, IsFirstSlot, InStep
  <2>2. /\ mine.loc_offset \in Nat /\ mine.read_pos \in Index /\ buff_offset \in 0..MAX_PPIPE_SIZE
        /\ mine.loc_offset < IntRange
    BY <1>1, <2>1, PPipeSizes DEF SlotRecord, TypeOK
  <2>3. /\ n \in 0..mine.loc_offset /\ n \in 0..MAX_PPIPE_SIZE
        /\ mine.loc_offset - n \in 0..(IntRange - 1) /\ mine.loc_offset - n \in Nat
    BY <1>3, <2>1, <2>2, PPipeSizes DEF Lesser
  <2>4. Ahead(mine.read_pos, n) \in Index
        /\ Ahead(Ahead(mine.read_pos, n), mine.loc_offset - n) = write_pos
    <3>1. Ahead(Ahead(mine.read_pos, n), mine.loc_offset - n)
            = Ahead(mine.read_pos, n + (mine.loc_offset - n))
      BY <2>1, <2>2, <2>3, AheadSum, PPipeSizes
    <3>2. n + (mine.loc_offset - n) = mine.loc_offset
      BY <2>2, <2>3
    <3> QED
      BY <2>1, <2>2, <2>3, <3>1, <3>2, AheadType
  <2>5. /\ new \in SlotRecord /\ new.pid = p /\ new.open = mine.open
        /\ new.read_pos = Ahead(mine.read_pos, n) /\ new.loc_offset = mine.loc_offset - n
    BY <2>1, <2>3, <2>4 DEF SlotRecord
  <2>6. ppipe_per_proc' = [ppipe_per_proc EXCEPT ![i] = new]
    BY <1>3
  <2> HIDE DEF new
  <2>7. /\ ppipe_per_proc' \in [Slot -> SlotRecord]
        /\ \A k \in Slot : ppipe_per_proc'[k] = IF k = i THEN new ELSE ppipe_per_proc[k]
    BY <1>1, <2>5, <2>6 DEF TypeOK
  <2>8. \A k \in Slot : /\ ppipe_per_proc'[k].pid = ppipe_per_proc[k].pid
                        /\ ppipe_per_proc'[k].open = ppipe_per_proc[k].open
    BY <2>1, <2>5, <2>7
  <2>9. TypeOK'
    BY <1>1, <1>2, <2>7 DEF TypeOK
  <2>10. /\ Good(ppipe_per_proc', alive', holds')
         /\ SomeEndOpen(ppipe_per_proc') <=> SomeEndOpen(ppipe_per_proc)
         /\ Backed(ppipe_per_proc', holds') <=> Backed(ppipe_per_proc, holds)
    BY <1>1, <1>2, <2>8 DEF Good, SomeEndOpen, Backed
  <2>11. InStep(ppipe_per_proc', write_pos', buff_offset')
    <3> SUFFICES ASSUME NEW k \in Slot, ppipe_per_proc'[k].pid # NoPid,
                        "r" \in ppipe_per_proc'[k].open
                 PROVE  /\ Ahead(ppipe_per_proc'[k].read_pos, ppipe_per_proc'[k].loc_offset)
                             = write_pos
                        /\ ppipe_per_proc'[k].loc_offset <= buff_offset
      BY <1>2 DEF InStep
    <3>1. CASE k = i
      <4>1. ppipe_per_proc'[k] = new
        BY <2>7, <3>1
      <4>2. mine.loc_offset - n <= buff_offset
        BY <2>1, <2>2, <2>3
      <4> QED
        BY <2>4, <2>5, <4>1, <4>2
    <3>2. CASE k # i
      BY <1>1, <2>7, <3>2 DEF InStep
    <3> QED
      BY <3>1, <3>2
  <2> QED
    BY <1>1, <1>2, <2>9, <2>10, <2>11, Restated DEF IInv
<1>4. CASE UNCHANGED ppipe_per_proc
  BY <1>1, <1>2, <1>4, Restated DEF IInv, TypeOK
<1> QED
  BY <1>3, <1>4 DEF ppipe_read

LEMMA MessageFacts ==
  ASSUME NEW s \in Messages
  PROVE  Len(s) \in Nat /\ \A k \in 1..Len(s) : s[k] \in Data
<1>1. PICK n \in 0..MaxCount : s \in [1..n -> Data]
  BY DEF Messages
<1>2. n \in Nat
  BY <1>1, PPipeSizes
<1>3. s \in Seq(Data) /\ Len(s) = n
  BY <1>1, <1>2, SeqDef, LenProperties
<1> QED
  BY <1>1, <1>2, <1>3

LEMMA WriteStep ==
  ASSUME IInv, NEW p \in alive, NEW e \in End, NEW valid \in BOOLEAN,
         NEW s \in Messages, ppipe_write(p, e, valid, s)
  PROVE  IInv'
<1>1. /\ TypeOK /\ Good(ppipe_per_proc, alive, holds)
      /\ live <=> SomeEndOpen(ppipe_per_proc)
      /\ ~fork_failed => Backed(ppipe_per_proc, holds)
      /\ InStep(ppipe_per_proc, write_pos, buff_offset)
  BY Restated DEF IInv
<1>2. UNCHANGED <<alive, holds, live, fork_failed>>
  BY DEF ppipe_write, procs
<1> DEFINE n == Lesser(Len(s), Room)
<1>3. ASSUME /\ ppipe_buff' = [k \in Index |-> IF Gap(write_pos, k) < n
                                               THEN s[Gap(write_pos, k) + 1]
                                               ELSE ppipe_buff[k]]
             /\ write_pos' = Ahead(write_pos, n)
             /\ buff_offset' = buff_offset + n
             /\ ppipe_per_proc' = [i \in Slot |->
                  IF ppipe_per_proc[i].pid = NoPid THEN ppipe_per_proc[i]
                  ELSE [ppipe_per_proc[i] EXCEPT !.loc_offset = (@ + n) % IntRange]]
      PROVE  IInv'
  <2>1. /\ buff_offset \in 0..MAX_PPIPE_SIZE /\ n \in 0..MAX_PPIPE_SIZE
        /\ n <= Len(s) /\ buff_offset + n \in 0..MAX_PPIPE_SIZE
        /\ write_pos \in Index /\ Len(s) \in Nat
    BY <1>1, MessageFacts, PPipeSizes DEF Lesser, Room, TypeOK
  <2> HIDE DEF n
  <2>2. ppipe_buff' \in [Index -> Data]
    <3>1. ASSUME NEW k \in Index, Gap(write_pos, k) < n
          PROVE  s[Gap(write_pos, k) + 1] \in Data
      <4>1. Gap(write_pos, k) + 1 \in 1..Len(s)
        BY <2>1, <3>1, PPipeSizes DEF Gap, Index
      <4> QED
        BY <4>1, MessageFacts
    <3>2. \A k \in Index : ppipe_buff[k] \in Data
      BY <1>1 DEF TypeOK
    <3> QED
      BY <1>3, <3>1, <3>2
  <2>3. write_pos' \in Index
    BY <1>3, <2>1, AheadType
  <2>4. ASSUME NEW i \in Slot
        PROVE  /\ ppipe_per_proc'[i] \in SlotRecord
               /\ ppipe_per_proc'[i].pid = ppipe_per_proc[i].pid
               /\ ppipe_per_proc'[i].open = ppipe_per_proc[i].open
               /\ ppipe_per_proc'[i].read_pos = ppipe_per_proc[i].read_pos
               /\ ppipe_per_proc[i].pid # NoPid =>
                    ppipe_per_proc'[i].loc_offset = (ppipe_per_proc[i].loc_offset + n) % IntRange
    <3> DEFINE mine == ppipe_per_proc[i]
               new == [mine EXCEPT !.loc_offset = (@ + n) % IntRange]
    <3>1. mine \in SlotRecord
      BY <1>1 DEF TypeOK
    <3>2. mine.loc_offset + n \in Nat
      BY <2>1, <3>1, PPipeSizes DEF SlotRecord
    <3>3. (mine.loc_offset + n) % IntRange \in 0..(IntRange - 1)
      BY <3>2, ModType
    <3>4. /\ new \in SlotRecord /\ new.pid = mine.pid /\ new.open = mine.open
          /\ new.read_pos = mine.read_pos
          /\ new.loc_offset = (mine.loc_offset + n) % IntRange
      BY <3>1, <3>3 DEF SlotRecord
    <3>5. ppipe_per_proc'[i] = IF mine.pid = NoPid THEN mine ELSE new
      BY <1>3
    <3> HIDE DEF new
    <3> QED
      BY <3>1, <3>4, <3>5
  <2>5. ppipe_per_proc' \in [Slot -> SlotRecord]
    <3> DEFINE F(i) == IF ppipe_per_proc[i].pid = NoPid THEN ppipe_per_proc[i]
                       ELSE [ppipe_per_proc[i] EXCEPT !.loc_offset = (@ + n) % IntRange]
    <3>1. ppipe_per_proc' = [i \in Slot |-> F(i)]
      BY <1>3
    <3>2. \A i \in Slot : F(i) \in SlotRecord
      BY <2>4, <3>1
    <3> HIDE DEF F
    <3> QED
      BY <3>1, <3>2
  <2>6. TypeOK'
    BY <1>1, <1>2, <1>3, <2>1, <2>2, <2>3, <2>5 DEF TypeOK
  <2>7. /\ Good(ppipe_per_proc', alive', holds')
        /\ SomeEndOpen(ppipe_per_proc') <=> SomeEndOpen(ppipe_per_proc)
        /\ Backed(ppipe_per_proc', holds') <=> Backed(ppipe_per_proc, holds)
    BY <1>1, <1>2, <2>4 DEF Good, SomeEndOpen, Backed
  <2>8. InStep(ppipe_per_proc', write_pos', buff_offset')
    <3> SUFFICES ASSUME NEW i \in Slot, ppipe_per_proc'[i].pid # NoPid,
                        "r" \in ppipe_per_proc'[i].open
                 PROVE  /\ Ahead(ppipe_per_proc'[i].read_pos, ppipe_per_proc'[i].loc_offset)
                             = write_pos'
                        /\ ppipe_per_proc'[i].loc_offset <= buff_offset'
      BY DEF InStep
    <3> DEFINE mine == ppipe_per_proc[i]
    <3>1. /\ mine.pid # NoPid /\ mine \in SlotRecord
          /\ Ahead(mine.read_pos, mine.loc_offset) = write_pos /\ mine.loc_offset <= buff_offset
      BY <1>1, <2>4 DEF InStep, TypeOK
    <3>2. mine.loc_offset \in Nat /\ mine.read_pos \in Index
      BY <3>1, PPipeSizes DEF SlotRecord
    <3>3. mine.loc_offset + n <= buff_offset + n /\ mine.loc_offset + n < IntRange
          /\ mine.loc_offset + n \in Nat /\ mine.loc_offset + n <= MAX_PPIPE_SIZE
      BY <2>1, <3>1, <3>2, PPipeSizes
    <3>4. ppipe_per_proc'[i].loc_offset = mine.loc_offset + n
      BY <2>4, <3>1, <3>3, ModType
    <3>5. Ahead(mine.read_pos, mine.loc_offset + n) = Ahead(Ahead(mine.read_pos, mine.loc_offset), n)
      BY <2>1, <3>2, <3>3, AheadSum
    <3> QED
      BY <1>3, <2>4, <3>1, <3>3, <3>4, <3>5
  <2> QED
    BY <1>1, <1>2, <2>6, <2>7, <2>8, Restated DEF IInv
<1>4. CASE UNCHANGED <<ppipe_per_proc, ppipe_buff, write_pos, buff_offset>>
  BY <1>1, <1>2, <1>4, Restated DEF IInv, TypeOK
<1> QED
  BY <1>3, <1>4 DEF ppipe_write

LEMMA FlushStep ==
  ASSUME IInv, NEW p \in alive, do_flush_ppipe(p)
  PROVE  IInv'
<1>1. /\ TypeOK /\ SlotsMatchDescriptors /\ InStep(ppipe_per_proc, write_pos, buff_offset)
  BY Restated DEF IInv
<1>2. UNCHANGED <<alive, holds, live, fork_failed, ppipe_per_proc, ppipe_buff, write_pos>>
  BY DEF do_flush_ppipe, procs
<1>3. SlotsMatchDescriptors'
  BY <1>1, <1>2, Restated
<1>4. ASSUME NEW i \in Slot, Reading(i), buff_offset' = ppipe_per_proc[i].loc_offset,
             \A j \in Slot : Reading(j) =>
               ppipe_per_proc[j].loc_offset <= ppipe_per_proc[i].loc_offset
      PROVE  IInv'
  <2>1. ppipe_per_proc[i].loc_offset <= buff_offset /\ ppipe_per_proc[i].loc_offset \in Nat
    BY <1>1, <1>4, PPipeSizes DEF InStep, Reading, TypeOK, SlotRecord
  <2>2. TypeOK'
    BY <1>1, <1>2, <1>4, <2>1, PPipeSizes DEF TypeOK
  <2>3. InStep(ppipe_per_proc', write_pos', buff_offset')
    BY <1>1, <1>2, <1>4 DEF InStep, Reading
  <2> QED
    BY <1>3, <2>2, <2>3, Restated DEF IInv
<1>5. CASE UNCHANGED buff_offset
  BY <1>1, <1>2, <1>3, <1>5, Restated DEF IInv, TypeOK
<1> QED
  BY <1>4, <1>5 DEF do_flush_ppipe

LEMMA NextStep == IInv /\ [Next]_vars => IInv'
<1> SUFFICES ASSUME IInv, [Next]_vars PROVE IInv'
  OBVIOUS
<1>1. CASE Next
  <2>1. PICK p \in alive :
          \/ create_persistent_pipe(p)
          \/ \E c \in Pids : do_fork(p, c)
          \/ \E e \in End : do_close(p, e)
          \/ do_exit(p)
          \/ \E e \in End, valid \in BOOLEAN :
               \/ \E count \in 0..MaxCount : ppipe_read(p, e, valid, count)
               \/ \E s \in Messages : ppipe_write(p, e, valid, s)
          \/ do_flush_ppipe(p)
    BY <1>1 DEF Next
  <2> QED
    BY <2>1, CreateStep, ForkStep, CloseStep, ExitStep, ReadStep, WriteStep, FlushStep
<1>2. CASE UNCHANGED vars
  BY <1>2, Restated DEF IInv, TypeOK, vars, procs
<1> QED
  BY <1>1, <1>2

THEOREM Invariance == Spec => []IInv
  BY InitInv, NextStep, PTL DEF Spec

(* Whatever was closed, forked or refused, the slots are those of running   *)
(* processes with the descriptors, and the pages live as long as an end     *)
(* (SlotsMatchDescriptors, of the run on a small instance).                 *)
THEOREM SlotsAreOwned == Spec => []SlotsMatchDescriptors
<1>1. IInv => SlotsMatchDescriptors
  BY DEF IInv
<1> QED
  BY <1>1, Invariance, PTL

(* No reader's counters drift from the pipe's, for every size of the ring   *)
(* and width of an int that can hold it: no unread byte is overwritten.     *)
THEOREM CountersAgree == Spec => []ReadersInStep
<1>1. IInv => ReadersInStep
  BY DEF IInv
<1> QED
  BY <1>1, Invariance, PTL

-------------------------------------------------------------------------------
(*****************************************************************************)
(* The persistent pipe implements the abstract stream, for every number of  *)
(* processes and slots and every size of the ring: the table and the        *)
(* counters are turned into the users, the window and the cursors of        *)
(* PersistentStream.                                                        *)
(*****************************************************************************)

(* The refinement mapping, for any table of slots and any ring. *)
UsersOf(slots) ==
  {u \in Pids \X End : \E i \in Slot : slots[i].pid = u[1] /\ u[2] \in slots[i].open}
ReadersOf(slots) == {q \in Pids : <<q, "r">> \in UsersOf(slots)}
Oldest(w, n) == Ahead(w, MAX_PPIPE_SIZE - n)
Bytes(buf, w, n) == [k \in 1..n |-> buf[Ahead(Oldest(w, n), k - 1)]]
CursorOf(slots, kept) ==
  [p \in ReadersOf(slots) |-> kept - slots[CHOOSE j \in Slot : slots[j].pid = p].loc_offset]

LEMMA Mapped ==
  ASSUME IInv, IInv'
  PROVE  /\ Users = UsersOf(ppipe_per_proc)
         /\ Users' = UsersOf(ppipe_per_proc')
         /\ Window = IF live THEN Bytes(ppipe_buff, write_pos, buff_offset) ELSE <<>>
         /\ Window' = IF live' THEN Bytes(ppipe_buff', write_pos', buff_offset') ELSE <<>>
         /\ Cursor = CursorOf(ppipe_per_proc, buff_offset)
         /\ Cursor' = CursorOf(ppipe_per_proc', buff_offset')
<1>1. /\ write_pos + MAX_PPIPE_SIZE - buff_offset = write_pos + (MAX_PPIPE_SIZE - buff_offset)
      /\ write_pos' + MAX_PPIPE_SIZE - buff_offset' = write_pos' + (MAX_PPIPE_SIZE - buff_offset')
  BY PPipeSizes DEF IInv, TypeOK, Index
<1>2. Users = UsersOf(ppipe_per_proc) /\ Users' = UsersOf(ppipe_per_proc')
  BY DEF Users, UsersOf
<1>3. /\ Behind(buff_offset) = Oldest(write_pos, buff_offset)
      /\ Behind(buff_offset)' = Oldest(write_pos', buff_offset')
  BY <1>1 DEF Behind, Oldest, Ahead
<1>4. Window = IF live THEN Bytes(ppipe_buff, write_pos, buff_offset) ELSE <<>>
  BY <1>3 DEF Window, Bytes
<1>5. Window' = IF live' THEN Bytes(ppipe_buff', write_pos', buff_offset') ELSE <<>>
  BY <1>3 DEF Window, Bytes, Ahead
<1>6. /\ Cursor = CursorOf(ppipe_per_proc, buff_offset)
      /\ Cursor' = CursorOf(ppipe_per_proc', buff_offset')
  BY <1>2 DEF Cursor, CursorOf, ReadersOf
<1> QED
  BY <1>2, <1>4, <1>5, <1>6

(* Going back n from w and ahead by n again. *)
LEMMA OldestFacts ==
  ASSUME NEW w \in Index, NEW n \in 0..MAX_PPIPE_SIZE
  PROVE  /\ Oldest(w, n) \in Index
         /\ Ahead(Oldest(w, n), n) = w
         /\ \A r \in Index : Ahead(r, n) = w => r = Oldest(w, n)
         /\ \A m \in 0..n : Ahead(Oldest(w, n), n - m) = Oldest(w, m)
<1>1. MAX_PPIPE_SIZE - n \in 0..MAX_PPIPE_SIZE /\ MAX_PPIPE_SIZE \in Nat \ {0}
  BY PPipeSizes
<1>2. /\ Oldest(w, n) \in Index
      /\ Oldest(w, n) = IF w + (MAX_PPIPE_SIZE - n) < MAX_PPIPE_SIZE
                        THEN w + (MAX_PPIPE_SIZE - n)
                        ELSE w + (MAX_PPIPE_SIZE - n) - MAX_PPIPE_SIZE
  BY <1>1, AheadType DEF Oldest
<1>3. \A r \in Index : Ahead(r, n) = IF r + n < MAX_PPIPE_SIZE
                                     THEN r + n ELSE r + n - MAX_PPIPE_SIZE
  BY AheadType
<1>4. Ahead(Oldest(w, n), n) = w
  BY <1>1, <1>2, <1>3 DEF Index
<1>5. \A r \in Index : Ahead(r, n) = w => r = Oldest(w, n)
  BY <1>1, <1>2, <1>3 DEF Index
<1>6. ASSUME NEW m \in 0..n PROVE Ahead(Oldest(w, n), n - m) = Oldest(w, m)
  <2>1. /\ MAX_PPIPE_SIZE - n \in Nat /\ n - m \in Nat
        /\ (MAX_PPIPE_SIZE - n) + (n - m) = MAX_PPIPE_SIZE - m
        /\ (MAX_PPIPE_SIZE - n) + (n - m) <= MAX_PPIPE_SIZE
    BY <1>1
  <2> QED
    BY <2>1, AheadSum DEF Oldest
<1> QED
  BY <1>2, <1>4, <1>5, <1>6

LEMMA MessageIsSeq == \A s \in Messages : s \in Seq(Data)
<1> SUFFICES ASSUME NEW s \in Messages PROVE s \in Seq(Data)
  OBVIOUS
<1>1. PICK n \in 0..MaxCount : s \in [1..n -> Data]
  BY DEF Messages
<1>2. n \in Nat
  BY <1>1, PPipeSizes
<1> QED
  BY <1>1, <1>2, SeqDef

LEMMA SeqIsFunction ==
  ASSUME NEW S, NEW t \in Seq(S)
  PROVE  t = [j \in 1..Len(t) |-> t[j]]
  OBVIOUS

(* The first k of the last m bytes. *)
Part(buf, w, m, k) == [j \in 1..k |-> buf[Ahead(Oldest(w, m), j - 1)]]

(* The last m bytes kept, whichever way they are counted. *)
LEMMA LastBytes ==
  ASSUME NEW buf, NEW w \in Index, NEW n \in 0..MAX_PPIPE_SIZE, NEW m \in 0..n
  PROVE  /\ \A j \in 1..m : Bytes(buf, w, n)[n - m + j] = buf[Ahead(Oldest(w, m), j - 1)]
         /\ \A k \in 0..m : SubSeq(Bytes(buf, w, n), n - m + 1, n - m + k)
                              = Part(buf, w, m, k)
<1>1. ASSUME NEW j \in 1..m
      PROVE  Bytes(buf, w, n)[n - m + j] = buf[Ahead(Oldest(w, m), j - 1)]
  <2>1. /\ n - m \in Nat /\ j - 1 \in Nat /\ n - m + (j - 1) <= MAX_PPIPE_SIZE
        /\ n - m + j \in 1..n /\ n - m + j - 1 = (n - m) + (j - 1)
    BY PPipeSizes
  <2>2. Ahead(Ahead(Oldest(w, n), n - m), j - 1) = Ahead(Oldest(w, n), (n - m) + (j - 1))
    BY <2>1, OldestFacts, AheadSum
  <2>3. Ahead(Oldest(w, n), n - m) = Oldest(w, m)
    BY OldestFacts
  <2> QED
    BY <2>1, <2>2, <2>3 DEF Bytes
<1>2. ASSUME NEW k \in 0..m
      PROVE  SubSeq(Bytes(buf, w, n), n - m + 1, n - m + k)
               = Part(buf, w, m, k)
  <2> DEFINE s == Bytes(buf, w, n)
             S == {buf[x] : x \in Index}
             a == n - m + 1
             b == n - m + k
  <2>1. s \in Seq(S) /\ Len(s) = n
    <3>1. \A x \in 1..n : x - 1 \in 0..MAX_PPIPE_SIZE
      BY PPipeSizes
    <3>2. \A x \in 1..n : Ahead(Oldest(w, n), x - 1) \in Index
      BY <3>1, OldestFacts, AheadType
    <3>3. \A x \in 1..n : buf[Ahead(Oldest(w, n), x - 1)] \in S
      BY <3>2
    <3> HIDE DEF S
    <3> QED
      BY <3>3, PPipeSizes DEF Bytes
  <2>2. a \in 1..(n + 1) /\ b \in a - 1..n /\ b - a + 1 = k
    BY PPipeSizes
  <2>3. \A j \in 1..k : a + j - 1 = n - m + j /\ j \in 1..m
    BY PPipeSizes
  <2>4. \A j \in 1..k : s[a + j - 1] = buf[Ahead(Oldest(w, m), j - 1)]
    BY <1>1, <2>3
  <2> HIDE DEF s, S, a, b
  <2>5. SubSeq(s, a, b) \in Seq(S) /\ Len(SubSeq(s, a, b)) = k
        /\ \A j \in 1..k : SubSeq(s, a, b)[j] = s[a + j - 1]
    <3>1. a \in Int /\ b \in Int /\ k \in Nat
      BY <2>2, PPipeSizes
    <3>2. \A x \in a..b : s[x] \in S
      BY <2>1, <2>2, PPipeSizes
    <3>3. /\ SubSeq(s, a, b) \in Seq(S)
          /\ Len(SubSeq(s, a, b)) = IF a <= b THEN b - a + 1 ELSE 0
          /\ \A j \in 1..b - a + 1 : SubSeq(s, a, b)[j] = s[a + j - 1]
      BY <3>1, <3>2, SubSeqProperties
    <3>4. Len(SubSeq(s, a, b)) = k
      BY <2>2, <3>1, <3>3
    <3>5. \A j \in 1..k : SubSeq(s, a, b)[j] = s[a + j - 1]
      BY <2>2, <3>3
    <3> QED
      BY <3>3, <3>4, <3>5
  <2>6. SubSeq(s, a, b) = [j \in 1..k |-> SubSeq(s, a, b)[j]]
    BY <2>5, SeqIsFunction, Zenon
  <2>7. SubSeq(s, a, b) = [j \in 1..k |-> buf[Ahead(Oldest(w, m), j - 1)]]
    BY <2>4, <2>5, <2>6, Zenon
  <2> QED
    BY <2>7 DEF s, a, b, Part
<1> QED
  BY <1>1, <1>2

(* What the mapping makes of the slot of a process. *)
LEMMA SlotUsers ==
  ASSUME NEW slots, NEW al, NEW hd, Good(slots, al, hd), NEW kept
  PROVE  /\ \A q \in Pids, e \in End :
              <<q, e>> \in UsersOf(slots) <=> \E i \in Slot : slots[i].pid = q /\ e \in slots[i].open
         /\ \A q \in Pids : q \in ReadersOf(slots) <=>
              \E i \in Slot : slots[i].pid = q /\ "r" \in slots[i].open
         /\ ReadersOf(slots) \subseteq Pids
         /\ \A i \in Slot : slots[i].pid \in ReadersOf(slots) =>
              CursorOf(slots, kept)[slots[i].pid] = kept - slots[i].loc_offset
<1>1. \A q \in Pids, e \in End :
        <<q, e>> \in UsersOf(slots) <=> \E i \in Slot : slots[i].pid = q /\ e \in slots[i].open
  BY DEF UsersOf
<1>2. \A q \in Pids : q \in ReadersOf(slots) <=>
        \E i \in Slot : slots[i].pid = q /\ "r" \in slots[i].open
  BY <1>1 DEF ReadersOf, End
<1>3. ReadersOf(slots) \subseteq Pids
  BY DEF ReadersOf
<1>4. ASSUME NEW i \in Slot, slots[i].pid \in ReadersOf(slots)
      PROVE  CursorOf(slots, kept)[slots[i].pid] = kept - slots[i].loc_offset
  <2>1. slots[i].pid # NoPid
    BY <1>3, <1>4, NoPidFact
  <2>2. \A j \in Slot : slots[j].pid = slots[i].pid => j = i
    BY <2>1 DEF Good
  <2>3. (CHOOSE j \in Slot : slots[j].pid = slots[i].pid) = i
    BY <2>2
  <2> QED
    BY <1>4, <2>3 DEF CursorOf
<1> QED
  BY <1>1, <1>2, <1>3, <1>4

(* A reader in terms of its slot. *)
LEMMA ReaderSlot ==
  ASSUME IInv, NEW q \in ReadersOf(ppipe_per_proc)
  PROVE  \E i \in Slot :
           /\ ppipe_per_proc[i].pid = q /\ "r" \in ppipe_per_proc[i].open /\ Reading(i)
           /\ Cursor[q] = buff_offset - ppipe_per_proc[i].loc_offset
           /\ ppipe_per_proc[i].loc_offset \in 0..buff_offset
           /\ ppipe_per_proc[i].read_pos = Oldest(write_pos, ppipe_per_proc[i].loc_offset)
<1>1. TypeOK /\ Good(ppipe_per_proc, alive, holds) /\ InStep(ppipe_per_proc, write_pos, buff_offset)
  BY Restated DEF IInv
<1>2. q \in Pids /\ q # NoPid
  BY NoPidFact DEF ReadersOf
<1>3. PICK i \in Slot : ppipe_per_proc[i].pid = q /\ "r" \in ppipe_per_proc[i].open
  BY <1>1, <1>2, SlotUsers
<1>4. Cursor = CursorOf(ppipe_per_proc, buff_offset)
  BY DEF Cursor, CursorOf, ReadersOf, Users, UsersOf
<1>5. Cursor[q] = buff_offset - ppipe_per_proc[i].loc_offset
  BY <1>1, <1>3, <1>4, SlotUsers
<1>6. /\ ppipe_per_proc[i].loc_offset <= buff_offset
      /\ Ahead(ppipe_per_proc[i].read_pos, ppipe_per_proc[i].loc_offset) = write_pos
      /\ ppipe_per_proc[i] \in SlotRecord
  BY <1>1, <1>2, <1>3 DEF InStep, TypeOK
<1>7. /\ ppipe_per_proc[i].loc_offset \in 0..buff_offset
      /\ ppipe_per_proc[i].loc_offset \in 0..MAX_PPIPE_SIZE
      /\ ppipe_per_proc[i].read_pos \in Index /\ write_pos \in Index
  BY <1>1, <1>6, PPipeSizes DEF SlotRecord, TypeOK
<1>8. ppipe_per_proc[i].read_pos = Oldest(write_pos, ppipe_per_proc[i].loc_offset)
  BY <1>6, <1>7, OldestFacts
<1> QED
  BY <1>2, <1>3, <1>5, <1>7, <1>8 DEF Reading

(* The pages are held exactly as long as somebody uses the pipe. *)
LEMMA UsedWhileLive ==
  /\ IInv => (live <=> Users # {})
  /\ IInv' => (live' <=> Users' # {})
<1>1. ASSUME NEW slots, NEW al, NEW hd, Good(slots, al, hd), slots \in [Slot -> SlotRecord]
      PROVE  SomeEndOpen(slots) <=> UsersOf(slots) # {}
  <2>1. ASSUME SomeEndOpen(slots) PROVE UsersOf(slots) # {}
    <3>1. PICK i \in Slot : slots[i].pid # NoPid /\ slots[i].open # {}
      BY <2>1 DEF SomeEndOpen
    <3>2. slots[i].pid \in Pids /\ slots[i].open \subseteq End
      BY <1>1, <3>1 DEF SlotRecord
    <3>3. PICK e \in End : e \in slots[i].open
      BY <3>1, <3>2
    <3>4. <<slots[i].pid, e>> \in UsersOf(slots)
      BY <3>2, <3>3 DEF UsersOf
    <3> QED
      BY <3>4
  <2>2. ASSUME UsersOf(slots) # {} PROVE SomeEndOpen(slots)
    <3>1. PICK u \in Pids \X End : \E i \in Slot : slots[i].pid = u[1] /\ u[2] \in slots[i].open
      BY <2>2 DEF UsersOf
    <3>2. u[1] # NoPid
      BY <3>1, NoPidFact
    <3> QED
      BY <3>1, <3>2 DEF SomeEndOpen
  <2> QED
    BY <2>1, <2>2
<1>2. Users = UsersOf(ppipe_per_proc) /\ Users' = UsersOf(ppipe_per_proc')
  BY DEF Users, UsersOf
<1> QED
  BY <1>1, <1>2, Restated DEF IInv, TypeOK

-------------------------------------------------------------------------------
LEMMA InitRefines == Init => Abstract!Init
<1> SUFFICES ASSUME Init PROVE Abstract!Init
  OBVIOUS
<1>1. \A i \in Slot : ppipe_per_proc[i].open = {}
  BY DEF Init, FreeSlot
<1>2. Users = {} /\ Window = <<>> /\ rc = 0 /\ out = <<>>
  BY <1>1 DEF Init, Users, Window
<1>3. Cursor = [p \in {} |-> 0]
  BY <1>2 DEF Cursor
<1> QED
  BY <1>2, <1>3 DEF Abstract!Init

(* A step that changes neither slots nor ring is an abstract Other. *)
LEMMA FrameRefines ==
  ASSUME UNCHANGED <<live, ppipe_per_proc, ppipe_buff, write_pos, buff_offset>>,
         rc' \in Int, rc' <= 0, out' = <<>>
  PROVE  Abstract!Next
<1>1. Users' = Users
  BY DEF Users
<1>2. Window' = Window
  BY DEF Window, Behind, Ahead
<1>3. Cursor' = Cursor
  BY <1>1 DEF Cursor
<1> QED
  BY <1>1, <1>2, <1>3 DEF Abstract!Next, Abstract!Other

LEMMA CreateRefines ==
  ASSUME IInv, IInv', NEW p \in alive, create_persistent_pipe(p)
  PROVE  Abstract!Next
<1>1. p \in Pids /\ p # NoPid /\ ~live
  BY NoPidFact DEF IInv, TypeOK, create_persistent_pipe
<1>2. CASE Return(Refused) /\ UNCHANGED <<procs, ppipe_per_proc, ppipe_buff, write_pos, buff_offset>>
  BY <1>2, FrameRefines DEF Return, Refused, procs
<1>3. CASE /\ live' = TRUE
           /\ ppipe_per_proc' = [i \in Slot |->
                IF i = 0 THEN [FreeSlot EXCEPT !.pid = p, !.open = End] ELSE FreeSlot]
           /\ write_pos' = 0 /\ buff_offset' = 0
           /\ Return(0)
  <2>1. Users = {}
    BY <1>1, UsedWhileLive
  <2>2. /\ \A i \in Slot : i # 0 => ppipe_per_proc'[i].pid = NoPid
        /\ ppipe_per_proc'[0].pid = p /\ ppipe_per_proc'[0].open = End
        /\ ppipe_per_proc'[0].loc_offset = 0
    <3>1. ppipe_per_proc'[0] = [FreeSlot EXCEPT !.pid = p, !.open = End]
      BY <1>3, NoPidFact
    <3>2. \A i \in Slot : i # 0 => ppipe_per_proc'[i] = FreeSlot
      BY <1>3
    <3> QED
      BY <3>1, <3>2 DEF FreeSlot
  <2>3. \A u \in Pids \X End :
          (\E i \in Slot : ppipe_per_proc'[i].pid = u[1] /\ u[2] \in ppipe_per_proc'[i].open)
            <=> u[1] = p
    BY <2>2, NoPidFact
  <2>4. UsersOf(ppipe_per_proc') = {p} \X End
    BY <1>1, <2>3 DEF UsersOf
  <2>5. ReadersOf(ppipe_per_proc') = {p}
    BY <1>1, <2>4 DEF ReadersOf, End
  <2>6. CursorOf(ppipe_per_proc', buff_offset') = [q \in {p} |-> 0]
    <3>1. ASSUME NEW q \in {p} PROVE CursorOf(ppipe_per_proc', buff_offset')[q] = 0
      <4>1. ppipe_per_proc'[0].pid = q /\ q \in ReadersOf(ppipe_per_proc')
        BY <2>2, <2>5
      <4>2. Good(ppipe_per_proc', alive', holds')
        BY Restated DEF IInv
      <4>3. CursorOf(ppipe_per_proc', buff_offset')[q] = buff_offset' - ppipe_per_proc'[0].loc_offset
        BY <4>1, <4>2, SlotUsers, NoPidFact
      <4> QED
        BY <1>3, <2>2, <4>3
    <3>2. CursorOf(ppipe_per_proc', buff_offset') =
            [q \in {p} |-> CursorOf(ppipe_per_proc', buff_offset')[q]]
      BY <2>5 DEF CursorOf
    <3> QED
      BY <3>1, <3>2, Zenon
  <2>7. Bytes(ppipe_buff', write_pos', buff_offset') = <<>>
    BY <1>3 DEF Bytes
  <2>8. Abstract!Create(p)
    BY <1>3, <2>1, <2>4, <2>6, <2>7, Mapped
       DEF Abstract!Create, Abstract!End, End, Return
  <2> QED
    BY <1>1, <2>8 DEF Abstract!Next
<1> QED
  BY <1>2, <1>3 DEF create_persistent_pipe

LEMMA ForkRefines ==
  ASSUME IInv, IInv', NEW p \in alive, NEW c \in Pids, do_fork(p, c)
  PROVE  Abstract!Next
<1>1. /\ UNCHANGED <<live, ppipe_buff, write_pos, buff_offset>>
      /\ out' = <<>> /\ (rc' = 0 \/ rc' = Refused)
      /\ p \in Pids /\ c \notin alive /\ p # NoPid /\ c # NoPid
      /\ Good(ppipe_per_proc, alive, holds) /\ Good(ppipe_per_proc', alive', holds')
  BY NoPidFact, Restated DEF do_fork, Return, IInv, TypeOK
<1>2. CASE ppipe_per_proc' = ppipe_per_proc
  BY <1>1, <1>2, FrameRefines DEF Refused
<1>3. CASE holds[p] # {} /\ CanRecord(p)
  <2>1. do_ppipe_fork(p, c) /\ rc' = 0
    BY <1>3 DEF do_fork, Return
  <2>2. PICK i \in Slot, j \in Slot :
          /\ ppipe_per_proc[i].pid = NoPid /\ ppipe_per_proc[j].pid = p
          /\ ppipe_per_proc' = [ppipe_per_proc EXCEPT ![i] = [ppipe_per_proc[j] EXCEPT !.pid = c]]
    BY <1>1, <1>3, <2>1, ForkedTable
  <2>3. /\ ppipe_per_proc'[i].pid = c
        /\ ppipe_per_proc'[i].open = ppipe_per_proc[j].open
        /\ ppipe_per_proc'[i].loc_offset = ppipe_per_proc[j].loc_offset
        /\ \A k \in Slot : k # i => ppipe_per_proc'[k] = ppipe_per_proc[k]
    BY <2>2 DEF IInv, TypeOK, SlotRecord
  <2>4. \A k \in Slot : /\ ppipe_per_proc[k].pid # c
                        /\ ppipe_per_proc[k].pid = p <=> k = j
    BY <1>1, <2>2 DEF Good
  <2>5. i # j
    BY <1>1, <2>2
  <2>6. ASSUME NEW q \in Pids, NEW e \in End
        PROVE  <<q, e>> \in UsersOf(ppipe_per_proc') <=>
                 \/ <<q, e>> \in UsersOf(ppipe_per_proc)
                 \/ q = c /\ <<p, e>> \in UsersOf(ppipe_per_proc)
    <3>1. /\ <<q, e>> \in UsersOf(ppipe_per_proc') <=>
               \E k \in Slot : ppipe_per_proc'[k].pid = q /\ e \in ppipe_per_proc'[k].open
          /\ <<q, e>> \in UsersOf(ppipe_per_proc) <=>
               \E k \in Slot : ppipe_per_proc[k].pid = q /\ e \in ppipe_per_proc[k].open
          /\ <<p, e>> \in UsersOf(ppipe_per_proc) <=> e \in ppipe_per_proc[j].open
      BY <1>1, <2>4 DEF UsersOf
    <3>2. q # NoPid
      BY NoPidFact
    <3> QED
      BY <2>2, <2>3, <2>4, <3>1, <3>2
  <2>7. UsersOf(ppipe_per_proc') =
          UsersOf(ppipe_per_proc) \cup ({c} \X {e \in End : <<p, e>> \in UsersOf(ppipe_per_proc)})
    <3>1. UsersOf(ppipe_per_proc') \subseteq Pids \X End /\ UsersOf(ppipe_per_proc) \subseteq Pids \X End
      BY DEF UsersOf
    <3> QED
      BY <2>6, <3>1
  <2>8. \A e \in End : <<c, e>> \notin UsersOf(ppipe_per_proc)
    BY <2>4 DEF UsersOf
  <2>9. ASSUME NEW q \in ReadersOf(ppipe_per_proc')
        PROVE  CursorOf(ppipe_per_proc', buff_offset')[q]
                 = CursorOf(ppipe_per_proc, buff_offset)[IF q = c THEN p ELSE q]
    <3>1. q \in Pids
      BY DEF ReadersOf
    <3>2. PICK k \in Slot : ppipe_per_proc'[k].pid = q /\ "r" \in ppipe_per_proc'[k].open
      BY <1>1, <3>1, SlotUsers
    <3>3. CursorOf(ppipe_per_proc', buff_offset')[q] = buff_offset' - ppipe_per_proc'[k].loc_offset
      BY <1>1, <3>2, SlotUsers
    <3>4. CASE k = i
      <4>1. q = c /\ p \in ReadersOf(ppipe_per_proc)
        BY <1>1, <2>2, <2>3, <3>2, <3>4, SlotUsers
      <4>2. CursorOf(ppipe_per_proc, buff_offset)[p] = buff_offset - ppipe_per_proc[j].loc_offset
        BY <1>1, <2>2, <4>1, SlotUsers
      <4> QED
        BY <1>1, <2>3, <3>3, <3>4, <4>1, <4>2
    <3>5. CASE k # i
      <4>1. ppipe_per_proc'[k] = ppipe_per_proc[k] /\ q # c
        BY <2>3, <2>4, <3>2, <3>5
      <4>2. q \in ReadersOf(ppipe_per_proc)
        BY <1>1, <3>1, <3>2, <4>1, SlotUsers
      <4>3. CursorOf(ppipe_per_proc, buff_offset)[q] = buff_offset - ppipe_per_proc[k].loc_offset
        BY <1>1, <3>2, <4>1, <4>2, SlotUsers
      <4> QED
        BY <1>1, <3>3, <4>1, <4>3
    <3> QED
      BY <3>4, <3>5
  <2>10. CursorOf(ppipe_per_proc', buff_offset') =
           [q \in ReadersOf(ppipe_per_proc') |->
              CursorOf(ppipe_per_proc, buff_offset)[IF q = c THEN p ELSE q]]
    <3>1. CursorOf(ppipe_per_proc', buff_offset') =
            [q \in ReadersOf(ppipe_per_proc') |-> CursorOf(ppipe_per_proc', buff_offset')[q]]
      BY DEF CursorOf
    <3> QED
      BY <2>9, <3>1, Zenon
  <2>11. /\ Users = UsersOf(ppipe_per_proc) /\ Users' = UsersOf(ppipe_per_proc')
         /\ Cursor = CursorOf(ppipe_per_proc, buff_offset)
         /\ Cursor' = CursorOf(ppipe_per_proc', buff_offset')
    BY Mapped
  <2>12. Window' = Window
    BY <1>1 DEF Window, Behind, Ahead
  <2>13. Abstract!Readers(Users') = ReadersOf(ppipe_per_proc')
    BY <2>11 DEF Abstract!Readers, ReadersOf
  <2>14. /\ \A e \in Abstract!End : <<c, e>> \notin Users
         /\ Users' = Users \cup ({c} \X {e \in Abstract!End : <<p, e>> \in Users})
    BY <2>7, <2>8, <2>11 DEF Abstract!End, End
  <2>15. Cursor' = [q \in Abstract!Readers(Users') |-> Cursor[IF q = c THEN p ELSE q]]
    BY <2>10, <2>11, <2>13
  <2>16. Abstract!Inherit(p, c)
    BY <1>1, <2>1, <2>12, <2>14, <2>15 DEF Abstract!Inherit
  <2> QED
    BY <1>1, <2>16 DEF Abstract!Next
<1>4. CASE ~(holds[p] # {} /\ CanRecord(p))
  <2>1. ppipe_per_proc' = ppipe_per_proc
    BY <1>4 DEF do_fork, do_ppipe_fork
  <2> QED
    BY <1>2, <2>1
<1> QED
  BY <1>3, <1>4

(* Closing the ends E of p is an abstract Drop. *)
LEMMA CloseRefines ==
  ASSUME IInv, IInv', NEW p \in Pids, NEW E \in SUBSET End, ppipe_close(p, E),
         UNCHANGED <<ppipe_buff, write_pos, buff_offset>>, Return(0)
  PROVE  Abstract!Next
<1>1. /\ \A i \in Slot : ppipe_per_proc[i].pid # p => ppipe_per_proc'[i] = ppipe_per_proc[i]
      /\ \A i \in Slot : ppipe_per_proc[i].pid = p =>
           IF ppipe_per_proc[i].open \subseteq E THEN ppipe_per_proc'[i] = FreeSlot
           ELSE /\ ppipe_per_proc'[i].pid = p
                /\ ppipe_per_proc'[i].open = ppipe_per_proc[i].open \ E
                /\ ppipe_per_proc'[i].read_pos = ppipe_per_proc[i].read_pos
                /\ ppipe_per_proc'[i].loc_offset = ppipe_per_proc[i].loc_offset
      /\ Good(ppipe_per_proc, alive, holds) /\ Good(ppipe_per_proc', alive', holds')
  BY ClosedTable, Restated DEF IInv
<1>2. FreeSlot.pid = NoPid /\ NoPid \notin Pids
  BY NoPidFact DEF FreeSlot
<1> HIDE DEF FreeSlot
<1>3. ASSUME NEW q \in Pids, NEW i \in Slot, ppipe_per_proc'[i].pid = q
      PROVE  /\ ppipe_per_proc[i].pid = q
             /\ ppipe_per_proc'[i].open = IF q = p THEN ppipe_per_proc[i].open \ E
                                          ELSE ppipe_per_proc[i].open
             /\ ppipe_per_proc'[i].loc_offset = ppipe_per_proc[i].loc_offset
  <2>1. CASE ppipe_per_proc[i].pid # p
    BY <1>1, <1>3, <2>1
  <2>2. CASE ppipe_per_proc[i].pid = p
    <3>1. ~(ppipe_per_proc[i].open \subseteq E)
      BY <1>1, <1>2, <1>3, <2>2
    <3> QED
      BY <1>1, <1>3, <2>2, <3>1
  <2> QED
    BY <2>1, <2>2
<1>4. ASSUME NEW q \in Pids, NEW e \in End
      PROVE  <<q, e>> \in UsersOf(ppipe_per_proc') <=>
               <<q, e>> \in UsersOf(ppipe_per_proc) /\ ~(q = p /\ e \in E)
  <2>1. /\ <<q, e>> \in UsersOf(ppipe_per_proc') <=>
             \E i \in Slot : ppipe_per_proc'[i].pid = q /\ e \in ppipe_per_proc'[i].open
        /\ <<q, e>> \in UsersOf(ppipe_per_proc) <=>
             \E i \in Slot : ppipe_per_proc[i].pid = q /\ e \in ppipe_per_proc[i].open
    BY DEF UsersOf
  <2>2. ASSUME NEW i \in Slot, ppipe_per_proc[i].pid = q, e \in ppipe_per_proc[i].open,
               ~(q = p /\ e \in E)
        PROVE  ppipe_per_proc'[i].pid = q /\ e \in ppipe_per_proc'[i].open
    BY <1>1, <2>2
  <2> QED
    <3>1. <<q, e>> \in UsersOf(ppipe_per_proc) /\ ~(q = p /\ e \in E)
            => <<q, e>> \in UsersOf(ppipe_per_proc')
      BY <2>1, <2>2
    <3>2. ASSUME NEW i \in Slot, ppipe_per_proc'[i].pid = q, e \in ppipe_per_proc'[i].open
          PROVE  /\ ppipe_per_proc[i].pid = q /\ e \in ppipe_per_proc[i].open
                 /\ ~(q = p /\ e \in E)
      BY <1>3, <3>2
    <3>3. <<q, e>> \in UsersOf(ppipe_per_proc')
            => <<q, e>> \in UsersOf(ppipe_per_proc) /\ ~(q = p /\ e \in E)
      BY <2>1, <3>2
    <3> QED
      BY <3>1, <3>3
<1>5. UsersOf(ppipe_per_proc') = UsersOf(ppipe_per_proc) \ ({p} \X E)
  <2>1. UsersOf(ppipe_per_proc') \subseteq Pids \X End /\ UsersOf(ppipe_per_proc) \subseteq Pids \X End
    BY DEF UsersOf
  <2> QED
    BY <1>4, <2>1
<1>6. ASSUME NEW q \in ReadersOf(ppipe_per_proc')
      PROVE  CursorOf(ppipe_per_proc', buff_offset')[q] = CursorOf(ppipe_per_proc, buff_offset)[q]
  <2>1. q \in Pids /\ q \in ReadersOf(ppipe_per_proc)
    BY <1>5 DEF ReadersOf
  <2>2. PICK i \in Slot : ppipe_per_proc'[i].pid = q /\ "r" \in ppipe_per_proc'[i].open
    BY <1>1, <2>1, SlotUsers
  <2>3. CursorOf(ppipe_per_proc', buff_offset')[q] = buff_offset' - ppipe_per_proc'[i].loc_offset
    BY <1>1, <2>2, SlotUsers
  <2>4. ppipe_per_proc[i].pid = q
    BY <1>3, <2>1, <2>2
  <2>5. CursorOf(ppipe_per_proc, buff_offset)[q] = buff_offset - ppipe_per_proc[i].loc_offset
    BY <1>1, <2>1, <2>4, SlotUsers
  <2> QED
    BY <1>3, <2>1, <2>2, <2>3, <2>5
<1>7. CursorOf(ppipe_per_proc', buff_offset') =
        [q \in ReadersOf(ppipe_per_proc') |-> CursorOf(ppipe_per_proc, buff_offset)[q]]
  <2>1. CursorOf(ppipe_per_proc', buff_offset') =
          [q \in ReadersOf(ppipe_per_proc') |-> CursorOf(ppipe_per_proc', buff_offset')[q]]
    BY DEF CursorOf
  <2> QED
    BY <1>6, <2>1, Zenon
<1>8. /\ Users = UsersOf(ppipe_per_proc) /\ Users' = UsersOf(ppipe_per_proc')
      /\ Cursor = CursorOf(ppipe_per_proc, buff_offset)
      /\ Cursor' = CursorOf(ppipe_per_proc', buff_offset')
  BY Mapped
<1>9. Window' = IF Users' = {} THEN <<>> ELSE Window
  <2>1. live' <=> Users' # {}
    BY UsedWhileLive
  <2>2. live' => live
    BY DEF ppipe_close
  <2>3. Bytes(ppipe_buff', write_pos', buff_offset') = Bytes(ppipe_buff, write_pos, buff_offset)
    BY DEF Bytes
  <2> QED
    BY <2>1, <2>2, <2>3, Mapped
<1>10. Abstract!Readers(Users') = ReadersOf(ppipe_per_proc')
  BY <1>8 DEF Abstract!Readers, ReadersOf
<1>11. Abstract!Drop(p, E)
  BY <1>5, <1>7, <1>8, <1>9, <1>10 DEF Abstract!Drop, Return
<1> QED
  BY <1>11 DEF Abstract!Next, Abstract!End, End

LEMMA OneCloseRefines ==
  ASSUME IInv, IInv', NEW p \in alive, NEW e \in End, do_close(p, e)
  PROVE  Abstract!Next
<1>1. p \in Pids
  BY DEF IInv, TypeOK
<1>2. CASE Closable(p, {e}) # {}
  BY <1>1, <1>2, CloseRefines DEF do_close
<1>3. CASE Closable(p, {e}) = {}
  <2>1. ppipe_per_proc' = ppipe_per_proc /\ live' = live
    BY <1>3 DEF do_close, ppipe_close, IInv, TypeOK
  <2> QED
    BY <1>3, <2>1, FrameRefines DEF do_close, Return, Refused
<1> QED
  BY <1>2, <1>3

LEMMA ExitRefines ==
  ASSUME IInv, IInv', NEW p \in alive, do_exit(p)
  PROVE  Abstract!Next
<1>1. p \in Pids /\ holds[p] \in SUBSET End
  BY DEF IInv, TypeOK
<1> QED
  BY <1>1, CloseRefines DEF do_exit

-------------------------------------------------------------------------------
(* A process that finds its slot open for reading is a reader. *)
LEMMA OwnSlot ==
  ASSUME IInv, NEW p \in Pids, NEW e \in End, NEW i \in Slot,
         ppipe_per_proc[i].pid = p, e \in ppipe_per_proc[i].open
  PROVE  <<p, e>> \in Users /\ live
<1>1. <<p, e>> \in Users
  BY DEF Users
<1> QED
  BY <1>1, UsedWhileLive

LEMMA ReadRefines ==
  ASSUME IInv, IInv', NEW p \in alive, NEW e \in End, NEW valid \in BOOLEAN,
         NEW count \in 0..MaxCount, ppipe_read(p, e, valid, count)
  PROVE  Abstract!Next
<1>1. /\ UNCHANGED <<live, ppipe_buff, write_pos, buff_offset>> /\ p \in Pids /\ live
      /\ Good(ppipe_per_proc, alive, holds) /\ Good(ppipe_per_proc', alive', holds')
      /\ TypeOK /\ p # NoPid
  BY NoPidFact, Restated DEF ppipe_read, procs, IInv, TypeOK
<1>2. CASE Return(Refused) /\ UNCHANGED ppipe_per_proc
  BY <1>1, <1>2, FrameRefines DEF Return, Refused
<1>3. ASSUME NEW i \in Slot, IsFirstSlot(i, p), "r" \in ppipe_per_proc[i].open,
             NEW n, n = Lesser(count, ppipe_per_proc[i].loc_offset),
             out' = [k \in 1..n |-> ppipe_buff[Ahead(ppipe_per_proc[i].read_pos, k - 1)]],
             rc' = n,
             ppipe_per_proc' = [ppipe_per_proc EXCEPT
               ![i].read_pos = Ahead(@, n), ![i].loc_offset = @ - n]
      PROVE  Abstract!Next
  <2> DEFINE loc == ppipe_per_proc[i].loc_offset
  <2>1. ppipe_per_proc[i].pid = p /\ p \in ReadersOf(ppipe_per_proc)
    BY <1>1, <1>3, SlotUsers DEF IsFirstSlot
  <2>2. /\ Cursor[p] = buff_offset - loc /\ loc \in 0..buff_offset
        /\ ppipe_per_proc[i].read_pos = Oldest(write_pos, loc)
    <3>1. PICK j \in Slot :
            /\ ppipe_per_proc[j].pid = p
            /\ Cursor[p] = buff_offset - ppipe_per_proc[j].loc_offset
            /\ ppipe_per_proc[j].loc_offset \in 0..buff_offset
            /\ ppipe_per_proc[j].read_pos = Oldest(write_pos, ppipe_per_proc[j].loc_offset)
      BY <2>1, ReaderSlot
    <3>2. j = i
      BY <1>1, <2>1, <3>1 DEF Good
    <3> QED
      BY <3>1, <3>2
  <2>3. buff_offset \in 0..MAX_PPIPE_SIZE /\ write_pos \in Index
    BY <1>1 DEF TypeOK
  <2>4. /\ n \in 0..loc /\ n \in 0..count
        /\ n = count \/ n = loc
        /\ n = loc => Cursor[p] + n = buff_offset
        /\ Cursor[p] + n <= buff_offset
    <3>1. buff_offset \in Nat /\ loc \in Nat /\ loc <= buff_offset
      BY <2>2, <2>3, PPipeSizes
    <3>2. n \in 0..loc /\ n \in 0..count /\ (n = count \/ n = loc)
      BY <1>3, <3>1 DEF Lesser
    <3>3. Cursor[p] = buff_offset - loc
      BY <2>2
    <3> HIDE DEF loc
    <3>4. buff_offset - loc + n <= buff_offset /\ (n = loc => buff_offset - loc + n = buff_offset)
      BY <3>1, <3>2
    <3> QED
      BY <3>2, <3>3, <3>4
  <2>5. Window = Bytes(ppipe_buff, write_pos, buff_offset) /\ Len(Window) = buff_offset
    <3>1. Window = Bytes(ppipe_buff, write_pos, buff_offset)
      BY <1>1, Mapped
    <3> QED
      BY <2>3, <3>1 DEF Bytes
  <2>6. out' = SubSeq(Window, Cursor[p] + 1, Cursor[p] + n)
    <3>1. SubSeq(Bytes(ppipe_buff, write_pos, buff_offset), buff_offset - loc + 1, buff_offset - loc + n)
            = Part(ppipe_buff, write_pos, loc, n)
      BY <2>2, <2>3, <2>4, LastBytes
    <3>2. /\ buff_offset - loc + 1 = Cursor[p] + 1
          /\ buff_offset - loc + n = Cursor[p] + n
      BY <2>2
    <3>3. out' = Part(ppipe_buff, write_pos, loc, n)
      BY <1>3, <2>2 DEF Part
    <3> QED
      BY <2>5, <3>1, <3>2, <3>3, Zenon
  <2>7. /\ ppipe_per_proc'[i].pid = p /\ ppipe_per_proc'[i].open = ppipe_per_proc[i].open
        /\ ppipe_per_proc'[i].loc_offset = loc - n
        /\ \A k \in Slot : k # i => ppipe_per_proc'[k] = ppipe_per_proc[k]
    BY <1>1, <1>3, <2>1 DEF TypeOK, SlotRecord
  <2>8. UsersOf(ppipe_per_proc') = UsersOf(ppipe_per_proc)
    <3>1. \A k \in Slot : /\ ppipe_per_proc'[k].pid = ppipe_per_proc[k].pid
                          /\ ppipe_per_proc'[k].open = ppipe_per_proc[k].open
      BY <2>1, <2>7
    <3> QED
      BY <3>1 DEF UsersOf
  <2>9. ASSUME NEW q \in ReadersOf(ppipe_per_proc)
        PROVE  CursorOf(ppipe_per_proc', buff_offset')[q]
                 = IF q = p THEN Cursor[p] + n ELSE CursorOf(ppipe_per_proc, buff_offset)[q]
    <3>1. q \in Pids /\ q \in ReadersOf(ppipe_per_proc')
      BY <2>8 DEF ReadersOf
    <3>2. PICK k \in Slot : ppipe_per_proc[k].pid = q /\ "r" \in ppipe_per_proc[k].open
      BY <1>1, <3>1, SlotUsers
    <3>3. ppipe_per_proc'[k].pid = q
      BY <2>1, <2>7, <3>2
    <3>4. /\ CursorOf(ppipe_per_proc', buff_offset')[q] = buff_offset' - ppipe_per_proc'[k].loc_offset
          /\ CursorOf(ppipe_per_proc, buff_offset)[q] = buff_offset - ppipe_per_proc[k].loc_offset
      BY <1>1, <3>1, <3>2, <3>3, SlotUsers
    <3>5. q = p <=> k = i
      BY <1>1, <2>1, <3>2 DEF Good
    <3>6. buff_offset - (loc - n) = Cursor[p] + n
      BY <2>2, <2>3, <2>4
    <3> QED
      BY <1>1, <2>7, <3>4, <3>5, <3>6
  <2>10. /\ Users = UsersOf(ppipe_per_proc) /\ Users' = UsersOf(ppipe_per_proc')
         /\ Cursor = CursorOf(ppipe_per_proc, buff_offset)
         /\ Cursor' = CursorOf(ppipe_per_proc', buff_offset')
    BY Mapped
  <2>11. Cursor' = [Cursor EXCEPT ![p] = @ + n]
    <3>1. /\ CursorOf(ppipe_per_proc', buff_offset') =
               [q \in ReadersOf(ppipe_per_proc) |-> CursorOf(ppipe_per_proc', buff_offset')[q]]
          /\ CursorOf(ppipe_per_proc, buff_offset) =
               [q \in ReadersOf(ppipe_per_proc) |-> CursorOf(ppipe_per_proc, buff_offset)[q]]
      BY <2>8 DEF CursorOf, ReadersOf
    <3>2. [Cursor EXCEPT ![p] = @ + n] =
            [q \in ReadersOf(ppipe_per_proc) |-> IF q = p THEN Cursor[p] + n ELSE Cursor[q]]
      BY <2>1, <2>10, <3>1
    <3>3. CursorOf(ppipe_per_proc', buff_offset') =
            [q \in ReadersOf(ppipe_per_proc) |-> IF q = p THEN Cursor[p] + n ELSE Cursor[q]]
      BY <2>9, <2>10, <3>1, Zenon
    <3> QED
      BY <2>10, <3>2, <3>3
  <2>12. Users' = Users /\ Window' = Window /\ <<p, "r">> \in Users
    <3>1. Window' = Window
      BY <1>1 DEF Window, Behind, Ahead
    <3>2. <<p, "r">> \in Users
      BY <1>1, <1>3, <2>1, OwnSlot DEF End
    <3> QED
      BY <2>8, <2>10, <3>1, <3>2
  <2>13. /\ n = count \/ Cursor[p] + n = Len(Window)
         /\ Cursor[p] + n <= Len(Window)
    BY <2>4, <2>5
  <2> HIDE DEF loc
  <2>14. Abstract!Get(p, count)
    <3>1. \E m \in 0..count :
            /\ m = count \/ Cursor[p] + m = Len(Window)
            /\ Cursor[p] + m <= Len(Window)
            /\ out' = SubSeq(Window, Cursor[p] + 1, Cursor[p] + m)
            /\ Cursor' = [Cursor EXCEPT ![p] = @ + m]
            /\ rc' = m
      BY <1>3, <2>4, <2>6, <2>11, <2>13, Zenon
    <3> QED
      BY <2>12, <3>1, Zenon DEF Abstract!Get
  <2> QED
    BY <1>1, <2>14 DEF Abstract!Next
<1> QED
  BY <1>2, <1>3 DEF ppipe_read

(* The distance from an index to another that is ahead of it. *)
LEMMA GapAhead ==
  ASSUME NEW a \in Index
  PROVE  /\ \A d \in 0..(MAX_PPIPE_SIZE - 1) : Gap(a, Ahead(a, d)) = d
         /\ \A d \in 1..MAX_PPIPE_SIZE : Gap(Ahead(a, d), a) = MAX_PPIPE_SIZE - d
<1>1. \A d \in 0..MAX_PPIPE_SIZE :
        Ahead(a, d) = IF a + d < MAX_PPIPE_SIZE THEN a + d ELSE a + d - MAX_PPIPE_SIZE
  BY AheadType
<1>2. ASSUME NEW d \in 0..(MAX_PPIPE_SIZE - 1) PROVE Gap(a, Ahead(a, d)) = d
  <2>1. d \in 0..MAX_PPIPE_SIZE
    BY PPipeSizes
  <2> QED
    BY <1>1, <2>1, PPipeSizes DEF Gap, Index
<1>3. ASSUME NEW d \in 1..MAX_PPIPE_SIZE PROVE Gap(Ahead(a, d), a) = MAX_PPIPE_SIZE - d
  <2>1. d \in 0..MAX_PPIPE_SIZE
    BY PPipeSizes
  <2> QED
    BY <1>1, <2>1, PPipeSizes DEF Gap, Index
<1> QED
  BY <1>2, <1>3

(* Writing n bytes at w appends them to the kept ones and overwrites none.  *)
LEMMA WriteAppends ==
  ASSUME NEW buf \in [Index -> Data], NEW w \in Index, NEW kept \in 0..MAX_PPIPE_SIZE,
         NEW s \in Messages, NEW n \in 0..(MAX_PPIPE_SIZE - kept), n <= Len(s),
         NEW new, new = [k \in Index |-> IF Gap(w, k) < n THEN s[Gap(w, k) + 1] ELSE buf[k]]
  PROVE  Bytes(new, Ahead(w, n), kept + n) = Bytes(buf, w, kept) \o SubSeq(s, 1, n)
<1> DEFINE b == Oldest(w, kept)
<1>1. /\ kept \in Nat /\ n \in Nat /\ kept + n \in 0..MAX_PPIPE_SIZE /\ n \in 0..MAX_PPIPE_SIZE
      /\ s \in Seq(Data)
  BY PPipeSizes, MessageIsSeq
<1>2. b \in Index /\ Ahead(b, kept) = w
  BY OldestFacts
<1>3. Oldest(Ahead(w, n), kept + n) = b
  <2>1. Ahead(b, kept + n) = Ahead(w, n)
    BY <1>1, <1>2, AheadSum
  <2>2. Ahead(w, n) \in Index
    BY <1>1, AheadType
  <2> QED
    BY <1>1, <1>2, <2>1, <2>2, OldestFacts
<1> HIDE DEF b
<1>4. \A i \in 1..(kept + n) : i - 1 \in 0..MAX_PPIPE_SIZE
  BY <1>1, PPipeSizes
<1>5. \A i \in 1..(kept + n) : Ahead(b, i - 1) \in Index
  BY <1>2, <1>4, AheadType
<1>6. ASSUME NEW i \in 1..kept PROVE new[Ahead(b, i - 1)] = buf[Ahead(b, i - 1)]
  <2> DEFINE d == kept - (i - 1)
  <2>1. /\ i - 1 \in Nat /\ d \in Nat /\ (i - 1) + d = kept
        /\ (i - 1) + d <= MAX_PPIPE_SIZE
        /\ d \in 1..MAX_PPIPE_SIZE /\ MAX_PPIPE_SIZE - d >= n /\ i \in 1..(kept + n)
    BY <1>1, PPipeSizes
  <2> HIDE DEF d
  <2>2. Ahead(Ahead(b, i - 1), d) = w
    BY <1>2, <2>1, AheadSum
  <2>3. Gap(w, Ahead(b, i - 1)) = MAX_PPIPE_SIZE - d
    BY <1>5, <2>1, <2>2, GapAhead
  <2>4. ~(Gap(w, Ahead(b, i - 1)) < n)
    BY <1>1, <2>1, <2>3, PPipeSizes
  <2> QED
    BY <1>5, <2>1, <2>4
<1>7. ASSUME NEW j \in 1..n PROVE new[Ahead(b, kept + j - 1)] = s[j]
  <2>1. /\ j - 1 \in Nat /\ kept + (j - 1) <= MAX_PPIPE_SIZE
        /\ j - 1 \in 0..(MAX_PPIPE_SIZE - 1) /\ kept + (j - 1) = kept + j - 1
        /\ kept + j \in 1..(kept + n) /\ j - 1 < n /\ (j - 1) + 1 = j
    BY <1>1, PPipeSizes
  <2>2. Ahead(b, kept + j - 1) = Ahead(w, j - 1)
    BY <1>1, <1>2, <2>1, AheadSum
  <2>3. Gap(w, Ahead(w, j - 1)) = j - 1
    BY <2>1, GapAhead
  <2>4. Ahead(b, kept + j - 1) \in Index
    <3>1. kept + j - 1 \in 0..MAX_PPIPE_SIZE
      BY <1>1, PPipeSizes
    <3> QED
      BY <1>2, <3>1, AheadType
  <2> QED
    BY <2>1, <2>2, <2>3, <2>4
<1>8. Bytes(new, Ahead(w, n), kept + n) = [i \in 1..(kept + n) |-> new[Ahead(b, i - 1)]]
  BY <1>3 DEF Bytes
<1>9. /\ Bytes(buf, w, kept) \in Seq(Data) /\ Len(Bytes(buf, w, kept)) = kept
      /\ \A i \in 1..kept : Bytes(buf, w, kept)[i] = buf[Ahead(b, i - 1)]
  <2>1. \A i \in 1..kept : buf[Ahead(b, i - 1)] \in Data
    BY <1>1, <1>5
  <2>2. Bytes(buf, w, kept) = [i \in 1..kept |-> buf[Ahead(b, i - 1)]]
    BY DEF Bytes, b
  <2>3. [i \in 1..kept |-> buf[Ahead(b, i - 1)]] \in [1..kept -> Data]
    BY <2>1
  <2> HIDE DEF b
  <2>4. Bytes(buf, w, kept) \in Seq(Data) /\ DOMAIN Bytes(buf, w, kept) = 1..kept
    BY <1>1, <2>2, <2>3, SeqDef
  <2>5. Len(Bytes(buf, w, kept)) = kept
    BY <1>1, <2>4, LenProperties
  <2> QED
    BY <2>2, <2>4, <2>5
<1>10. /\ SubSeq(s, 1, n) \in Seq(Data) /\ Len(SubSeq(s, 1, n)) = n
       /\ \A j \in 1..n : SubSeq(s, 1, n)[j] = s[j]
  BY <1>1
<1> DEFINE all == Bytes(buf, w, kept) \o SubSeq(s, 1, n)
<1>11. all \in Seq(Data) /\ Len(all) = kept + n
  <2>1. /\ all \in Seq(Data)
        /\ Len(all) = Len(Bytes(buf, w, kept)) + Len(SubSeq(s, 1, n))
    BY <1>9, <1>10, ConcatProperties, Zenon
  <2> QED
    BY <1>9, <1>10, <2>1
<1>12. ASSUME NEW i \in 1..(kept + n) PROVE new[Ahead(b, i - 1)] = all[i]
  <2>1. CASE i <= kept
    <3>1. all[i] = Bytes(buf, w, kept)[i] /\ i \in 1..kept
      BY <1>1, <1>9, <1>10, <2>1
    <3> QED
      BY <1>6, <1>9, <3>1
  <2>2. CASE i > kept
    <3>1. i - kept \in 1..n /\ kept + (i - kept) - 1 = i - 1
      BY <1>1, <2>2
    <3>2. all[i] = SubSeq(s, 1, n)[i - kept]
      BY <1>1, <1>9, <1>10, <2>2
    <3> QED
      BY <1>7, <1>10, <3>1, <3>2
  <2>3. i <= kept \/ i > kept
    BY <1>1
  <2> QED
    BY <2>1, <2>2, <2>3
<1>13. all = [i \in 1..(kept + n) |-> all[i]]
  <2> HIDE DEF all
  <2> QED
    BY <1>11, SeqIsFunction, Zenon
<1> QED
  BY <1>8, <1>12, <1>13, Zenon

LEMMA WriteRefines ==
  ASSUME IInv, IInv', NEW p \in alive, NEW e \in End, NEW valid \in BOOLEAN,
         NEW s \in Messages, ppipe_write(p, e, valid, s)
  PROVE  Abstract!Next
<1>1. /\ live /\ live' /\ p \in Pids /\ p # NoPid
      /\ Good(ppipe_per_proc, alive, holds) /\ Good(ppipe_per_proc', alive', holds')
      /\ TypeOK
  BY NoPidFact, Restated DEF ppipe_write, procs, IInv, TypeOK
<1>2. CASE Return(Refused) /\ UNCHANGED <<ppipe_per_proc, ppipe_buff, write_pos, buff_offset>>
  BY <1>1, <1>2, FrameRefines DEF Return, Refused
<1>3. ASSUME NEW i \in Slot, IsFirstSlot(i, p), "w" \in ppipe_per_proc[i].open,
             NEW n, n = Lesser(Len(s), Room),
             ppipe_buff' = [k \in Index |-> IF Gap(write_pos, k) < n
                                            THEN s[Gap(write_pos, k) + 1] ELSE ppipe_buff[k]],
             write_pos' = Ahead(write_pos, n),
             buff_offset' = buff_offset + n,
             ppipe_per_proc' = [k \in Slot |->
                IF ppipe_per_proc[k].pid = NoPid THEN ppipe_per_proc[k]
                ELSE [ppipe_per_proc[k] EXCEPT !.loc_offset = (@ + n) % IntRange]],
             Return(n)
      PROVE  Abstract!Next
  <2>1. /\ buff_offset \in 0..MAX_PPIPE_SIZE /\ n \in 0..(MAX_PPIPE_SIZE - buff_offset)
        /\ n <= Len(s) /\ n \in 0..Len(s)
        /\ n = Len(s) \/ buff_offset + n = MAX_PPIPE_SIZE
        /\ write_pos \in Index /\ ppipe_buff \in [Index -> Data]
    BY <1>1, <1>3, MessageFacts, PPipeSizes DEF Lesser, Room, TypeOK
  <2>2. Bytes(ppipe_buff', write_pos', buff_offset')
          = Bytes(ppipe_buff, write_pos, buff_offset) \o SubSeq(s, 1, n)
    <3> DEFINE new == [k \in Index |-> IF Gap(write_pos, k) < n
                                       THEN s[Gap(write_pos, k) + 1] ELSE ppipe_buff[k]]
    <3>2. Bytes(new, Ahead(write_pos, n), buff_offset + n)
            = Bytes(ppipe_buff, write_pos, buff_offset) \o SubSeq(s, 1, n)
      BY <2>1, WriteAppends, ZenonT(60)
    <3>3. ppipe_buff' = new /\ write_pos' = Ahead(write_pos, n) /\ buff_offset' = buff_offset + n
      BY <1>3
    <3> HIDE DEF new
    <3> QED
      BY <3>2, <3>3
  <2>3. Window' = Window \o SubSeq(s, 1, n) /\ Len(Window) = buff_offset
    <3>1. /\ Window = Bytes(ppipe_buff, write_pos, buff_offset)
          /\ Window' = Bytes(ppipe_buff', write_pos', buff_offset')
      BY <1>1, Mapped
    <3>2. Len(Bytes(ppipe_buff, write_pos, buff_offset)) = buff_offset
      BY <2>1 DEF Bytes
    <3> QED
      BY <2>2, <3>1, <3>2
  <2>4. \A k \in Slot :
          /\ ppipe_per_proc'[k].pid = ppipe_per_proc[k].pid
          /\ ppipe_per_proc'[k].open = ppipe_per_proc[k].open
          /\ ppipe_per_proc[k].pid # NoPid =>
               ppipe_per_proc'[k].loc_offset = (ppipe_per_proc[k].loc_offset + n) % IntRange
    BY <1>1, <1>3 DEF TypeOK, SlotRecord
  <2>5. UsersOf(ppipe_per_proc') = UsersOf(ppipe_per_proc)
    BY <2>4 DEF UsersOf
  <2>6. /\ Users = UsersOf(ppipe_per_proc) /\ Users' = UsersOf(ppipe_per_proc')
        /\ Cursor = CursorOf(ppipe_per_proc, buff_offset)
        /\ Cursor' = CursorOf(ppipe_per_proc', buff_offset')
    BY Mapped
  <2>7. ASSUME NEW q \in ReadersOf(ppipe_per_proc)
        PROVE  CursorOf(ppipe_per_proc', buff_offset')[q] = CursorOf(ppipe_per_proc, buff_offset)[q]
    <3>1. PICK k \in Slot :
            /\ ppipe_per_proc[k].pid = q
            /\ Cursor[q] = buff_offset - ppipe_per_proc[k].loc_offset
            /\ ppipe_per_proc[k].loc_offset \in 0..buff_offset
      BY ReaderSlot
    <3>2. q # NoPid /\ q \in ReadersOf(ppipe_per_proc')
      BY <2>5, NoPidFact DEF ReadersOf
    <3>3. CursorOf(ppipe_per_proc', buff_offset')[q] = buff_offset' - ppipe_per_proc'[k].loc_offset
      BY <1>1, <2>4, <3>1, <3>2, SlotUsers
    <3>4. /\ ppipe_per_proc[k].loc_offset + n \in Nat
          /\ ppipe_per_proc[k].loc_offset + n < IntRange
      <4> DEFINE mine == ppipe_per_proc[k].loc_offset
      <4>1. mine \in Nat /\ mine <= buff_offset
        BY <2>1, <3>1
      <4>2. n \in Nat /\ buff_offset + n < IntRange /\ buff_offset \in Nat /\ IntRange \in Nat
        BY <2>1, PPipeSizes
      <4> HIDE DEF mine
      <4>3. mine + n \in Nat /\ mine + n < IntRange
        BY <4>1, <4>2
      <4> QED
        BY <4>3 DEF mine
    <3>5. ppipe_per_proc'[k].loc_offset = ppipe_per_proc[k].loc_offset + n
      BY <2>4, <3>1, <3>2, <3>4, ModType
    <3>6. buff_offset + n - (ppipe_per_proc[k].loc_offset + n)
            = buff_offset - ppipe_per_proc[k].loc_offset
      BY <2>1, <3>1
    <3>7. CursorOf(ppipe_per_proc, buff_offset)[q] = buff_offset - ppipe_per_proc[k].loc_offset
      BY <2>6, <3>1, Zenon
    <3>8. buff_offset' = buff_offset + n
      BY <1>3, Zenon
    <3> DEFINE new == CursorOf(ppipe_per_proc', buff_offset')[q]
               old == ppipe_per_proc'[k].loc_offset
    <3>9. new = buff_offset' - old
      BY <3>3
    <3>10. old = ppipe_per_proc[k].loc_offset + n
      BY <3>5
    <3> HIDE DEF new, old
    <3>11. new = buff_offset + n - (ppipe_per_proc[k].loc_offset + n)
      BY <2>1, <3>1, <3>8, <3>9, <3>10
    <3> QED
      BY <3>6, <3>7, <3>11 DEF new
  <2>8. Cursor' = Cursor
    <3>1. /\ CursorOf(ppipe_per_proc', buff_offset') =
               [q \in ReadersOf(ppipe_per_proc) |-> CursorOf(ppipe_per_proc', buff_offset')[q]]
          /\ CursorOf(ppipe_per_proc, buff_offset) =
               [q \in ReadersOf(ppipe_per_proc) |-> CursorOf(ppipe_per_proc, buff_offset)[q]]
      BY <2>5 DEF CursorOf, ReadersOf
    <3> QED
      BY <2>6, <2>7, <3>1, Zenon
  <2>9. <<p, "w">> \in Users /\ Users' = Users
    BY <1>1, <1>3, <2>5, <2>6, OwnSlot DEF IsFirstSlot, End
  <2>10. Abstract!Put(p, s)
    <3>1. \E m \in 0..Len(s) :
            /\ m = Len(s) \/ Len(Window) + m = MAX_PPIPE_SIZE
            /\ Len(Window) + m <= MAX_PPIPE_SIZE
            /\ Window' = Window \o SubSeq(s, 1, m)
            /\ rc' = m
      <4>1. buff_offset + n <= MAX_PPIPE_SIZE
        BY <2>1, PPipeSizes
      <4> QED
        BY <1>3, <2>1, <2>3, <4>1, Zenon DEF Return
    <3>2. out' = <<>>
      BY <1>3 DEF Return
    <3> QED
      BY <2>8, <2>9, <3>1, <3>2, Zenon DEF Abstract!Put
  <2> QED
    BY <1>1, <2>10 DEF Abstract!Next
<1> QED
  BY <1>2, <1>3 DEF ppipe_write

LEMMA FlushRefines ==
  ASSUME IInv, IInv', NEW p \in alive, do_flush_ppipe(p)
  PROVE  Abstract!Next
<1>1. /\ UNCHANGED <<live, ppipe_per_proc, ppipe_buff, write_pos>> /\ live /\ TypeOK
      /\ Good(ppipe_per_proc, alive, holds) /\ out' = <<>>
  BY Restated DEF do_flush_ppipe, procs, Return, IInv
<1>2. CASE Return(0) /\ UNCHANGED buff_offset
  BY <1>1, <1>2, FrameRefines DEF Return
<1>3. ASSUME NEW i \in Slot, Reading(i), buff_offset' = ppipe_per_proc[i].loc_offset,
             \A j \in Slot : Reading(j) =>
               ppipe_per_proc[j].loc_offset <= ppipe_per_proc[i].loc_offset,
             Return(buff_offset - ppipe_per_proc[i].loc_offset)
      PROVE  Abstract!Next
  <2> DEFINE loc == ppipe_per_proc[i].loc_offset
             n == buff_offset - loc
             r == ppipe_per_proc[i].pid
  <2>1. r \in ReadersOf(ppipe_per_proc)
    <3>1. ppipe_per_proc[i] \in SlotRecord /\ r # NoPid /\ "r" \in ppipe_per_proc[i].open
      BY <1>1, <1>3 DEF Reading, TypeOK
    <3>2. r \in Pids
      BY <3>1 DEF SlotRecord
    <3> QED
      BY <1>1, <3>1, <3>2, SlotUsers
  <2>2. /\ loc \in 0..buff_offset /\ buff_offset \in 0..MAX_PPIPE_SIZE /\ write_pos \in Index
        /\ Cursor[r] = n
    <3>1. PICK j \in Slot :
            /\ ppipe_per_proc[j].pid = r
            /\ Cursor[r] = buff_offset - ppipe_per_proc[j].loc_offset
            /\ ppipe_per_proc[j].loc_offset \in 0..buff_offset
      BY <2>1, ReaderSlot
    <3>2. j = i
      BY <1>1, <1>3, <3>1 DEF Good, Reading
    <3> QED
      BY <1>1, <3>1, <3>2 DEF TypeOK
  <2>3. n \in 0..buff_offset
    BY <2>2
  <2>4. /\ Users' = Users /\ Users = UsersOf(ppipe_per_proc)
        /\ Cursor = CursorOf(ppipe_per_proc, buff_offset)
        /\ Cursor' = CursorOf(ppipe_per_proc, loc)
        /\ Window = Bytes(ppipe_buff, write_pos, buff_offset)
        /\ Window' = Bytes(ppipe_buff, write_pos, loc)
        /\ Len(Window) = buff_offset
    <3>1. /\ Users = UsersOf(ppipe_per_proc) /\ Users' = UsersOf(ppipe_per_proc')
          /\ Window = Bytes(ppipe_buff, write_pos, buff_offset)
          /\ Window' = Bytes(ppipe_buff', write_pos', buff_offset')
          /\ Cursor = CursorOf(ppipe_per_proc, buff_offset)
          /\ Cursor' = CursorOf(ppipe_per_proc', buff_offset')
      BY <1>1, Mapped
    <3>2. Len(Bytes(ppipe_buff, write_pos, buff_offset)) = buff_offset
      BY <2>2 DEF Bytes
    <3> QED
      BY <1>1, <1>3, <3>1, <3>2
  <2>5. Window' = SubSeq(Window, n + 1, Len(Window))
    <3>1. SubSeq(Bytes(ppipe_buff, write_pos, buff_offset), buff_offset - loc + 1,
                 buff_offset - loc + loc) = Part(ppipe_buff, write_pos, loc, loc)
      <4>1. loc \in 0..loc
        BY <2>2
      <4> QED
        BY <2>2, <4>1, LastBytes
    <3>2. Part(ppipe_buff, write_pos, loc, loc) = Bytes(ppipe_buff, write_pos, loc)
      BY DEF Part, Bytes
    <3>3. buff_offset - loc + loc = buff_offset
      BY <2>2
    <3> QED
      BY <2>4, <3>1, <3>2, <3>3
  <2>6. ASSUME NEW q \in ReadersOf(ppipe_per_proc)
        PROVE  n <= Cursor[q] /\ CursorOf(ppipe_per_proc, loc)[q] = Cursor[q] - n
    <3>1. PICK k \in Slot :
            /\ ppipe_per_proc[k].pid = q /\ Reading(k)
            /\ Cursor[q] = buff_offset - ppipe_per_proc[k].loc_offset
            /\ ppipe_per_proc[k].loc_offset \in 0..buff_offset
      BY ReaderSlot
    <3>2. CursorOf(ppipe_per_proc, loc)[q] = loc - ppipe_per_proc[k].loc_offset
      BY <1>1, <3>1, SlotUsers
    <3>3. ppipe_per_proc[k].loc_offset <= loc
      BY <1>3, <3>1
    <3> QED
      BY <2>2, <3>1, <3>2, <3>3
  <2>7. Abstract!Readers(Users) = ReadersOf(ppipe_per_proc)
    BY <2>4 DEF Abstract!Readers, ReadersOf
  <2>8. Cursor' = [q \in Abstract!Readers(Users) |-> Cursor[q] - n]
    <3>1. CursorOf(ppipe_per_proc, loc) =
            [q \in ReadersOf(ppipe_per_proc) |-> CursorOf(ppipe_per_proc, loc)[q]]
      BY DEF CursorOf
    <3> HIDE DEF n, loc
    <3> QED
      BY <2>4, <2>6, <2>7, <3>1, Zenon
  <2>9. rc' = n
    BY <1>3 DEF Return
  <2>10. Abstract!Flush
    <3> HIDE DEF n, loc, r
    <3>1. \E m \in 0..Len(Window) :
            /\ \A q \in Abstract!Readers(Users) : m <= Cursor[q]
            /\ \E q \in Abstract!Readers(Users) : m = Cursor[q]
            /\ Window' = SubSeq(Window, m + 1, Len(Window))
            /\ Cursor' = [q \in Abstract!Readers(Users) |-> Cursor[q] - m]
            /\ rc' = m
      BY <2>1, <2>2, <2>3, <2>4, <2>5, <2>6, <2>7, <2>8, <2>9, Zenon
    <3> QED
      BY <1>1, <2>4, <3>1, Zenon DEF Abstract!Flush
  <2> QED
    BY <2>10 DEF Abstract!Next
<1> QED
  BY <1>2, <1>3 DEF do_flush_ppipe

LEMMA StepRefines == IInv /\ IInv' /\ [Next]_vars => [Abstract!Next]_Abstract!vars
<1> SUFFICES ASSUME IInv, IInv', [Next]_vars PROVE [Abstract!Next]_Abstract!vars
  OBVIOUS
<1>1. CASE UNCHANGED vars
  BY <1>1 DEF vars, procs, Abstract!vars, Users, Window, Behind, Ahead, Cursor
<1>2. CASE Next
  <2>1. PICK p \in alive :
          \/ create_persistent_pipe(p)
          \/ \E c \in Pids : do_fork(p, c)
          \/ \E e \in End : do_close(p, e)
          \/ do_exit(p)
          \/ \E e \in End, valid \in BOOLEAN :
               \/ \E count \in 0..MaxCount : ppipe_read(p, e, valid, count)
               \/ \E s \in Messages : ppipe_write(p, e, valid, s)
          \/ do_flush_ppipe(p)
    BY <1>2 DEF Next
  <2> QED
    BY <2>1, CreateRefines, ForkRefines, OneCloseRefines, ExitRefines, ReadRefines,
       WriteRefines, FlushRefines
<1> QED
  BY <1>1, <1>2

(* Every behaviour of the persistent pipe is one of the abstract stream: no *)
(* reader misses a byte or sees one twice, whatever the others read and     *)
(* whenever somebody flushes (ppipe_read, ppipe_write, do_flush_ppipe).     *)
THEOREM Refinement == Spec => KeepsStreamPromise
<1>1. Init => Abstract!Init
  BY InitRefines
<1>2. IInv /\ IInv' /\ [Next]_vars => [Abstract!Next]_Abstract!vars
  BY StepRefines
<1> QED
  BY <1>1, <1>2, InitInv, NextStep, PTL DEF Spec, KeepsStreamPromise, Abstract!Spec

===============================================================================
