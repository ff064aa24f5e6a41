------------------------------ MODULE PipeProofs ------------------------------
(***************************************************************************)
(* Proofs about Pipe for every number of processes, descriptors and slots  *)
(* and every ring size.                                                    *)
(***************************************************************************)
EXTENDS Pipe, WellFoundedInduction, FiniteSetTheorems, SequenceTheorems, TLAPS

(* Where the next byte goes follows from where the oldest one is. *)
RingConsistent == write_pos = Ahead(read_pos, buff_offset)

(* The slot table, the descriptors and the page allocation only make sense  *)
(* together: each action that changes one of them relies on the others.     *)
SlotsInv == OneSlotPerProcess /\ OpenEndsHaveDescriptors /\ FreedWithLastEnd

IInv == TypeOK /\ RingConsistent /\ SlotsInv

-------------------------------------------------------------------------------
(* Facts about numbers and counting. *)

(* A position on a ring of M places, n places further. *)
LEMMA ModFacts ==
  ASSUME NEW M \in Nat \ {0}, NEW a \in 0..(M - 1), NEW n \in 0..M
  PROVE  (a + n) % M = IF a + n < M THEN a + n ELSE a + n - M
  OBVIOUS

(* A non-empty set of naturals has a least element. *)
LEMMA LeastOf ==
  ASSUME NEW S, S \subseteq Nat, S # {}
  PROVE  \E n \in S : \A m \in S : n <= m
<1> DEFINE Below == {d \in Nat \X Nat : d[1] < d[2]}
<1>1. IsWellFoundedOn(Below, Nat)
  BY NatLessThanWellFounded, Zenon DEF OpToRel
<1>2. \A m, n \in Nat : m < n => <<m, n>> \in Below
  OBVIOUS
<1> HIDE DEF Below
<1>3. PICK n \in S : \A m \in S : ~(<<m, n>> \in Below)
  BY <1>1, WFMin
<1>4. ASSUME NEW m \in S PROVE n <= m
  <2>1. m \in Nat /\ n \in Nat
    BY Zenon
  <2>2. ~(m < n)
    BY <1>2, <1>3, <2>1, Zenon
  <2> QED
    BY <2>1, <2>2, SMT
<1> QED
  BY <1>4

-------------------------------------------------------------------------------

(* A table t has a row of places F for each p in P.  These are the places    *)
(* of the whole table, and of one row, that hold v.                          *)
Places(t, P, F, v) == {d \in P \X F : t[d[1]][d[2]] = v}
RowPlaces(r, F, v) == {f \in F : r[f] = v}

(* new is t with another row p, or with w at one place of it. *)
RowReplaced(t, new, P, p) == \A q \in P \ {p} : new[q] = t[q]
PlaceWritten(t, new, P, F, p, f, w) ==
  \A q \in P, g \in F : new[q][g] = IF q = p /\ g = f THEN w ELSE t[q][g]

LEMMA PlacesFinite ==
  ASSUME NEW P, IsFiniteSet(P), NEW F, IsFiniteSet(F), NEW t, NEW v
  PROVE  /\ IsFiniteSet(Places(t, P, F, v))
         /\ Cardinality(Places(t, P, F, v)) \in Nat
<1>1. IsFiniteSet(P \X F)
  BY FS_Product
<1>2. Places(t, P, F, v) \in SUBSET (P \X F)
  BY DEF Places
<1> QED
  BY <1>1, <1>2, FS_Subset, FS_CardinalityType

LEMMA RowPlacesFinite ==
  ASSUME NEW F, IsFiniteSet(F), NEW r, NEW v
  PROVE  /\ IsFiniteSet(RowPlaces(r, F, v))
         /\ Cardinality(RowPlaces(r, F, v)) \in Nat
<1>1. RowPlaces(r, F, v) \in SUBSET F
  BY DEF RowPlaces
<1> QED
  BY <1>1, FS_Subset, FS_CardinalityType

(* One row as a part of the table. *)
LEMMA RowOfPlaces ==
  ASSUME NEW p, NEW S, IsFiniteSet(S)
  PROVE  IsFiniteSet({p} \X S) /\ Cardinality({p} \X S) = Cardinality(S)
<1>1. /\ IsFiniteSet({p} \X S)
      /\ Cardinality({p} \X S) = Cardinality({p}) * Cardinality(S)
  BY FS_Singleton, FS_Product
<1>2. Cardinality({p}) = 1 /\ Cardinality(S) \in Nat
  BY FS_Singleton, FS_CardinalityType
<1> QED
  BY <1>1, <1>2

(* A row is replaced by another: a process inherits a table, or ends. *)
LEMMA ReplaceRow ==
  ASSUME NEW P, NEW F, NEW t, NEW new, NEW v, NEW p,
         IsFiniteSet(P), IsFiniteSet(F), p \in P, RowReplaced(t, new, P, p)
  PROVE  Cardinality(Places(new, P, F, v)) =
           Cardinality(Places(t, P, F, v))
             - Cardinality(RowPlaces(t[p], F, v)) + Cardinality(RowPlaces(new[p], F, v))
<1> DEFINE Rest(u) == Places(u, P \ {p}, F, v)
           Mine(u) == {p} \X RowPlaces(u[p], F, v)
<1>1. ASSUME NEW u
      PROVE  /\ Cardinality(Places(u, P, F, v))
                  = Cardinality(Rest(u)) + Cardinality(RowPlaces(u[p], F, v))
             /\ Cardinality(Rest(u)) \in Nat
             /\ Cardinality(RowPlaces(u[p], F, v)) \in Nat
  <2>1. IsFiniteSet(P \ {p})
    BY FS_RemoveElement
  <2>2. IsFiniteSet(Rest(u)) /\ Cardinality(Rest(u)) \in Nat
    BY <2>1, PlacesFinite
  <2>3. IsFiniteSet(RowPlaces(u[p], F, v)) /\ Cardinality(RowPlaces(u[p], F, v)) \in Nat
    BY RowPlacesFinite
  <2>4. IsFiniteSet(Mine(u)) /\ Cardinality(Mine(u)) = Cardinality(RowPlaces(u[p], F, v))
    BY <2>3, RowOfPlaces
  <2>5. Places(u, P, F, v) = Rest(u) \cup Mine(u) /\ Rest(u) \cap Mine(u) = {}
    <3>1. \A e : e \in Places(u, P, F, v) <=> e \in P \X F /\ u[e[1]][e[2]] = v
      BY DEF Places
    <3>2. \A e : e \in Rest(u) <=> e \in (P \ {p}) \X F /\ u[e[1]][e[2]] = v
      BY DEF Places
    <3>3. \A e : e \in Mine(u) <=> e \in {p} \X F /\ u[e[1]][e[2]] = v
      BY DEF RowPlaces
    <3>4. \A e : /\ e \in P \X F <=> e \in (P \ {p}) \X F \/ e \in {p} \X F
                /\ ~(e \in (P \ {p}) \X F /\ e \in {p} \X F)
      OBVIOUS
    <3> HIDE DEF Rest, Mine
    <3> QED
      BY <3>1, <3>2, <3>3, <3>4
  <2>6. Cardinality({}) = 0
    BY FS_EmptySet
  <2> HIDE DEF Rest, Mine
  <2>7. Cardinality(Rest(u) \cup Mine(u))
          = Cardinality(Rest(u)) + Cardinality(Mine(u)) - Cardinality(Rest(u) \cap Mine(u))
    BY <2>2, <2>4, FS_Union
  <2>8. /\ Cardinality(Places(u, P, F, v)) = Cardinality(Rest(u) \cup Mine(u))
        /\ Cardinality(Rest(u) \cap Mine(u)) = 0
    BY <2>5, <2>6, Zenon
  <2> QED
    BY <2>2, <2>3, <2>4, <2>7, <2>8
<1>2. Rest(new) = Rest(t)
  BY DEF Places, RowReplaced
<1> HIDE DEF Rest, Mine
<1> QED
  BY <1>1, <1>2

(* One place is written: a descriptor is opened, closed or replaced. *)
LEMMA WritePlace ==
  ASSUME NEW P, NEW F, NEW t, NEW new, NEW v, NEW w, NEW p, NEW f,
         IsFiniteSet(P), IsFiniteSet(F), p \in P, f \in F,
         PlaceWritten(t, new, P, F, p, f, w)
  PROVE  Cardinality(Places(new, P, F, v)) =
           Cardinality(Places(t, P, F, v))
             - (IF t[p][f] = v THEN 1 ELSE 0) + (IF w = v THEN 1 ELSE 0)
<1> DEFINE d == <<p, f>>
           Old == Places(t, P, F, v)
           New == Places(new, P, F, v)
<1>1. IsFiniteSet(Old) /\ Cardinality(Old) \in Nat
  BY PlacesFinite
<1>2. New = IF w = v THEN Old \cup {d} ELSE Old \ {d}
  <2>1. \A q \in P, g \in F : <<q, g>> = d <=> q = p /\ g = f
    OBVIOUS
  <2>2. \A e : e \in Old <=> e \in P \X F /\ t[e[1]][e[2]] = v
    BY DEF Places
  <2>3. \A e : e \in New <=> e \in P \X F /\ new[e[1]][e[2]] = v
    BY DEF Places
  <2>4. \A e \in P \X F : new[e[1]][e[2]] = IF e = d THEN w ELSE t[e[1]][e[2]]
    BY DEF PlaceWritten
  <2>5. d \in P \X F
    OBVIOUS
  <2> HIDE DEF d, Old, New
  <2> QED
    BY <2>2, <2>3, <2>4, <2>5
<1>3. d \in Old <=> t[p][f] = v
  BY DEF Places
<1> HIDE DEF d, Old, New
<1>4. /\ Cardinality(Old \cup {d}) = IF d \in Old THEN Cardinality(Old) ELSE Cardinality(Old) + 1
      /\ Cardinality(Old \ {d}) = IF d \in Old THEN Cardinality(Old) - 1 ELSE Cardinality(Old)
  BY <1>1, FS_AddElement, FS_RemoveElement
<1>5. Cardinality(New) = Cardinality(Old) - (IF t[p][f] = v THEN 1 ELSE 0) + (IF w = v THEN 1 ELSE 0)
  BY <1>1, <1>2, <1>3, <1>4
<1> QED
  BY <1>5 DEF Old, New

(* A value is somewhere in the table exactly if it is counted. *)
LEMMA PlacesEmpty ==
  ASSUME NEW P, IsFiniteSet(P), NEW F, IsFiniteSet(F), NEW t, NEW v
  PROVE  Cardinality(Places(t, P, F, v)) = 0 <=> \A p \in P, f \in F : t[p][f] # v
<1>1. Cardinality(Places(t, P, F, v)) = 0 <=> Places(t, P, F, v) = {}
  BY PlacesFinite, FS_EmptySet
<1>2. ASSUME NEW p \in P, NEW f \in F
      PROVE  <<p, f>> \in Places(t, P, F, v) <=> t[p][f] = v
  BY DEF Places
<1>3. ASSUME NEW e \in Places(t, P, F, v)
      PROVE  \E p \in P, f \in F : t[p][f] = v
  BY DEF Places
<1>4. Places(t, P, F, v) = {} <=> \A p \in P, f \in F : t[p][f] # v
  BY <1>2, <1>3
<1> QED
  BY <1>1, <1>4

-------------------------------------------------------------------------------
LEMMA AheadType ==
  ASSUME NEW a \in Index, NEW n \in 0..MAX_PIPE_SIZE
  PROVE  Ahead(a, n) \in Index
  BY SizesAssumption, ModFacts DEF Ahead, Index

LEMMA AheadSum ==
  ASSUME NEW a \in Index, NEW m \in Nat, NEW n \in Nat, m + n <= MAX_PIPE_SIZE
  PROVE  Ahead(Ahead(a, m), n) = Ahead(a, m + n)
<1>1. m \in 0..MAX_PIPE_SIZE /\ n \in 0..MAX_PIPE_SIZE /\ m + n \in 0..MAX_PIPE_SIZE
  BY SizesAssumption
<1>2. /\ Ahead(a, m) = IF a + m < MAX_PIPE_SIZE THEN a + m ELSE a + m - MAX_PIPE_SIZE
      /\ Ahead(a, m + n) = IF a + (m + n) < MAX_PIPE_SIZE
                           THEN a + (m + n) ELSE a + (m + n) - MAX_PIPE_SIZE
  BY <1>1, SizesAssumption, ModFacts DEF Ahead, Index
<1>3. Ahead(a, m) \in Index
  BY <1>1, AheadType
<1>4. Ahead(Ahead(a, m), n) = IF Ahead(a, m) + n < MAX_PIPE_SIZE
                              THEN Ahead(a, m) + n ELSE Ahead(a, m) + n - MAX_PIPE_SIZE
  BY <1>1, <1>3, SizesAssumption, ModFacts DEF Ahead, Index
<1> QED
  BY <1>1, <1>2, <1>4, SizesAssumption DEF Index

LEMMA EmptyMessage == <<>> \in Messages
<1>1. <<>> \in [1..0 -> Data]
  OBVIOUS
<1> QED
  BY <1>1, SizesAssumption DEF Messages

LEMMA MessageFacts ==
  ASSUME NEW s \in Messages
  PROVE  /\ Len(s) \in 0..MaxCount
         /\ s \in [1..Len(s) -> Data]
         /\ s \in Seq(Data)
  BY SizesAssumption DEF Messages

LEMMA CountType ==
  ASSUME NEW p \in Pids, NEW e \in End
  PROVE  Count(p, e) \in Nat
<1>1. IsFiniteSet(Fds)
  BY SizesAssumption, FS_Interval DEF Fds
<1>2. IsFiniteSet({fd \in Fds : files[p][fd] = e})
  BY <1>1, FS_Subset
<1> QED
  BY <1>2, FS_CardinalityType DEF Count

(* With one slot per process, the slot of p is the first and the last match. *)
LEMMA SlotIsLast ==
  ASSUME OneSlotPerProcess, NEW i \in Slot, NEW p \in Pids, pipe_per_proc[i].pid = p
  PROVE  IsLastSlot(i, p) /\ IsFirstSlot(i, p)
  BY PidsAssumption DEF OneSlotPerProcess, IsLastSlot, IsFirstSlot, Slot, NoPid

LEMMA InitIInv == Init => IInv
<1> SUFFICES ASSUME Init PROVE IInv
  OBVIOUS
<1>1. TypeOK
  <2>1. alive \in SUBSET Pids /\ quirks \in SUBSET {"dup", "fork"} /\ live \in BOOLEAN
    BY DEF Init
  <2>2. files \in [Pids -> [Fds -> End \cup {Std, None}]]
    BY DEF Init
  <2>3. /\ ref_count \in [End -> Int] /\ rc \in Int /\ out \in Messages
        /\ pipe_per_proc \in [Slot -> [pid : Pids \cup {NoPid}, open : SUBSET End]]
    BY EmptyMessage DEF Init
  <2>4. /\ pipe_buff \in [Index -> Data] /\ read_pos \in Index /\ write_pos \in Index
        /\ buff_offset \in 0..MAX_PIPE_SIZE
    BY SizesAssumption DEF Init, Index
  <2> QED
    BY <2>1, <2>2, <2>3, <2>4 DEF TypeOK
<1>2. RingConsistent
  BY SizesAssumption, ModFacts DEF Init, RingConsistent, Ahead
<1>3. SlotsInv
  BY PidsAssumption DEF Init, SlotsInv, OneSlotPerProcess, OpenEndsHaveDescriptors,
     FreedWithLastEnd, SomeEndOpen, NoPid
<1> QED
  BY <1>1, <1>2, <1>3 DEF IInv

-------------------------------------------------------------------------------
(* What the close handler does to the slots, whichever action calls it: the *)
(* given ends of p are gone, the rest is kept, and the page is freed with   *)
(* the last end.                                                            *)
LEMMA CloseSlots ==
  ASSUME IInv, NEW p \in Pids, NEW E \in SUBSET End, pipe_close(p, E)
  PROVE  /\ pipe_per_proc' \in [Slot -> [pid : Pids \cup {NoPid}, open : SUBSET End]]
         /\ live' \in BOOLEAN
         /\ OneSlotPerProcess'
         /\ FreedWithLastEnd'
         /\ \A i \in Slot :
              pipe_per_proc'[i].open # {} =>
                /\ pipe_per_proc'[i].pid = pipe_per_proc[i].pid
                /\ pipe_per_proc'[i].open \subseteq pipe_per_proc[i].open
                /\ pipe_per_proc[i].pid = p => pipe_per_proc'[i].open \cap E = {}
         /\ \A i \in Slot :
              /\ pipe_per_proc[i].pid # p => pipe_per_proc'[i] = pipe_per_proc[i]
              /\ pipe_per_proc[i].pid = p =>
                   pipe_per_proc'[i].open = pipe_per_proc[i].open \ E
<1> USE DEF IInv, SlotsInv, TypeOK
<1>0. NoPid \notin Pids
  BY PidsAssumption DEF NoPid
<1>1. pipe_per_proc' = SlotsAfterClose(p, E)
  BY DEF pipe_close
<1>2. pipe_per_proc' \in [Slot -> [pid : Pids \cup {NoPid}, open : SUBSET End]]
  BY <1>1 DEF SlotsAfterClose
<1>3. \A i \in Slot : pipe_per_proc[i].pid = p => IsLastSlot(i, p)
  BY SlotIsLast
<1>4. \A i \in Slot : \/ pipe_per_proc'[i] = pipe_per_proc[i]
                      \/ /\ pipe_per_proc[i].pid = p
                         /\ pipe_per_proc'[i].open = pipe_per_proc[i].open \ E
                         /\ pipe_per_proc'[i].pid = IF pipe_per_proc'[i].open = {}
                                                    THEN NoPid ELSE p
  BY <1>1 DEF SlotsAfterClose, IsLastSlot
<1>5. OneSlotPerProcess'
  BY <1>0, <1>2, <1>4 DEF OneSlotPerProcess
<1>6. ASSUME NEW i \in Slot, pipe_per_proc'[i].open # {}
      PROVE  /\ pipe_per_proc'[i].pid = pipe_per_proc[i].pid
             /\ pipe_per_proc'[i].open \subseteq pipe_per_proc[i].open
             /\ pipe_per_proc[i].pid = p => pipe_per_proc'[i].open \cap E = {}
  <2>1. CASE Closable(p, E) = {}
    <3>1. pipe_per_proc'[i] = pipe_per_proc[i]
      BY <1>1, <2>1 DEF SlotsAfterClose
    <3>2. pipe_per_proc[i].pid = p => pipe_per_proc[i].open \cap E = {}
      BY <1>3, <2>1 DEF Closable
    <3> QED
      BY <3>1, <3>2
  <2>2. CASE Closable(p, E) # {}
    <3>1. pipe_per_proc[i].pid = p => pipe_per_proc'[i].open = pipe_per_proc[i].open \ E
      BY <1>1, <1>3, <2>2 DEF SlotsAfterClose
    <3> QED
      BY <1>4, <1>6, <3>1
  <2> QED
    BY <2>1, <2>2
<1>7. live' \in BOOLEAN /\ FreedWithLastEnd'
  <2>1. CASE Closable(p, E) = {}
    <3>1. pipe_per_proc' = pipe_per_proc
      BY <1>1, <2>1 DEF SlotsAfterClose
    <3> QED
      BY <2>1, <3>1 DEF pipe_close, FreedWithLastEnd, SomeEndOpen
  <2>2. CASE Closable(p, E) # {}
    <3>1. live
      <4>1. PICK i \in Slot : IsLastSlot(i, p) /\ pipe_per_proc[i].open # {}
        BY <2>2 DEF Closable
      <4> QED
        BY <1>0, <4>1 DEF FreedWithLastEnd, SomeEndOpen, IsLastSlot
    <3> QED
      BY <2>2, <3>1 DEF pipe_close, FreedWithLastEnd, SomeEndOpen
  <2> QED
    BY <2>1, <2>2
<1>8. ASSUME NEW i \in Slot
      PROVE  /\ pipe_per_proc[i].pid # p => pipe_per_proc'[i] = pipe_per_proc[i]
             /\ pipe_per_proc[i].pid = p =>
                  pipe_per_proc'[i].open = pipe_per_proc[i].open \ E
  <2>1. pipe_per_proc[i].pid # p => pipe_per_proc'[i] = pipe_per_proc[i]
    BY <1>4
  <2>2. CASE pipe_per_proc[i].pid = p /\ Closable(p, E) = {}
    BY <1>1, <1>3, <2>2 DEF Closable, SlotsAfterClose
  <2>3. CASE pipe_per_proc[i].pid = p /\ Closable(p, E) # {}
    BY <1>1, <1>3, <2>3 DEF SlotsAfterClose
  <2> QED
    BY <2>1, <2>2, <2>3
<1> QED
  BY <1>2, <1>5, <1>6, <1>7, <1>8

LEMMA CloseRefs ==
  ASSUME TypeOK, NEW p \in Pids, NEW E
  PROVE  RefsAfterClose(p, E) \in [End -> Int]
  BY DEF TypeOK, RefsAfterClose

(* Descriptors that keep everything but the closed ends still back every   *)
(* flag that is left.                                                       *)
LEMMA CloseKeepsDescriptors ==
  ASSUME IInv, NEW p \in Pids, NEW E \in SUBSET End, pipe_close(p, E),
         NEW F, alive' = alive \ F, F = {} \/ (F = {p} /\ E = Held(p)),
         \A q \in Pids : q # p => files'[q] = files[q],
         Held(p) \ E \subseteq {files'[p][fd] : fd \in Fds}
  PROVE  OpenEndsHaveDescriptors'
<1> SUFFICES ASSUME NEW i \in Slot, pipe_per_proc'[i].open # {}
             PROVE  /\ pipe_per_proc'[i].pid \in alive'
                    /\ pipe_per_proc'[i].open \subseteq
                         {files'[pipe_per_proc'[i].pid][fd] : fd \in Fds} \cap End
  BY DEF OpenEndsHaveDescriptors, Held
<1>1. PICK q : q = pipe_per_proc[i].pid
  OBVIOUS
<1>2. /\ pipe_per_proc'[i].pid = q
      /\ pipe_per_proc'[i].open \subseteq pipe_per_proc[i].open
      /\ q = p => pipe_per_proc'[i].open \cap E = {}
  BY <1>1, CloseSlots
<1>3. q \in alive /\ pipe_per_proc[i].open \subseteq Held(q)
  BY <1>1, <1>2 DEF IInv, SlotsInv, OpenEndsHaveDescriptors
<1>4. q \in Pids
  BY <1>3 DEF IInv, TypeOK
<1>5. CASE q # p
  BY <1>2, <1>3, <1>4, <1>5 DEF Held
<1>6. CASE q = p
  <2>1. pipe_per_proc'[i].open \subseteq Held(p) \ E
    BY <1>2, <1>3, <1>6
  <2>2. F = {}
    BY <2>1
  <2>3. Held(p) \subseteq End
    BY DEF Held
  <2> QED
    BY <1>2, <1>3, <1>6, <2>1, <2>2, <2>3
<1> QED
  BY <1>5, <1>6

-------------------------------------------------------------------------------
(* One lemma per action: it preserves the invariant.                        *)
LEMMA CreateStep ==
  ASSUME IInv, NEW p \in alive, create_pipe(p)
  PROVE  IInv'
<1> USE DEF IInv, SlotsInv, TypeOK
<1>1. p \in Pids /\ NoPid \notin Pids
  BY PidsAssumption DEF NoPid
<1>2. CASE UNCHANGED <<alive, files, ref_count, live, pipe_per_proc, ring, quirks>>
           /\ Return(Refused)
  BY <1>2, EmptyMessage DEF ring, Return, Refused, RingConsistent, OneSlotPerProcess,
     OpenEndsHaveDescriptors, FreedWithLastEnd, SomeEndOpen, Held
<1>3. CASE \E f0, f1 \in Fds :
             /\ f0 # f1
             /\ files' = [files EXCEPT ![p][f0] = "r", ![p][f1] = "w"]
             /\ ref_count' = [e \in End |-> 1]
             /\ live' = TRUE
             /\ pipe_per_proc' = [i \in Slot |-> IF i = 0 THEN [pid |-> p, open |-> End]
                                                  ELSE [pid |-> NoPid, open |-> {}]]
             /\ read_pos' = 0 /\ write_pos' = 0 /\ buff_offset' = 0
             /\ quirks' = {}
             /\ Return(0)
             /\ UNCHANGED <<alive, pipe_buff>>
  <2>1. PICK f0, f1 \in Fds :
             /\ f0 # f1
             /\ files' = [files EXCEPT ![p][f0] = "r", ![p][f1] = "w"]
    BY <1>3
  <2>2. files' \in [Pids -> [Fds -> End \cup {Std, None}]]
    BY <1>1, <2>1 DEF End
  <2>3. TypeOK'
    <3>1. ref_count' \in [End -> Int] /\ live' \in BOOLEAN /\ alive' \in SUBSET Pids
      BY <1>3
    <3>2. pipe_per_proc' \in [Slot -> [pid : Pids \cup {NoPid}, open : SUBSET End]]
      BY <1>1, <1>3
    <3>3. /\ pipe_buff' \in [Index -> Data] /\ read_pos' \in Index
          /\ write_pos' \in Index /\ buff_offset' \in 0..MAX_PIPE_SIZE
      BY <1>3, SizesAssumption DEF Index
    <3>4. rc' \in Int /\ out' \in Messages /\ quirks' \in SUBSET {"dup", "fork"}
      BY <1>3, EmptyMessage DEF Return
    <3> QED
      BY <2>2, <3>1, <3>2, <3>3, <3>4
  <2>4. RingConsistent'
    BY <1>3, SizesAssumption, ModFacts DEF RingConsistent, Ahead
  <2>5. OneSlotPerProcess'
    BY <1>1, <1>3 DEF OneSlotPerProcess, End
  <2>6. OpenEndsHaveDescriptors'
    <3>1. files'[p][f0] = "r" /\ files'[p][f1] = "w"
      BY <1>1, <2>1
    <3>2. End \subseteq {files'[p][fd] : fd \in Fds} \cap End
      BY <3>1 DEF End
    <3> QED
      BY <1>3, <3>2 DEF OpenEndsHaveDescriptors, Held
  <2>7. FreedWithLastEnd'
    BY <1>1, <1>3, SizesAssumption DEF FreedWithLastEnd, SomeEndOpen, Slot, End
  <2> QED
    BY <2>3, <2>4, <2>5, <2>6, <2>7
<1>4. \A f0, f1 \in Fds : IsLowestFree(p, f1, f0 + 1) => f0 # f1
  BY SizesAssumption DEF IsLowestFree, Fds
<1> QED
  BY <1>2, <1>3, <1>4 DEF create_pipe

LEMMA ForkStep ==
  ASSUME IInv, NEW p \in alive, NEW c \in Pids, do_fork(p, c)
  PROVE  IInv'
<1> USE DEF IInv, SlotsInv, TypeOK
<1>1. /\ p \in Pids /\ NoPid \notin Pids /\ c \notin alive
      /\ files' = [files EXCEPT ![c] = files[p]]
      /\ alive' = alive \cup {c}
      /\ UNCHANGED <<live, ring>>
  BY PidsAssumption DEF NoPid, do_fork
<1>2. \/ pipe_per_proc' = pipe_per_proc
      \/ /\ Held(p) # {} /\ ~Recorded(c) /\ CanRecord(p) /\ do_pipe_fork(p, c)
  BY DEF do_fork, do_pipe_fork
<1>3. ref_count' \in [End -> Int] /\ rc' \in Int /\ out' \in Messages
      /\ quirks' \in SUBSET {"dup", "fork"}
  <2>1. ref_count' = [e \in End |-> ref_count[e] + Count(p, e)]
    BY DEF do_fork
  <2>2. ref_count' \in [End -> Int]
    BY <1>1, <2>1, CountType
  <2>3. quirks' = quirks \/ quirks' = quirks \cup {"fork"}
    BY DEF do_fork
  <2>4. (rc' = 0 \/ rc' = Refused) /\ out' = <<>>
    BY DEF do_fork, Return
  <2>5. quirks' \in SUBSET {"dup", "fork"}
    BY <2>3
  <2>6. rc' \in Int /\ out' \in Messages
    BY <2>4, EmptyMessage DEF Refused
  <2> QED
    BY <2>2, <2>5, <2>6
<1>4. files' \in [Pids -> [Fds -> End \cup {Std, None}]]
  BY <1>1
<1>5. \A q \in Pids : q # c => files'[q] = files[q]
  BY <1>1
<1>6. RingConsistent'
  BY <1>1 DEF ring, RingConsistent, Ahead
<1>7. CASE pipe_per_proc' = pipe_per_proc
  <2>1. TypeOK'
    BY <1>1, <1>3, <1>4, <1>7 DEF ring
  <2>2. OneSlotPerProcess' /\ FreedWithLastEnd'
    BY <1>1, <1>7 DEF OneSlotPerProcess, FreedWithLastEnd, SomeEndOpen
  <2>3. OpenEndsHaveDescriptors'
    BY <1>1, <1>5, <1>7 DEF OpenEndsHaveDescriptors, Held
  <2> QED
    BY <1>6, <2>1, <2>2, <2>3
<1>8. CASE Held(p) # {} /\ ~Recorded(c) /\ CanRecord(p) /\ do_pipe_fork(p, c)
  <2>1. PICK j \in Slot : pipe_per_proc[j].pid = p /\ IsLastSlot(j, p)
    BY <1>1, <1>8, SlotIsLast DEF CanRecord, Recorded
  <2>2. \A k \in Slot : IsLastSlot(k, p) => k = j
    BY <1>1, <2>1 DEF IsLastSlot, OneSlotPerProcess
  <2>3. (CHOOSE k \in Slot : IsLastSlot(k, p)) = j
    BY <2>1, <2>2
  <2>4. pipe_per_proc' = [i \in Slot |-> IF IsFirstSlot(i, NoPid)
                                         THEN [pid |-> c, open |-> pipe_per_proc[j].open]
                                         ELSE pipe_per_proc[i]]
    BY <1>8, <2>3 DEF do_pipe_fork
  <2>5. \A i, k \in Slot : IsFirstSlot(i, NoPid) /\ IsFirstSlot(k, NoPid) => i = k
    BY DEF IsFirstSlot, Slot
  <2>6. \A i \in Slot : IsFirstSlot(i, NoPid) => pipe_per_proc[i].pid = NoPid
    BY DEF IsFirstSlot
  <2>7. \A i \in Slot : pipe_per_proc[i].pid # c
    BY <1>8 DEF Recorded
  <2>8. pipe_per_proc[j].open # {} /\ pipe_per_proc[j].open \subseteq Held(p)
    BY <1>1, <2>1 DEF OneSlotPerProcess, OpenEndsHaveDescriptors
  <2>9. TypeOK'
    BY <1>1, <1>3, <1>4, <2>4 DEF ring
  <2>10. OneSlotPerProcess'
    BY <1>1, <2>4, <2>5, <2>7, <2>8 DEF OneSlotPerProcess
  <2>11. OpenEndsHaveDescriptors'
    <3> SUFFICES ASSUME NEW i \in Slot, pipe_per_proc'[i].open # {}
                 PROVE  /\ pipe_per_proc'[i].pid \in alive'
                        /\ pipe_per_proc'[i].open \subseteq
                             {files'[pipe_per_proc'[i].pid][fd] : fd \in Fds} \cap End
      BY DEF OpenEndsHaveDescriptors, Held
    <3>1. CASE IsFirstSlot(i, NoPid)
      BY <1>1, <2>4, <2>8, <3>1 DEF Held
    <3>2. CASE ~IsFirstSlot(i, NoPid)
      BY <1>1, <1>5, <2>4, <3>2 DEF OpenEndsHaveDescriptors, Held
    <3> QED
      BY <3>1, <3>2
  <2>12. FreedWithLastEnd'
    <3>1. live
      BY <1>8 DEF do_fork
    <3>2. pipe_per_proc'[j] = pipe_per_proc[j]
      BY <1>1, <2>1, <2>4, <2>6
    <3> QED
      BY <1>1, <2>1, <2>8, <3>1, <3>2 DEF FreedWithLastEnd, SomeEndOpen
  <2> QED
    BY <1>6, <2>9, <2>10, <2>11, <2>12
<1> QED
  BY <1>2, <1>7, <1>8

LEMMA CloseStep ==
  ASSUME IInv, NEW p \in alive, NEW fd \in Fds, do_close(p, fd)
  PROVE  IInv'
<1> USE DEF IInv, SlotsInv, TypeOK
<1>1. /\ p \in Pids
      /\ files' = [files EXCEPT ![p][fd] = None]
      /\ UNCHANGED <<alive, ring, quirks>>
  BY DEF do_close
<1>2. files' \in [Pids -> [Fds -> End \cup {Std, None}]]
  BY <1>1
<1>3. RingConsistent'
  BY <1>1 DEF ring, RingConsistent, Ahead
<1>4. /\ \A q \in Pids : q # p => files'[q] = files[q]
      /\ Held(p) \ {files[p][fd]} \subseteq {files'[p][g] : g \in Fds}
  BY <1>1 DEF Held
<1>5. rc' \in Int /\ out' \in Messages
  BY EmptyMessage DEF do_close, Return, Refused
<1>6. CASE files[p][fd] \notin End
  <2>1. UNCHANGED <<pipe_per_proc, live, ref_count>>
    BY <1>6 DEF do_close
  <2>2. TypeOK'
    BY <1>1, <1>2, <1>5, <2>1 DEF ring
  <2>3. OneSlotPerProcess' /\ FreedWithLastEnd'
    BY <2>1 DEF OneSlotPerProcess, FreedWithLastEnd, SomeEndOpen
  <2>4. \A q \in Pids : Held(q) \subseteq {files'[q][g] : g \in Fds} \cap End
    BY <1>4, <1>6 DEF Held
  <2>5. OpenEndsHaveDescriptors'
    BY <1>1, <2>1, <2>4 DEF OpenEndsHaveDescriptors, Held
  <2> QED
    BY <1>3, <2>2, <2>3, <2>5
<1>7. CASE files[p][fd] \in End
  <2>1. pipe_close(p, {files[p][fd]}) /\ ref_count' = RefsAfterClose(p, {files[p][fd]})
    BY <1>7 DEF do_close
  <2>2. TypeOK'
    BY <1>1, <1>2, <1>5, <1>7, <2>1, CloseSlots, CloseRefs DEF ring
  <2>3. OneSlotPerProcess' /\ FreedWithLastEnd'
    BY <1>1, <1>7, <2>1, CloseSlots
  <2>4. OpenEndsHaveDescriptors'
    <3>1. alive' = alive \ {} /\ {files[p][fd]} \in SUBSET End
      BY <1>1, <1>7
    <3> QED
      BY <1>1, <1>4, <2>1, <3>1, CloseKeepsDescriptors
  <2> QED
    BY <1>3, <2>2, <2>3, <2>4
<1> QED
  BY <1>6, <1>7

LEMMA ExitStep ==
  ASSUME IInv, NEW p \in alive, do_exit(p)
  PROVE  IInv'
<1> USE DEF IInv, SlotsInv, TypeOK
<1>1. /\ p \in Pids
      /\ alive' = alive \ {p}
      /\ files' = [files EXCEPT ![p] = [fd \in Fds |-> None]]
      /\ pipe_close(p, Held(p)) /\ ref_count' = RefsAfterClose(p, Held(p))
      /\ Held(p) \in SUBSET End
      /\ UNCHANGED <<ring, quirks>>
  BY DEF do_exit, Held
<1>2. files' \in [Pids -> [Fds -> End \cup {Std, None}]]
  BY <1>1
<1>3. rc' \in Int /\ out' \in Messages
  BY EmptyMessage DEF do_exit, Return
<1>4. RingConsistent'
  BY <1>1 DEF ring, RingConsistent, Ahead
<1>5. TypeOK'
  BY <1>1, <1>2, <1>3, CloseSlots, CloseRefs DEF ring
<1>6. OneSlotPerProcess' /\ FreedWithLastEnd'
  BY <1>1, CloseSlots
<1>7. \A q \in Pids : q # p => files'[q] = files[q]
  BY <1>1
<1>8. OpenEndsHaveDescriptors'
  BY <1>1, <1>7, CloseKeepsDescriptors
<1> QED
  BY <1>4, <1>5, <1>6, <1>8

LEMMA DupStep ==
  ASSUME IInv, NEW p \in alive, NEW oldfd \in Fds, fd_dup(p, oldfd)
  PROVE  IInv'
<1> USE DEF IInv, SlotsInv, TypeOK
<1>1. p \in Pids /\ UNCHANGED <<alive, live, pipe_per_proc, ring>>
  BY DEF fd_dup
<1>2. \/ files' = files /\ ref_count' = ref_count /\ quirks' = quirks
      \/ \E fd \in Fds : /\ files[p][fd] = None
                        /\ files' = [files EXCEPT ![p][fd] = files[p][oldfd]]
                        /\ ref_count' = AddRef(ref_count, p, oldfd)
                        /\ quirks' \in {quirks, quirks \cup {"dup"}}
  BY DEF fd_dup, IsLowestFree, NoteDup
<1>3. rc' \in Int /\ out' \in Messages
  BY EmptyMessage DEF fd_dup, Return, Refused
<1>4. /\ files' \in [Pids -> [Fds -> End \cup {Std, None}]]
      /\ ref_count' \in [End -> Int]
      /\ quirks' \in SUBSET {"dup", "fork"}
  <2>1. CASE files' = files /\ ref_count' = ref_count /\ quirks' = quirks
    BY <2>1
  <2>2. CASE \E fd \in Fds : /\ files[p][fd] = None
                             /\ files' = [files EXCEPT ![p][fd] = files[p][oldfd]]
                             /\ ref_count' = AddRef(ref_count, p, oldfd)
                             /\ quirks' \in {quirks, quirks \cup {"dup"}}
    <3>1. PICK fd \in Fds : files' = [files EXCEPT ![p][fd] = files[p][oldfd]]
      BY <2>2
    <3>2. ref_count' = AddRef(ref_count, p, oldfd)
      BY <2>2
    <3>3. quirks' \in {quirks, quirks \cup {"dup"}}
      BY <2>2
    <3>4. files' \in [Pids -> [Fds -> End \cup {Std, None}]]
      BY <1>1, <3>1
    <3>5. ref_count' \in [End -> Int]
      <4>1. \A e \in End : (IF files[p][oldfd] = e THEN ref_count[e] + 1
                            ELSE ref_count[e]) \in Int
        OBVIOUS
      <4> QED
        BY <3>2, <4>1 DEF AddRef
    <3>6. quirks' \in SUBSET {"dup", "fork"}
      BY <3>3
    <3> QED
      BY <3>4, <3>5, <3>6
  <2> QED
    BY <1>2, <2>1, <2>2
<1>5. TypeOK'
  BY <1>1, <1>3, <1>4 DEF ring
<1>6. RingConsistent' /\ OneSlotPerProcess' /\ FreedWithLastEnd'
  BY <1>1 DEF ring, RingConsistent, Ahead, OneSlotPerProcess, FreedWithLastEnd, SomeEndOpen
<1>7. \A q \in Pids : Held(q) \subseteq {files'[q][g] : g \in Fds} \cap End
  BY <1>1, <1>2 DEF Held, End, None
<1>8. OpenEndsHaveDescriptors'
  BY <1>1, <1>7 DEF OpenEndsHaveDescriptors, Held
<1> QED
  BY <1>5, <1>6, <1>8

LEMMA Dup2Step ==
  ASSUME IInv, NEW p \in alive, NEW oldfd \in Fds, NEW newfd \in Fds,
         fd_dup2(p, oldfd, newfd)
  PROVE  IInv'
<1> USE DEF IInv, SlotsInv, TypeOK
<1>1. p \in Pids /\ UNCHANGED <<alive, ring>>
  BY DEF fd_dup2
<1>2. rc' \in Int /\ out' \in Messages
  BY EmptyMessage DEF fd_dup2, Return, Refused
<1>3. RingConsistent'
  BY <1>1 DEF ring, RingConsistent, Ahead
<1>4. CASE UNCHANGED <<files, ref_count, live, pipe_per_proc, quirks>>
  <2>1. TypeOK'
    BY <1>1, <1>2, <1>4 DEF ring
  <2> QED
    BY <1>1, <1>3, <1>4, <2>1 DEF OneSlotPerProcess, FreedWithLastEnd, SomeEndOpen,
       OpenEndsHaveDescriptors, Held
<1>5. CASE files[p][oldfd] # None /\ oldfd # newfd
  <2> DEFINE E == {files[p][newfd]} \cap End
  <2>1. /\ E \in SUBSET End /\ pipe_close(p, E)
        /\ ref_count' = AddRef(RefsAfterClose(p, E), p, oldfd)
        /\ files' = [files EXCEPT ![p][newfd] = files[p][oldfd]]
        /\ quirks' \in {quirks, quirks \cup {"dup"}}
    BY <1>5 DEF fd_dup2, NoteDup
  <2>2. files' \in [Pids -> [Fds -> End \cup {Std, None}]]
    BY <1>1, <2>1
  <2>3. ref_count' \in [End -> Int]
    BY <1>1, <2>1, CloseRefs DEF AddRef
  <2>4. quirks' \in SUBSET {"dup", "fork"}
    BY <2>1
  <2>5. TypeOK'
    BY <1>1, <1>2, <2>1, <2>2, <2>3, <2>4, CloseSlots DEF ring
  <2>6. OneSlotPerProcess' /\ FreedWithLastEnd'
    BY <1>1, <2>1, CloseSlots
  <2>7. \A q \in Pids : q # p => files'[q] = files[q]
    BY <1>1, <2>1
  <2>8. Held(p) \ E \subseteq {files'[p][fd] : fd \in Fds}
    BY <1>1, <2>1 DEF Held
  <2>9. OpenEndsHaveDescriptors'
    <3>1. alive' = alive \ {}
      BY <1>1
    <3> QED
      BY <1>1, <2>1, <2>7, <2>8, <3>1, CloseKeepsDescriptors
  <2> QED
    BY <1>3, <2>5, <2>6, <2>9
<1> QED
  BY <1>4, <1>5 DEF fd_dup2

(* The two data calls leave the slots and the descriptors alone. *)
LEMMA SlotsInvFrame ==
  ASSUME SlotsInv, UNCHANGED <<alive, files, ref_count, live, pipe_per_proc, quirks>>
  PROVE  SlotsInv'
  BY DEF SlotsInv, OneSlotPerProcess, OpenEndsHaveDescriptors, FreedWithLastEnd,
     SomeEndOpen, Held

LEMMA ReadStep ==
  ASSUME IInv, NEW p \in alive, NEW fd \in Fds, NEW count \in 0..MaxCount,
         NEW valid \in BOOLEAN, pipe_read(p, fd, valid, count)
  PROVE  IInv'
<1> USE DEF IInv, TypeOK
<1>1. UNCHANGED <<alive, files, ref_count, live, pipe_per_proc, quirks>>
  BY DEF pipe_read
<1>2. SlotsInv'
  BY <1>1, SlotsInvFrame
<1>3. CASE Return(Refused) /\ UNCHANGED ring
  <2>1. TypeOK'
    BY <1>1, <1>3, EmptyMessage DEF ring, Return, Refused
  <2> QED
    BY <1>2, <1>3, <2>1 DEF ring, RingConsistent, Ahead
<1>4. CASE \E n \in 0..buff_offset :
             /\ n <= count
             /\ out' = [i \in 1..n |-> pipe_buff[Ahead(read_pos, i - 1)]]
             /\ rc' = n
             /\ read_pos' = Ahead(read_pos, n)
             /\ buff_offset' = buff_offset - n
             /\ UNCHANGED <<pipe_buff, write_pos>>
  <2>1. PICK n \in 0..buff_offset :
             /\ n <= count
             /\ out' = [i \in 1..n |-> pipe_buff[Ahead(read_pos, i - 1)]]
             /\ rc' = n
             /\ read_pos' = Ahead(read_pos, n)
             /\ buff_offset' = buff_offset - n
             /\ UNCHANGED <<pipe_buff, write_pos>>
    BY <1>4
  <2>2. n \in 0..MAX_PIPE_SIZE /\ n \in 0..MaxCount /\ buff_offset' \in 0..MAX_PIPE_SIZE
    BY <2>1, SizesAssumption
  <2>3. \A i \in 1..n : Ahead(read_pos, i - 1) \in Index
    <3>1. \A i \in 1..n : i - 1 \in 0..MAX_PIPE_SIZE
      BY <2>2, SizesAssumption
    <3> QED
      BY <3>1, AheadType
  <2>4. out' \in [1..n -> Data]
    BY <2>1, <2>3
  <2>5. out' \in Messages
    BY <2>2, <2>4 DEF Messages
  <2>6. read_pos' \in Index
    BY <2>1, <2>2, AheadType
  <2>7. TypeOK'
    BY <1>1, <2>1, <2>2, <2>5, <2>6
  <2>8. RingConsistent'
    <3>1. n + (buff_offset - n) = buff_offset /\ n \in Nat /\ buff_offset - n \in Nat
      BY <2>1
    <3>2. Ahead(Ahead(read_pos, n), buff_offset - n) = Ahead(read_pos, buff_offset)
      BY <3>1, AheadSum
    <3> QED
      BY <2>1, <3>2 DEF RingConsistent, Ahead
  <2> QED
    BY <1>2, <2>7, <2>8
<1>5. Lesser(count, buff_offset) \in 0..buff_offset /\ Lesser(count, buff_offset) <= count
  BY SizesAssumption DEF Lesser
<1> QED
  BY <1>3, <1>4, <1>5 DEF pipe_read

LEMMA WriteStep ==
  ASSUME IInv, NEW p \in alive, NEW fd \in Fds, NEW s \in Messages,
         NEW valid \in BOOLEAN, pipe_write(p, fd, valid, s)
  PROVE  IInv'
<1> USE DEF IInv, TypeOK
<1>1. UNCHANGED <<alive, files, ref_count, live, pipe_per_proc, quirks>>
  BY DEF pipe_write
<1>2. SlotsInv'
  BY <1>1, SlotsInvFrame
<1>3. CASE Return(Refused) /\ UNCHANGED ring
  <2>1. TypeOK'
    BY <1>1, <1>3, EmptyMessage DEF ring, Return, Refused
  <2> QED
    BY <1>2, <1>3, <2>1 DEF ring, RingConsistent, Ahead
<1>4. CASE \E n \in 0..(MAX_PIPE_SIZE - buff_offset) :
             /\ n <= Len(s)
             /\ pipe_buff' = [k \in Index |-> IF Gap(write_pos, k) < n
                                              THEN s[Gap(write_pos, k) + 1]
                                              ELSE pipe_buff[k]]
             /\ write_pos' = Ahead(write_pos, n)
             /\ buff_offset' = buff_offset + n
             /\ Return(n)
             /\ UNCHANGED read_pos
  <2>1. PICK n \in 0..(MAX_PIPE_SIZE - buff_offset) :
             /\ n <= Len(s)
             /\ pipe_buff' = [k \in Index |-> IF Gap(write_pos, k) < n
                                              THEN s[Gap(write_pos, k) + 1]
                                              ELSE pipe_buff[k]]
             /\ write_pos' = Ahead(write_pos, n)
             /\ buff_offset' = buff_offset + n
             /\ Return(n)
             /\ UNCHANGED read_pos
    BY <1>4
  <2>2. n \in 0..MAX_PIPE_SIZE /\ n \in Int /\ buff_offset' \in 0..MAX_PIPE_SIZE
    BY <2>1, SizesAssumption
  <2>3. \A k \in Index : Gap(write_pos, k) \in Nat
    BY SizesAssumption DEF Gap, Index
  <2>4. \A k \in Index : Gap(write_pos, k) < n => s[Gap(write_pos, k) + 1] \in Data
    BY <2>1, <2>2, <2>3, MessageFacts
  <2>5. pipe_buff' \in [Index -> Data]
    BY <2>1, <2>4
  <2>6. write_pos' \in Index
    BY <2>1, <2>2, AheadType
  <2>7. TypeOK'
    BY <1>1, <2>1, <2>2, <2>5, <2>6, EmptyMessage DEF Return
  <2>8. RingConsistent'
    <3>1. buff_offset + n <= MAX_PIPE_SIZE /\ n \in Nat /\ buff_offset \in Nat
      BY <2>1, SizesAssumption
    <3>2. Ahead(Ahead(read_pos, buff_offset), n) = Ahead(read_pos, buff_offset + n)
      BY <3>1, AheadSum
    <3> QED
      BY <2>1, <3>2 DEF RingConsistent, Ahead
  <2> QED
    BY <1>2, <2>7, <2>8
<1>5. /\ Lesser(Len(s), MAX_PIPE_SIZE - buff_offset) \in 0..(MAX_PIPE_SIZE - buff_offset)
      /\ Lesser(Len(s), MAX_PIPE_SIZE - buff_offset) <= Len(s)
  BY SizesAssumption, MessageFacts DEF Lesser
<1> QED
  BY <1>3, <1>4, <1>5 DEF pipe_write

LEMMA StepIInv == IInv /\ [Next]_vars => IInv'
<1> SUFFICES ASSUME IInv, [Next]_vars PROVE IInv'
  OBVIOUS
<1>1. CASE UNCHANGED vars
  <2>1. TypeOK' /\ RingConsistent'
    BY <1>1 DEF vars, ring, IInv, TypeOK, RingConsistent, Ahead
  <2> QED
    BY <1>1, <2>1, SlotsInvFrame DEF vars, IInv
<1>2. CASE Next
  BY <1>2, CreateStep, ForkStep, CloseStep, ExitStep, DupStep, Dup2Step, ReadStep,
     WriteStep DEF Next
<1> QED
  BY <1>1, <1>2

(* Every state variable keeps its type. *)
THEOREM TypeCorrect == Spec => []TypeOK
  BY InitIInv, StepIInv, PTL DEF Spec, IInv

(* The slot table never records a process twice (do_pipe_fork, pipe_close). *)
THEOREM SlotsAreUnique == Spec => []OneSlotPerProcess
  BY InitIInv, StepIInv, PTL DEF Spec, IInv, SlotsInv

(* A flag in a slot is never left behind by close, dup2 or exit. *)
THEOREM NoOrphanedEnd == Spec => []OpenEndsHaveDescriptors
  BY InitIInv, StepIInv, PTL DEF Spec, IInv, SlotsInv

(* The pages are held exactly while some end is open. *)
THEOREM PagesFollowOpenEnds == Spec => []FreedWithLastEnd
  BY InitIInv, StepIInv, PTL DEF Spec, IInv, SlotsInv

-------------------------------------------------------------------------------
(* The refinement of BytePipe.                                              *)

LEMMA ContentsFacts ==
  ASSUME IInv
  PROVE  /\ Contents \in Seq(Data)
         /\ Len(Contents) = buff_offset
         /\ \A i \in 1..buff_offset : Contents[i] = pipe_buff[Ahead(read_pos, i - 1)]
<1> USE DEF IInv, TypeOK
<1>1. \A i \in 1..buff_offset : i - 1 \in 0..MAX_PIPE_SIZE
  BY SizesAssumption
<1>2. \A i \in 1..buff_offset : pipe_buff[Ahead(read_pos, i - 1)] \in Data
  BY <1>1, AheadType
<1> QED
  BY <1>2, SizesAssumption DEF Contents

LEMMA UsersAndPages == ASSUME IInv PROVE live <=> Users # {}
<1> USE DEF IInv, TypeOK, SlotsInv
<1>1. ASSUME live PROVE Users # {}
  <2>1. PICK i \in Slot : pipe_per_proc[i].pid # NoPid /\ pipe_per_proc[i].open # {}
    BY <1>1 DEF FreedWithLastEnd, SomeEndOpen
  <2>2. PICK e \in End : e \in pipe_per_proc[i].open
    BY <2>1
  <2>3. <<pipe_per_proc[i].pid, e>> \in Users
    BY <2>1, <2>2 DEF Users
  <2> QED
    BY <2>3
<1>2. ASSUME Users # {} PROVE live
  <2>1. PICK u \in Users : \E i \in Slot : pipe_per_proc[i].pid = u[1]
                                          /\ u[2] \in pipe_per_proc[i].open
    BY <1>2 DEF Users
  <2> QED
    BY <2>1, PidsAssumption DEF Users, FreedWithLastEnd, SomeEndOpen, OneSlotPerProcess, NoPid
<1> QED
  BY <1>1, <1>2

LEMMA UsersMember ==
  ASSUME NEW q \in Pids, NEW e \in End
  PROVE  <<q, e>> \in Users <=>
           \E i \in Slot : pipe_per_proc[i].pid = q /\ e \in pipe_per_proc[i].open
  BY DEF Users

(* The users after a close handler: the given ends of p are gone. *)
LEMMA CloseUsers ==
  ASSUME IInv, NEW p \in Pids, NEW E \in SUBSET End, pipe_close(p, E)
  PROVE  Users' = Users \ ({p} \X E)
<1>1. ASSUME NEW q \in Pids, NEW e \in End
      PROVE  <<q, e>> \in Users' <=> (<<q, e>> \in Users /\ ~(q = p /\ e \in E))
  <2>1. <<q, e>> \in Users' <=>
           \E i \in Slot : pipe_per_proc'[i].pid = q /\ e \in pipe_per_proc'[i].open
    BY DEF Users
  <2>2. \A i \in Slot :
          /\ pipe_per_proc[i].pid # p => pipe_per_proc'[i] = pipe_per_proc[i]
          /\ pipe_per_proc[i].pid = p => pipe_per_proc'[i].open = pipe_per_proc[i].open \ E
          /\ pipe_per_proc'[i].open # {} => pipe_per_proc'[i].pid = pipe_per_proc[i].pid
    BY CloseSlots
  <2> QED
    BY <2>1, <2>2, UsersMember
<1> QED
  BY <1>1 DEF Users

(* The users after a successful fork handler: the child has its parent's ends. *)
LEMMA ForkUsers ==
  ASSUME IInv, NEW p \in Pids, NEW c \in Pids,
         ~Recorded(c), CanRecord(p), do_pipe_fork(p, c)
  PROVE  /\ Users' = Users \cup ({c} \X {e \in End : <<p, e>> \in Users})
         /\ \A e \in End : <<c, e>> \notin Users
<1> USE DEF IInv, TypeOK, SlotsInv
<1>0. NoPid \notin Pids
  BY PidsAssumption DEF NoPid
<1>1. PICK j \in Slot : pipe_per_proc[j].pid = p /\ IsLastSlot(j, p)
  BY <1>0, SlotIsLast DEF CanRecord, Recorded
<1>2. \A k \in Slot : IsLastSlot(k, p) => k = j
  BY <1>0, <1>1 DEF IsLastSlot, OneSlotPerProcess
<1>3. (CHOOSE k \in Slot : IsLastSlot(k, p)) = j
  BY <1>1, <1>2
<1>4. pipe_per_proc' = [i \in Slot |-> IF IsFirstSlot(i, NoPid)
                                       THEN [pid |-> c, open |-> pipe_per_proc[j].open]
                                       ELSE pipe_per_proc[i]]
  BY <1>3 DEF do_pipe_fork
<1>5. PICK k \in Slot : IsFirstSlot(k, NoPid)
  <2>1. PICK m \in Slot : pipe_per_proc[m].pid = NoPid
    BY DEF CanRecord, Recorded
  <2> DEFINE Empty == {n \in Nat : n \in Slot /\ pipe_per_proc[n].pid = NoPid}
  <2>2. m \in Empty
    BY <2>1 DEF Slot
  <2>3. PICK n \in Empty : \A l \in Empty : n <= l
    BY <2>2, LeastOf DEF Empty
  <2> QED
    BY <2>3 DEF IsFirstSlot, Slot
<1>6. /\ \A i \in Slot : IsFirstSlot(i, NoPid) => i = k
      /\ pipe_per_proc[k].pid = NoPid
  BY <1>5 DEF IsFirstSlot, Slot
<1>7. ASSUME NEW q \in Pids, NEW e \in End
      PROVE  <<q, e>> \in Users' <=> (<<q, e>> \in Users \/ (q = c /\ <<p, e>> \in Users))
  <2>1. <<q, e>> \in Users' <=>
           \E i \in Slot : pipe_per_proc'[i].pid = q /\ e \in pipe_per_proc'[i].open
    BY DEF Users
  <2>2. <<p, e>> \in Users <=> e \in pipe_per_proc[j].open
    BY <1>0, <1>1, UsersMember DEF OneSlotPerProcess
  <2>3. /\ pipe_per_proc'[k].pid = c /\ pipe_per_proc'[k].open = pipe_per_proc[j].open
        /\ \A i \in Slot : i # k => pipe_per_proc'[i] = pipe_per_proc[i]
    BY <1>4, <1>5, <1>6
  <2>4. <<q, e>> \in Users <=> \E i \in Slot : pipe_per_proc[i].pid = q /\ e \in pipe_per_proc[i].open
    BY DEF Users
  <2> HIDE DEF IInv, TypeOK, SlotsInv
  <2>5. CASE q = c
    BY <1>0, <1>6, <2>1, <2>2, <2>3, <2>4, <2>5
  <2>6. CASE q # c
    <3>1. ASSUME NEW i \in Slot
          PROVE  pipe_per_proc'[i].pid = q /\ e \in pipe_per_proc'[i].open
                   <=> pipe_per_proc[i].pid = q /\ e \in pipe_per_proc[i].open
      <4>1. CASE i = k
        BY <1>0, <1>6, <2>3, <2>6, <4>1
      <4>2. CASE i # k
        BY <2>3, <4>2
      <4> QED
        BY <4>1, <4>2
    <3> QED
      BY <2>1, <2>4, <2>6, <3>1
  <2> QED
    BY <2>5, <2>6
<1>8. Users' = Users \cup ({c} \X {e \in End : <<p, e>> \in Users})
  <2>1. Users' \subseteq Pids \X End /\ Users \subseteq Pids \X End
    BY DEF Users
  <2> HIDE DEF IInv, TypeOK, SlotsInv
  <2> QED
    BY <1>7, <2>1
<1>9. \A e \in End : <<c, e>> \notin Users
  BY UsersMember DEF Recorded
<1> QED
  BY <1>8, <1>9

(* Closing the ends E of p is an abstract Drop. *)
LEMMA CloseRefines ==
  ASSUME IInv, IInv', NEW p \in Pids, NEW E \in SUBSET End, pipe_close(p, E),
         UNCHANGED ring, Return(0)
  PROVE  Abstract!Drop(p, E)
<1>2. Users' = Users \ ({p} \X E)
  BY CloseUsers
<1>3. live' => live
  BY DEF pipe_close
<1>4. Queue' = IF Users' = {} THEN <<>> ELSE Queue
  <2>1. Contents' = Contents
    BY DEF ring, Contents, Ahead
  <2>2. live' <=> Users' # {}
    <3>1. (live <=> Users # {})'
      BY UsersAndPages, PTL
    <3> QED
      BY <3>1
  <2> QED
    BY <1>3, <2>1, <2>2 DEF Queue
<1> QED
  BY <1>2, <1>4 DEF Abstract!Drop, Return

(* A step that changes neither slots nor ring is an abstract Other. *)
LEMMA FrameRefines ==
  ASSUME UNCHANGED <<live, pipe_per_proc, ring>>, rc' \in Int, out' = <<>>
  PROVE  Abstract!Other
  BY DEF Abstract!Other, Users, Queue, Contents, ring, Ahead

LEMMA CreateRefines ==
  ASSUME IInv, NEW p \in alive, create_pipe(p)
  PROVE  Abstract!Next
<1>1. p \in Pids
  BY DEF IInv, TypeOK
<1>2. CASE UNCHANGED <<live, pipe_per_proc, ring>> /\ Return(Refused)
  BY <1>2, FrameRefines DEF Return, Refused, Abstract!Next
<1>3. CASE /\ live' = TRUE
           /\ pipe_per_proc' = [i \in Slot |-> IF i = 0 THEN [pid |-> p, open |-> End]
                                                ELSE [pid |-> NoPid, open |-> {}]]
           /\ buff_offset' = 0
           /\ Return(0)
  <2>1. Users = {}
    BY UsersAndPages DEF create_pipe
  <2>2. Users' = {p} \X End
    BY <1>1, <1>3, SizesAssumption DEF Users, Slot
  <2>3. Queue' = <<>>
    BY <1>3 DEF Queue, Contents
  <2> QED
    BY <1>1, <1>3, <2>1, <2>2, <2>3 DEF Abstract!Next, Abstract!Create, Abstract!End, End,
       Return
<1> QED
  BY <1>2, <1>3 DEF create_pipe

LEMMA ForkRefines ==
  ASSUME IInv, NEW p \in alive, NEW c \in Pids, do_fork(p, c)
  PROVE  Abstract!Next
<1> USE DEF IInv, TypeOK, SlotsInv
<1>1. p \in Pids /\ NoPid \notin Pids /\ UNCHANGED <<live, ring>>
  BY PidsAssumption DEF do_fork, NoPid
<1>2. (rc' = 0 \/ rc' = Refused) /\ out' = <<>>
  BY DEF do_fork, Return
<1>3. CASE pipe_per_proc' = pipe_per_proc
  BY <1>1, <1>2, <1>3, FrameRefines DEF Refused, Abstract!Next
<1>4. CASE Held(p) # {} /\ ~Recorded(c) /\ CanRecord(p) /\ do_pipe_fork(p, c)
  <2>1. /\ Users' = Users \cup ({c} \X {e \in End : <<p, e>> \in Users})
        /\ \A e \in End : <<c, e>> \notin Users
    BY <1>1, <1>4, ForkUsers
  <2>10. Queue' = Queue
    BY <1>1 DEF ring, Queue, Contents, Ahead
  <2>11. rc' = 0
    BY <1>4 DEF do_fork, Return
  <2>12. Abstract!Inherit(p, c)
    BY <1>2, <2>1, <2>10, <2>11 DEF Abstract!Inherit, Abstract!End, End
  <2> QED
    BY <1>1, <2>12 DEF Abstract!Next
<1> QED
  BY <1>3, <1>4 DEF do_fork, do_pipe_fork

LEMMA ReadRefines ==
  ASSUME IInv, NEW p \in alive, NEW fd \in Fds, NEW count \in 0..MaxCount,
         NEW valid \in BOOLEAN, pipe_read(p, fd, valid, count)
  PROVE  Abstract!Next
<1> USE DEF IInv, TypeOK
<1>1. p \in Pids /\ UNCHANGED <<live, pipe_per_proc>>
  BY DEF pipe_read
<1>2. CASE Return(Refused) /\ UNCHANGED ring
  BY <1>1, <1>2, FrameRefines DEF Return, Refused, Abstract!Next
<1>3. CASE /\ live
           /\ \E i \in Slot : IsLastSlot(i, p) /\ "r" \in pipe_per_proc[i].open
           /\ \E n \in 0..buff_offset :
                /\ n = count \/ n = buff_offset
                /\ n <= count
                /\ out' = [i \in 1..n |-> pipe_buff[Ahead(read_pos, i - 1)]]
                /\ rc' = n
                /\ read_pos' = Ahead(read_pos, n)
                /\ buff_offset' = buff_offset - n
                /\ pipe_buff' = pipe_buff
  <2>1. PICK n \in 0..buff_offset :
                /\ n = count \/ n = buff_offset
                /\ n <= count
                /\ out' = [i \in 1..n |-> pipe_buff[Ahead(read_pos, i - 1)]]
                /\ rc' = n
                /\ read_pos' = Ahead(read_pos, n)
                /\ buff_offset' = buff_offset - n
                /\ pipe_buff' = pipe_buff
    BY <1>3
  <2>2. <<p, "r">> \in Users
    BY <1>1, <1>3, UsersMember DEF IsLastSlot, End
  <2>3. /\ Contents \in Seq(Data) /\ Len(Contents) = buff_offset
        /\ \A i \in 1..buff_offset : Contents[i] = pipe_buff[Ahead(read_pos, i - 1)]
    BY ContentsFacts
  <2>4. out' = SubSeq(Contents, 1, n)
    BY <2>1, <2>3
  <2>5. \A i \in 1..(buff_offset - n) :
          Ahead(Ahead(read_pos, n), i - 1) = Ahead(read_pos, n + i - 1)
    <3> SUFFICES ASSUME NEW i \in 1..(buff_offset - n)
                 PROVE  Ahead(Ahead(read_pos, n), i - 1) = Ahead(read_pos, n + i - 1)
      OBVIOUS
    <3>1. n \in Nat /\ i - 1 \in Nat /\ n + (i - 1) <= MAX_PIPE_SIZE /\ n + (i - 1) = n + i - 1
      BY <2>1, SizesAssumption
    <3> QED
      BY <3>1, AheadSum
  <2>6. Contents' = [i \in 1..(buff_offset - n) |-> pipe_buff[Ahead(read_pos, n + i - 1)]]
    BY <2>1, <2>5 DEF Contents, Ahead
  <2>7. Contents' = SubSeq(Contents, n + 1, Len(Contents))
    BY <2>1, <2>3, <2>6
  <2>8. Queue = Contents /\ Queue' = Contents' /\ Users' = Users
    BY <1>1, <1>3 DEF Queue, Users
  <2>9. n \in 0..count
    BY <2>1
  <2>10. Abstract!Get(p, count)
    <3>1. n <= Len(Queue) /\ (n = count \/ n = Len(Queue))
      BY <2>1, <2>3, <2>8
    <3>2. out' = SubSeq(Queue, 1, n) /\ Queue' = SubSeq(Queue, n + 1, Len(Queue))
      BY <2>4, <2>7, <2>8
    <3> HIDE DEF IInv, TypeOK
    <3> QED
      BY <2>1, <2>2, <2>8, <2>9, <3>1, <3>2 DEF Abstract!Get
  <2> QED
    BY <1>1, <2>10 DEF Abstract!Next
<1>4. /\ Lesser(count, buff_offset) \in 0..buff_offset /\ Lesser(count, buff_offset) <= count
      /\ Lesser(count, buff_offset) = count \/ Lesser(count, buff_offset) = buff_offset
  BY SizesAssumption DEF Lesser
<1> QED
  BY <1>2, <1>3, <1>4 DEF pipe_read

(* The distance from an index to another that is ahead of it. *)
LEMMA GapAhead ==
  ASSUME NEW a \in Index
  PROVE  /\ \A d \in 0..(MAX_PIPE_SIZE - 1) : Gap(a, Ahead(a, d)) = d
         /\ \A d \in 1..MAX_PIPE_SIZE : Gap(Ahead(a, d), a) = MAX_PIPE_SIZE - d
<1>1. \A d \in 0..MAX_PIPE_SIZE :
        Ahead(a, d) = IF a + d < MAX_PIPE_SIZE THEN a + d ELSE a + d - MAX_PIPE_SIZE
  BY SizesAssumption, ModFacts DEF Ahead, Index
<1>2. ASSUME NEW d \in 0..(MAX_PIPE_SIZE - 1) PROVE Gap(a, Ahead(a, d)) = d
  <2>1. d \in 0..MAX_PIPE_SIZE
    BY SizesAssumption
  <2> QED
    BY <1>1, <2>1, SizesAssumption DEF Gap, Index
<1>3. ASSUME NEW d \in 1..MAX_PIPE_SIZE PROVE Gap(Ahead(a, d), a) = MAX_PIPE_SIZE - d
  <2>1. d \in 0..MAX_PIPE_SIZE
    BY SizesAssumption
  <2> QED
    BY <1>1, <2>1, SizesAssumption DEF Gap, Index
<1> QED
  BY <1>2, <1>3

(* Writing n bytes extends the contents by them and overwrites none.        *)
LEMMA WriteAppends ==
  ASSUME IInv, NEW s \in Messages, NEW n \in 0..(MAX_PIPE_SIZE - buff_offset),
         n <= Len(s),
         pipe_buff' = [k \in Index |-> IF Gap(write_pos, k) < n
                                       THEN s[Gap(write_pos, k) + 1] ELSE pipe_buff[k]],
         buff_offset' = buff_offset + n, read_pos' = read_pos
  PROVE  Contents' = Contents \o SubSeq(s, 1, n)
<1> USE DEF IInv, TypeOK
<1>1. \A i \in 1..(buff_offset + n) : i - 1 \in 0..MAX_PIPE_SIZE
  BY SizesAssumption
<1>2. \A i \in 1..(buff_offset + n) : Ahead(read_pos, i - 1) \in Index
  BY <1>1, AheadType
<1>3. ASSUME NEW i \in 1..buff_offset
      PROVE  pipe_buff'[Ahead(read_pos, i - 1)] = pipe_buff[Ahead(read_pos, i - 1)]
  <2> DEFINE d == buff_offset - (i - 1)
  <2>1. /\ i - 1 \in Nat /\ d \in Nat /\ (i - 1) + d = buff_offset
        /\ (i - 1) + d <= MAX_PIPE_SIZE
        /\ d \in 1..MAX_PIPE_SIZE /\ MAX_PIPE_SIZE - d >= n /\ i \in 1..(buff_offset + n)
    BY SizesAssumption
  <2> HIDE DEF d
  <2>2. Ahead(Ahead(read_pos, i - 1), d) = write_pos
    <3>1. Ahead(Ahead(read_pos, i - 1), d) = Ahead(read_pos, (i - 1) + d)
      BY <2>1, AheadSum
    <3> QED
      BY <2>1, <3>1 DEF RingConsistent
  <2>3. Gap(write_pos, Ahead(read_pos, i - 1)) = MAX_PIPE_SIZE - d
    BY <1>2, <2>1, <2>2, GapAhead
  <2>4. ~(Gap(write_pos, Ahead(read_pos, i - 1)) < n)
    BY <2>1, <2>3, SizesAssumption
  <2> QED
    BY <1>2, <2>1, <2>4
<1>4. ASSUME NEW j \in 1..n
      PROVE  pipe_buff'[Ahead(read_pos, buff_offset + j - 1)] = s[j]
  <2>1. /\ buff_offset \in Nat /\ j - 1 \in Nat /\ buff_offset + (j - 1) <= MAX_PIPE_SIZE
        /\ j - 1 \in 0..(MAX_PIPE_SIZE - 1) /\ buff_offset + (j - 1) = buff_offset + j - 1
        /\ buff_offset + j \in 1..(buff_offset + n) /\ j - 1 < n /\ (j - 1) + 1 = j
    BY SizesAssumption
  <2>2. Ahead(read_pos, buff_offset + j - 1) = Ahead(write_pos, j - 1)
    BY <2>1, AheadSum DEF RingConsistent
  <2>3. Gap(write_pos, Ahead(write_pos, j - 1)) = j - 1
    BY <2>1, GapAhead
  <2>4. Ahead(read_pos, buff_offset + j - 1) \in Index
    <3>1. buff_offset + j - 1 \in 0..MAX_PIPE_SIZE
      BY SizesAssumption
    <3> QED
      BY <3>1, AheadType
  <2> QED
    BY <2>1, <2>2, <2>3, <2>4
<1>5. /\ Contents \in Seq(Data) /\ Len(Contents) = buff_offset
      /\ \A i \in 1..buff_offset : Contents[i] = pipe_buff[Ahead(read_pos, i - 1)]
  BY ContentsFacts
<1>6. Contents' = [i \in 1..(buff_offset + n) |-> pipe_buff'[Ahead(read_pos, i - 1)]]
  BY DEF Contents, Ahead
<1>7. /\ s \in Seq(Data) /\ n <= Len(s) /\ n \in Nat /\ buff_offset \in Nat
  BY MessageFacts, SizesAssumption
<1> HIDE DEF IInv, TypeOK
<1>8. /\ SubSeq(s, 1, n) \in Seq(Data) /\ Len(SubSeq(s, 1, n)) = n
      /\ \A j \in 1..n : SubSeq(s, 1, n)[j] = s[j]
  BY <1>7
<1>9. ASSUME NEW i \in 1..(buff_offset + n)
      PROVE  Contents'[i] = (Contents \o SubSeq(s, 1, n))[i]
  <2>1. Contents'[i] = pipe_buff'[Ahead(read_pos, i - 1)]
    BY <1>6
  <2>2. CASE i <= buff_offset
    <3>1. (Contents \o SubSeq(s, 1, n))[i] = Contents[i] /\ i \in 1..buff_offset
      BY <1>5, <1>7, <1>8, <2>2
    <3> QED
      BY <1>3, <1>5, <2>1, <3>1
  <2>3. CASE i > buff_offset
    <3>1. /\ i - buff_offset \in 1..n
          /\ buff_offset + (i - buff_offset) - 1 = i - 1
      BY <1>7, <2>3
    <3>2. (Contents \o SubSeq(s, 1, n))[i] = SubSeq(s, 1, n)[i - buff_offset]
      BY <1>5, <1>7, <1>8, <2>3
    <3> QED
      BY <1>4, <1>8, <2>1, <3>1, <3>2
  <2>4. i <= buff_offset \/ i > buff_offset
    BY <1>7
  <2> QED
    BY <2>2, <2>3, <2>4
<1>10. /\ Contents \o SubSeq(s, 1, n) \in Seq(Data)
       /\ Len(Contents \o SubSeq(s, 1, n)) = buff_offset + n
  <2>1. /\ Contents \o SubSeq(s, 1, n) \in Seq(Data)
        /\ Len(Contents \o SubSeq(s, 1, n)) = Len(Contents) + Len(SubSeq(s, 1, n))
    BY <1>5, <1>8, ConcatProperties, Zenon
  <2> QED
    BY <1>5, <1>8, <2>1
<1>11. Contents \o SubSeq(s, 1, n) =
         [i \in 1..(buff_offset + n) |-> (Contents \o SubSeq(s, 1, n))[i]]
  BY <1>10
<1> QED
  BY <1>6, <1>9, <1>11, Zenon

LEMMA WriteRefines ==
  ASSUME IInv, NEW p \in alive, NEW fd \in Fds, NEW s \in Messages,
         NEW valid \in BOOLEAN, pipe_write(p, fd, valid, s)
  PROVE  Abstract!Next
<1> USE DEF IInv, TypeOK
<1>1. p \in Pids /\ UNCHANGED <<live, pipe_per_proc>>
  BY DEF pipe_write
<1>2. CASE Return(Refused) /\ UNCHANGED ring
  BY <1>1, <1>2, FrameRefines DEF Return, Refused, Abstract!Next
<1>3. CASE /\ live
           /\ \E i \in Slot : IsFirstSlot(i, p) /\ "w" \in pipe_per_proc[i].open
           /\ \E n \in 0..(MAX_PIPE_SIZE - buff_offset) :
                /\ n = Len(s) \/ n = MAX_PIPE_SIZE - buff_offset
                /\ n <= Len(s)
                /\ pipe_buff' = [k \in Index |-> IF Gap(write_pos, k) < n
                                                 THEN s[Gap(write_pos, k) + 1]
                                                 ELSE pipe_buff[k]]
                /\ buff_offset' = buff_offset + n
                /\ Return(n)
                /\ UNCHANGED read_pos
  <2>1. PICK n \in 0..(MAX_PIPE_SIZE - buff_offset) :
                /\ n = Len(s) \/ n = MAX_PIPE_SIZE - buff_offset
                /\ n <= Len(s)
                /\ pipe_buff' = [k \in Index |-> IF Gap(write_pos, k) < n
                                                 THEN s[Gap(write_pos, k) + 1]
                                                 ELSE pipe_buff[k]]
                /\ buff_offset' = buff_offset + n
                /\ Return(n)
                /\ UNCHANGED read_pos
    BY <1>3
  <2>2. <<p, "w">> \in Users
    BY <1>1, <1>3, UsersMember DEF IsFirstSlot, End
  <2>3. Contents' = Contents \o SubSeq(s, 1, n)
    BY <2>1, WriteAppends
  <2>4. Queue = Contents /\ Queue' = Contents' /\ Users' = Users
    BY <1>1, <1>3 DEF Queue, Users
  <2>5. Len(Queue) = buff_offset
    BY <2>4, ContentsFacts
  <2>6. /\ n = Len(s) \/ Len(Queue) + n = MAX_PIPE_SIZE
        /\ Len(Queue) + n <= MAX_PIPE_SIZE /\ n \in 0..Len(s)
    BY <2>1, <2>5, SizesAssumption, MessageFacts
  <2>7. Abstract!Put(p, s)
    <3> HIDE DEF IInv, TypeOK
    <3> QED
      BY <2>1, <2>2, <2>3, <2>4, <2>6 DEF Abstract!Put, Return
  <2> QED
    BY <1>1, <2>7 DEF Abstract!Next
<1>4. /\ Lesser(Len(s), MAX_PIPE_SIZE - buff_offset) \in 0..(MAX_PIPE_SIZE - buff_offset)
      /\ Lesser(Len(s), MAX_PIPE_SIZE - buff_offset) <= Len(s)
      /\ \/ Lesser(Len(s), MAX_PIPE_SIZE - buff_offset) = Len(s)
         \/ Lesser(Len(s), MAX_PIPE_SIZE - buff_offset) = MAX_PIPE_SIZE - buff_offset
  BY SizesAssumption, MessageFacts DEF Lesser
<1> QED
  BY <1>2, <1>3, <1>4 DEF pipe_write

LEMMA InitRefines == Init => Abstract!Init
<1> SUFFICES ASSUME Init PROVE Abstract!Init
  OBVIOUS
<1>1. Users = {} /\ Queue = <<>> /\ rc = 0 /\ out = <<>>
  BY DEF Init, Users, Queue
<1> QED
  BY <1>1 DEF Abstract!Init

LEMMA StepRefines == IInv /\ IInv' /\ [Next]_vars => [Abstract!Next]_Abstract!vars
<1> SUFFICES ASSUME IInv, IInv', [Next]_vars PROVE [Abstract!Next]_Abstract!vars
  OBVIOUS
<1>1. CASE UNCHANGED vars
  BY <1>1 DEF vars, ring, Abstract!vars, Users, Queue, Contents, Ahead
<1>2. ASSUME NEW p \in alive, NEW fd \in Fds, do_close(p, fd) PROVE Abstract!Next
  <2>1. p \in Pids
    BY DEF IInv, TypeOK
  <2>2. CASE files[p][fd] \notin End
    BY <1>2, <2>2, FrameRefines DEF do_close, Return, Refused, Abstract!Next
  <2>3. CASE files[p][fd] \in End /\ Closable(p, {files[p][fd]}) # {}
    <3>1. Abstract!Drop(p, {files[p][fd]})
      BY <1>2, <2>1, <2>3, CloseRefines DEF do_close
    <3> QED
      BY <2>1, <2>3, <3>1 DEF Abstract!Next, Abstract!End, End
  <2>4. CASE files[p][fd] \in End /\ Closable(p, {files[p][fd]}) = {}
    <3>1. pipe_per_proc' = pipe_per_proc /\ live' = live
      BY <1>2, <2>4 DEF do_close, pipe_close, SlotsAfterClose, IInv, TypeOK
    <3> QED
      BY <1>2, <2>4, <3>1, FrameRefines DEF do_close, Return, Refused, Abstract!Next
  <2> QED
    BY <2>2, <2>3, <2>4
<1>3. ASSUME NEW p \in alive, do_exit(p) PROVE Abstract!Next
  <2>1. p \in Pids /\ Held(p) \in SUBSET End
    BY DEF IInv, TypeOK, Held
  <2>2. Abstract!Drop(p, Held(p))
    BY <1>3, <2>1, CloseRefines DEF do_exit
  <2> QED
    BY <2>1, <2>2 DEF Abstract!Next, Abstract!End, End
<1>4. ASSUME NEW p \in alive, NEW fd \in Fds, fd_dup(p, fd) PROVE Abstract!Next
  BY <1>4, FrameRefines DEF fd_dup, Return, Refused, Abstract!Next
<1>5. ASSUME NEW p \in alive, NEW oldfd \in Fds, NEW newfd \in Fds, fd_dup2(p, oldfd, newfd)
      PROVE  Abstract!Next
  <2>1. p \in Pids
    BY DEF IInv, TypeOK
  <2>2. CASE files[p][oldfd] # None /\ oldfd # newfd
    <3>1. {files[p][newfd]} \cap End \in SUBSET End
      OBVIOUS
    <3>2. Abstract!Drop(p, {files[p][newfd]} \cap End)
      BY <1>5, <2>1, <2>2, <3>1, CloseRefines DEF fd_dup2
    <3> QED
      BY <2>1, <3>1, <3>2 DEF Abstract!Next, Abstract!End, End
  <2>3. CASE ~(files[p][oldfd] # None /\ oldfd # newfd)
    BY <1>5, <2>3, FrameRefines DEF fd_dup2, Return, Refused, Abstract!Next
  <2> QED
    BY <2>2, <2>3
<1>6. CASE Next
  BY <1>2, <1>3, <1>4, <1>5, <1>6, CreateRefines, ForkRefines, ReadRefines, WriteRefines DEF Next
<1> QED
  BY <1>1, <1>6

(* Every behaviour of the pipe, in terms of its open ends and the bytes     *)
(* between the two positions of the ring, is one of the abstract queue.     *)
THEOREM Refinement == Spec => KeepsPipePromise
<1>1. Init => Abstract!Init
  BY InitRefines
<1>2. IInv /\ IInv' /\ [Next]_vars => [Abstract!Next]_Abstract!vars
  BY StepRefines
<1> QED
  BY <1>1, <1>2, InitIInv, StepIInv, PTL DEF Spec, KeepsPipePromise, Abstract!Spec

-------------------------------------------------------------------------------
(* The references.  A descriptor table is only left by an exit, and while no  *)
(* descriptor was duplicated and no fork handler failed, a process has one    *)
(* descriptor for an end, which its slot backs: so closing a descriptor       *)
(* closes the end, and drops the one reference.                               *)
NothingLeftBehind == \A q \in Pids \ alive, fd \in Fds : files[q][fd] = None
Backed ==
  quirks = {} => \A q \in Pids, e \in End : e \in Held(q) => <<q, e>> \in Users
Single ==
  quirks = {} => \A q \in Pids, f, g \in Fds :
                   files[q][f] \in End /\ files[q][f] = files[q][g] => f = g

HeldInv == NothingLeftBehind /\ Backed /\ Single /\ ReferencesCounted

LEMMA TableFinite == IsFiniteSet(Pids) /\ IsFiniteSet(Fds)
  BY PidsAssumption, SizesAssumption, FS_Interval DEF Fds

LEMMA ReferencesType ==
  ASSUME NEW e \in End
  PROVE  References(e) \in Nat
<1>1. Cardinality(Places(files, Pids, Fds, e)) \in Nat
  BY TableFinite, PlacesFinite
<1> QED
  BY <1>1 DEF References, Places

LEMMA ReferencesTypeNext ==
  ASSUME NEW e \in End
  PROVE  References(e)' \in Nat
<1>1. IsFiniteSet(Places(files', Pids, Fds, e))
      /\ Cardinality(Places(files', Pids, Fds, e)) \in Nat
  BY TableFinite, PlacesFinite
<1> QED
  BY <1>1 DEF References, Places

(* One descriptor changes. *)
Written(p, fd, w) == files' = [files EXCEPT ![p][fd] = w]

LEMMA DescriptorSet ==
  ASSUME TypeOK, NEW p \in Pids, NEW fd \in Fds, NEW w, NEW e \in End, Written(p, fd, w)
  PROVE  References(e)' = References(e) - (IF files[p][fd] = e THEN 1 ELSE 0)
                                        + (IF w = e THEN 1 ELSE 0)
<1>1. PlaceWritten(files, files', Pids, Fds, p, fd, w)
  BY DEF TypeOK, PlaceWritten, Written
<1>2. Cardinality(Places(files', Pids, Fds, e)) =
        Cardinality(Places(files, Pids, Fds, e))
          - (IF files[p][fd] = e THEN 1 ELSE 0) + (IF w = e THEN 1 ELSE 0)
  BY <1>1, TableFinite, WritePlace
<1> QED
  BY <1>2 DEF References, Places

(* A whole table changes. *)
LEMMA TableSet ==
  ASSUME TypeOK, NEW p \in Pids, NEW row, NEW e \in End,
         files' = [files EXCEPT ![p] = row]
  PROVE  References(e)' = References(e) - Count(p, e) + Cardinality(RowPlaces(row, Fds, e))
<1>1. RowReplaced(files, files', Pids, p)
  BY DEF TypeOK, RowReplaced
<1>2. ASSUME NEW t, NEW new, RowReplaced(t, new, Pids, p)
      PROVE  Cardinality(Places(new, Pids, Fds, e)) =
               Cardinality(Places(t, Pids, Fds, e))
                 - Cardinality(RowPlaces(t[p], Fds, e)) + Cardinality(RowPlaces(new[p], Fds, e))
  BY <1>2, TableFinite, ReplaceRow
<1>4. Cardinality(Places(files', Pids, Fds, e)) =
        Cardinality(Places(files, Pids, Fds, e))
          - Cardinality(RowPlaces(files[p], Fds, e)) + Cardinality(RowPlaces(files'[p], Fds, e))
  BY <1>1, <1>2
<1>3. files'[p] = row
  BY DEF TypeOK
<1> QED
  BY <1>3, <1>4 DEF References, Places, Count, RowPlaces

LEMMA CountFacts ==
  ASSUME NEW p \in Pids, NEW e \in End
  PROVE  /\ Count(p, e) \in Nat
         /\ Count(p, e) = 0 <=> e \notin Held(p)
         /\ (\A f, g \in Fds : files[p][f] = e /\ files[p][g] = e => f = g) => Count(p, e) <= 1
<1> DEFINE S == {fd \in Fds : files[p][fd] = e}
<1>1. IsFiniteSet(S) /\ Count(p, e) = Cardinality(S)
  <2>1. IsFiniteSet(RowPlaces(files[p], Fds, e))
    BY TableFinite, RowPlacesFinite
  <2> QED
    BY <2>1 DEF Count, RowPlaces
<1>2. S = {} <=> e \notin Held(p)
  BY DEF Held
<1>3. ASSUME \A f, g \in Fds : files[p][f] = e /\ files[p][g] = e => f = g, S # {}
      PROVE  Cardinality(S) = 1
  <2>1. PICK f \in S : TRUE
    BY <1>3
  <2>2. S = {f}
    BY <1>3, <2>1
  <2> QED
    BY <2>2, FS_Singleton
<1>4. Cardinality(S) = 0 <=> S = {}
  BY <1>1, FS_EmptySet
<1> QED
  BY <1>1, <1>2, <1>3, <1>4, CountType

LEMMA ClosableUsers ==
  ASSUME IInv, NEW p \in Pids, NEW E \in SUBSET End
  PROVE  Closable(p, E) = {e \in E : <<p, e>> \in Users}
<1>1. \A i \in Slot : pipe_per_proc[i].pid = p <=> IsLastSlot(i, p)
  BY SlotIsLast DEF IInv, SlotsInv, IsLastSlot
<1> QED
  BY <1>1, UsersMember DEF Closable

(* With its end backed, a descriptor points to allocated pages. *)
LEMMA BackedMeansLive ==
  ASSUME IInv, Backed
  PROVE  NothingDangling
<1>1. ASSUME quirks = {}, NEW q \in Pids, NEW e \in End, e \in Held(q)
      PROVE  /\ live
             /\ \E i \in Slot : pipe_per_proc[i].pid = q /\ e \in pipe_per_proc[i].open
  <2>1. <<q, e>> \in Users
    BY <1>1 DEF Backed
  <2> QED
    BY <2>1, UsersMember, UsersAndPages
<1> QED
  BY <1>1 DEF NothingDangling


LEMMA InitHeld == Init => HeldInv
<1> SUFFICES ASSUME Init PROVE HeldInv
  OBVIOUS
<1>1. \A q \in Pids, fd \in Fds : files[q][fd] \in {Std, None} /\ (q \notin alive => files[q][fd] = None)
  BY DEF Init
<1>2. \A q \in Pids : Held(q) = {}
  BY <1>1 DEF Held, End, Std, None
<1>3. ASSUME NEW e \in End PROVE References(e) = 0 /\ ref_count[e] = 0
  <2>1. \A q \in Pids, fd \in Fds : files[q][fd] # e
    BY <1>1 DEF End, Std, None
  <2>2. Cardinality(Places(files, Pids, Fds, e)) = 0
    BY <2>1, TableFinite, PlacesEmpty
  <2> QED
    BY <2>2 DEF References, Places, Init
<1> QED
  BY <1>1, <1>2, <1>3 DEF HeldInv, NothingLeftBehind, Backed, Single, ReferencesCounted, End, Std, None

LEMMA CreateHeld ==
  ASSUME IInv, IInv', HeldInv, NEW p \in alive, create_pipe(p)
  PROVE  HeldInv'
<1> USE DEF IInv, SlotsInv, TypeOK
<1>1. p \in Pids /\ \A q \in Pids, fd \in Fds : files[q][fd] \notin End
  BY DEF create_pipe, Held
<1>2. CASE UNCHANGED <<alive, files, ref_count, live, pipe_per_proc, ring, quirks>>
  BY <1>2 DEF HeldInv, NothingLeftBehind, Backed, Single, ReferencesCounted, References, Held, Users
<1>3. CASE \E f0, f1 \in Fds :
             /\ f0 # f1
             /\ files' = [files EXCEPT ![p][f0] = "r", ![p][f1] = "w"]
             /\ ref_count' = [e \in End |-> 1]
             /\ pipe_per_proc' = [i \in Slot |-> IF i = 0 THEN [pid |-> p, open |-> End]
                                                  ELSE [pid |-> NoPid, open |-> {}]]
             /\ alive' = alive
  <2>1. PICK f0, f1 \in Fds :
             /\ f0 # f1
             /\ files' = [files EXCEPT ![p][f0] = "r", ![p][f1] = "w"]
    BY <1>3
  <2> DEFINE f(e) == IF e = "r" THEN f0 ELSE f1
  <2>2. \A e \in End : f(e) \in Fds
    OBVIOUS
  <2>3. \A q \in Pids, g \in Fds :
          files'[q][g] = IF q = p /\ g = f0 THEN "r"
                         ELSE IF q = p /\ g = f1 THEN "w" ELSE files[q][g]
    BY <1>1, <2>1
  <2>4. \A q \in Pids, g \in Fds, e \in End : files'[q][g] = e <=> q = p /\ g = f(e)
    BY <1>1, <2>1, <2>3 DEF End
  <2> HIDE DEF f
  <2>5. ASSUME NEW e \in End PROVE References(e)' = 1
    <3>1. {d \in Pids \X Fds : files'[d[1]][d[2]] = e} = {<<p, f(e)>>}
      BY <1>1, <2>2, <2>4
    <3> QED
      BY <3>1, FS_Singleton DEF References
  <2>6. NothingLeftBehind'
    BY <1>1, <1>3, <2>3 DEF NothingLeftBehind, HeldInv
  <2>7. \A e \in End : <<p, e>> \in Users'
    BY <1>1, <1>3, SizesAssumption DEF Users, Slot
  <2>8. Backed' /\ Single'
    BY <1>1, <2>4, <2>7 DEF Backed, Single, Held
  <2>9. ReferencesCounted'
    BY <1>3, <2>5 DEF ReferencesCounted
  <2> QED
    BY <2>6, <2>8, <2>9 DEF HeldInv
<1>4. \A f0, f1 \in Fds : IsLowestFree(p, f1, f0 + 1) => f0 # f1
  BY SizesAssumption DEF IsLowestFree, Fds
<1> QED
  BY <1>2, <1>3, <1>4 DEF create_pipe

LEMMA ForkHeld ==
  ASSUME IInv, IInv', HeldInv, NEW p \in alive, NEW c \in Pids, do_fork(p, c)
  PROVE  HeldInv'
<1> USE DEF IInv, SlotsInv, TypeOK
<1>1. /\ p \in Pids /\ c \notin alive /\ p # c
      /\ files' = [files EXCEPT ![c] = files[p]]
      /\ alive' = alive \cup {c}
      /\ ref_count' = [e \in End |-> ref_count[e] + Count(p, e)]
      /\ quirks' \in {quirks, quirks \cup {"fork"}}
  BY DEF do_fork
<1>2. \A q \in Pids : files'[q] = IF q = c THEN files[p] ELSE files[q]
  BY <1>1
<1>3. NothingLeftBehind'
  BY <1>1, <1>2 DEF NothingLeftBehind, HeldInv
<1>4. Single'
  BY <1>1, <1>2 DEF Single, HeldInv
<1>5. ASSUME NEW e \in End
      PROVE  /\ References(e)' = References(e) + Count(p, e)
             /\ ref_count'[e] = ref_count[e] + Count(p, e)
  <2>1. Count(c, e) = 0
    BY <1>1, CountFacts DEF HeldInv, NothingLeftBehind, Held, End, None
  <2>2. References(e)' = References(e) - Count(c, e) + Cardinality(RowPlaces(files[p], Fds, e))
    BY <1>1, TableSet
  <2>3. Cardinality(RowPlaces(files[p], Fds, e)) = Count(p, e)
    BY DEF RowPlaces, Count
  <2>4. References(e) \in Nat
    BY ReferencesType
  <2> QED
    BY <1>1, <2>1, <2>2, <2>3, <2>4
<1>6. ReferencesCounted'
  <2>1. \A e \in End : References(e) \in Nat /\ Count(p, e) \in Nat /\ ref_count[e] \in Int
    BY <1>1, ReferencesType, CountType
  <2>2. ReferencesCounted /\ (quirks' = {} => quirks = {})
    BY <1>1 DEF HeldInv
  <2> QED
    BY <1>5, <2>1, <2>2 DEF ReferencesCounted
<1>7. ASSUME quirks' = {} PROVE \A q \in Pids, e \in End : e \in Held(q)' => <<q, e>> \in Users'
  <2>1. quirks = {} /\ Backed
    BY <1>1, <1>7 DEF HeldInv
  <2>2. \A q \in Pids : Held(q)' = IF q = c THEN Held(p) ELSE Held(q)
    BY <1>2 DEF Held
  <2>3. CASE Held(p) = {}
    <3>1. Users' = Users
      BY <2>3 DEF do_fork, Users
    <3>2. \A q \in Pids, e \in End : e \in Held(q) => <<q, e>> \in Users
      BY <2>1 DEF Backed
    <3>3. \A q \in Pids : Held(q)' \subseteq Held(q)
      BY <2>2, <2>3
    <3> QED
      BY <3>1, <3>2, <3>3
  <2>4. CASE Held(p) # {}
    <3>1. ~Recorded(c)
      BY <1>1, PidsAssumption DEF Recorded, OpenEndsHaveDescriptors, OneSlotPerProcess, NoPid
    <3>2. do_pipe_fork(p, c) /\ CanRecord(p)
      BY <1>7, <2>4, <3>1 DEF do_fork
    <3>3. Users' = Users \cup ({c} \X {e \in End : <<p, e>> \in Users})
      BY <1>1, <3>1, <3>2, ForkUsers
    <3>4. \A e \in End : e \in Held(p) => <<p, e>> \in Users
      BY <1>1, <2>1 DEF Backed
    <3> QED
      BY <2>1, <2>2, <3>3, <3>4 DEF Backed
  <2> QED
    BY <2>3, <2>4
<1> QED
  BY <1>3, <1>4, <1>6, <1>7 DEF HeldInv, Backed


(* A step that concerns no descriptor, slot or reference. *)
LEMMA HeldFrame ==
  ASSUME HeldInv, UNCHANGED <<alive, files, ref_count, pipe_per_proc, quirks>>
  PROVE  HeldInv'
  BY DEF HeldInv, NothingLeftBehind, Backed, Single, ReferencesCounted, References, Held, Users

(* The references after a close handler. *)
LEMMA CloseRefsValue ==
  ASSUME IInv, NEW p \in Pids, NEW E \in SUBSET End, NEW e \in End
  PROVE  RefsAfterClose(p, E)[e] =
           ref_count[e] - (IF e \in E /\ <<p, e>> \in Users THEN 1 ELSE 0)
<1>1. ref_count[e] \in Int
  BY DEF IInv, TypeOK
<1>2. e \in Closable(p, E) <=> e \in E /\ <<p, e>> \in Users
  BY ClosableUsers
<1> QED
  BY <1>1, <1>2 DEF RefsAfterClose

(* Close, dup and dup2 make one descriptor name w, and close the end that it  *)
(* named, if there is one in E.                                               *)
Swapped(p, fd, w, E) ==
  /\ E = {files[p][fd]} \cap End
  /\ files' = [files EXCEPT ![p][fd] = w]
  /\ alive' = alive
  /\ Users' = Users \ ({p} \X E)
  /\ \A e \in End : ref_count'[e] = RefsAfterClose(p, E)[e] + (IF w = e THEN 1 ELSE 0)
  /\ quirks \subseteq quirks'
  /\ w \in End => quirks' # {}

LEMMA SwapHeld ==
  ASSUME IInv, HeldInv, NEW p \in Pids, NEW fd \in Fds, NEW w, NEW E,
         p \in alive, w \in End \cup {Std, None}, Swapped(p, fd, w, E)
  PROVE  HeldInv'
<1> USE DEF Swapped
<1>0. TypeOK
  BY DEF IInv
<1>1. p \in Pids /\ E \in SUBSET End
  OBVIOUS
<1>2. \A q \in Pids, g \in Fds :
        files'[q][g] = IF q = p /\ g = fd THEN w ELSE files[q][g]
  BY <1>0 DEF TypeOK
<1>3. NothingLeftBehind'
  BY <1>1, <1>2 DEF NothingLeftBehind, HeldInv
<1>4. ASSUME quirks' = {}
      PROVE  quirks = {} /\ w \notin End
  BY <1>4
<1>5. Single'
  BY <1>2, <1>4 DEF Single, HeldInv
<1>6. Backed'
  <2>0. E = {files[p][fd]} \cap End /\ Users' = Users \ ({p} \X E)
    OBVIOUS
  <2> HIDE DEF Swapped
  <2> SUFFICES ASSUME quirks' = {}, NEW q \in Pids, NEW e \in End, e \in Held(q)'
               PROVE  <<q, e>> \in Users'
    BY DEF Backed
  <2>1. PICK g \in Fds : files'[q][g] = e
    BY DEF Held
  <2>2. quirks = {} /\ w \notin End
    BY <1>4
  <2>3. files[q][g] = e /\ ~(q = p /\ g = fd)
    BY <1>2, <2>1, <2>2
  <2>4. <<q, e>> \in Users
    BY <2>2, <2>3 DEF HeldInv, Backed, Held
  <2>5. ~(q = p /\ files[p][fd] = e)
    BY <2>2, <2>3 DEF HeldInv, Single
  <2> QED
    BY <2>0, <2>4, <2>5
<1>7. ASSUME NEW e \in End
      PROVE  ref_count'[e] >= References(e)' /\ (quirks' = {} => ref_count'[e] = References(e)')
  <2> DEFINE named == IF files[p][fd] = e THEN 1 ELSE 0
             closed == IF e \in E /\ <<p, e>> \in Users THEN 1 ELSE 0
             new == IF w = e THEN 1 ELSE 0
  <2>1. References(e)' = References(e) - named + new
    <3>1. Written(p, fd, w)
      BY DEF Written
    <3> HIDE DEF Swapped
    <3>2. References(e)' = References(e) - (IF files[p][fd] = e THEN 1 ELSE 0)
                                         + (IF w = e THEN 1 ELSE 0)
      BY <1>0, <3>1, DescriptorSet
    <3> QED
      BY <3>2
  <2>2. ref_count'[e] = ref_count[e] - closed + new
    BY <1>1, CloseRefsValue
  <2>3. closed <= named /\ (quirks = {} => closed = named)
    <3>1. e \in E <=> files[p][fd] = e
      OBVIOUS
    <3>2. quirks = {} /\ files[p][fd] = e => <<p, e>> \in Users
      BY <1>1 DEF HeldInv, Backed, Held
    <3> QED
      BY <3>1, <3>2
  <2>4. References(e) \in Nat /\ ref_count[e] \in Int
    BY <1>0, ReferencesType DEF TypeOK
  <2>5. ref_count[e] >= References(e) /\ (quirks = {} => ref_count[e] = References(e))
    BY DEF HeldInv, ReferencesCounted
  <2>6. named \in {0, 1} /\ closed \in {0, 1} /\ new \in {0, 1}
    OBVIOUS
  <2> HIDE DEF named, closed, new
  <2>7. ref_count'[e] >= References(e)' /\ (quirks = {} => ref_count'[e] = References(e)')
    BY <2>1, <2>2, <2>3, <2>4, <2>5, <2>6
  <2> QED
    BY <1>4, <2>7
<1>8. ReferencesCounted'
  BY <1>7 DEF ReferencesCounted
<1> QED
  BY <1>3, <1>5, <1>6, <1>8 DEF HeldInv

LEMMA NothingClosed ==
  ASSUME IInv, NEW p \in Pids, NEW e \in End
  PROVE  RefsAfterClose(p, {})[e] = ref_count[e]
<1>1. RefsAfterClose(p, {})[e] =
        ref_count[e] - (IF e \in {} /\ <<p, e>> \in Users THEN 1 ELSE 0)
  BY CloseRefsValue
<1> QED
  BY <1>1 DEF IInv, TypeOK

LEMMA CloseHeld ==
  ASSUME IInv, HeldInv, NEW p \in alive, NEW fd \in Fds, do_close(p, fd)
  PROVE  HeldInv'
<1>1. /\ p \in Pids /\ None \in End \cup {Std, None} /\ None \notin End
      /\ files' = [files EXCEPT ![p][fd] = None] /\ alive' = alive /\ quirks' = quirks
  BY DEF do_close, IInv, TypeOK, None, End
<1>2. CASE files[p][fd] \notin End
  <2>1. {files[p][fd]} \cap End = {}
    BY <1>2
  <2>2. Users' = Users \ ({p} \X {}) /\ ref_count' = ref_count
    BY <1>2 DEF do_close, Users
  <2>3. \A e \in End : ref_count'[e] = RefsAfterClose(p, {})[e] + (IF None = e THEN 1 ELSE 0)
    BY <1>1, <2>2, NothingClosed DEF IInv, TypeOK
  <2>4. Swapped(p, fd, None, {})
    BY <1>1, <2>1, <2>2, <2>3 DEF Swapped
  <2> QED
    BY <1>1, <2>4, SwapHeld
<1>3. CASE files[p][fd] \in End
  <2> DEFINE E == {files[p][fd]}
  <2>1. E = {files[p][fd]} \cap End /\ E \in SUBSET End /\ pipe_close(p, E)
    BY <1>3 DEF do_close
  <2>2. Users' = Users \ ({p} \X E)
    BY <1>1, <2>1, CloseUsers
  <2>3. ref_count' = RefsAfterClose(p, E)
    BY <1>3 DEF do_close
  <2>4. \A e \in End : ref_count'[e] = RefsAfterClose(p, E)[e] + (IF None = e THEN 1 ELSE 0)
    BY <1>1, <2>1, <2>3, CloseRefs DEF IInv
  <2> HIDE DEF E
  <2>5. Swapped(p, fd, None, E)
    BY <1>1, <2>1, <2>2, <2>4 DEF Swapped
  <2> QED
    BY <1>1, <2>5, SwapHeld
<1> QED
  BY <1>2, <1>3

LEMMA ExitHeld ==
  ASSUME IInv, HeldInv, NEW p \in alive, do_exit(p)
  PROVE  HeldInv'
<1> DEFINE row == [fd \in Fds |-> None]
           closed(e) == IF e \in Held(p) /\ <<p, e>> \in Users THEN 1 ELSE 0
<1>1. /\ p \in Pids /\ TypeOK /\ alive' = alive \ {p} /\ quirks' = quirks
      /\ files' = [files EXCEPT ![p] = row]
      /\ pipe_close(p, Held(p)) /\ ref_count' = RefsAfterClose(p, Held(p))
  BY DEF do_exit, IInv, TypeOK
<1>2. Held(p) \in SUBSET End
  BY DEF Held
<1>3. Users' = Users \ ({p} \X Held(p))
  BY <1>1, <1>2, CloseUsers
<1>4. \A q \in Pids, g \in Fds : files'[q][g] = IF q = p THEN None ELSE files[q][g]
  BY <1>1 DEF TypeOK
<1>5. NothingLeftBehind' /\ Single'
  BY <1>1, <1>4 DEF NothingLeftBehind, Single, HeldInv, End, None
<1>6. ASSUME quirks' = {}, NEW q \in Pids, NEW e \in End, e \in Held(q)'
      PROVE  <<q, e>> \in Users'
  <2>1. PICK g \in Fds : files'[q][g] = e
    BY <1>6 DEF Held
  <2>2. q # p /\ files[q][g] = e
    BY <1>4, <2>1 DEF End, None
  <2>3. <<q, e>> \in Users
    BY <1>1, <1>6, <2>2 DEF HeldInv, Backed, Held
  <2> QED
    BY <1>3, <2>2, <2>3
<1>7. ASSUME NEW e \in End
      PROVE  ref_count'[e] >= References(e)' /\ (quirks' = {} => ref_count'[e] = References(e)')
  <2>1. Cardinality(RowPlaces(row, Fds, e)) = 0
    <3>1. RowPlaces(row, Fds, e) = {}
      BY DEF RowPlaces, End, None
    <3> QED
      BY <3>1, FS_EmptySet
  <2>2. References(e)' = References(e) - Count(p, e) + Cardinality(RowPlaces(row, Fds, e))
    <3> HIDE DEF row
    <3> QED
      BY <1>1, TableSet
  <2>3. ref_count'[e] = ref_count[e] - closed(e)
    BY <1>1, <1>2, CloseRefsValue
  <2>4. /\ References(e) \in Nat /\ ref_count[e] \in Int /\ Count(p, e) \in Nat
        /\ closed(e) \in {0, 1}
    BY <1>1, ReferencesType, CountType DEF TypeOK
  <2>5. closed(e) <= Count(p, e)
    BY <1>1, <2>4, CountFacts
  <2>6. quirks = {} => closed(e) = Count(p, e)
    <3>1. quirks = {} => \A f, g \in Fds : files[p][f] = e /\ files[p][g] = e => f = g
      BY <1>1 DEF HeldInv, Single
    <3>2. quirks = {} => Count(p, e) <= 1
      BY <1>1, <3>1, CountFacts
    <3>3. quirks = {} /\ e \in Held(p) => <<p, e>> \in Users
      BY <1>1 DEF HeldInv, Backed
    <3>4. Count(p, e) = 0 <=> e \notin Held(p)
      BY <1>1, CountFacts
    <3> QED
      BY <2>4, <3>2, <3>3, <3>4
  <2>7. ref_count[e] >= References(e) /\ (quirks = {} => ref_count[e] = References(e))
    BY DEF HeldInv, ReferencesCounted
  <2> HIDE DEF closed, row
  <2> QED
    BY <1>1, <2>1, <2>2, <2>3, <2>4, <2>5, <2>6, <2>7
<1>8. Backed' /\ ReferencesCounted'
  BY <1>6, <1>7 DEF Backed, ReferencesCounted
<1> QED
  BY <1>5, <1>8 DEF HeldInv

(* A duplicate of the file of oldfd adds a reference and a quirk. *)
LEMMA DuplicateFacts ==
  ASSUME NEW p \in Pids, NEW oldfd \in Fds, TypeOK, NEW refs \in [End -> Int],
         ref_count' = AddRef(refs, p, oldfd), NoteDup(p, oldfd)
  PROVE  /\ files[p][oldfd] \in End \cup {Std, None}
         /\ quirks \subseteq quirks'
         /\ files[p][oldfd] \in End => quirks' # {}
         /\ \A e \in End : ref_count'[e] = refs[e] + (IF files[p][oldfd] = e THEN 1 ELSE 0)
<1>1. files[p][oldfd] \in End \cup {Std, None}
  BY DEF TypeOK
<1>2. quirks \subseteq quirks' /\ (files[p][oldfd] \in End => quirks' # {})
  BY DEF NoteDup
<1>3. ASSUME NEW e \in End
      PROVE  ref_count'[e] = refs[e] + (IF files[p][oldfd] = e THEN 1 ELSE 0)
  <2>1. ref_count'[e] = IF files[p][oldfd] = e THEN refs[e] + 1 ELSE refs[e]
    BY DEF AddRef
  <2>2. refs[e] \in Int
    OBVIOUS
  <2> QED
    BY <2>1, <2>2
<1> QED
  BY <1>1, <1>2, <1>3

LEMMA DupHeld ==
  ASSUME IInv, HeldInv, NEW p \in alive, NEW oldfd \in Fds, fd_dup(p, oldfd)
  PROVE  HeldInv'
<1>1. p \in Pids /\ TypeOK /\ alive' = alive /\ Users' = Users
  BY DEF fd_dup, IInv, TypeOK, Users
<1>2. ASSUME NEW fd \in Fds, IsLowestFree(p, fd, STD_FDS),
             files' = [files EXCEPT ![p][fd] = files[p][oldfd]],
             ref_count' = AddRef(ref_count, p, oldfd), NoteDup(p, oldfd)
      PROVE  HeldInv'
  <2>1. {} = {files[p][fd]} \cap End
    BY <1>2 DEF IsLowestFree, End, None
  <2>2. \A e \in End : RefsAfterClose(p, {})[e] = ref_count[e]
    BY <1>1, NothingClosed
  <2>3. ref_count \in [End -> Int]
    BY <1>1 DEF TypeOK
  <2>4. /\ files[p][oldfd] \in End \cup {Std, None}
        /\ quirks \subseteq quirks'
        /\ files[p][oldfd] \in End => quirks' # {}
        /\ \A e \in End : ref_count'[e] = ref_count[e] + (IF files[p][oldfd] = e THEN 1 ELSE 0)
    BY <1>1, <1>2, <2>3, DuplicateFacts
  <2>5. Swapped(p, fd, files[p][oldfd], {})
    BY <1>1, <1>2, <2>1, <2>2, <2>4 DEF Swapped
  <2> QED
    BY <1>1, <2>4, <2>5, SwapHeld
<1>3. CASE UNCHANGED <<files, ref_count, quirks>>
  BY <1>1, <1>3, HeldFrame DEF fd_dup
<1> QED
  BY <1>2, <1>3 DEF fd_dup

LEMMA Dup2Held ==
  ASSUME IInv, HeldInv, NEW p \in alive, NEW oldfd \in Fds, NEW newfd \in Fds,
         fd_dup2(p, oldfd, newfd)
  PROVE  HeldInv'
<1> DEFINE E == {files[p][newfd]} \cap End
<1>1. p \in Pids /\ TypeOK /\ E \in SUBSET End
  BY DEF IInv, TypeOK
<1>2. CASE files[p][oldfd] # None /\ oldfd # newfd
  <2>1. /\ pipe_close(p, E) /\ ref_count' = AddRef(RefsAfterClose(p, E), p, oldfd)
        /\ files' = [files EXCEPT ![p][newfd] = files[p][oldfd]]
        /\ NoteDup(p, oldfd) /\ alive' = alive
    BY <1>2 DEF fd_dup2
  <2> HIDE DEF E
  <2>2. Users' = Users \ ({p} \X E)
    BY <1>1, <2>1, CloseUsers
  <2>3. RefsAfterClose(p, E) \in [End -> Int]
    BY <1>1, CloseRefs
  <2>4. /\ files[p][oldfd] \in End \cup {Std, None}
        /\ quirks \subseteq quirks'
        /\ files[p][oldfd] \in End => quirks' # {}
        /\ \A e \in End : ref_count'[e] =
              RefsAfterClose(p, E)[e] + (IF files[p][oldfd] = e THEN 1 ELSE 0)
    BY <1>1, <2>1, <2>3, DuplicateFacts
  <2>5. Swapped(p, newfd, files[p][oldfd], E)
    BY <2>1, <2>2, <2>4 DEF Swapped, E
  <2> QED
    BY <1>1, <2>4, <2>5, SwapHeld
<1>3. CASE ~(files[p][oldfd] # None /\ oldfd # newfd)
  BY <1>3, HeldFrame DEF fd_dup2
<1> QED
  BY <1>2, <1>3

LEMMA StepHeld == IInv /\ IInv' /\ HeldInv /\ [Next]_vars => HeldInv'
<1> SUFFICES ASSUME IInv, IInv', HeldInv, [Next]_vars PROVE HeldInv'
  OBVIOUS
<1>1. CASE UNCHANGED vars
  BY <1>1, HeldFrame DEF vars
<1>2. ASSUME NEW p \in alive, NEW fd \in Fds, NEW valid \in BOOLEAN,
             \/ \E count \in 0..MaxCount : pipe_read(p, fd, valid, count)
             \/ \E s \in Messages : pipe_write(p, fd, valid, s)
      PROVE  HeldInv'
  BY <1>2, HeldFrame DEF pipe_read, pipe_write
<1>3. CASE Next
  BY <1>2, <1>3, CreateHeld, ForkHeld, CloseHeld, ExitHeld, DupHeld, Dup2Held DEF Next
<1> QED
  BY <1>1, <1>3

(* The count of a file object is never below the number of descriptors that *)
(* refer to it, so file_close deletes no object under a descriptor; and it  *)
(* is that number until a descriptor is duplicated or a fork handler fails. *)
THEOREM ReferencesAreCounted == Spec => []ReferencesCounted
  BY InitIInv, StepIInv, InitHeld, StepHeld, PTL DEF Spec, HeldInv

(* Under the same condition no descriptor of any process outlives the pages *)
(* or the open flag it stands for (pipe_close, do_pipe_fork).               *)
THEOREM NoDescriptorDangles == Spec => []NothingDangling
<1>1. IInv /\ HeldInv => NothingDangling
  BY BackedMeansLive DEF HeldInv
<1> QED
  BY <1>1, InitIInv, StepIInv, InitHeld, StepHeld, PTL DEF Spec

===============================================================================
