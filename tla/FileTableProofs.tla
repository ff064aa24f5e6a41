--------------------------- MODULE FileTableProofs ---------------------------
(***************************************************************************)
(* Proofs about the descriptor tables: who refers to a file object, where  *)
(* its position can be, and which calls make a file grow, for any number   *)
(* of processes, descriptors, objects and files.                           *)
(***************************************************************************)
EXTENDS FileTable, WellFoundedInduction, FiniteSetTheorems, TLAPS

Object == [mode : SUBSET Access, offp : Int, ref_count : Int, inode : Inodes \cup {NULL}]

TypeOK ==
  /\ files \in [Procs -> [Fds -> Objects \cup {NULL}]]
  /\ alive \in SUBSET Procs
  /\ file \in [Objects -> Object]
  /\ size \in [Inodes -> Nat \cup {Missing}]
  /\ mode \in [Inodes -> SUBSET Access]

(* A process that does not run has no descriptors: a child starts from the  *)
(* empty table.                                                             *)
NothingLeftBehind == \A p \in Procs \ alive, fd \in Fds : files[p][fd] = NULL

(* An open file exists, permits what it was opened for, and its position is *)
(* inside.                                                                  *)
Sound(o) ==
  IsRegular(o) => /\ size[file[o].inode] \in Nat
                  /\ file[o].mode \subseteq mode[file[o].inode]
                  /\ file[o].offp \in 0..size[file[o].inode]

IInv == /\ TypeOK
        /\ NothingLeftBehind
        /\ \A o \in Objects : Sound(o)
        /\ ReferencesCounted

-------------------------------------------------------------------------------
(* Facts about numbers and counting. *)

(* A non-empty set of naturals has a least element. *)
LEMMA LeastOf ==
  ASSUME NEW S, S \subseteq Nat, S # {}
  PROVE  \E n \in S : \A m \in S : n <= m
<1> DEFINE Below == {d \in Nat \X Nat : d[1] < d[2]}
<1>1. IsWellFoundedOn(Below, Nat)
  BY NatLessThanWellFounded, Zenon DEF OpToRel
<1>2. \A m, n \in Nat : m < n => <<m, n>> \in Below
  OBVIOUS
<1> HIDE DEF Below
<1>3. PICK n \in S : \A m \in S : ~(<<m, n>> \in Below)
  BY <1>1, WFMin
<1>4. ASSUME NEW m \in S PROVE n <= m
  <2>1. m \in Nat /\ n \in Nat
    BY Zenon
  <2>2. ~(m < n)
    BY <1>2, <1>3, <2>1, Zenon
  <2> QED
    BY <2>1, <2>2, SMT
<1> QED
  BY <1>4

-------------------------------------------------------------------------------

(* A table t has a row of places F for each p in P.  These are the places    *)
(* of the whole table, and of one row, that hold v.                          *)
Places(t, P, F, v) == {d \in P \X F : t[d[1]][d[2]] = v}
RowPlaces(r, F, v) == {f \in F : r[f] = v}

(* new is t with another row p, or with w at one place of it. *)
RowReplaced(t, new, P, p) == \A q \in P \ {p} : new[q] = t[q]
PlaceWritten(t, new, P, F, p, f, w) ==
  \A q \in P, g \in F : new[q][g] = IF q = p /\ g = f THEN w ELSE t[q][g]

LEMMA PlacesFinite ==
  ASSUME NEW P, IsFiniteSet(P), NEW F, IsFiniteSet(F), NEW t, NEW v
  PROVE  /\ IsFiniteSet(Places(t, P, F, v))
         /\ Cardinality(Places(t, P, F, v)) \in Nat
<1>1. IsFiniteSet(P \X F)
  BY FS_Product
<1>2. Places(t, P, F, v) \in SUBSET (P \X F)
  BY DEF Places
<1> QED
  BY <1>1, <1>2, FS_Subset, FS_CardinalityType

LEMMA RowPlacesFinite ==
  ASSUME NEW F, IsFiniteSet(F), NEW r, NEW v
  PROVE  /\ IsFiniteSet(RowPlaces(r, F, v))
         /\ Cardinality(RowPlaces(r, F, v)) \in Nat
<1>1. RowPlaces(r, F, v) \in SUBSET F
  BY DEF RowPlaces
<1> QED
  BY <1>1, FS_Subset, FS_CardinalityType

(* One row as a part of the table. *)
LEMMA RowOfPlaces ==
  ASSUME NEW p, NEW S, IsFiniteSet(S)
  PROVE  IsFiniteSet({p} \X S) /\ Cardinality({p} \X S) = Cardinality(S)
<1>1. /\ IsFiniteSet({p} \X S)
      /\ Cardinality({p} \X S) = Cardinality({p}) * Cardinality(S)
  BY FS_Singleton, FS_Product
<1>2. Cardinality({p}) = 1 /\ Cardinality(S) \in Nat
  BY FS_Singleton, FS_CardinalityType
<1> QED
  BY <1>1, <1>2

(* A row is replaced by another: a process inherits a table, or ends. *)
LEMMA ReplaceRow ==
  ASSUME NEW P, NEW F, NEW t, NEW new, NEW v, NEW p,
         IsFiniteSet(P), IsFiniteSet(F), p \in P, RowReplaced(t, new, P, p)
  PROVE  Cardinality(Places(new, P, F, v)) =
           Cardinality(Places(t, P, F, v))
             - Cardinality(RowPlaces(t[p], F, v)) + Cardinality(RowPlaces(new[p], F, v))
<1> DEFINE Rest(u) == Places(u, P \ {p}, F, v)
           Mine(u) == {p} \X RowPlaces(u[p], F, v)
<1>1. ASSUME NEW u
      PROVE  /\ Cardinality(Places(u, P, F, v))
                  = Cardinality(Rest(u)) + Cardinality(RowPlaces(u[p], F, v))
             /\ Cardinality(Rest(u)) \in Nat
             /\ Cardinality(RowPlaces(u[p], F, v)) \in Nat
  <2>1. IsFiniteSet(P \ {p})
    BY FS_RemoveElement
  <2>2. IsFiniteSet(Rest(u)) /\ Cardinality(Rest(u)) \in Nat
    BY <2>1, PlacesFinite
  <2>3. IsFiniteSet(RowPlaces(u[p], F, v)) /\ Cardinality(RowPlaces(u[p], F, v)) \in Nat
    BY RowPlacesFinite
  <2>4. IsFiniteSet(Mine(u)) /\ Cardinality(Mine(u)) = Cardinality(RowPlaces(u[p], F, v))
    BY <2>3, RowOfPlaces
  <2>5. Places(u, P, F, v) = Rest(u) \cup Mine(u) /\ Rest(u) \cap Mine(u) = {}
    <3>1. \A e : e \in Places(u, P, F, v) <=> e \in P \X F /\ u[e[1]][e[2]] = v
      BY DEF Places
    <3>2. \A e : e \in Rest(u) <=> e \in (P \ {p}) \X F /\ u[e[1]][e[2]] = v
      BY DEF Places
    <3>3. \A e : e \in Mine(u) <=> e \in {p} \X F /\ u[e[1]][e[2]] = v
      BY DEF RowPlaces
    <3>4. \A e : /\ e \in P \X F <=> e \in (P \ {p}) \X F \/ e \in {p} \X F
                /\ ~(e \in (P \ {p}) \X F /\ e \in {p} \X F)
      OBVIOUS
    <3> HIDE DEF Rest, Mine
    <3> QED
      BY <3>1, <3>2, <3>3, <3>4
  <2>6. Cardinality({}) = 0
    BY FS_EmptySet
  <2> HIDE DEF Rest, Mine
  <2>7. Cardinality(Rest(u) \cup Mine(u))
          = Cardinality(Rest(u)) + Cardinality(Mine(u)) - Cardinality(Rest(u) \cap Mine(u))
    BY <2>2, <2>4, FS_Union
  <2>8. /\ Cardinality(Places(u, P, F, v)) = Cardinality(Rest(u) \cup Mine(u))
        /\ Cardinality(Rest(u) \cap Mine(u)) = 0
    BY <2>5, <2>6, Zenon
  <2> QED
    BY <2>2, <2>3, <2>4, <2>7, <2>8
<1>2. Rest(new) = Rest(t)
  BY DEF Places, RowReplaced
<1> HIDE DEF Rest, Mine
<1> QED
  BY <1>1, <1>2

(* One place is written: a descriptor is opened, closed or replaced. *)
LEMMA WritePlace ==
  ASSUME NEW P, NEW F, NEW t, NEW new, NEW v, NEW w, NEW p, NEW f,
         IsFiniteSet(P), IsFiniteSet(F), p \in P, f \in F,
         PlaceWritten(t, new, P, F, p, f, w)
  PROVE  Cardinality(Places(new, P, F, v)) =
           Cardinality(Places(t, P, F, v))
             - (IF t[p][f] = v THEN 1 ELSE 0) + (IF w = v THEN 1 ELSE 0)
<1> DEFINE d == <<p, f>>
           Old == Places(t, P, F, v)
           New == Places(new, P, F, v)
<1>1. IsFiniteSet(Old) /\ Cardinality(Old) \in Nat
  BY PlacesFinite
<1>2. New = IF w = v THEN Old \cup {d} ELSE Old \ {d}
  <2>1. \A q \in P, g \in F : <<q, g>> = d <=> q = p /\ g = f
    OBVIOUS
  <2>2. \A e : e \in Old <=> e \in P \X F /\ t[e[1]][e[2]] = v
    BY DEF Places
  <2>3. \A e : e \in New <=> e \in P \X F /\ new[e[1]][e[2]] = v
    BY DEF Places
  <2>4. \A e \in P \X F : new[e[1]][e[2]] = IF e = d THEN w ELSE t[e[1]][e[2]]
    BY DEF PlaceWritten
  <2>5. d \in P \X F
    OBVIOUS
  <2> HIDE DEF d, Old, New
  <2> QED
    BY <2>2, <2>3, <2>4, <2>5
<1>3. d \in Old <=> t[p][f] = v
  BY DEF Places
<1> HIDE DEF d, Old, New
<1>4. /\ Cardinality(Old \cup {d}) = IF d \in Old THEN Cardinality(Old) ELSE Cardinality(Old) + 1
      /\ Cardinality(Old \ {d}) = IF d \in Old THEN Cardinality(Old) - 1 ELSE Cardinality(Old)
  BY <1>1, FS_AddElement, FS_RemoveElement
<1>5. Cardinality(New) = Cardinality(Old) - (IF t[p][f] = v THEN 1 ELSE 0) + (IF w = v THEN 1 ELSE 0)
  BY <1>1, <1>2, <1>3, <1>4
<1> QED
  BY <1>5 DEF Old, New

(* A value is somewhere in the table exactly if it is counted. *)
LEMMA PlacesEmpty ==
  ASSUME NEW P, IsFiniteSet(P), NEW F, IsFiniteSet(F), NEW t, NEW v
  PROVE  Cardinality(Places(t, P, F, v)) = 0 <=> \A p \in P, f \in F : t[p][f] # v
<1>1. Cardinality(Places(t, P, F, v)) = 0 <=> Places(t, P, F, v) = {}
  BY PlacesFinite, FS_EmptySet
<1>2. ASSUME NEW p \in P, NEW f \in F
      PROVE  <<p, f>> \in Places(t, P, F, v) <=> t[p][f] = v
  BY DEF Places
<1>3. ASSUME NEW e \in Places(t, P, F, v)
      PROVE  \E p \in P, f \in F : t[p][f] = v
  BY DEF Places
<1>4. Places(t, P, F, v) = {} <=> \A p \in P, f \in F : t[p][f] # v
  BY <1>2, <1>3
<1> QED
  BY <1>1, <1>4

-------------------------------------------------------------------------------
(* Operators of the model.                                                    *)
LEMMA TableFinite == IsFiniteSet(Procs) /\ IsFiniteSet(Fds)
  BY FileTableAssumption, FS_Interval DEF Fds

LEMMA MinOfSet ==
  ASSUME NEW S \in SUBSET Nat, S # {}
  PROVE  Min(S) \in S
  BY LeastOf DEF Min

LEMMA MinMaxOfTwo ==
  ASSUME NEW a \in Int, NEW b \in Int
  PROVE  /\ Min({a, b}) = IF a <= b THEN a ELSE b
         /\ Max({a, b}) = IF a >= b THEN a ELSE b
  BY DEF Min, Max

LEMMA FreeDescriptor ==
  ASSUME NEW p \in Procs, HasRoom(p)
  PROVE  LowestFree(p) \in Fds /\ files[p][LowestFree(p)] = NULL
<1> DEFINE S == {fd \in Regular : files[p][fd] = NULL}
<1>1. S \in SUBSET Nat /\ S # {}
  BY FileTableAssumption DEF HasRoom, Regular, Fds
<1>2. LowestFree(p) \in S
  BY <1>1, MinOfSet DEF LowestFree
<1> QED
  BY <1>2 DEF Regular

-------------------------------------------------------------------------------
(* What the invariant says of the descriptors that name an object.            *)
Refs(o) == Cardinality({pf \in Procs \X Fds : files[pf[1]][pf[2]] = o})

LEMMA RefsType ==
  ASSUME NEW o
  PROVE  Refs(o) \in Nat /\ Refs(o)' \in Nat
<1>1. /\ Cardinality(Places(files, Procs, Fds, o)) \in Nat
      /\ Cardinality(Places(files', Procs, Fds, o)) \in Nat
  BY TableFinite, PlacesFinite
<1> QED
  BY <1>1 DEF Refs, Places

LEMMA NamedIsUsed ==
  ASSUME IInv, NEW p \in Procs, NEW fd \in Fds, NEW o, o = files[p][fd], o # NULL
  PROVE  o \in Objects /\ file[o].ref_count \in Nat \ {0}
<1>1. o \in Objects
  BY DEF IInv, TypeOK
<1>2. Cardinality(Places(files, Procs, Fds, o)) # 0
  BY TableFinite, PlacesEmpty
<1>3. file[o].ref_count = Refs(o) /\ Refs(o) # 0
  BY <1>1, <1>2 DEF IInv, ReferencesCounted, Refs, Places
<1> QED
  BY <1>1, <1>3, RefsType

LEMMA SpareIsFree ==
  ASSUME IInv, NEW o \in Objects
  PROVE  /\ file[o].ref_count \in Nat
         /\ file[o].ref_count = 0 => file[o] = Free
         /\ IsRegular(o) => Used(o)
<1>1. file[o].ref_count = Refs(o) /\ Refs(o) \in Nat
  BY RefsType DEF IInv, ReferencesCounted, Refs
<1>2. ~Used(o) => file[o] = Free
  BY DEF IInv, ReferencesCounted, Spare
<1> QED
  BY <1>1, <1>2 DEF Used, IsRegular, Free

(* One descriptor comes to name w, and the counts follow. *)
Relinked(p, fd, w) ==
  /\ Install(p, fd, w)
  /\ alive' = alive
  /\ file' \in [Objects -> Object]
  /\ \A o \in Objects :
       /\ file'[o].ref_count = file[o].ref_count - (IF files[p][fd] = o THEN 1 ELSE 0)
                                                 + (IF w = o THEN 1 ELSE 0)
       /\ file'[o].ref_count = 0 => file'[o] = Free

LEMMA RelinkCounts ==
  ASSUME IInv, NEW p \in alive, NEW fd \in Fds, NEW w \in Objects \cup {NULL},
         Relinked(p, fd, w)
  PROVE  /\ files' \in [Procs -> [Fds -> Objects \cup {NULL}]]
         /\ NothingLeftBehind'
         /\ ReferencesCounted'
<1>1. p \in Procs /\ files \in [Procs -> [Fds -> Objects \cup {NULL}]]
  BY DEF IInv, TypeOK
<1>2. files' = [files EXCEPT ![p][fd] = w] /\ alive' = alive
  BY DEF Relinked, Install
<1>3. PlaceWritten(files, files', Procs, Fds, p, fd, w)
  BY <1>1, <1>2 DEF PlaceWritten
<1>4. NothingLeftBehind'
  BY <1>1, <1>2 DEF IInv, NothingLeftBehind
<1>5. ASSUME NEW o \in Objects
      PROVE  Refs(o)' = Refs(o) - (IF files[p][fd] = o THEN 1 ELSE 0)
                                + (IF w = o THEN 1 ELSE 0)
  <2>1. Cardinality(Places(files', Procs, Fds, o)) =
          Cardinality(Places(files, Procs, Fds, o))
            - (IF files[p][fd] = o THEN 1 ELSE 0) + (IF w = o THEN 1 ELSE 0)
    BY <1>1, <1>3, TableFinite, WritePlace
  <2> QED
    BY <2>1 DEF Refs, Places
<1>6. ASSUME NEW o \in Objects
      PROVE  file'[o].ref_count = Refs(o)' /\ (~(file'[o].ref_count > 0) => file'[o] = Free)
  <2>1. file[o].ref_count = Refs(o)
    BY DEF IInv, ReferencesCounted, Refs
  <2>2. file'[o].ref_count = Refs(o)'
    BY <1>5, <2>1 DEF Relinked
  <2> QED
    BY <2>2, RefsType DEF Relinked
<1>7. ReferencesCounted'
  BY <1>6 DEF ReferencesCounted, Refs, Spare, Used
<1> QED
  BY <1>1, <1>2, <1>4, <1>7

(* No descriptor and no count changes, and only objects of regular files do. *)
LEMMA CountsFrame ==
  ASSUME IInv, files' = files, alive' = alive,
         \A o \in Objects : /\ file'[o].ref_count = file[o].ref_count
                            /\ file'[o] = file[o] \/ IsRegular(o)
  PROVE  NothingLeftBehind' /\ ReferencesCounted'
<1>1. NothingLeftBehind'
  BY DEF IInv, NothingLeftBehind
<1>2. \A o \in Objects : file'[o] # file[o] => Used(o)
  BY SpareIsFree
<1>3. ReferencesCounted'
  BY <1>2 DEF IInv, ReferencesCounted, Spare, Used
<1> QED
  BY <1>1, <1>3

-------------------------------------------------------------------------------
(* What the invariant says of the files behind the objects.                   *)
Grown == \A i \in Inodes : size[i] \in Nat =>
           size'[i] \in Nat /\ size'[i] >= size[i] /\ mode'[i] = mode[i]
SameData(o) == /\ file'[o].inode = file[o].inode
               /\ file'[o].mode = file[o].mode
               /\ file'[o].offp = file[o].offp

LEMMA SoundKept ==
  ASSUME IInv, NEW o \in Objects, Grown, SameData(o) \/ file'[o].inode = NULL
  PROVE  Sound(o)'
<1>1. file[o].inode \in Inodes \cup {NULL} /\ Sound(o)
  BY DEF IInv, TypeOK, Object
<1> QED
  BY <1>1 DEF Sound, IsRegular, Grown, SameData

-------------------------------------------------------------------------------
(* The calls that open, share and close.                                      *)
LEMMA RelinkStep ==
  ASSUME IInv, NEW p \in alive, NEW fd \in Fds, NEW w \in Objects \cup {NULL},
         Relinked(p, fd, w), UNCHANGED <<size, mode>>,
         \A o \in Objects : SameData(o) \/ file'[o].inode = NULL
  PROVE  IInv'
<1>1. TypeOK'
  BY RelinkCounts DEF IInv, TypeOK, Relinked
<1>2. Grown
  BY DEF Grown, IInv, TypeOK
<1>3. \A o \in Objects : Sound(o)'
  BY <1>2, SoundKept
<1> QED
  BY <1>1, <1>3, RelinkCounts DEF IInv

(* A new object. *)
LEMMA FreshStep ==
  ASSUME IInv, NEW p \in alive, NEW fd \in Fds, files[p][fd] = NULL,
         NEW w \in Spare, NEW rec \in Object, Install(p, fd, w),
         file' = [file EXCEPT ![w] = rec], rec.ref_count = 1, alive' = alive
  PROVE  Relinked(p, fd, w) /\ w \in Objects /\ \A o \in Objects \ {w} : file'[o] = file[o]
<1>1. w \in Objects /\ file \in [Objects -> Object] /\ NULL \notin Objects
  BY FileTableAssumption DEF Spare, IInv, TypeOK, NULL
<1>2. file[w].ref_count = 0
  BY <1>1, SpareIsFree DEF Spare, Used
<1>3. \A o \in Objects : file'[o] = IF o = w THEN rec ELSE file[o]
  BY <1>1
<1>4. file' \in [Objects -> Object]
  BY <1>1
<1>5. ASSUME NEW o \in Objects
      PROVE  /\ file'[o].ref_count = file[o].ref_count - (IF files[p][fd] = o THEN 1 ELSE 0)
                                                       + (IF w = o THEN 1 ELSE 0)
             /\ file'[o].ref_count = 0 => file'[o] = Free
  BY <1>1, <1>2, <1>3, SpareIsFree
<1> QED
  BY <1>1, <1>3, <1>4, <1>5 DEF Relinked

(* One more reference to an object that p names already. *)
LEMMA ShareStep ==
  ASSUME IInv, NEW p \in alive, NEW fd \in Fds, files[p][fd] = NULL,
         NEW old \in Fds, files[p][old] # NULL,
         Install(p, fd, files[p][old]), file' = ref_count_inc(file, files[p][old]),
         UNCHANGED <<alive, size, mode>>
  PROVE  IInv'
<1> DEFINE w == files[p][old]
<1>1. p \in Procs /\ file \in [Objects -> Object] /\ NULL \notin Objects
  BY FileTableAssumption DEF IInv, TypeOK, NULL
<1>2. w \in Objects /\ file[w].ref_count \in Nat \ {0}
  BY <1>1, NamedIsUsed
<1>3. file' = [file EXCEPT ![w].ref_count = @ + 1]
  BY DEF ref_count_inc
<1> HIDE DEF w
<1>4. file' \in [Objects -> Object] /\ \A o \in Objects : SameData(o)
  BY <1>1, <1>2, <1>3 DEF Object, SameData
<1>5. \A o \in Objects : file'[o] = IF o = w THEN [file[o] EXCEPT !.ref_count = @ + 1]
                                             ELSE file[o]
  BY <1>1, <1>3
<1>6. ASSUME NEW o \in Objects
      PROVE  /\ file'[o].ref_count = file[o].ref_count - (IF files[p][fd] = o THEN 1 ELSE 0)
                                                       + (IF w = o THEN 1 ELSE 0)
             /\ file'[o].ref_count = 0 => file'[o] = Free
  <2>1. file[o].ref_count \in Nat /\ (file[o].ref_count = 0 => file[o] = Free)
    BY SpareIsFree
  <2>2. (IF files[p][fd] = o THEN 1 ELSE 0) = 0
    BY <1>1
  <2>3. ASSUME o = w
        PROVE  file'[o].ref_count = file[o].ref_count + 1
    <3>1. file[o] \in Object /\ file'[o] = [file[o] EXCEPT !.ref_count = @ + 1]
      BY <1>1, <1>5, <2>3
    <3> QED
      BY <3>1 DEF Object
  <2>4. ASSUME o # w
        PROVE  file'[o] = file[o]
    BY <1>5, <2>4
  <2> QED
    BY <1>2, <2>1, <2>2, <2>3, <2>4
<1>7. Relinked(p, fd, w)
  BY <1>4, <1>6 DEF Relinked, w
<1> QED
  BY <1>2, <1>4, <1>7, RelinkStep

LEMMA StandardStep ==
  ASSUME IInv, NEW p \in alive, NEW t \in Std, open_standard_IO(p, t)
  PROVE  IInv'
<1>1. t \in Fds /\ p \in Procs
  BY FileTableAssumption DEF Fds, IInv, TypeOK
<1>2. ASSUME files[p][t] = NULL, NEW w \in Spare, Install(p, t, w),
             file' = [file EXCEPT ![w] = StdFile(t)], UNCHANGED <<alive, size, mode>>
      PROVE  IInv'
  <2>1. StdFile(t) \in Object /\ StdFile(t).ref_count = 1 /\ StdFile(t).inode = NULL
    BY DEF StdFile, Object, Access
  <2> DEFINE rec == StdFile(t)
  <2> HIDE DEF rec
  <2>2. /\ Relinked(p, t, w) /\ w \in Objects
        /\ \A o \in Objects \ {w} : file'[o] = file[o]
    <3>1. rec \in Object /\ rec.ref_count = 1 /\ file' = [file EXCEPT ![w] = rec]
      BY <1>2, <2>1 DEF rec
    <3>2. files[p][t] = NULL /\ Install(p, t, w) /\ alive' = alive
      BY <1>2
    <3> QED
      BY ONLY IInv, <1>1, <3>1, <3>2, FreshStep
  <2>3. \A o \in Objects : SameData(o) \/ file'[o].inode = NULL
    BY <1>2, <2>1, <2>2 DEF SameData, IInv, TypeOK
  <2> QED
    BY <1>1, <1>2, <2>2, <2>3, RelinkStep
<1>3. CASE /\ files[p][t] # NULL /\ HasRoom(p)
           /\ Install(p, LowestFree(p), files[p][t])
           /\ file' = ref_count_inc(file, files[p][t])
  BY <1>1, <1>3, FreeDescriptor, ShareStep DEF open_standard_IO
<1> QED
  BY <1>2, <1>3 DEF open_standard_IO

LEMMA DupStep ==
  ASSUME IInv, NEW p \in alive, NEW oldfd \in Fds, fd_dup(p, oldfd)
  PROVE  IInv'
<1>1. p \in Procs
  BY DEF IInv, TypeOK
<1> QED
  BY <1>1, FreeDescriptor, ShareStep DEF fd_dup

(* A reference less, the object deleted with the last. *)
LEMMA StdCloseFacts ==
  ASSUME IInv, NEW p \in Procs, NEW fd \in Fds, files[p][fd] # NULL, NEW g,
         g = std_close(file, files[p][fd])
  PROVE  /\ g \in [Objects -> Object]
         /\ \A o \in Objects :
              /\ g[o].ref_count = file[o].ref_count - (IF files[p][fd] = o THEN 1 ELSE 0)
              /\ g[o].ref_count = 0 => g[o] = Free
              /\ g[o].ref_count \in Nat
              /\ \/ g[o].inode = NULL
                 \/ /\ g[o].inode = file[o].inode /\ g[o].mode = file[o].mode
                    /\ g[o].offp = file[o].offp
<1> DEFINE c == files[p][fd]
           Less(x) == IF x.ref_count = 1 THEN Free ELSE [x EXCEPT !.ref_count = @ - 1]
<1>1. c \in Objects /\ file[c].ref_count \in Nat \ {0} /\ file \in [Objects -> Object]
  BY NamedIsUsed DEF IInv, TypeOK
<1>2. Free \in Object /\ Free.ref_count = 0 /\ Free.inode = NULL
  BY DEF Free, Object, Access
<1>3. g = [file EXCEPT ![c] = Less(file[c])]
  BY DEF std_close
<1>4. ASSUME NEW x \in Object, x.ref_count # 1
      PROVE  /\ Less(x) \in Object /\ Less(x).ref_count = x.ref_count - 1
             /\ Less(x).inode = x.inode /\ Less(x).mode = x.mode /\ Less(x).offp = x.offp
  <2>1. Less(x) = [x EXCEPT !.ref_count = x.ref_count - 1]
    BY <1>4
  <2> HIDE DEF Less
  <2> QED
    BY <2>1 DEF Object
<1>5. \A x \in Object : x.ref_count = 1 => Less(x) = Free
  OBVIOUS
<1> HIDE DEF c, Less
<1>6. \A o \in Objects : g[o] = IF o = c THEN Less(file[c]) ELSE file[o]
  BY <1>1, <1>3
<1>7. g \in [Objects -> Object]
  BY <1>1, <1>2, <1>3, <1>4, <1>5
<1>8. ASSUME NEW o \in Objects
      PROVE  /\ g[o].ref_count = file[o].ref_count - (IF c = o THEN 1 ELSE 0)
             /\ g[o].ref_count = 0 => g[o] = Free
             /\ g[o].ref_count \in Nat
             /\ \/ g[o].inode = NULL
                \/ /\ g[o].inode = file[o].inode /\ g[o].mode = file[o].mode
                   /\ g[o].offp = file[o].offp
  <2>1. file[o].ref_count \in Nat /\ (file[o].ref_count = 0 => file[o] = Free)
    BY SpareIsFree
  <2>2. CASE o # c
    BY <1>6, <2>1, <2>2
  <2>3. CASE o = c /\ file[c].ref_count = 1
    <3>1. g[o] = Free
      BY <1>1, <1>5, <1>6, <2>3
    <3> QED
      BY <1>2, <2>3, <3>1
  <2>4. CASE o = c /\ file[c].ref_count # 1
    BY <1>1, <1>4, <1>6, <2>4
  <2> QED
    BY <2>2, <2>3, <2>4
<1> QED
  BY <1>7, <1>8 DEF c

LEMMA CloseStep ==
  ASSUME IInv, NEW p \in alive, NEW fd \in Fds, do_close(p, fd)
  PROVE  IInv'
<1>1. p \in Procs /\ files[p][fd] # NULL /\ NULL \notin Objects
  BY FileTableAssumption DEF IInv, TypeOK, do_close, NULL
<1>2. file' = std_close(file, files[p][fd]) /\ Install(p, fd, NULL) /\ alive' = alive
  BY DEF do_close
<1>3. /\ file' \in [Objects -> Object]
      /\ \A o \in Objects :
           /\ file'[o].ref_count = file[o].ref_count - (IF files[p][fd] = o THEN 1 ELSE 0)
           /\ file'[o].ref_count = 0 => file'[o] = Free
           /\ file'[o].ref_count \in Nat
           /\ SameData(o) \/ file'[o].inode = NULL
  BY <1>1, <1>2, StdCloseFacts DEF SameData
<1>4. Relinked(p, fd, NULL)
  BY <1>1, <1>2, <1>3 DEF Relinked
<1> QED
  BY <1>3, <1>4, RelinkStep DEF do_close

LEMMA IncFacts ==
  ASSUME NEW g \in [Objects -> Object], NEW w \in Objects, file' = ref_count_inc(g, w)
  PROVE  /\ file' \in [Objects -> Object]
         /\ \A o \in Objects :
              /\ o # w => file'[o] = g[o]
              /\ file'[o].ref_count = g[o].ref_count + (IF w = o THEN 1 ELSE 0)
              /\ file'[o].inode = g[o].inode /\ file'[o].mode = g[o].mode
              /\ file'[o].offp = g[o].offp
<1>1. file' = [g EXCEPT ![w].ref_count = @ + 1]
  BY DEF ref_count_inc
<1>2. file' \in [Objects -> Object]
  BY <1>1 DEF Object
<1>3. ASSUME NEW o \in Objects
      PROVE  /\ o # w => file'[o] = g[o]
             /\ file'[o].ref_count = g[o].ref_count + (IF w = o THEN 1 ELSE 0)
             /\ file'[o].inode = g[o].inode /\ file'[o].mode = g[o].mode
             /\ file'[o].offp = g[o].offp
  <2>1. g[o] \in Object
    OBVIOUS
  <2>2. file'[o] = IF o = w THEN [g[o] EXCEPT !.ref_count = @ + 1] ELSE g[o]
    BY <1>1
  <2> QED
    BY <2>1, <2>2 DEF Object
<1> QED
  BY <1>2, <1>3

LEMMA Dup2Step ==
  ASSUME IInv, NEW p \in alive, NEW oldfd \in Fds, NEW newfd \in Fds,
         fd_dup2(p, oldfd, newfd)
  PROVE  IInv'
<1> DEFINE w == files[p][oldfd]
           g == IF files[p][newfd] = NULL THEN file ELSE std_close(file, files[p][newfd])
<1>1. p \in Procs /\ NULL \notin Objects
  BY FileTableAssumption DEF IInv, TypeOK, NULL
<1>2. w \in Objects
  BY <1>1, NamedIsUsed DEF fd_dup2
<1>3. /\ Install(p, newfd, w) /\ file' = ref_count_inc(g, w)
      /\ UNCHANGED <<alive, size, mode>>
  BY DEF fd_dup2
<1> HIDE DEF w
<1>4. /\ g \in [Objects -> Object]
      /\ \A o \in Objects :
           /\ g[o].ref_count = file[o].ref_count - (IF files[p][newfd] = o THEN 1 ELSE 0)
           /\ g[o].ref_count = 0 => g[o] = Free
           /\ g[o].ref_count \in Nat
           /\ \/ g[o].inode = NULL
              \/ /\ g[o].inode = file[o].inode /\ g[o].mode = file[o].mode
                 /\ g[o].offp = file[o].offp
  <2>1. CASE files[p][newfd] = NULL
    <3>1. g = file /\ file \in [Objects -> Object]
      BY <2>1 DEF IInv, TypeOK
    <3>2. ASSUME NEW o \in Objects
          PROVE  /\ file[o].ref_count \in Nat /\ (file[o].ref_count = 0 => file[o] = Free)
                 /\ (IF files[p][newfd] = o THEN 1 ELSE 0) = 0
      BY <1>1, <2>1, SpareIsFree
    <3> HIDE DEF g
    <3> QED
      BY <3>1, <3>2
  <2>2. CASE files[p][newfd] # NULL
    <3>1. g = std_close(file, files[p][newfd])
      BY <2>2
    <3> HIDE DEF g
    <3> QED
      BY <1>1, <2>2, <3>1, StdCloseFacts
  <2> QED
    BY <2>1, <2>2
<1> HIDE DEF g
<1>5. /\ file' \in [Objects -> Object]
      /\ \A o \in Objects :
              /\ o # w => file'[o] = g[o]
              /\ file'[o].ref_count = g[o].ref_count + (IF w = o THEN 1 ELSE 0)
              /\ file'[o].inode = g[o].inode /\ file'[o].mode = g[o].mode
              /\ file'[o].offp = g[o].offp
  BY <1>2, <1>3, <1>4, IncFacts
<1>6. ASSUME NEW o \in Objects
      PROVE  /\ file'[o].ref_count = file[o].ref_count - (IF files[p][newfd] = o THEN 1 ELSE 0)
                                                       + (IF w = o THEN 1 ELSE 0)
             /\ file'[o].ref_count = 0 => file'[o] = Free
             /\ SameData(o) \/ file'[o].inode = NULL
  <2>1. file'[o].ref_count = 0 => o # w
    BY <1>4, <1>5
  <2> QED
    BY <1>4, <1>5, <2>1 DEF SameData
<1>7. Relinked(p, newfd, w)
  BY <1>3, <1>5, <1>6 DEF Relinked
<1> QED
  BY <1>2, <1>3, <1>6, <1>7, RelinkStep

LEMMA OpenStep ==
  ASSUME IInv, NEW p \in alive, NEW i \in Inodes, NEW flags \in Flags, NEW m \in Perms,
         NEW creat \in BOOLEAN, do_regular_file_open(p, i, flags, creat, m)
  PROVE  IInv'
<1>1. /\ p \in Procs /\ flags \in SUBSET Access /\ m \in SUBSET Access /\ alive' = alive
      /\ size \in [Inodes -> Nat \cup {Missing}] /\ mode \in [Inodes -> SUBSET Access]
      /\ Missing \notin Nat
  BY FileTableAssumption DEF IInv, TypeOK, Access, do_regular_file_open, Missing
<1>2. \/ size[i] = Missing /\ size' = [size EXCEPT ![i] = 0] /\ mode' = [mode EXCEPT ![i] = m]
      \/ size[i] # Missing /\ size' = size /\ mode' = mode
  BY DEF do_regular_file_open, create_inode
<1>3. /\ size' \in [Inodes -> Nat \cup {Missing}] /\ mode' \in [Inodes -> SUBSET Access]
      /\ size'[i] \in Nat
      /\ Grown
  BY <1>1, <1>2 DEF Grown
<1>4. CASE UNCHANGED <<files, file>>
  <2>1. NothingLeftBehind' /\ ReferencesCounted'
    BY <1>1, <1>4, CountsFrame
  <2>2. \A o \in Objects : Sound(o)'
    BY <1>3, <1>4, SoundKept DEF SameData
  <2> QED
    BY <1>1, <1>3, <1>4, <2>1, <2>2 DEF IInv, TypeOK
<1>5. ASSUME flags \subseteq mode'[i], HasRoom(p), NEW w \in Spare,
             Install(p, LowestFree(p), w),
             file' = [file EXCEPT ![w] =
                        [mode |-> flags, offp |-> 0, ref_count |-> 1, inode |-> i]]
      PROVE  IInv'
  <2> DEFINE rec == [mode |-> flags, offp |-> 0, ref_count |-> 1, inode |-> i]
             fd == LowestFree(p)
  <2>1. fd \in Fds /\ files[p][fd] = NULL
    BY <1>1, <1>5, FreeDescriptor
  <2>2. /\ rec \in Object /\ rec.ref_count = 1
        /\ rec.mode = flags /\ rec.inode = i /\ rec.offp = 0
    BY <1>1 DEF Object
  <2>3. Install(p, fd, w) /\ file' = [file EXCEPT ![w] = rec]
    BY <1>5
  <2> HIDE DEF rec, fd
  <2>4. /\ Relinked(p, fd, w) /\ w \in Objects
        /\ \A o \in Objects \ {w} : file'[o] = file[o]
    BY <1>1, <2>1, <2>2, <2>3, FreshStep
  <2>5. /\ files' \in [Procs -> [Fds -> Objects \cup {NULL}]]
        /\ NothingLeftBehind' /\ ReferencesCounted'
    BY <1>1, <2>1, <2>4, RelinkCounts
  <2>6. file'[w] = rec
    BY <2>3, <2>4 DEF IInv, TypeOK
  <2>7. Sound(w)'
    BY <1>1, <1>3, <1>5, <2>2, <2>6 DEF Sound
  <2>8. \A o \in Objects \ {w} : Sound(o)'
    BY <1>3, <2>4, SoundKept DEF SameData
  <2>9. TypeOK'
    BY <1>1, <1>3, <2>4, <2>5 DEF TypeOK, IInv, Relinked
  <2> QED
    BY <2>5, <2>7, <2>8, <2>9 DEF IInv
<1> QED
  BY <1>4, <1>5 DEF do_regular_file_open

-------------------------------------------------------------------------------
(* The calls that move positions.  g is the objects after the position of one *)
(* was moved inside its file.                                                 *)
Moved(g) ==
  /\ g \in [Objects -> Object]
  /\ \A o \in Objects :
       /\ g[o].inode = file[o].inode /\ g[o].mode = file[o].mode
       /\ g[o].ref_count = file[o].ref_count
       /\ g[o] = file[o] \/ IsRegular(o)
       /\ IsRegular(o) => g[o].offp \in 0..size[file[o].inode]

LEMMA RegularFacts ==
  ASSUME IInv, NEW o \in Objects, IsRegular(o)
  PROVE  /\ file[o] \in Object /\ file[o].inode \in Inodes
         /\ size[file[o].inode] \in Nat /\ file[o].offp \in 0..size[file[o].inode]
         /\ file[o].mode \subseteq mode[file[o].inode]
  BY DEF IInv, TypeOK, Sound, IsRegular, Object

LEMMA UnmovedMoved == ASSUME IInv PROVE Moved(file)
  BY RegularFacts DEF Moved, IInv, TypeOK

LEMMA OneMoved ==
  ASSUME IInv, NEW o \in Objects, IsRegular(o), NEW pos \in 0..size[file[o].inode],
         NEW g, g = [file EXCEPT ![o].offp = pos]
  PROVE  Moved(g)
<1>1. file \in [Objects -> Object] /\ file[o] \in Object /\ pos \in Int
  BY RegularFacts DEF IInv, TypeOK
<1>2. g \in [Objects -> Object]
  BY <1>1 DEF Object
<1>3. ASSUME NEW x \in Objects
      PROVE  /\ g[x].inode = file[x].inode /\ g[x].mode = file[x].mode
             /\ g[x].ref_count = file[x].ref_count
             /\ g[x] = file[x] \/ IsRegular(x)
             /\ IsRegular(x) => g[x].offp \in 0..size[file[x].inode]
  <2>1. CASE x = o
    BY <1>1, <2>1 DEF Object
  <2>2. CASE x # o
    BY <1>1, <2>2, RegularFacts
  <2> QED
    BY <2>1, <2>2
<1> QED
  BY <1>2, <1>3 DEF Moved

LEMMA ReadMoved ==
  ASSUME IInv, NEW o \in Objects, IsRegular(o), NEW n \in Nat,
         NEW g, g = do_read_regular(file, o, n)
  PROVE  Moved(g)
<1> DEFINE pos == file[o].offp + ReadSize(file, o, n)
<1>1. pos \in 0..size[file[o].inode]
  <2>1. /\ size[file[o].inode] \in Nat /\ file[o].offp \in 0..size[file[o].inode]
        /\ size[file[o].inode] - file[o].offp \in Int
    BY RegularFacts
  <2>2. ReadSize(file, o, n) = IF n <= size[file[o].inode] - file[o].offp
                               THEN n ELSE size[file[o].inode] - file[o].offp
    BY <2>1, MinMaxOfTwo DEF ReadSize
  <2> QED
    BY <2>1, <2>2
<1>2. g = [file EXCEPT ![o].offp = pos]
  BY DEF do_read_regular
<1> HIDE DEF pos
<1> QED
  BY <1>1, <1>2, OneMoved

LEMMA MoveStep ==
  ASSUME IInv, Moved(file'), UNCHANGED <<files, alive, size, mode>>
  PROVE  IInv'
<1>1. NothingLeftBehind' /\ ReferencesCounted'
  BY CountsFrame DEF Moved
<1>2. ASSUME NEW o \in Objects PROVE Sound(o)'
  <2>1. Sound(o)
    BY DEF IInv
  <2> QED
    BY <2>1 DEF Moved, Sound, IsRegular
<1> QED
  BY <1>1, <1>2 DEF IInv, TypeOK, Moved

(* A write moves the position past the bytes written, and the end of the     *)
(* file with it if that is further.                                          *)
LEMMA WriteFacts ==
  ASSUME IInv, NEW g, Moved(g), NEW o \in Objects, IsRegular(o), NEW n \in Nat,
         do_write_regular(g, o, n)
  PROVE  \/ file' = g /\ size' = size
         \/ LET i == file[o].inode
                end == g[o].offp + n
            IN  /\ file' = [g EXCEPT ![o].offp = end] /\ end \in Nat
                /\ size' = [size EXCEPT ![i] = IF size[i] >= end THEN size[i] ELSE end]
<1> DEFINE i == file[o].inode
           end == g[o].offp + n
<1>1. size[i] \in Nat /\ g[o].inode = i /\ g[o].offp \in 0..size[i] /\ end \in Nat
  BY RegularFacts DEF Moved
<1>2. CASE Fits(g, o, n)
  <2>1. file' = [g EXCEPT ![o].offp = end] /\ size' = [size EXCEPT ![i] = Max({size[i], end})]
    <3>1. /\ file' = [g EXCEPT ![o].offp = end]
          /\ size' = [size EXCEPT ![g[o].inode] = Max({size[g[o].inode], end})]
      BY <1>2 DEF do_write_regular
    <3> QED
      BY <1>1, <3>1, Zenon
  <2>2. Max({size[i], end}) = IF size[i] >= end THEN size[i] ELSE end
    <3>1. size[i] \in Int /\ end \in Int
      BY <1>1
    <3> HIDE DEF i, end
    <3> QED
      BY <3>1, MinMaxOfTwo
  <2> QED
    BY <1>1, <2>1, <2>2
<1>3. CASE ~Fits(g, o, n)
  BY <1>3 DEF do_write_regular
<1> QED
  BY <1>2, <1>3

LEMMA WriteStep ==
  ASSUME IInv, NEW g, Moved(g), NEW o \in Objects, IsRegular(o), NEW n \in Nat,
         do_write_regular(g, o, n), UNCHANGED <<files, alive, mode>>
  PROVE  IInv'
<1>1. CASE file' = g /\ size' = size
  BY <1>1, MoveStep
<1> DEFINE i == file[o].inode
           end == g[o].offp + n
<1>2. CASE /\ file' = [g EXCEPT ![o].offp = end] /\ end \in Nat
           /\ size' = [size EXCEPT ![i] = IF size[i] >= end THEN size[i] ELSE end]
  <2>1. /\ g \in [Objects -> Object] /\ size \in [Inodes -> Nat \cup {Missing}]
        /\ mode' = mode /\ i \in Inodes /\ size[i] \in Nat
        /\ g[o].offp \in 0..size[i]
    BY RegularFacts DEF IInv, TypeOK, Moved
  <2> HIDE DEF i, end
  <2>2. file' \in [Objects -> Object]
    BY <1>2, <2>1 DEF Object
  <2>3. \A x \in Objects : file'[x] = IF x = o THEN [g[o] EXCEPT !.offp = end] ELSE g[x]
    BY <1>2, <2>1
  <2>4. /\ size' \in [Inodes -> Nat \cup {Missing}] /\ size'[i] \in Nat /\ end <= size'[i]
        /\ \A j \in Inodes : size[j] \in Nat => size'[j] \in Nat /\ size[j] <= size'[j]
    BY <1>2, <2>1
  <2>5. ASSUME NEW x \in Objects
        PROVE  /\ file'[x].inode = file[x].inode /\ file'[x].mode = file[x].mode
               /\ file'[x].ref_count = file[x].ref_count
               /\ file'[x] = file[x] \/ IsRegular(x)
               /\ IsRegular(x) => file'[x].offp \in 0..size'[file[x].inode]
    <3>1. /\ g[x].inode = file[x].inode /\ g[x].mode = file[x].mode
          /\ g[x].ref_count = file[x].ref_count
          /\ g[x] = file[x] \/ IsRegular(x)
          /\ IsRegular(x) => g[x].offp \in 0..size[file[x].inode]
      BY DEF Moved
    <3>2. CASE x = o
      <4>1. g[o] \in Object /\ file'[o] = [g[o] EXCEPT !.offp = end]
        BY <2>1, <2>3
      <4>2. /\ file'[o].inode = g[o].inode /\ file'[o].mode = g[o].mode
            /\ file'[o].ref_count = g[o].ref_count /\ file'[o].offp = end
        BY <4>1 DEF Object
      <4> QED
        BY <1>2, <2>4, <3>1, <3>2, <4>2 DEF i
    <3>3. CASE x # o
      <4>1. file'[x] = g[x]
        BY <2>3, <3>3
      <4>2. IsRegular(x) => file[x].inode \in Inodes /\ size[file[x].inode] \in Nat
        BY RegularFacts
      <4> QED
        BY <2>4, <3>1, <4>1, <4>2
    <3> QED
      BY <3>2, <3>3
  <2>6. NothingLeftBehind' /\ ReferencesCounted'
    BY <2>5, CountsFrame
  <2>7. ASSUME NEW x \in Objects PROVE Sound(x)'
    <3>1. IsRegular(x)' <=> IsRegular(x)
      BY <2>5 DEF IsRegular
    <3>2. IsRegular(x) => /\ file[x].inode \in Inodes /\ size[file[x].inode] \in Nat
                          /\ file[x].mode \subseteq mode[file[x].inode]
      BY RegularFacts
    <3> QED
      BY <2>1, <2>4, <2>5, <3>1, <3>2 DEF Sound
  <2> QED
    BY <2>1, <2>2, <2>4, <2>6, <2>7 DEF IInv, TypeOK
<1> QED
  BY <1>1, <1>2, WriteFacts

LEMMA CountsAreNat == Counts \subseteq Nat
  BY DEF Counts

LEMMA FileReadStep ==
  ASSUME IInv, NEW p \in alive, NEW fd \in Fds, NEW n \in Nat, do_file_read(p, fd, n)
  PROVE  IInv'
<1> DEFINE o == files[p][fd]
<1>1. o \in Objects
  BY NamedIsUsed DEF do_file_read, IInv, TypeOK
<1>2. Moved(file')
  BY <1>1, ReadMoved DEF do_file_read
<1> QED
  BY <1>2, MoveStep DEF do_file_read

LEMMA FileWriteStep ==
  ASSUME IInv, NEW p \in alive, NEW fd \in Fds, NEW n \in Nat, do_file_write(p, fd, n)
  PROVE  IInv'
<1> DEFINE o == files[p][fd]
<1>1. o \in Objects
  BY NamedIsUsed DEF do_file_write, IInv, TypeOK
<1> QED
  BY <1>1, UnmovedMoved, WriteStep DEF do_file_write

LEMMA LseekStep ==
  ASSUME IInv, NEW p \in alive, NEW fd \in Fds, NEW offset \in Int, NEW whence,
         do_lseek_regular(p, fd, offset, whence)
  PROVE  IInv'
<1> DEFINE o == files[p][fd]
           rpos == IF whence = "SEEK_SET" THEN offset ELSE offset + file[o].offp
<1>1. o \in Objects /\ IsRegular(o) /\ InFile(o, rpos) /\ file' = [file EXCEPT ![o].offp = rpos]
  BY NamedIsUsed DEF do_lseek_regular, IInv, TypeOK
<1>2. rpos \in 0..size[file[o].inode]
  BY <1>1, RegularFacts DEF InFile
<1> HIDE DEF o, rpos
<1>3. Moved(file')
  BY <1>1, <1>2, OneMoved
<1> QED
  BY <1>3, MoveStep DEF do_lseek_regular

LEMMA SendfileMoved ==
  ASSUME IInv, NEW p \in alive, NEW outfd \in Fds, NEW infd \in Fds, NEW offset,
         NEW n \in Nat, do_sendfile(p, outfd, infd, offset, n)
  PROVE  Moved(IF offset = NULL THEN do_read_regular(file, files[p][infd], n) ELSE file)
<1>1. files[p][infd] \in Objects /\ IsRegular(files[p][infd])
  BY NamedIsUsed DEF do_sendfile, IInv, TypeOK
<1>2. CASE offset = NULL
  BY <1>1, <1>2, ReadMoved
<1>3. CASE offset # NULL
  BY <1>3, UnmovedMoved
<1> QED
  BY <1>2, <1>3

LEMMA SendfileStep ==
  ASSUME IInv, NEW p \in alive, NEW outfd \in Fds, NEW infd \in Fds, NEW offset,
         NEW n \in Nat, do_sendfile(p, outfd, infd, offset, n)
  PROVE  IInv'
<1> DEFINE out == files[p][outfd]
           read == IF offset = NULL THEN do_read_regular(file, files[p][infd], n) ELSE file
<1>1. Moved(read)
  BY SendfileMoved
<1>2. /\ \/ out # NULL /\ IsRegular(out) /\ do_write_regular(read, out, n)
         \/ file' = read /\ size' = size
      /\ UNCHANGED <<files, alive, mode>>
  BY DEF do_sendfile
<1>3. out # NULL => out \in Objects
  BY NamedIsUsed DEF IInv, TypeOK
<1> HIDE DEF out, read
<1>4. CASE file' = read /\ size' = size
  BY <1>1, <1>2, <1>4, MoveStep
<1>5. CASE out # NULL /\ IsRegular(out) /\ do_write_regular(read, out, n)
  BY <1>1, <1>2, <1>3, <1>5, WriteStep
<1> QED
  BY <1>2, <1>4, <1>5

-------------------------------------------------------------------------------
(* The steps that replace a whole table.                                      *)
LEMMA RowCounts ==
  ASSUME IInv, NEW p \in Procs, NEW row, NEW o \in Objects,
         files' = [files EXCEPT ![p] = row]
  PROVE  /\ Refs(o)' = Refs(o) - References(p, o) + Cardinality(RowPlaces(row, Fds, o))
         /\ References(p, o) \in Nat
         /\ References(p, o) = Cardinality(RowPlaces(files[p], Fds, o))
<1>1. RowReplaced(files, files', Procs, p) /\ files'[p] = row
  BY DEF IInv, TypeOK, RowReplaced
<1>2. ASSUME NEW t, NEW new, RowReplaced(t, new, Procs, p)
      PROVE  Cardinality(Places(new, Procs, Fds, o)) =
               Cardinality(Places(t, Procs, Fds, o))
                 - Cardinality(RowPlaces(t[p], Fds, o)) + Cardinality(RowPlaces(new[p], Fds, o))
  BY <1>2, TableFinite, ReplaceRow
<1>3. Cardinality(Places(files', Procs, Fds, o)) =
        Cardinality(Places(files, Procs, Fds, o))
          - Cardinality(RowPlaces(files[p], Fds, o)) + Cardinality(RowPlaces(files'[p], Fds, o))
  BY <1>1, <1>2
<1>4. Cardinality(RowPlaces(files[p], Fds, o)) \in Nat
  BY TableFinite, RowPlacesFinite
<1> QED
  BY <1>1, <1>3, <1>4 DEF Refs, Places, References, RowPlaces

LEMMA EmptyRow ==
  ASSUME NEW row, \A fd \in Fds : row[fd] = NULL, NEW o \in Objects
  PROVE  Cardinality(RowPlaces(row, Fds, o)) = 0
<1>1. NULL \notin Objects
  BY FileTableAssumption DEF NULL
<1>2. RowPlaces(row, Fds, o) = {}
  BY <1>1 DEF RowPlaces
<1> QED
  BY <1>2, FS_EmptySet

(* The rest of the invariant after such a step. *)
LEMMA TableStep ==
  ASSUME IInv, UNCHANGED <<size, mode>>, file' \in [Objects -> Object],
         files' \in [Procs -> [Fds -> Objects \cup {NULL}]], alive' \in SUBSET Procs,
         NothingLeftBehind',
         \A o \in Objects : /\ SameData(o) \/ file'[o].inode = NULL
                            /\ file'[o].ref_count = Refs(o)'
                            /\ file'[o].ref_count = 0 => file'[o] = Free
  PROVE  IInv'
<1>1. Grown
  BY DEF Grown, IInv, TypeOK
<1>2. \A o \in Objects : Sound(o)'
  BY <1>1, SoundKept
<1>3. ASSUME NEW o \in Objects
      PROVE  file'[o].ref_count = Refs(o)' /\ (~(file'[o].ref_count > 0) => file'[o] = Free)
  <2>1. Refs(o)' \in Nat
    BY RefsType
  <2> QED
    BY <2>1
<1>4. ReferencesCounted'
  BY <1>3 DEF ReferencesCounted, Refs, Spare, Used
<1> QED
  BY <1>2, <1>4 DEF IInv, TypeOK

LEMMA ForkStep ==
  ASSUME IInv, NEW p \in alive, NEW child \in Procs, do_fork(p, child)
  PROVE  IInv'
<1>1. /\ p \in Procs /\ child \notin alive /\ alive' = alive \cup {child}
      /\ files' = [files EXCEPT ![child] = files[p]]
      /\ UNCHANGED <<size, mode>>
      /\ file \in [Objects -> Object]
  BY DEF do_fork, do_file_fork, IInv, TypeOK
<1>2. ASSUME NEW o \in Objects
      PROVE  /\ file'[o] \in Object /\ SameData(o)
             /\ file'[o].ref_count = file[o].ref_count + References(p, o)
             /\ References(p, o) \in Nat
             /\ References(p, o) = 0 => file'[o] = file[o]
  <2>1. References(p, o) \in Nat
    <3>1. Cardinality(RowPlaces(files[p], Fds, o)) \in Nat
      BY TableFinite, RowPlacesFinite
    <3> QED
      BY <3>1 DEF References, RowPlaces
  <2>2. file[o] \in Object /\ file[o].ref_count \in Int
    BY <1>1 DEF Object
  <2>3. file'[o] = IF References(p, o) > 0
                   THEN [file[o] EXCEPT !.ref_count = @ + References(p, o)] ELSE file[o]
    BY DEF do_fork, do_file_fork
  <2>4. CASE References(p, o) > 0
    BY <2>1, <2>2, <2>3, <2>4 DEF Object, SameData
  <2>5. CASE ~(References(p, o) > 0)
    BY <2>1, <2>2, <2>3, <2>5 DEF SameData
  <2> QED
    BY <2>4, <2>5
<1>3. file' \in [Objects -> Object]
  <2>1. file' = [o \in Objects |-> file'[o]]
    BY DEF do_fork, do_file_fork
  <2> QED
    BY <1>2, <2>1
<1>4. ASSUME NEW o \in Objects
      PROVE  /\ file'[o].ref_count = Refs(o)'
             /\ file'[o].ref_count = 0 => file'[o] = Free
  <2>1. /\ Refs(o)' = Refs(o) - References(child, o) + Cardinality(RowPlaces(files[p], Fds, o))
        /\ References(child, o) = Cardinality(RowPlaces(files[child], Fds, o))
    BY <1>1, RowCounts
  <2>2. Cardinality(RowPlaces(files[child], Fds, o)) = 0
    BY <1>1, EmptyRow DEF IInv, NothingLeftBehind
  <2>3. Cardinality(RowPlaces(files[p], Fds, o)) = References(p, o)
    BY DEF References, RowPlaces
  <2>4. /\ file[o].ref_count = Refs(o) /\ Refs(o) \in Nat
        /\ file[o].ref_count = 0 => file[o] = Free
    BY SpareIsFree, RefsType DEF IInv, ReferencesCounted, Refs
  <2> QED
    BY <1>2, <2>1, <2>2, <2>3, <2>4
<1>5. files' \in [Procs -> [Fds -> Objects \cup {NULL}]] /\ NothingLeftBehind'
  BY <1>1 DEF IInv, TypeOK, NothingLeftBehind
<1>6. alive' \in SUBSET Procs
  BY <1>1 DEF IInv, TypeOK
<1> QED
  BY <1>1, <1>2, <1>3, <1>4, <1>5, <1>6, TableStep

LEMMA ExitStep ==
  ASSUME IInv, NEW p \in alive, do_file_exit(p)
  PROVE  IInv'
<1> DEFINE row == [fd \in Fds |-> NULL]
<1>1. /\ p \in Procs /\ alive' = alive \ {p} /\ files' = [files EXCEPT ![p] = row]
      /\ UNCHANGED <<size, mode>> /\ file \in [Objects -> Object]
  BY DEF do_file_exit, IInv, TypeOK
<1>2. \A fd \in Fds : row[fd] = NULL
  OBVIOUS
<1>3. files' \in [Procs -> [Fds -> Objects \cup {NULL}]] /\ NothingLeftBehind'
  BY <1>1 DEF IInv, TypeOK, NothingLeftBehind
<1> HIDE DEF row
<1>4. Free \in Object /\ Free.ref_count = 0 /\ Free.inode = NULL
  BY DEF Free, Object, Access
<1>5. ASSUME NEW o \in Objects
      PROVE  /\ file'[o] \in Object
             /\ SameData(o) \/ file'[o].inode = NULL
             /\ file'[o].ref_count = Refs(o)'
             /\ file'[o].ref_count = 0 => file'[o] = Free
  <2>1. /\ Refs(o)' = Refs(o) - References(p, o) + Cardinality(RowPlaces(row, Fds, o))
        /\ References(p, o) \in Nat
    BY <1>1, RowCounts
  <2>2. Cardinality(RowPlaces(row, Fds, o)) = 0
    BY <1>2, EmptyRow
  <2>3. /\ file[o].ref_count = Refs(o) /\ Refs(o) \in Nat /\ Refs(o)' \in Nat
        /\ file[o].ref_count = 0 => file[o] = Free
        /\ file[o] \in Object
    BY <1>1, SpareIsFree, RefsType DEF IInv, ReferencesCounted, Refs
  <2>4. file'[o] = IF References(p, o) = 0 THEN file[o]
                   ELSE IF file[o].ref_count = References(p, o) THEN Free
                   ELSE [file[o] EXCEPT !.ref_count = @ - References(p, o)]
    BY DEF do_file_exit
  <2>5. CASE References(p, o) = 0
    BY <2>1, <2>2, <2>3, <2>4, <2>5 DEF SameData
  <2>6. CASE References(p, o) # 0 /\ file[o].ref_count = References(p, o)
    <3>1. file'[o] = Free
      BY <2>4, <2>6
    <3> QED
      BY <1>4, <2>1, <2>2, <2>3, <2>6, <3>1
  <2>7. CASE References(p, o) # 0 /\ file[o].ref_count # References(p, o)
    <3>1. file'[o] = [file[o] EXCEPT !.ref_count = @ - References(p, o)]
      BY <2>4, <2>7
    <3>2. /\ file'[o] \in Object /\ SameData(o)
          /\ file'[o].ref_count = file[o].ref_count - References(p, o)
      BY <2>1, <2>3, <3>1 DEF Object, SameData
    <3>3. Refs(o)' = Refs(o) - References(p, o)
      BY <2>1, <2>2, <2>3
    <3> QED
      BY <2>1, <2>3, <2>7, <3>2, <3>3
  <2> QED
    BY <2>5, <2>6, <2>7
<1>6. file' \in [Objects -> Object]
  <2>1. file' = [o \in Objects |-> file'[o]]
    BY DEF do_file_exit
  <2> QED
    BY <1>5, <2>1
<1>7. alive' \in SUBSET Procs
  BY <1>1 DEF IInv, TypeOK
<1> QED
  BY <1>1, <1>3, <1>5, <1>6, <1>7, TableStep

-------------------------------------------------------------------------------
LEMMA InitIInv == Init => IInv
<1> SUFFICES ASSUME Init PROVE IInv
  OBVIOUS
<1>1. /\ Std \subseteq Fds /\ First \in Procs /\ NULL \notin Objects
  BY FileTableAssumption DEF Fds, NULL
<1>2. TypeOK
  <2>1. \A t \in Std : StdFile(t) \in Object
    BY DEF StdFile, Object, Access
  <2>2. Free \in Object
    BY DEF Free, Object, Access
  <2> QED
    BY <1>1, <2>1, <2>2 DEF Init, TypeOK, Missing
<1>3. NothingLeftBehind
  BY DEF Init, NothingLeftBehind
<1>4. \A o \in Objects : ~IsRegular(o)
  BY DEF Init, IsRegular, StdFile, Free
<1>5. ASSUME NEW o \in Objects
      PROVE  file[o].ref_count = Refs(o) /\ (~Used(o) => file[o] = Free)
  <2> DEFINE S == {pf \in Procs \X Fds : files[pf[1]][pf[2]] = o}
  <2>1. \A q \in Procs, fd \in Fds :
          files[q][fd] = o <=> q = First /\ fd = o /\ o \in Std
    BY <1>1 DEF Init
  <2>2. CASE o \in Std
    <3>1. S = {<<First, o>>}
      BY <1>1, <2>1, <2>2
    <3>2. file[o].ref_count = 1
      BY <2>2 DEF Init, StdFile
    <3>3. Refs(o) = 1
      BY <3>1, FS_Singleton DEF Refs
    <3> QED
      BY <3>2, <3>3 DEF Used
  <2>3. CASE o \notin Std
    <3>1. S = {}
      BY <2>1, <2>3
    <3>2. file[o] = Free /\ file[o].ref_count = 0
      BY <2>3 DEF Init, Free
    <3> QED
      BY <3>1, <3>2, FS_EmptySet DEF Refs
  <2> QED
    BY <2>2, <2>3
<1>6. ReferencesCounted
  BY <1>5 DEF ReferencesCounted, Refs, Spare
<1> QED
  BY <1>2, <1>3, <1>4, <1>6 DEF IInv, Sound

LEMMA StepIInv == IInv /\ [Next]_vars => IInv'
<1> SUFFICES ASSUME IInv, [Next]_vars PROVE IInv'
  OBVIOUS
<1>1. CASE UNCHANGED vars
  <2>1. UNCHANGED <<files, alive, file, size, mode>>
    BY <1>1 DEF vars
  <2> QED
    BY <2>1, UnmovedMoved, MoveStep
<1>2. CASE Next
  <2>1. PICK p \in Procs : Step(p)
    BY <1>2 DEF Next
  <2>2. p \in alive
    <3>1. \/ \E t \in Std : open_standard_IO(p, t)
          \/ \E i \in Inodes, flags \in Flags, m \in Perms, creat \in BOOLEAN :
               do_regular_file_open(p, i, flags, creat, m)
          \/ (\E child \in Procs : do_fork(p, child)) \/ do_file_exit(p)
          \/ \E fd \in Fds : fd_dup(p, fd) \/ do_close(p, fd)
          \/ \E fd \in Fds, n \in Counts : do_file_read(p, fd, n) \/ do_file_write(p, fd, n)
          \/ \E fd \in Fds, offset \in Offsets, whence \in {"SEEK_SET", "SEEK_CUR"} :
               do_lseek_regular(p, fd, offset, whence)
          \/ \E fd \in Fds, fd2 \in Fds : fd_dup2(p, fd, fd2)
          \/ \E fd \in Fds, fd2 \in Fds, offset \in 0..FILE_SIZE \cup {NULL}, n \in Counts :
               do_sendfile(p, fd, fd2, offset, n)
      BY <2>1 DEF Step
    <3>2. \A t \in Std : open_standard_IO(p, t) => p \in alive
      BY DEF open_standard_IO
    <3>3. \A i \in Inodes, flags \in Flags, m \in Perms, creat \in BOOLEAN :
            do_regular_file_open(p, i, flags, creat, m) => p \in alive
      BY DEF do_regular_file_open
    <3>4. /\ \A child \in Procs : do_fork(p, child) => p \in alive
          /\ do_file_exit(p) => p \in alive
      BY DEF do_fork, do_file_exit
    <3>5. \A fd \in Fds : fd_dup(p, fd) \/ do_close(p, fd) => p \in alive
      BY DEF fd_dup, do_close
    <3>6. \A fd \in Fds, n \in Counts : do_file_read(p, fd, n) \/ do_file_write(p, fd, n) => p \in alive
      BY DEF do_file_read, do_file_write
    <3>7. \A fd \in Fds, offset \in Offsets, whence \in {"SEEK_SET", "SEEK_CUR"} :
            do_lseek_regular(p, fd, offset, whence) => p \in alive
      BY DEF do_lseek_regular
    <3>8. \A fd \in Fds, fd2 \in Fds : fd_dup2(p, fd, fd2) => p \in alive
      BY DEF fd_dup2
    <3>9. \A fd \in Fds, fd2 \in Fds, offset \in 0..FILE_SIZE \cup {NULL}, n \in Counts :
            do_sendfile(p, fd, fd2, offset, n) => p \in alive
      BY DEF do_sendfile
    <3> QED
      BY <3>1, <3>2, <3>3, <3>4, <3>5, <3>6, <3>7, <3>8, <3>9
  <2>3. Counts \subseteq Nat /\ Offsets \subseteq Int
    BY FileTableAssumption DEF Counts, Offsets
  <2>4. ASSUME NEW fd \in Fds,
               \/ \E n \in Counts : do_file_read(p, fd, n) \/ do_file_write(p, fd, n)
               \/ \E offset \in Offsets, whence \in {"SEEK_SET", "SEEK_CUR"} :
                    do_lseek_regular(p, fd, offset, whence)
        PROVE  IInv'
    BY <2>2, <2>3, <2>4, FileReadStep, FileWriteStep, LseekStep
  <2>5. ASSUME NEW fd \in Fds, NEW fd2 \in Fds,
               \/ fd_dup2(p, fd, fd2)
               \/ \E offset \in 0..FILE_SIZE \cup {NULL}, n \in Counts :
                    do_sendfile(p, fd, fd2, offset, n)
        PROVE  IInv'
    BY <2>2, <2>3, <2>5, Dup2Step, SendfileStep
  <2> QED
    BY <2>1, <2>2, <2>4, <2>5, StandardStep, OpenStep, DupStep, CloseStep, ForkStep, ExitStep
       DEF Step
<1> QED
  BY <1>1, <1>2

(* Whatever is shared, replaced by dup2, forked or exited, an object has one *)
(* reference for each descriptor of each process, and is deleted with the    *)
(* last of them (ref_count in file.c).                                       *)
THEOREM ReferencesAreCounted == Spec => []ReferencesCounted
  BY InitIInv, StepIInv, PTL DEF Spec, IInv

(* A position never passes the end of its file (do_lseek_regular, flat_read, *)
(* flat_write), whoever else has the file or the object open.                *)
THEOREM PositionsStayInside == Spec => []PositionsInside
<1>1. IInv => PositionsInside
  BY DEF IInv, Sound, PositionsInside
<1> QED
  BY <1>1, InitIInv, StepIInv, PTL DEF Spec

-------------------------------------------------------------------------------
(* What makes a file grow. *)
GrownBy(i) ==
  /\ size'[i] > size[i] /\ "w" \in mode[i]
  /\ \E o \in Objects : Used(o) /\ file[o].inode = i /\ "w" \in file[o].mode

LEMMA WriteGrows ==
  ASSUME IInv, NEW g, Moved(g), NEW o \in Objects, IsRegular(o), NEW n \in Nat,
         do_write_regular(g, o, n), "w" \in file[o].mode,
         NEW i \in Inodes, size'[i] # size[i]
  PROVE  GrownBy(i)
<1> DEFINE end == g[o].offp + n
<1>1. /\ file[o].inode \in Inodes /\ file[o].mode \subseteq mode[file[o].inode] /\ Used(o)
      /\ size[file[o].inode] \in Nat
  BY RegularFacts, SpareIsFree
<1>2. /\ end \in Nat
      /\ size' = [size EXCEPT ![file[o].inode] =
                    IF size[file[o].inode] >= end THEN size[file[o].inode] ELSE end]
  BY WriteFacts
<1> HIDE DEF end
<1>3. i = file[o].inode /\ size'[i] > size[i]
  BY <1>1, <1>2 DEF IInv, TypeOK
<1> QED
  BY <1>1, <1>3 DEF GrownBy

LEMMA StepGrows ==
  ASSUME IInv, Next, NEW i \in Inodes, size[i] \in Nat, size'[i] # size[i]
  PROVE  GrownBy(i)
<1>1. PICK p \in Procs : Step(p)
  BY DEF Next
<1>2. p \in Procs /\ Counts \subseteq Nat
  BY FileTableAssumption DEF Counts
<1>3. ASSUME NEW fd \in Fds, NEW n \in Counts, do_file_write(p, fd, n)
      PROVE  GrownBy(i)
  <2>1. files[p][fd] \in Objects
    BY <1>3, NamedIsUsed DEF do_file_write
  <2> QED
    BY <1>2, <1>3, <2>1, UnmovedMoved, WriteGrows DEF do_file_write, CanWrite
<1>4. ASSUME NEW outfd \in Fds, NEW infd \in Fds, NEW offset, NEW n \in Counts,
             do_sendfile(p, outfd, infd, offset, n)
      PROVE  GrownBy(i)
  <2> DEFINE out == files[p][outfd]
             read == IF offset = NULL THEN do_read_regular(file, files[p][infd], n) ELSE file
  <2>1. Moved(read)
    BY <1>2, <1>4, SendfileMoved DEF do_sendfile
  <2>2. out # NULL /\ IsRegular(out) /\ CanWrite(read, out) /\ do_write_regular(read, out, n)
    BY <1>4 DEF do_sendfile
  <2>3. out \in Objects
    BY <2>2, NamedIsUsed
  <2> HIDE DEF out, read
  <2>4. "w" \in file[out].mode
    BY <2>1, <2>2, <2>3 DEF Moved, CanWrite
  <2> QED
    BY <1>2, <2>1, <2>2, <2>3, <2>4, WriteGrows
<1>5. ASSUME NEW j \in Inodes, NEW flags, NEW creat, NEW m,
             do_regular_file_open(p, j, flags, creat, m)
      PROVE  FALSE
  BY <1>5 DEF do_regular_file_open, create_inode, Missing, IInv, TypeOK
<1> QED
  BY <1>1, <1>3, <1>4, <1>5 DEF Step, open_standard_IO, do_file_read, do_lseek_regular,
     fd_dup, fd_dup2, do_close, do_fork, do_file_exit

(* An existing file only grows, and only in a call through an object that is *)
(* open for writing, which the permissions of the file allow (do_file_write, *)
(* do_sendfile): no other call reaches the size of a file.                   *)
THEOREM OnlyWritersGrow == Spec => GrowsByWriters
<1>1. IInv /\ [Next]_vars =>
        [\A i \in Inodes : size[i] \in Nat /\ size'[i] # size[i] => GrownBy(i)]_vars
  BY StepGrows
<1> QED
  BY <1>1, InitIInv, StepIInv, PTL DEF Spec, GrowsByWriters, GrownBy

==============================================================================
