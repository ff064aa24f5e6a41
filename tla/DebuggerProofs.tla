--------------------------- MODULE DebuggerProofs ---------------------------
(***************************************************************************)
(* Proofs about the debugger calls: the patched code and the list agree,   *)
(* control is in one place, the shadow stack holds what the child's stack  *)
(* lacks, and the user sees what DebugPromise promises, for any program,   *)
(* any number of breakpoints and any depth.                                *)
(***************************************************************************)
EXTENDS Debugger, WellFoundedInduction, FiniteSetTheorems, SequenceTheorems, TLAPS

Code  == Fns \cup {Main, EndHandler}
Sites == {Site(f) : f \in Code}
Words == Sites \cup {Entry(EndHandler), EndAddr} \cup {Saved(i) : i \in Nat}
Node  == [num : Nat, addr : Fns, end : BOOLEAN]

(* What was reported last is left open here. *)
DebugInfo(d) == [on : BOOLEAN, list : Seq(Node), num : Nat, count : Nat,
                 stack : Seq(Code), return_addr : Seq(Sites),
                 trace : {d.trace}, regs : {d.regs}]

TypeOK ==
  /\ state \in [{"debugger", "child"} -> {"RUNNING", "WAITING", "UNUSED"}]
  /\ dbg \in DebugInfo(dbg)
  /\ code \in [Functions -> {"PUSHRBP", "INT3"}]
  /\ child \in [fn : Code, at : {"none", "entry", "pushed", "body", "exit"}, rbp : Nat]
  /\ mem \in Seq(Words)
  /\ calls \in Nat

(* The child has a stack, which an exit leaves as it is.                     *)
Alive == dbg.on /\ child.at # "none"

(* The child runs exactly while the debugger waits, and lives only under a  *)
(* debugger; a debugger that is not yet one, or no more, keeps nothing.     *)
Control ==
  /\ Running("child") <=> state["debugger"] = "WAITING"
  /\ state["child"] = "UNUSED" <=> child.at \in {"none", "exit"}
  /\ child.at \notin {"none", "exit"} => dbg.on
  /\ dbg.on => state["debugger"] # "UNUSED"
  /\ ~dbg.on => dbg = NoDebug
  /\ ~dbg.on /\ Running("debugger") => \A f \in Functions : code[f] = "PUSHRBP"
  /\ ~dbg.on /\ Running("debugger") => child.at = "none"
  /\ child.at = "none" => dbg.stack = <<>> /\ dbg.return_addr = <<>>
  /\ state["debugger"] = "WAITING" => rax = Done

(* The frames on the stack of the child: a return address and a saved base  *)
(* pointer for each, the last of them missing while a call is under way.    *)
Pointers ==
  Alive =>
    /\ child.rbp >= 2 /\ child.rbp % 2 = 0
    /\ Len(mem) = child.rbp + (CASE child.at \in {"body", "exit"} -> 0
                                 [] child.at = "pushed" -> 2
                                 [] child.at = "entry" -> IF AtEnd THEN 0 ELSE 1)
    /\ \A i \in 1..Depth : 2 * i <= Len(mem) => mem[2 * i] = Saved(2 * (i - 1))
Returns ==
  Alive =>
    /\ mem[1] = EndAddr
    /\ \A i \in 2..Depth : 2 * i - 1 <= Len(mem) =>
         mem[2 * i - 1] \in Sites \cup {Entry(EndHandler)}
    /\ child.at = "entry" => child.fn \in Functions
    /\ child.at = "entry" /\ ~AtEnd => mem[Len(mem)] \in Sites

IInv == /\ TypeOK
        /\ Control
        /\ CodeMatchesList
        /\ Pointers
        /\ Returns
        /\ ShadowIsHidden

-------------------------------------------------------------------------------
(* Facts about numbers and counting. *)

(* A non-empty set of naturals has a least element. *)
LEMMA LeastOf ==
  ASSUME NEW S, S \subseteq Nat, S # {}
  PROVE  \E n \in S : \A m \in S : n <= m
<1> DEFINE Below == {d \in Nat \X Nat : d[1] < d[2]}
<1>1. IsWellFoundedOn(Below, Nat)
  BY NatLessThanWellFounded, Zenon DEF OpToRel
<1>2. \A m, n \in Nat : m < n => <<m, n>> \in Below
  OBVIOUS
<1> HIDE DEF Below
<1>3. PICK n \in S : \A m \in S : ~(<<m, n>> \in Below)
  BY <1>1, WFMin
<1>4. ASSUME NEW m \in S PROVE n <= m
  <2>1. m \in Nat /\ n \in Nat
    BY Zenon
  <2>2. ~(m < n)
    BY <1>2, <1>3, <2>1, Zenon
  <2> QED
    BY <2>1, <2>2, SMT
<1> QED
  BY <1>4

(* Induction, as a fact about a set. *)
LEMMA Inductive ==
  ASSUME NEW S, NEW N \in Nat, 0 \in S, \A n \in 0..(N - 1) : n \in S => n + 1 \in S
  PROVE  0..N \subseteq S
<1> DEFINE Bad == {n \in 0..N : n \notin S}
<1>1. ASSUME Bad # {} PROVE FALSE
  <2>1. Bad \subseteq Nat
    OBVIOUS
  <2> HIDE DEF Bad
  <2>2. PICK n \in Bad : \A m \in Bad : n <= m
    BY <1>1, <2>1, LeastOf
  <2>3. n \in 0..N /\ n \notin S /\ \A m \in 0..N : m \notin S => n <= m
    BY <2>2 DEF Bad
  <2>4. n # 0 /\ n - 1 \in 0..(N - 1)
    BY <2>3
  <2>5. n - 1 \in S
    BY <2>3, <2>4
  <2>6. (n - 1) + 1 \in S
    BY <2>4, <2>5
  <2>7. (n - 1) + 1 = n
    BY <2>3
  <2> QED
    BY <2>3, <2>6, <2>7
<1> QED
  BY <1>1

-------------------------------------------------------------------------------

(* The rank of a place among those of the set H. *)
RankIn(H, n) == Cardinality({j \in 1..n : j \in H})

LEMMA RankFacts ==
  ASSUME NEW H, NEW n \in Nat
  PROVE  /\ RankIn(H, n) \in Nat
         /\ RankIn(H, 0) = 0
         /\ RankIn(H, n + 1) = RankIn(H, n) + (IF n + 1 \in H THEN 1 ELSE 0)
<1> DEFINE R(k) == {j \in 1..k : j \in H}
<1>1. IsFiniteSet(R(n))
  <2>1. IsFiniteSet(1..n) /\ R(n) \in SUBSET (1..n)
    BY FS_Interval
  <2> QED
    BY <2>1, FS_Subset
<1>2. R(0) = {} /\ n + 1 \notin R(n)
  OBVIOUS
<1>3. R(n + 1) = IF n + 1 \in H THEN R(n) \cup {n + 1} ELSE R(n)
  OBVIOUS
<1> HIDE DEF R
<1>4. /\ Cardinality(R(n)) \in Nat
      /\ Cardinality(R(0)) = 0
      /\ Cardinality(R(n + 1)) = Cardinality(R(n)) + (IF n + 1 \in H THEN 1 ELSE 0)
  <2>1. Cardinality(R(n)) \in Nat /\ Cardinality(R(0)) = 0
    BY <1>1, <1>2, FS_CardinalityType, FS_EmptySet
  <2>2. Cardinality(R(n) \cup {n + 1}) = Cardinality(R(n)) + 1
    BY <1>1, <1>2, FS_AddElement
  <2> QED
    BY <1>3, <2>1, <2>2
<1> QED
  BY <1>4 DEF R, RankIn

LEMMA RankMonotone ==
  ASSUME NEW H, NEW n \in Nat, NEW i \in 0..n
  PROVE  /\ RankIn(H, i) \in Nat /\ RankIn(H, n) \in Nat
         /\ RankIn(H, i) <= RankIn(H, n)
<1>1. RankIn(H, i) \in Nat /\ RankIn(H, n) \in Nat
  BY RankFacts
<1>2. IsFiniteSet({j \in 1..n : j \in H})
  <2>1. IsFiniteSet(1..n) /\ {j \in 1..n : j \in H} \in SUBSET (1..n)
    BY FS_Interval
  <2> QED
    BY <2>1, FS_Subset
<1>3. {j \in 1..i : j \in H} \subseteq {j \in 1..n : j \in H}
  OBVIOUS
<1>4. RankIn(H, i) <= RankIn(H, n)
  BY <1>2, <1>3, FS_Subset DEF RankIn
<1> QED
  BY <1>1, <1>4

(* A member outranks everything before it. *)
LEMMA RankStrict ==
  ASSUME NEW H, NEW n \in Nat, NEW i \in 0..n, i < n, n \in H
  PROVE  RankIn(H, i) < RankIn(H, n)
<1>1. n - 1 \in Nat /\ i \in 0..(n - 1) /\ (n - 1) + 1 = n
  OBVIOUS
<1>2. RankIn(H, (n - 1) + 1) = RankIn(H, n - 1) + 1
  BY <1>1, RankFacts
<1>3. RankIn(H, i) \in Nat /\ RankIn(H, n - 1) \in Nat /\ RankIn(H, i) <= RankIn(H, n - 1)
  BY <1>1, RankMonotone
<1> QED
  BY <1>1, <1>2, <1>3

LEMMA RankSame ==
  ASSUME NEW G, NEW H, NEW n, \A j \in 1..n : j \in G <=> j \in H
  PROVE  RankIn(G, n) = RankIn(H, n)
<1>1. {j \in 1..n : j \in G} = {j \in 1..n : j \in H}
  OBVIOUS
<1> QED
  BY <1>1 DEF RankIn

(* Those of the last c numbers up to n. *)
LEMMA RankAbove ==
  ASSUME NEW H, NEW n \in Nat, NEW c \in 0..n
  PROVE  /\ IsFiniteSet({j \in 0..(c - 1) : n - j \in H})
         /\ RankIn(H, n) = RankIn(H, n - c) + Cardinality({j \in 0..(c - 1) : n - j \in H})
<1> DEFINE R(k) == {j \in 0..(k - 1) : n - j \in H}
           S == {k \in 0..n : IsFiniteSet(R(k)) /\ RankIn(H, n) = RankIn(H, n - k) + Cardinality(R(k))}
<1>1. 0 \in S
  <2>1. R(0) = {} /\ n - 0 = n /\ RankIn(H, n) \in Nat
    BY RankFacts
  <2>2. IsFiniteSet(R(0)) /\ Cardinality(R(0)) = 0
    BY <2>1, FS_EmptySet
  <2> QED
    BY <2>1, <2>2
<1>2. ASSUME NEW k \in 0..(n - 1), k \in S PROVE k + 1 \in S
  <2>1. /\ IsFiniteSet(R(k)) /\ RankIn(H, n) = RankIn(H, n - k) + Cardinality(R(k))
    BY <1>2
  <2>2. k \notin R(k) /\ R(k + 1) = IF n - k \in H THEN R(k) \cup {k} ELSE R(k)
    OBVIOUS
  <2> HIDE DEF R
  <2>3. /\ IsFiniteSet(R(k + 1)) /\ Cardinality(R(k)) \in Nat
        /\ Cardinality(R(k + 1)) = Cardinality(R(k)) + (IF n - k \in H THEN 1 ELSE 0)
    BY <2>1, <2>2, FS_AddElement, FS_CardinalityType
  <2>4. /\ n - (k + 1) \in Nat /\ (n - (k + 1)) + 1 = n - k /\ k + 1 \in 0..n
    OBVIOUS
  <2>5. /\ RankIn(H, n - k) = RankIn(H, n - (k + 1)) + (IF n - k \in H THEN 1 ELSE 0)
        /\ RankIn(H, n - (k + 1)) \in Nat
    BY <2>4, RankFacts
  <2>6. RankIn(H, n) = RankIn(H, n - (k + 1)) + Cardinality(R(k + 1))
    BY <2>1, <2>3, <2>5
  <2> QED
    BY <2>3, <2>4, <2>6
<1> HIDE DEF S
<1>3. 0..n \subseteq S
  BY <1>1, <1>2, Inductive
<1> QED
  BY <1>3 DEF S

-------------------------------------------------------------------------------
(* Sequences and words. *)
LEMMA RemoveFacts ==
  ASSUME NEW S, NEW s \in Seq(S), NEW k \in 1..Len(s)
  PROVE  /\ RemoveAt(s, k) \in Seq(S)
         /\ Len(RemoveAt(s, k)) = Len(s) - 1
         /\ \A i \in 1..(Len(s) - 1) : RemoveAt(s, k)[i] = IF i < k THEN s[i] ELSE s[i + 1]
<1> DEFINE before == SubSeq(s, 1, k - 1)
           after  == SubSeq(s, k + 1, Len(s))
<1>1. /\ before \in Seq(S) /\ Len(before) = k - 1
      /\ \A i \in 1..(k - 1) : before[i] = s[i]
  OBVIOUS
<1>2. /\ after \in Seq(S) /\ Len(after) = Len(s) - k
      /\ \A i \in 1..(Len(s) - k) : after[i] = s[k + i]
  OBVIOUS
<1> HIDE DEF before, after
<1>3. /\ before \o after \in Seq(S)
      /\ Len(before \o after) = Len(before) + Len(after)
      /\ \A i \in 1..(Len(before) + Len(after)) :
           (before \o after)[i] = IF i <= Len(before) THEN before[i] ELSE after[i - Len(before)]
  BY <1>1, <1>2, ConcatProperties
<1>4. RemoveAt(s, k) = before \o after
  BY DEF RemoveAt, before, after
<1>5. ASSUME NEW i \in 1..(Len(s) - 1)
      PROVE  (before \o after)[i] = IF i < k THEN s[i] ELSE s[i + 1]
  <2>1. CASE i < k
    BY <1>1, <1>2, <1>3, <2>1
  <2>2. CASE i >= k
    <3>1. /\ Len(s) \in Nat /\ ~(i <= k - 1)
          /\ i - (k - 1) \in 1..(Len(s) - k) /\ k + (i - (k - 1)) = i + 1
      BY <2>2
    <3>2. (before \o after)[i] = after[i - (k - 1)]
      BY <1>1, <1>2, <1>3, <3>1
    <3>3. after[i - (k - 1)] = s[k + (i - (k - 1))]
      BY <1>2, <3>1
    <3> QED
      BY <2>2, <3>1, <3>2, <3>3
  <2>3. k \in Int /\ i \in Int
    OBVIOUS
  <2>4. i < k \/ i >= k
    BY <2>3
  <2> QED
    BY <2>1, <2>2, <2>4
<1> QED
  BY <1>1, <1>2, <1>3, <1>4, <1>5

LEMMA FrontLast ==
  ASSUME NEW S, NEW s \in Seq(S), Len(s) > 0
  PROVE  /\ Last(s) \in S /\ Last(s) = s[Len(s)]
         /\ Front(s) \in Seq(S) /\ Len(Front(s)) = Len(s) - 1
         /\ \A i \in 1..(Len(s) - 1) : Front(s)[i] = s[i]
<1>1. Len(s) \in Nat /\ Last(s) \in S /\ Last(s) = s[Len(s)]
  BY DEF Last
<1>2. /\ SubSeq(s, 1, Len(s) - 1) \in Seq(S)
      /\ Len(SubSeq(s, 1, Len(s) - 1)) = Len(s) - 1
      /\ \A i \in 1..(Len(s) - 1) : SubSeq(s, 1, Len(s) - 1)[i] = s[i]
  <2> DEFINE n == Len(s) - 1
  <2>1. n \in Nat /\ \A i \in 1..n : s[i] \in S
    BY <1>1
  <2> HIDE DEF n
  <2>2. /\ SubSeq(s, 1, n) \in Seq(S) /\ Len(SubSeq(s, 1, n)) = IF 1 <= n THEN n - 1 + 1 ELSE 0
        /\ \A i \in 1..(n - 1 + 1) : SubSeq(s, 1, n)[i] = s[1 + i - 1]
    BY <2>1, SubSeqProperties
  <2>3. Len(SubSeq(s, 1, n)) = n /\ \A i \in 1..n : SubSeq(s, 1, n)[i] = s[i]
    BY <2>1, <2>2
  <2> QED
    BY <2>2, <2>3 DEF n
<1> QED
  BY <1>1, <1>2 DEF Front

LEMMA AppendFacts ==
  ASSUME NEW S, NEW s \in Seq(S), NEW e \in S
  PROVE  /\ Append(s, e) \in Seq(S) /\ Len(Append(s, e)) = Len(s) + 1
         /\ \A i \in 1..Len(s) : Append(s, e)[i] = s[i]
         /\ Append(s, e)[Len(s) + 1] = e
  BY AppendProperties

LEMMA WordFacts ==
  /\ \A f, g : Site(f) # Entry(g) /\ (Site(f) = Site(g) => f = g) /\ Site(f).of = f
  /\ \A f : Site(f) # EndAddr /\ Entry(f) # EndAddr /\ Entry(f).of = f
  /\ \A f : Entry(f).kind = "entry" /\ Site(f).kind = "site"
  /\ \A i, j : (Saved(i) = Saved(j) => i = j) /\ Saved(i).of = i
  /\ \A i, f : Saved(i) # Site(f) /\ Saved(i) # Entry(f) /\ Saved(i) # EndAddr
  BY DEF Site, Entry, Saved, EndAddr

-------------------------------------------------------------------------------
(* The calls of the debugger: the list of breakpoints.                        *)
LEMMA DbgFields ==
  ASSUME TypeOK
  PROVE  /\ dbg.on \in BOOLEAN /\ dbg.list \in Seq(Node) /\ dbg.num \in Nat
         /\ dbg.count \in Nat /\ dbg.stack \in Seq(Code) /\ dbg.return_addr \in Seq(Sites)
  BY DEF TypeOK, DebugInfo

LEMMA ListWritten ==
  ASSUME TypeOK, NEW l \in Seq(Node), NEW n \in Nat, NEW c \in Nat,
         dbg' = [dbg EXCEPT !.num = n, !.count = c, !.list = l]
  PROVE  /\ dbg' \in DebugInfo(dbg')
         /\ dbg'.list = l /\ dbg'.num = n /\ dbg'.count = c
         /\ dbg'.on = dbg.on /\ dbg'.stack = dbg.stack /\ dbg'.return_addr = dbg.return_addr
  BY DEF TypeOK, DebugInfo

LEMMA PlaceFacts ==
  ASSUME NEW f, IsSet(f)
  PROVE  Place(f) \in 1..Len(dbg.list) /\ dbg.list[Place(f)].addr = f
  BY DEF IsSet, Place

LEMMA StackFrame ==
  ASSUME IInv, child' = child, mem' = mem, dbg'.on = dbg.on,
         dbg'.stack = dbg.stack, dbg'.return_addr = dbg.return_addr
  PROVE  Pointers' /\ Returns' /\ ShadowIsHidden'
<1>1. /\ Alive' = Alive /\ AtEnd' = AtEnd /\ Depth' = Depth
      /\ \A i : IsHidden(i)' = IsHidden(i)
  BY DEF Alive, AtEnd, Depth, IsHidden
<1>2. \A i : Rank(i)' = Rank(i)
  BY DEF Rank, IsHidden
<1>3. \A i : ReturnAddr(i)' = ReturnAddr(i)
  BY <1>2 DEF ReturnAddr, IsHidden, Depth, AtEnd
<1>4. \A i : FrameFn(i)' = FrameFn(i)
  BY <1>3 DEF FrameFn, Depth, AtEnd
<1> QED
  BY <1>1, <1>2, <1>4 DEF IInv, Pointers, Returns, ShadowIsHidden, Alive, AtEnd

(* A step that leaves the list and the code. *)
LEMMA ListFrame ==
  ASSUME IInv, code' = code, dbg'.on = dbg.on, dbg'.list = dbg.list, dbg'.num = dbg.num,
         dbg'.count = dbg.count
  PROVE  CodeMatchesList'
  BY DEF IInv, CodeMatchesList, do_info_breakpoints, IsSet

(* A step of the debugger that leaves the child and the shadow stack. *)
LEMMA SaysStep ==
  ASSUME IInv, Running("debugger"), UNCHANGED <<state, childVars>>, dbg.on, dbg'.on,
         dbg'.stack = dbg.stack, dbg'.return_addr = dbg.return_addr,
         dbg' \in DebugInfo(dbg'),
         code' \in [Functions -> {"PUSHRBP", "INT3"}], CodeMatchesList'
  PROVE  IInv'
<1>1. child' = child /\ mem' = mem /\ calls' = calls /\ state' = state
  BY DEF childVars
<1>2. TypeOK'
  BY <1>1 DEF IInv, TypeOK
<1>3. Control'
  BY <1>1 DEF IInv, Control, Running, Alive
<1> QED
  BY <1>1, <1>2, <1>3, StackFrame DEF IInv

LEMMA SameStep ==
  ASSUME IInv, Running("debugger") \/ rax' = rax, UNCHANGED <<state, dbg, code, childVars>>
  PROVE  IInv'
<1>1. child' = child /\ mem' = mem /\ calls' = calls /\ state' = state
  BY DEF childVars
<1>2. TypeOK' /\ Control'
  BY <1>1 DEF IInv, TypeOK, Control, Running, Alive
<1> QED
  BY <1>1, <1>2, StackFrame, ListFrame DEF IInv

LEMMA BecomeStep ==
  ASSUME IInv, do_become_debugger
  PROVE  IInv'
<1>1. /\ state["debugger"] = "RUNNING"
      /\ dbg' = [NoDebug EXCEPT !.on = TRUE]
      /\ code' = [code EXCEPT ![EndHandler] = "INT3"]
      /\ state' = state /\ child' = child /\ mem' = mem /\ calls' = calls
      /\ dbg.list = <<>> /\ dbg.stack = <<>>
  BY DEF do_become_debugger, Says, childVars, Running
<1>2. /\ dbg'.on = TRUE /\ dbg'.list = <<>> /\ dbg'.num = 0 /\ dbg'.count = 0
      /\ dbg'.stack = <<>> /\ dbg'.return_addr = <<>>
  BY <1>1 DEF NoDebug
<1>3. TypeOK'
  <2>1. dbg' \in DebugInfo(dbg')
    <3>1. <<>> \in Seq(Node) /\ <<>> \in Seq(Code) /\ <<>> \in Seq(Sites)
      OBVIOUS
    <3>2. ASSUME NEW t, NEW r, NEW d,
                 d = [on |-> TRUE, list |-> <<>>, num |-> 0, count |-> 0, stack |-> <<>>,
                      return_addr |-> <<>>, trace |-> t, regs |-> r]
          PROVE  d \in DebugInfo(d)
      BY <3>1, <3>2 DEF DebugInfo
    <3>3. dbg' = [on |-> TRUE, list |-> <<>>, num |-> 0, count |-> 0, stack |-> <<>>,
                  return_addr |-> <<>>, trace |-> <<>>, regs |-> NoDebug.regs]
      BY <1>1 DEF NoDebug
    <3> QED
      BY <3>2, <3>3
  <2>2. code' \in [Functions -> {"PUSHRBP", "INT3"}]
    BY <1>1 DEF IInv, TypeOK
  <2> QED
    BY <1>1, <2>1, <2>2 DEF IInv, TypeOK
<1>4. Control'
  BY <1>1, <1>2 DEF IInv, Control, Running
<1>5. CodeMatchesList'
  <2>1. ~dbg.on => \A f \in Functions : code[f] = "PUSHRBP"
    BY <1>1 DEF IInv, Control, Running
  <2>2. dbg.on => \A f \in Functions : code[f] = "INT3" <=> f = EndHandler
    BY <1>1 DEF IInv, CodeMatchesList, IsSet
  <2>3. \A f \in Functions : code'[f] = "INT3" <=> f = EndHandler
    BY <1>1, <2>1, <2>2 DEF IInv, TypeOK, Functions
  <2> QED
    BY <1>2, <2>3, DebuggerAssumption DEF CodeMatchesList, do_info_breakpoints, IsSet
<1>6. CASE ~dbg.on
  <2>1. ~Alive /\ ~Alive'
    BY <1>1, <1>6 DEF IInv, Control, Alive, Running
  <2> QED
    BY <1>3, <1>4, <1>5, <2>1 DEF IInv, Pointers, Returns, ShadowIsHidden, Alive
<1>7. CASE dbg.on
  <2>1. dbg.return_addr = <<>>
    <3>1. CASE child.at = "none"
      BY <3>1 DEF IInv, Control
    <3>2. CASE child.at # "none"
      <4>1. Len(dbg.return_addr) = Len(dbg.stack) /\ Len(dbg.stack) = 0
        BY <1>1, <1>7, <3>2 DEF IInv, ShadowIsHidden
      <4>2. dbg.return_addr \in Seq(Sites)
        BY DbgFields DEF IInv
      <4> QED
        BY <4>1, <4>2
    <3> QED
      BY <3>1, <3>2
  <2>2. Pointers' /\ Returns' /\ ShadowIsHidden'
    BY <1>1, <1>2, <1>7, <2>1, StackFrame
  <2> QED
    BY <1>3, <1>4, <1>5, <2>2 DEF IInv
<1>8. dbg.on \in BOOLEAN
  BY DbgFields DEF IInv
<1> QED
  BY <1>6, <1>7, <1>8

LEMMA SetStep ==
  ASSUME IInv, NEW f \in Fns, NEW flag \in BOOLEAN, do_set_breakpoint(f, flag)
  PROVE  IInv'
<1>0. /\ Running("debugger") /\ dbg \in DebugInfo(dbg) /\ f \in Functions /\ f # EndHandler
      /\ dbg.list \in Seq(Node) /\ dbg.num \in Nat /\ dbg.count \in Nat
      /\ code \in [Functions -> {"PUSHRBP", "INT3"}]
  BY DebuggerAssumption DEF do_set_breakpoint, IInv, TypeOK, DebugInfo, Functions
<1>1. CASE UNCHANGED <<dbg, code>> /\ UNCHANGED <<state, childVars>>
  BY <1>0, <1>1, SameStep
<1>2. CASE /\ IsSet(f)
           /\ dbg' = [dbg EXCEPT !.list[Place(f)].end = flag]
           /\ Says(Done) /\ UNCHANGED code
  <2> DEFINE k == Place(f)
  <2>1. k \in 1..Len(dbg.list) /\ dbg.on /\ k \in DOMAIN dbg.list
    <3>1. k \in 1..Len(dbg.list)
      BY <1>2, PlaceFacts
    <3>2. dbg.on
      <4>1. ~dbg.on => dbg.list = <<>>
        BY DEF IInv, Control, NoDebug
      <4> QED
        BY <3>1, <4>1
    <3> QED
      BY <1>0, <3>1, <3>2
  <2> DEFINE list == [dbg.list EXCEPT ![k].end = flag]
  <2>2. /\ list \in Seq(Node) /\ Len(list) = Len(dbg.list)
        /\ \A i \in 1..Len(dbg.list) : list[i].num = dbg.list[i].num /\ list[i].addr = dbg.list[i].addr
    <3> DEFINE node == [dbg.list[k] EXCEPT !.end = flag]
    <3>1. dbg.list[k] \in Node
      BY <1>0, <2>1
    <3>2. node \in Node /\ node.num = dbg.list[k].num /\ node.addr = dbg.list[k].addr
      BY <3>1 DEF Node
    <3>3. list = [dbg.list EXCEPT ![k] = node]
      OBVIOUS
    <3> HIDE DEF node, list, k
    <3>4. /\ list \in Seq(Node) /\ Len(list) = Len(dbg.list)
          /\ \A i \in 1..Len(dbg.list) : list[i] = IF i = k THEN node ELSE dbg.list[i]
      BY <1>0, <2>1, <3>2, <3>3, ExceptSeq
    <3> QED
      BY <3>2, <3>4
  <2> HIDE DEF k
  <2>3. dbg' = [dbg EXCEPT !.num = dbg.num, !.count = dbg.count, !.list = list]
    BY <1>0, <1>2 DEF k, DebugInfo
  <2> HIDE DEF list
  <2>4. /\ dbg' \in DebugInfo(dbg') /\ dbg'.list = list /\ dbg'.on = dbg.on /\ dbg'.num = dbg.num
        /\ dbg'.count = dbg.count
        /\ dbg'.stack = dbg.stack /\ dbg'.return_addr = dbg.return_addr
    BY <1>0, <2>2, <2>3, ListWritten DEF IInv
  <2>5. CodeMatchesList'
    <3>1. ASSUME NEW g PROVE IsSet(g)' <=> IsSet(g)
      BY <2>2, <2>4 DEF IsSet
    <3>2. CodeMatchesList /\ dbg.on /\ code' = code
      BY <1>2, <2>1 DEF IInv
    <3> QED
      BY <2>2, <2>4, <3>1, <3>2 DEF CodeMatchesList, do_info_breakpoints
  <2> QED
    BY <1>0, <1>2, <2>1, <2>4, <2>5, SaysStep DEF Says
<1>3. CASE /\ dbg.on /\ ~IsSet(f) /\ dbg.count < MaxBreakpoints
           /\ dbg' = [dbg EXCEPT !.num = @ + 1, !.count = @ + 1,
                     !.list = Append(@, [num |-> dbg.num + 1, addr |-> f, end |-> flag])]
           /\ code' = [code EXCEPT ![f] = "INT3"]
           /\ Says(Done)
  <2> DEFINE node == [num |-> dbg.num + 1, addr |-> f, end |-> flag]
             list == Append(dbg.list, node)
             n == Len(dbg.list)
  <2>1. node \in Node /\ node.num = dbg.num + 1 /\ node.addr = f
    BY <1>0 DEF Node
  <2> HIDE DEF node
  <2>2. /\ list \in Seq(Node) /\ Len(list) = n + 1 /\ n \in Nat
        /\ \A i \in 1..n : list[i] = dbg.list[i]
        /\ list[n + 1] = node
    BY <1>0, <2>1, AppendFacts
  <2>3. /\ dbg' = [dbg EXCEPT !.num = dbg.num + 1, !.count = dbg.count + 1, !.list = list]
        /\ dbg.num + 1 \in Nat /\ dbg.count + 1 \in Nat
    BY <1>0, <1>3 DEF node, DebugInfo
  <2> HIDE DEF list
  <2>4. /\ dbg' \in DebugInfo(dbg') /\ dbg'.list = list /\ dbg'.on = dbg.on /\ dbg'.num = dbg.num + 1
        /\ dbg'.count = dbg.count + 1
        /\ dbg'.stack = dbg.stack /\ dbg'.return_addr = dbg.return_addr
    BY <1>0, <2>2, <2>3, ListWritten DEF IInv
  <2>5. CodeMatchesList'
    <3>1. \A g : IsSet(g)' <=> IsSet(g) \/ g = f
      BY <2>1, <2>2, <2>4, SMTT(20) DEF IsSet
    <3>2. \A g \in Functions : code'[g] = "INT3" <=> g = f \/ code[g] = "INT3"
      BY <1>0, <1>3
    <3>3. CodeMatchesList /\ dbg.on /\ MaxBreakpoints \in Nat
      BY <1>3, DebuggerAssumption DEF IInv
    <3>4. \A i \in 1..n : dbg.list[i].num <= dbg.num /\ dbg.list[i].num \in Nat /\ dbg.list[i].addr # f
      <4>1. \A i \in 1..n : dbg.list[i] \in Node
        BY <1>0
      <4>2. \A i \in 1..n : dbg.list[i].num \in Nat
        BY <4>1 DEF Node
      <4> QED
        BY <1>3, <3>3, <4>2 DEF CodeMatchesList, do_info_breakpoints, IsSet
    <3>5. \A i, j \in 1..(n + 1) :
            i < j => list[i].num < list[j].num /\ list[i].addr # list[j].addr
      <4>1. ASSUME NEW i \in 1..(n + 1), NEW j \in 1..(n + 1), i < j
            PROVE  list[i].num < list[j].num /\ list[i].addr # list[j].addr
        <5>1. i \in 1..n
          BY <2>2, <4>1
        <5>2. CASE j \in 1..n
          BY <2>2, <3>3, <4>1, <5>1, <5>2 DEF CodeMatchesList, do_info_breakpoints
        <5>3. CASE j = n + 1
          <6>1. list[i] = dbg.list[i] /\ list[j] = node
            BY <2>2, <5>1, <5>3
          <6>2. dbg.list[i].num < dbg.num + 1 /\ dbg.list[i].addr # f
            BY <1>0, <3>4, <5>1
          <6> QED
            BY <2>1, <6>1, <6>2
        <5> QED
          BY <2>2, <5>2, <5>3
      <4> QED
        BY <4>1
    <3>6. \A i \in 1..(n + 1) : list[i].num <= dbg.num + 1
      <4>1. ASSUME NEW i \in 1..(n + 1) PROVE list[i].num <= dbg.num + 1
        <5>1. CASE i \in 1..n
          <6>1. dbg.list[i].num <= dbg.num /\ dbg.list[i].num \in Nat /\ dbg.num \in Nat
            BY <1>0, <3>4, <5>1
          <6>2. list[i] = dbg.list[i]
            BY <2>2, <5>1
          <6> QED
            BY <6>1, <6>2
        <5>2. CASE i = n + 1
          BY <1>0, <2>1, <2>2, <5>2
        <5> QED
          BY <2>2, <5>1, <5>2
      <4> QED
        BY <4>1
    <3>7. dbg.count + 1 = n + 1 /\ dbg.count + 1 <= MaxBreakpoints
      BY <1>0, <1>3, <3>3 DEF CodeMatchesList, do_info_breakpoints
    <3>8. \A g \in Functions : code'[g] = "INT3" <=> g = EndHandler \/ IsSet(g)'
      BY <3>1, <3>2, <3>3 DEF CodeMatchesList
    <3> QED
      BY <2>2, <2>4, <3>5, <3>6, <3>7, <3>8 DEF CodeMatchesList, do_info_breakpoints
  <2>6. code' \in [Functions -> {"PUSHRBP", "INT3"}]
    BY <1>0, <1>3
  <2> QED
    BY <1>0, <1>3, <2>4, <2>5, <2>6, SaysStep DEF Says
<1> QED
  BY <1>1, <1>2, <1>3 DEF do_set_breakpoint, Refuses, Says

LEMMA RemoveStep ==
  ASSUME IInv, NEW f \in Fns, do_remove_breakpoint(f)
  PROVE  IInv'
<1>0. /\ Running("debugger") /\ dbg \in DebugInfo(dbg) /\ f \in Functions /\ f # EndHandler
      /\ dbg.list \in Seq(Node) /\ dbg.num \in Nat /\ dbg.count \in Nat
      /\ code \in [Functions -> {"PUSHRBP", "INT3"}]
  BY DebuggerAssumption DEF do_remove_breakpoint, IInv, TypeOK, DebugInfo, Functions
<1>1. CASE UNCHANGED <<dbg, code>> /\ UNCHANGED <<state, childVars>>
  BY <1>0, <1>1, SameStep
<1>2. CASE IsSet(f) /\ code' = Restored(f) /\ dbg' = Unlinked(f) /\ Says(Done)
  <2> DEFINE k == Place(f)
             n == Len(dbg.list)
             list == RemoveAt(dbg.list, k)
             Was(i) == IF i < k THEN i ELSE i + 1
  <2>1. k \in 1..n /\ dbg.list[k].addr = f /\ n \in Nat
    BY <1>0, <1>2, PlaceFacts
  <2>2. dbg.on
    <3>1. ~dbg.on => dbg.list = <<>>
      BY DEF IInv, Control, NoDebug
    <3> QED
      BY <2>1, <3>1
  <2>3. dbg' = [dbg EXCEPT !.num = dbg.num, !.count = dbg.count - 1, !.list = list]
    BY <1>0, <1>2 DEF Unlinked, DebugInfo
  <2> HIDE DEF k
  <2>4. /\ list \in Seq(Node) /\ Len(list) = n - 1
        /\ \A i \in 1..(n - 1) : list[i] = IF i < k THEN dbg.list[i] ELSE dbg.list[i + 1]
    BY <1>0, <2>1, RemoveFacts
  <2>5. \A i \in 1..(n - 1) : list[i] = dbg.list[Was(i)] /\ Was(i) \in 1..n /\ Was(i) # k
    BY <2>1, <2>4
  <2>6. \A i \in 1..(n - 1), j \in 1..(n - 1) : i < j => Was(i) < Was(j)
    BY <2>1
  <2>7. \A i \in 1..n : i # k => \E j \in 1..(n - 1) : Was(j) = i
    <3>1. ASSUME NEW i \in 1..n, i # k PROVE \E j \in 1..(n - 1) : Was(j) = i
      <4>1. CASE i < k
        BY <2>1, <4>1
      <4>2. CASE i > k
        <5>1. i - 1 \in 1..(n - 1) /\ Was(i - 1) = i
          BY <2>1, <4>2
        <5> QED
          BY <5>1
      <4> QED
        BY <2>1, <3>1, <4>1, <4>2
    <3> QED
      BY <3>1
  <2>8. /\ CodeMatchesList /\ dbg.count = n
        /\ \A i, j \in 1..n :
             i < j => dbg.list[i].num < dbg.list[j].num /\ dbg.list[i].addr # dbg.list[j].addr
        /\ \A i \in 1..n : dbg.list[i].num <= dbg.num
        /\ n <= MaxBreakpoints /\ MaxBreakpoints \in Nat
    BY <2>2, DebuggerAssumption DEF IInv, CodeMatchesList, do_info_breakpoints
  <2> HIDE DEF list, Was
  <2>9. /\ dbg' \in DebugInfo(dbg') /\ dbg'.list = list /\ dbg'.on = dbg.on /\ dbg'.num = dbg.num
        /\ dbg'.count = n - 1
        /\ dbg'.stack = dbg.stack /\ dbg'.return_addr = dbg.return_addr
    <3>1. dbg.count - 1 = n - 1 /\ n - 1 \in Nat
      BY <2>1, <2>8
    <3> QED
      BY <1>0, <2>3, <2>4, <3>1, ListWritten DEF IInv
  <2>10. \A g : IsSet(g)' <=> IsSet(g) /\ g # f
    <3>1. \A i \in 1..n : i # k => dbg.list[i].addr # f
      <4>1. ASSUME NEW i \in 1..n, i # k PROVE dbg.list[i].addr # f
        <5>1. i < k \/ k < i
          BY <2>1, <4>1
        <5> QED
          BY <2>1, <2>8, <5>1
      <4> QED
        BY <4>1
    <3>2. ASSUME NEW g, IsSet(g)' PROVE IsSet(g) /\ g # f
      <4>1. PICK i \in 1..(n - 1) : list[i].addr = g
        BY <2>4, <2>9, <3>2 DEF IsSet
      <4> QED
        BY <2>5, <3>1, <4>1 DEF IsSet
    <3>3. ASSUME NEW g, IsSet(g), g # f PROVE IsSet(g)'
      <4>1. PICK i \in 1..n : dbg.list[i].addr = g
        BY <3>3 DEF IsSet
      <4>2. i # k
        BY <2>1, <3>3, <4>1
      <4>3. PICK j \in 1..(n - 1) : Was(j) = i
        BY <2>7, <4>2
      <4> QED
        BY <2>4, <2>5, <2>9, <4>1, <4>3 DEF IsSet
    <3> QED
      BY <3>2, <3>3
  <2>11. CodeMatchesList'
    <3>1. \A g \in Functions : code'[g] = IF g = f THEN "PUSHRBP" ELSE code[g]
      BY <1>0, <1>2 DEF Restored
    <3>2. \A g \in Functions : code'[g] = "INT3" <=> g = EndHandler \/ IsSet(g)'
      BY <1>0, <2>2, <2>8, <2>10, <3>1 DEF CodeMatchesList
    <3>3. \A i, j \in 1..(n - 1) :
            i < j => list[i].num < list[j].num /\ list[i].addr # list[j].addr
      <4> SUFFICES ASSUME NEW i \in 1..(n - 1), NEW j \in 1..(n - 1), i < j
                   PROVE  list[i].num < list[j].num /\ list[i].addr # list[j].addr
        OBVIOUS
      <4>1. Was(i) \in 1..n /\ Was(j) \in 1..n /\ Was(i) < Was(j)
        BY <2>5, <2>6
      <4>2. list[i] = dbg.list[Was(i)] /\ list[j] = dbg.list[Was(j)]
        BY <2>5
      <4> QED
        BY <2>8, <4>1, <4>2
    <3>4. \A i \in 1..(n - 1) : list[i].num <= dbg.num
      BY <2>5, <2>8
    <3>5. n - 1 <= MaxBreakpoints
      BY <2>1, <2>8
    <3> QED
      BY <2>4, <2>9, <3>2, <3>3, <3>4, <3>5 DEF CodeMatchesList, do_info_breakpoints
  <2>12. code' \in [Functions -> {"PUSHRBP", "INT3"}]
    BY <1>0, <1>2 DEF Restored
  <2> QED
    BY <1>0, <1>2, <2>2, <2>9, <2>11, <2>12, SaysStep DEF Says
<1> QED
  BY <1>1, <1>2 DEF do_remove_breakpoint, Refuses, Says

-------------------------------------------------------------------------------
(* The stack of the child.                                                    *)
LEMMA Positions ==
  ASSUME IInv, Alive
  PROVE  /\ Depth \in Nat /\ Depth >= 1 /\ Len(mem) \in Nat /\ child.rbp \in Nat
         /\ child.at \in {"body", "exit"} => Len(mem) = 2 * Depth /\ child.rbp = 2 * Depth
         /\ child.at = "pushed" => Len(mem) = 2 * Depth /\ child.rbp = 2 * Depth - 2
         /\ child.at = "entry" /\ ~AtEnd =>
              Len(mem) = 2 * Depth - 1 /\ child.rbp = 2 * Depth - 2 /\ Depth >= 2
         /\ AtEnd => Len(mem) = 2 * Depth - 2 /\ child.rbp = 2 * Depth - 2 /\ Depth >= 2
         /\ child.at \in {"entry", "pushed", "body", "exit"}
<1> DEFINE L == Len(mem)
           R == child.rbp
<1>1. /\ L \in Nat /\ R \in Nat /\ R >= 2 /\ R % 2 = 0
      /\ child.at \in {"entry", "pushed", "body", "exit"}
      /\ child.at \in {"body", "exit"} => L = R
      /\ child.at = "pushed" => L = R + 2
      /\ child.at = "entry" => L = R + (IF AtEnd THEN 0 ELSE 1)
      /\ AtEnd => child.at = "entry"
      /\ Depth = (L + (IF AtEnd THEN 2 ELSE 1)) \div 2
  BY DEF IInv, TypeOK, Pointers, Alive, AtEnd, Depth
<1>2. PICK h \in Nat : R = 2 * h /\ h >= 1
  BY <1>1
<1> HIDE DEF L, R
<1>3. CASE child.at \in {"body", "exit"}
  <2>1. L = 2 * h /\ Depth = (2 * h + 1) \div 2
    BY <1>1, <1>2, <1>3
  <2>2. Depth = h
    BY <1>2, <2>1
  <2> QED
    BY <1>1, <1>2, <1>3, <2>1, <2>2 DEF L, R
<1>4. CASE child.at = "pushed"
  <2>1. L = 2 * h + 2 /\ Depth = (2 * h + 3) \div 2
    BY <1>1, <1>2, <1>4
  <2>2. Depth = h + 1
    BY <1>2, <2>1
  <2> QED
    BY <1>1, <1>2, <1>4, <2>1, <2>2 DEF L, R
<1>5. CASE child.at = "entry" /\ ~AtEnd
  <2>1. L = 2 * h + 1 /\ Depth = (2 * h + 2) \div 2
    BY <1>1, <1>2, <1>5
  <2>2. Depth = h + 1
    BY <1>2, <2>1
  <2> QED
    BY <1>1, <1>2, <1>5, <2>1, <2>2 DEF L, R
<1>6. CASE AtEnd
  <2>1. L = 2 * h /\ Depth = (2 * h + 2) \div 2
    BY <1>1, <1>2, <1>6
  <2>2. Depth = h + 1
    BY <1>2, <2>1
  <2> QED
    BY <1>1, <1>2, <1>6, <2>1, <2>2 DEF L, R
<1> QED
  BY <1>1, <1>3, <1>4, <1>5, <1>6

(* The frames whose return address is replaced, and their ranks. *)
Hid == {i \in Nat \ {0} : IsHidden(i)}

LEMMA RankHid ==
  ASSUME NEW i \in Nat
  PROVE  /\ Rank(i) = RankIn(Hid, i)
         /\ Rank(i)' = RankIn(Hid', i)
<1>1. {j \in 1..i : IsHidden(j)} = {j \in 1..i : j \in Hid}
  BY DEF Hid
<1>2. {j \in 1..i : IsHidden(j)'} = {j \in 1..i : j \in Hid'}
  BY DEF Hid
<1> QED
  BY <1>1, <1>2 DEF Rank, RankIn

LEMMA HidFacts ==
  ASSUME IInv, Alive, NEW i \in Hid
  PROVE  /\ i \in 2..Depth
         /\ AtEnd => i < Depth
         /\ 2 * i - 1 \in 1..Len(mem) /\ mem[2 * i - 1] = Entry(EndHandler)
<1>1. i \in Nat \ {0} /\ 2 * i <= Len(mem) + 1 /\ mem[2 * i - 1] = Entry(EndHandler)
  BY DEF Hid, IsHidden
<1>2. mem[1] = EndAddr /\ EndAddr # Entry(EndHandler)
  BY WordFacts DEF IInv, Returns
<1>3. i # 1
  BY <1>1, <1>2
<1> QED
  BY <1>1, <1>3, Positions

(* The shadow stack, in terms of ranks. *)
LEMMA ShadowFacts ==
  ASSUME IInv, Alive
  PROVE  /\ Len(dbg.stack) = RankIn(Hid, Depth) + (IF AtEnd THEN 1 ELSE 0)
         /\ Len(dbg.return_addr) = Len(dbg.stack)
         /\ \A i \in Hid : /\ dbg.stack[RankIn(Hid, i)] = FrameFn(i)
                           /\ RankIn(Hid, i) \in 1..RankIn(Hid, Depth)
         /\ RankIn(Hid, Depth) \in Nat
         /\ dbg.stack \in Seq(Code) /\ dbg.return_addr \in Seq(Sites)
<1> DEFINE hidden == {i \in 1..Depth : IsHidden(i)}
<1>1. Depth \in Nat
  BY Positions
<1>2. /\ Len(dbg.stack) = Cardinality(hidden) + (IF AtEnd THEN 1 ELSE 0)
      /\ Len(dbg.return_addr) = Len(dbg.stack)
      /\ \A i \in hidden : dbg.stack[Rank(i)] = FrameFn(i)
  BY DEF IInv, ShadowIsHidden, Alive
<1>3. Cardinality(hidden) = RankIn(Hid, Depth)
  BY <1>1, RankHid DEF Rank
<1>4. ASSUME NEW i \in Hid
      PROVE  /\ dbg.stack[RankIn(Hid, i)] = FrameFn(i)
             /\ RankIn(Hid, i) \in 1..RankIn(Hid, Depth)
  <2>1. i \in 2..Depth /\ i \in Nat /\ i \in 0..Depth /\ i \in hidden
    <3>1. i \in 2..Depth
      BY HidFacts
    <3>2. i \in Nat /\ IsHidden(i)
      BY DEF Hid
    <3> QED
      BY <1>1, <3>1, <3>2
  <2>2. Rank(i) = RankIn(Hid, i)
    BY <2>1, RankHid
  <2>3. RankIn(Hid, i) <= RankIn(Hid, Depth) /\ RankIn(Hid, Depth) \in Nat /\ RankIn(Hid, i) \in Nat
    BY <1>1, <2>1, RankMonotone
  <2>4. RankIn(Hid, 0) < RankIn(Hid, i) /\ RankIn(Hid, 0) = 0
    BY <2>1, RankStrict, RankFacts
  <2> QED
    BY <1>2, <2>1, <2>2, <2>3, <2>4
<1> QED
  BY <1>1, <1>2, <1>3, <1>4, RankFacts, DbgFields DEF IInv

LEMMA ShadowNext ==
  ASSUME Alive', Depth' \in Nat,
         Len(dbg'.stack) = RankIn(Hid', Depth') + (IF AtEnd' THEN 1 ELSE 0),
         Len(dbg'.return_addr) = Len(dbg'.stack),
         \A i \in Hid' : dbg'.stack[RankIn(Hid', i)] = FrameFn(i)'
  PROVE  ShadowIsHidden'
<1> DEFINE hidden == {i \in 1..Depth : IsHidden(i)}
<1>1. Cardinality(hidden') = RankIn(Hid', Depth')
  <2>1. hidden' = {j \in 1..Depth' : j \in Hid'}
    BY DEF Hid
  <2> QED
    BY <2>1 DEF RankIn
<1>2. ASSUME NEW i \in hidden' PROVE i \in Hid' /\ Rank(i)' = RankIn(Hid', i)
  <2>1. i \in Nat /\ i \in Hid'
    BY DEF Hid
  <2> QED
    BY <2>1, RankHid
<1>3. \A i \in hidden' : dbg'.stack[Rank(i)'] = FrameFn(i)'
  BY <1>2
<1> QED
  BY <1>1, <1>3 DEF ShadowIsHidden

(* The return address of every frame but main's is a place in a function. *)
LEMMA ReturnFacts ==
  ASSUME IInv, Alive, NEW i \in 2..Depth
  PROVE  ReturnAddr(i) \in Sites
<1>1. Depth \in Nat /\ i \in Nat
  BY Positions
<1>2. CASE IsHidden(i)
  <2>1. i \in Hid
    BY <1>1, <1>2 DEF Hid
  <2>2. RankIn(Hid, i) \in 1..Len(dbg.return_addr) /\ dbg.return_addr \in Seq(Sites)
    BY <2>1, ShadowFacts
  <2>3. ReturnAddr(i) = dbg.return_addr[RankIn(Hid, i)]
    BY <1>1, <1>2, RankHid DEF ReturnAddr
  <2> QED
    BY <2>2, <2>3
<1>3. CASE ~IsHidden(i) /\ i = Depth /\ AtEnd
  <2>1. Len(dbg.return_addr) > 0 /\ dbg.return_addr \in Seq(Sites)
    BY <1>3, ShadowFacts
  <2>2. ReturnAddr(i) = Last(dbg.return_addr)
    BY <1>3 DEF ReturnAddr
  <2> QED
    BY <2>1, <2>2, FrontLast
<1>4. CASE ~IsHidden(i) /\ ~(i = Depth /\ AtEnd)
  <2>1. 2 * i - 1 <= Len(mem) /\ 2 * i <= Len(mem) + 1
    BY <1>1, <1>4, Positions
  <2>2. mem[2 * i - 1] \in Sites \cup {Entry(EndHandler)}
    BY <2>1 DEF IInv, Returns
  <2>3. mem[2 * i - 1] # Entry(EndHandler) /\ ReturnAddr(i) = mem[2 * i - 1]
    BY <1>4, <2>1 DEF IsHidden, ReturnAddr
  <2> QED
    BY <2>2, <2>3
<1> QED
  BY <1>2, <1>3, <1>4

LEMMA FrameType ==
  ASSUME IInv, Alive, NEW i \in 1..Depth
  PROVE  FrameFn(i) \in Code
<1>1. CASE i = Depth
  BY <1>1 DEF FrameFn, IInv, TypeOK
<1>2. CASE i # Depth
  <2>1. i + 1 \in 2..Depth
    BY <1>2, Positions
  <2>2. ReturnAddr(i + 1) \in Sites
    BY <2>1, ReturnFacts
  <2>3. PICK f \in Code : ReturnAddr(i + 1) = Site(f)
    BY <2>2 DEF Sites
  <2> QED
    BY <1>2, <2>3, WordFacts DEF FrameFn
<1> QED
  BY <1>1, <1>2

(* A step that moves the child inside its innermost frame. *)
LEMMA InsideStep ==
  ASSUME IInv, Alive, Alive', ~AtEnd, ~AtEnd', Depth' = Depth, child'.fn = child.fn,
         dbg'.stack = dbg.stack, dbg'.return_addr = dbg.return_addr,
         Len(mem') \in (2 * Depth - 1)..(2 * Depth),
         \A i \in 1..Depth : mem'[2 * i - 1] = mem[2 * i - 1]
  PROVE  /\ ShadowIsHidden'
         /\ Hid' = Hid
         /\ \A i \in 1..Depth : FrameFn(i)' = FrameFn(i)
<1>1. Depth \in Nat /\ Len(mem) \in (2 * Depth - 1)..(2 * Depth)
  <2>1. Depth \in Nat /\ Len(mem) \in Nat
    BY Positions
  <2>2. Len(mem) = 2 * Depth \/ Len(mem) = 2 * Depth - 1
    BY Positions
  <2> QED
    BY <2>1, <2>2
<1>2. \A i \in Nat \ {0} : i <= Depth => IsHidden(i)' = IsHidden(i)
  BY <1>1 DEF IsHidden
<1>3. \A i \in Nat \ {0} : i > Depth => ~IsHidden(i)' /\ ~IsHidden(i)
  BY <1>1 DEF IsHidden
<1>4. Hid' = Hid
  BY <1>1, <1>2, <1>3 DEF Hid
<1>5. ASSUME NEW i \in 2..Depth PROVE ReturnAddr(i)' = ReturnAddr(i)
  <2>1. i \in Nat /\ i \in 1..Depth /\ IsHidden(i)' = IsHidden(i)
    BY <1>1, <1>2
  <2>2. Rank(i)' = Rank(i)
    BY <1>4, <2>1, RankHid
  <2> QED
    BY <2>1, <2>2 DEF ReturnAddr
<1>6. ASSUME NEW i \in 1..Depth PROVE FrameFn(i)' = FrameFn(i)
  <2>1. CASE i = Depth
    BY <2>1 DEF FrameFn
  <2>2. CASE i # Depth
    <3>1. i + 1 \in 2..Depth
      BY <1>1, <2>2
    <3>2. ReturnAddr(i + 1)' = ReturnAddr(i + 1)
      BY <1>5, <3>1
    <3> QED
      BY <2>2, <3>2 DEF FrameFn
  <2> QED
    BY <2>1, <2>2
<1>7. ASSUME NEW i \in Hid' PROVE dbg'.stack[RankIn(Hid', i)] = FrameFn(i)'
  <2>1. i \in 1..Depth
    BY <1>4, HidFacts
  <2> QED
    BY <1>4, <1>6, <2>1, ShadowFacts
<1> QED
  BY <1>1, <1>4, <1>6, <1>7, ShadowFacts, ShadowNext

(* Push %rbp, by the function itself or in place of it by the handler. *)
LEMMA SavedWord == \A i \in Nat : Saved(i) \in Words
  BY DEF Words

LEMMA PushFacts ==
  ASSUME IInv, Alive, child.at = "entry", ~AtEnd, child' = [child EXCEPT !.at = "pushed"],
         mem' = Append(mem, Saved(child.rbp)),
         dbg'.on = dbg.on, dbg'.stack = dbg.stack, dbg'.return_addr = dbg.return_addr
  PROVE  /\ child' \in [fn : Code, at : {"pushed"}, rbp : Nat] /\ mem' \in Seq(Words)
         /\ Alive' /\ Pointers' /\ Returns' /\ ShadowIsHidden'
         /\ ~AtEnd' /\ Depth' = Depth /\ Hid' = Hid
         /\ \A i \in 1..Depth : FrameFn(i)' = FrameFn(i)
<1> DEFINE L == Len(mem)
<1>1. /\ child'.fn = child.fn /\ child'.at = "pushed" /\ child'.rbp = child.rbp
      /\ child' \in [fn : Code, at : {"pushed"}, rbp : Nat]
  BY DEF IInv, TypeOK
<1>2. /\ Depth \in Nat /\ L = 2 * Depth - 1 /\ child.rbp = 2 * Depth - 2 /\ Depth >= 2
      /\ mem \in Seq(Words) /\ child.rbp \in Nat
  BY Positions DEF IInv, TypeOK
<1>3. /\ mem' \in Seq(Words) /\ Len(mem') = L + 1
      /\ \A i \in 1..L : mem'[i] = mem[i]
      /\ mem'[L + 1] = Saved(child.rbp)
  <2>1. PICK w \in Words : w = Saved(child.rbp)
    BY <1>2, SavedWord
  <2>2. mem \in Seq(Words) /\ mem' = Append(mem, w)
    BY <1>2, <2>1
  <2>3. /\ mem' \in Seq(Words) /\ Len(mem') = Len(mem) + 1
        /\ \A i \in 1..Len(mem) : mem'[i] = mem[i]
        /\ mem'[Len(mem) + 1] = w
    BY ONLY <2>2, AppendFacts
  <2> QED
    BY <2>1, <2>3
<1>4. Alive' /\ ~AtEnd'
  BY <1>1 DEF Alive, AtEnd
<1>5. Depth' = Depth
  <2>1. Depth' = (Len(mem') + 1) \div 2
    BY <1>1, <1>4 DEF Depth
  <2>2. Len(mem') = 2 * Depth
    BY <1>2, <1>3
  <2>3. (2 * Depth + 1) \div 2 = Depth
    BY <1>2
  <2> QED
    BY <2>1, <2>2, <2>3
<1>6. \A i \in 1..Depth : mem'[2 * i - 1] = mem[2 * i - 1]
  <2>1. \A i \in 1..Depth : 2 * i - 1 \in 1..L
    BY <1>2
  <2> QED
    BY <1>3, <2>1
<1>7. Pointers'
  <2>1. \A i \in 1..Depth : 2 * i <= L + 1 => mem'[2 * i] = Saved(2 * (i - 1))
    <3>1. ASSUME NEW i \in 1..Depth PROVE mem'[2 * i] = Saved(2 * (i - 1))
      <4>1. CASE i < Depth
        <5>1. 2 * i <= L /\ 2 * i \in 1..L
          BY <1>2, <4>1
        <5>2. mem[2 * i] = Saved(2 * (i - 1))
          BY <5>1 DEF IInv, Pointers
        <5> QED
          BY <1>3, <5>1, <5>2
      <4>2. CASE i = Depth
        <5>1. 2 * i = L + 1 /\ 2 * (i - 1) = child.rbp
          BY <1>2, <4>2
        <5> QED
          BY <1>3, <5>1
      <4> QED
        BY <1>2, <4>1, <4>2
    <3> QED
      BY <3>1
  <2>2. child.rbp >= 2 /\ child.rbp % 2 = 0
    BY DEF IInv, Pointers
  <2>3. L + 1 = child.rbp + 2
    BY <1>2
  <2> QED
    BY <1>1, <1>3, <1>5, <2>1, <2>2, <2>3 DEF Pointers
<1>8. Returns'
  <2>1. mem[1] = EndAddr /\ 1 \in 1..L
    BY <1>2 DEF IInv, Returns
  <2>2. ASSUME NEW i \in 2..Depth
        PROVE  mem'[2 * i - 1] \in Sites \cup {Entry(EndHandler)}
    <3>1. 2 * i - 1 <= L /\ i \in 1..Depth
      BY <1>2
    <3> QED
      BY <1>6, <3>1 DEF IInv, Returns
  <2> QED
    BY <1>1, <1>3, <1>5, <2>1, <2>2 DEF Returns
<1>9. Len(mem') \in (2 * Depth - 1)..(2 * Depth)
  BY <1>2, <1>3
<1> QED
  BY <1>1, <1>3, <1>4, <1>5, <1>6, <1>7, <1>8, <1>9, InsideStep

(* mov %rsp, %rbp *)
LEMMA BaseFacts ==
  ASSUME IInv, Alive, child.at = "pushed",
         child' = [child EXCEPT !.at = "body", !.rbp = Len(mem)], mem' = mem,
         dbg'.on = dbg.on, dbg'.stack = dbg.stack, dbg'.return_addr = dbg.return_addr
  PROVE  /\ child' \in [fn : Code, at : {"body"}, rbp : Nat]
         /\ Alive' /\ Pointers' /\ Returns' /\ ShadowIsHidden'
         /\ ~AtEnd /\ ~AtEnd' /\ Depth' = Depth /\ Hid' = Hid
         /\ \A i \in 1..Depth : FrameFn(i)' = FrameFn(i)
<1>1. /\ child'.fn = child.fn /\ child'.at = "body" /\ child'.rbp = Len(mem)
      /\ child' \in [fn : Code, at : {"body"}, rbp : Nat]
  BY Positions DEF IInv, TypeOK
<1>2. /\ Depth \in Nat /\ Len(mem) = 2 * Depth /\ child.rbp = 2 * Depth - 2 /\ Depth >= 1
  BY Positions
<1>3. Alive' /\ ~AtEnd /\ ~AtEnd'
  BY <1>1 DEF Alive, AtEnd
<1>4. Depth' = Depth
  BY <1>1, <1>3 DEF Depth
<1>5. Pointers'
  <2>1. Len(mem) >= 2 /\ Len(mem) % 2 = 0
    BY <1>2
  <2> QED
    BY <1>1, <1>4, <2>1 DEF IInv, Pointers
<1>6. Returns'
  BY <1>1, <1>4 DEF IInv, Returns
<1>7. Len(mem') \in (2 * Depth - 1)..(2 * Depth)
  BY <1>2
<1> QED
  BY <1>1, <1>3, <1>4, <1>5, <1>6, <1>7, InsideStep

(* A call. *)
LEMMA CallFacts ==
  ASSUME IInv, Alive, child.at = "body", NEW f \in Fns, NEW n, n = Depth + 1,
         child' = [child EXCEPT !.fn = f, !.at = "entry"],
         mem' = Append(mem, Site(child.fn)),
         dbg'.on = dbg.on, dbg'.stack = dbg.stack, dbg'.return_addr = dbg.return_addr
  PROVE  /\ child' \in [fn : Code, at : {"entry"}, rbp : Nat] /\ mem' \in Seq(Words)
         /\ Alive' /\ Pointers' /\ Returns' /\ ShadowIsHidden'
         /\ ~AtEnd /\ ~AtEnd' /\ Depth' = Depth + 1 /\ Hid' = Hid
         /\ \A i \in 1..Depth : FrameFn(i)' = FrameFn(i)
         /\ FrameFn(n)' = f
<1> DEFINE L == Len(mem)
<1>1. /\ child'.fn = f /\ child'.at = "entry" /\ child'.rbp = child.rbp
      /\ child' \in [fn : Code, at : {"entry"}, rbp : Nat]
  BY DEF IInv, TypeOK, Code
<1>2. /\ Depth \in Nat /\ L = 2 * Depth /\ child.rbp = 2 * Depth /\ Depth >= 1
      /\ mem \in Seq(Words) /\ child.fn \in Code
  BY Positions DEF IInv, TypeOK
<1>3. /\ mem' \in Seq(Words) /\ Len(mem') = L + 1
      /\ \A i \in 1..L : mem'[i] = mem[i]
      /\ mem'[L + 1] = Site(child.fn) /\ Site(child.fn) \in Sites
  <2>1. Site(child.fn) \in Sites /\ Site(child.fn) \in Words
    BY <1>2 DEF Sites, Words
  <2> QED
    BY <1>2, <2>1, AppendFacts
<1>4. Alive' /\ ~AtEnd /\ ~AtEnd'
  BY <1>1, DebuggerAssumption DEF Alive, AtEnd
<1>5. Depth' = Depth + 1
  <2>1. Depth' = (Len(mem') + 1) \div 2
    BY <1>1, <1>4 DEF Depth
  <2>2. Len(mem') = 2 * Depth + 1
    BY <1>2, <1>3
  <2>3. (2 * Depth + 1 + 1) \div 2 = Depth + 1
    BY <1>2
  <2> QED
    BY <2>1, <2>2, <2>3
<1>6. ASSUME NEW i \in 1..Depth
      PROVE  /\ 2 * i - 1 \in 1..L /\ 2 * i \in 1..L
             /\ mem'[2 * i - 1] = mem[2 * i - 1] /\ mem'[2 * i] = mem[2 * i]
  <2>1. 2 * i - 1 \in 1..L /\ 2 * i \in 1..L
    BY <1>2
  <2> QED
    BY <1>3, <2>1
<1>7. Pointers'
  <2>1. ASSUME NEW i \in 1..(Depth + 1), 2 * i <= L + 1 PROVE mem'[2 * i] = Saved(2 * (i - 1))
    <3>1. i \in 1..Depth /\ 2 * i <= L
      BY <1>2, <2>1
    <3> QED
      BY <1>6, <3>1 DEF IInv, Pointers
  <2>2. child.rbp >= 2 /\ child.rbp % 2 = 0 /\ L + 1 = child.rbp + 1
    BY <1>2 DEF IInv, Pointers
  <2> QED
    BY <1>1, <1>3, <1>4, <1>5, <2>1, <2>2 DEF Pointers
<1>8. Returns'
  <2>1. mem[1] = EndAddr /\ 1 \in 1..L
    BY <1>2 DEF IInv, Returns
  <2>2. ASSUME NEW i \in 2..(Depth + 1)
        PROVE  mem'[2 * i - 1] \in Sites \cup {Entry(EndHandler)}
    <3>1. CASE i \in 2..Depth
      <4>1. 2 * i - 1 <= L /\ i \in 1..Depth
        BY <1>2, <3>1
      <4> QED
        BY <1>6, <3>1, <4>1 DEF IInv, Returns
    <3>2. CASE i = Depth + 1
      <4>1. 2 * i - 1 = L + 1
        BY <1>2, <3>2
      <4> QED
        BY <1>3, <4>1
    <3> QED
      BY <1>2, <3>1, <3>2
  <2>3. mem'[Len(mem')] \in Sites
    BY <1>3
  <2> QED
    BY <1>1, <1>3, <1>5, <2>1, <2>2, <2>3 DEF Returns, Functions
<1>9. Hid' = Hid
  <2>1. ASSUME NEW i \in Nat \ {0} PROVE IsHidden(i)' <=> IsHidden(i)
    <3>1. CASE i \in 1..Depth
      <4>1. mem'[2 * i - 1] = mem[2 * i - 1] /\ 2 * i \in 1..L
        BY <1>6, <3>1
      <4>2. 2 * i <= L + 1 /\ 2 * i <= L + 1 + 1
        BY <1>2, <4>1
      <4>3. 2 * i <= Len(mem) + 1 /\ 2 * i <= Len(mem') + 1
        BY <1>3, <4>2
      <4> QED
        BY <4>1, <4>3 DEF IsHidden
    <3>2. CASE i = Depth + 1
      <4>1. 2 * i - 1 = L + 1 /\ ~(2 * i <= L + 1)
        BY <1>2, <3>2
      <4>2. mem'[2 * i - 1] # Entry(EndHandler)
        BY <1>3, <4>1, WordFacts
      <4> QED
        BY <4>1, <4>2 DEF IsHidden
    <3>3. CASE i > Depth + 1
      <4>1. ~(2 * i <= L + 1) /\ ~(2 * i <= L + 1 + 1)
        BY <1>2, <3>3
      <4> QED
        BY <1>3, <4>1 DEF IsHidden
    <3> QED
      BY <1>2, <3>1, <3>2, <3>3
  <2> QED
    BY <2>1 DEF Hid
<1>10. ASSUME NEW i \in 2..Depth PROVE ReturnAddr(i)' = ReturnAddr(i)
  <2>1. i \in Nat /\ i \in 1..Depth /\ (IsHidden(i)' <=> IsHidden(i))
    BY <1>2, <1>9 DEF Hid
  <2>2. Rank(i)' = Rank(i)
    BY <1>9, <2>1, RankHid
  <2> QED
    BY <1>4, <1>6, <2>1, <2>2 DEF ReturnAddr
<1>11. ReturnAddr(n)' = Site(child.fn)
  <2>1. n \in Nat \ {0} /\ n \notin Hid
    BY <1>2, HidFacts
  <2>2. ~IsHidden(n)'
    BY <1>9, <2>1 DEF Hid
  <2>3. 2 * n - 1 = L + 1
    BY <1>2
  <2> QED
    BY <1>3, <1>4, <2>2, <2>3 DEF ReturnAddr
<1>12. ASSUME NEW i \in 1..Depth PROVE FrameFn(i)' = FrameFn(i)
  <2>1. CASE i = Depth
    <3>1. i # Depth' /\ i + 1 = n
      BY <1>2, <1>5, <2>1
    <3>2. FrameFn(i)' = Site(child.fn).of
      BY <1>11, <3>1 DEF FrameFn
    <3> QED
      BY <2>1, <3>2, WordFacts DEF FrameFn
  <2>2. CASE i # Depth
    <3>1. i + 1 \in 2..Depth /\ i # Depth'
      BY <1>2, <1>5, <2>2
    <3> QED
      BY <1>10, <2>2, <3>1 DEF FrameFn
  <2> QED
    BY <2>1, <2>2
<1>13. FrameFn(n)' = f
  BY <1>1, <1>5 DEF FrameFn
<1>14. ShadowIsHidden'
  <2>1. RankIn(Hid, Depth + 1) = RankIn(Hid, Depth)
    <3>1. Depth + 1 \notin Hid
      BY <1>2, HidFacts
    <3> QED
      BY <1>2, <3>1, RankFacts
  <2>2. ASSUME NEW i \in Hid' PROVE dbg'.stack[RankIn(Hid', i)] = FrameFn(i)'
    <3>1. i \in 1..Depth
      BY <1>9, HidFacts
    <3> QED
      BY <1>9, <1>12, <3>1, ShadowFacts
  <2> QED
    BY <1>2, <1>4, <1>5, <1>9, <2>1, <2>2, ShadowFacts, ShadowNext
<1> QED
  BY <1>1, <1>3, <1>4, <1>5, <1>7, <1>8, <1>9, <1>12, <1>13, <1>14

(* leave; ret: what both ways of returning share. *)
Returned ==
  /\ child' = [fn |-> mem[child.rbp - 1].of, rbp |-> mem[child.rbp].of,
               at |-> IF mem[child.rbp - 1].kind = "entry" THEN "entry" ELSE "body"]
  /\ mem' = SubSeq(mem, 1, child.rbp - 2)

LEMMA PopFacts ==
  ASSUME IInv, Alive, child.at = "body", mem[child.rbp - 1] # EndAddr, Returned
  PROVE  /\ Depth \in Nat /\ Depth >= 2 /\ Len(mem) = 2 * Depth
         /\ mem[child.rbp - 1] = mem[2 * Depth - 1] /\ child'.rbp = 2 * Depth - 2
         /\ mem[2 * Depth - 1] \in Sites \cup {Entry(EndHandler)}
         /\ mem' \in Seq(Words) /\ Len(mem') = 2 * Depth - 2
         /\ \A i \in 1..(2 * Depth - 2) : mem'[i] = mem[i]
         /\ ~AtEnd
<1>1. /\ Depth \in Nat /\ Len(mem) = 2 * Depth /\ child.rbp = 2 * Depth /\ Depth >= 1
      /\ mem \in Seq(Words) /\ ~AtEnd
  BY Positions DEF IInv, TypeOK, AtEnd
<1>2. mem[1] = EndAddr
  BY DEF IInv, Returns
<1>3. Depth >= 2
  BY <1>1, <1>2
<1>4. mem[2 * Depth - 1] \in Sites \cup {Entry(EndHandler)}
  <2>1. Depth \in 2..Depth /\ 2 * Depth - 1 <= Len(mem)
    BY <1>1, <1>3
  <2> QED
    BY <2>1 DEF IInv, Returns
<1>5. mem[2 * Depth] = Saved(2 * (Depth - 1))
  <2>1. Depth \in 1..Depth /\ 2 * Depth <= Len(mem)
    BY <1>1, <1>3
  <2> QED
    BY <2>1 DEF IInv, Pointers
<1>6. child'.rbp = 2 * Depth - 2
  <2>1. child'.rbp = mem[2 * Depth].of
    BY <1>1 DEF Returned
  <2> QED
    BY <1>1, <1>5, <2>1, WordFacts
<1>7. /\ mem' \in Seq(Words) /\ Len(mem') = 2 * Depth - 2
      /\ \A i \in 1..(2 * Depth - 2) : mem'[i] = mem[i]
  <2> DEFINE n == 2 * Depth - 2
  <2>1. n \in Nat /\ n >= 1 /\ n <= Len(mem)
    BY <1>1, <1>3
  <2>2. mem' = SubSeq(mem, 1, n)
    BY <1>1 DEF Returned
  <2> HIDE DEF n
  <2>3. \A i \in 1..n : mem[i] \in Words
    BY <1>1, <2>1
  <2>4. /\ SubSeq(mem, 1, n) \in Seq(Words) /\ Len(SubSeq(mem, 1, n)) = IF 1 <= n THEN n - 1 + 1 ELSE 0
        /\ \A i \in 1..(n - 1 + 1) : SubSeq(mem, 1, n)[i] = mem[1 + i - 1]
    BY <2>1, <2>3, SubSeqProperties
  <2>5. Len(mem') = n /\ \A i \in 1..n : mem'[i] = mem[i]
    BY <2>1, <2>2, <2>4
  <2> QED
    BY <2>2, <2>4, <2>5 DEF n
<1> QED
  BY <1>1, <1>3, <1>4, <1>6, <1>7

(* The caller's frame and those outside it are as they were. *)
LEMMA OuterFrames ==
  ASSUME IInv, Alive, child.at = "body", mem[child.rbp - 1] # EndAddr, Returned,
         Depth' \in {Depth, Depth - 1}, Alive', child'.at \in {"body", "entry"},
         child'.at = "body" => ~AtEnd', child'.at = "entry" => AtEnd'
  PROVE  Pointers' /\ Returns'
<1>1. /\ Depth \in Nat /\ Depth >= 2 /\ Len(mem) = 2 * Depth /\ child'.rbp = 2 * Depth - 2
      /\ Len(mem') = 2 * Depth - 2 /\ \A i \in 1..(2 * Depth - 2) : mem'[i] = mem[i]
  BY PopFacts
<1>2. ASSUME NEW i \in 1..Depth, 2 * i <= 2 * Depth - 2
      PROVE  mem'[2 * i] = Saved(2 * (i - 1))
  <2>1. 2 * i \in 1..(2 * Depth - 2) /\ 2 * i <= Len(mem)
    BY <1>1, <1>2
  <2> QED
    BY <1>1, <2>1 DEF IInv, Pointers
<1>3. ASSUME NEW i \in 2..Depth, 2 * i - 1 <= 2 * Depth - 2
      PROVE  mem'[2 * i - 1] \in Sites \cup {Entry(EndHandler)}
  <2>1. 2 * i - 1 \in 1..(2 * Depth - 2) /\ 2 * i - 1 <= Len(mem)
    BY <1>1, <1>3
  <2> QED
    BY <1>1, <2>1 DEF IInv, Returns
<1>4. mem'[1] = EndAddr
  <2>1. 1 \in 1..(2 * Depth - 2)
    BY <1>1
  <2> QED
    BY <1>1, <2>1 DEF IInv, Returns
<1>5. \A i : i \in 1..Depth' => i \in 1..Depth
  BY <1>1
<1>6. Pointers'
  <2>1. (2 * Depth - 2) % 2 = 0 /\ 2 * Depth - 2 >= 2
    BY <1>1
  <2>2. \A i \in 1..Depth' : 2 * i <= 2 * Depth - 2 => mem'[2 * i] = Saved(2 * (i - 1))
    BY <1>2, <1>5
  <2>3. Len(mem') = child'.rbp + 0
    BY <1>1
  <2> QED
    BY <1>1, <2>1, <2>2, <2>3 DEF Pointers
<1>7. Returns'
  <2>1. \A i \in 2..Depth' : i \in 2..Depth
    BY <1>1
  <2>2. \A i \in 2..Depth' : 2 * i - 1 <= 2 * Depth - 2 =>
          mem'[2 * i - 1] \in Sites \cup {Entry(EndHandler)}
    BY <1>3, <2>1
  <2> QED
    BY <1>1, <1>4, <2>2 DEF Returns, AtEnd, Functions
<1> QED
  BY <1>6, <1>7

LEMMA PlainReturn ==
  ASSUME IInv, Alive, child.at = "body", mem[child.rbp - 1] # EndAddr, Returned,
         Depth \notin Hid,
         dbg'.on = dbg.on, dbg'.stack = dbg.stack, dbg'.return_addr = dbg.return_addr
  PROVE  /\ child' \in [fn : Code, at : {"body"}, rbp : Nat] /\ mem' \in Seq(Words)
         /\ Alive' /\ Pointers' /\ Returns' /\ ShadowIsHidden'
         /\ ~AtEnd /\ ~AtEnd' /\ Depth > 1 /\ Depth' = Depth - 1 /\ Hid' = Hid
         /\ \A i \in 1..(Depth - 1) : FrameFn(i)' = FrameFn(i)
<1>1. /\ Depth \in Nat /\ Depth >= 2 /\ Len(mem) = 2 * Depth
      /\ mem[child.rbp - 1] = mem[2 * Depth - 1] /\ child'.rbp = 2 * Depth - 2
      /\ mem[2 * Depth - 1] \in Sites \cup {Entry(EndHandler)}
      /\ mem' \in Seq(Words) /\ Len(mem') = 2 * Depth - 2
      /\ \A i \in 1..(2 * Depth - 2) : mem'[i] = mem[i]
      /\ ~AtEnd
  BY PopFacts
<1>2. mem[2 * Depth - 1] # Entry(EndHandler)
  <2>1. 2 * Depth <= Len(mem) + 1 /\ Depth \in Nat \ {0}
    BY <1>1
  <2> QED
    BY <2>1 DEF Hid, IsHidden
<1>3. PICK g \in Code : mem[2 * Depth - 1] = Site(g)
  BY <1>1, <1>2 DEF Sites
<1>4. child'.fn = g /\ child'.at = "body" /\ child' \in [fn : Code, at : {"body"}, rbp : Nat]
  <2>1. Site(g).of = g /\ Site(g).kind # "entry"
    BY WordFacts
  <2>2. child' = [fn |-> g, rbp |-> child'.rbp, at |-> "body"] /\ child'.rbp \in Nat
    BY <1>1, <1>3, <2>1 DEF Returned
  <2> QED
    BY <2>2
<1>5. Alive' /\ ~AtEnd'
  BY <1>4 DEF Alive, AtEnd
<1>6. Depth' = Depth - 1
  <2>1. Depth' = (Len(mem') + 1) \div 2
    BY <1>4, <1>5 DEF Depth
  <2>2. (2 * Depth - 2 + 1) \div 2 = Depth - 1
    BY <1>1
  <2> QED
    BY <1>1, <2>1, <2>2
<1>7. Pointers' /\ Returns'
  BY <1>4, <1>5, <1>6, OuterFrames
<1>8. ASSUME NEW i \in 1..(Depth - 1) PROVE mem'[2 * i - 1] = mem[2 * i - 1]
  <2>1. 2 * i - 1 \in 1..(2 * Depth - 2)
    BY <1>1
  <2> QED
    BY <1>1, <2>1
<1>9. Hid' = Hid
  <2>1. ASSUME NEW i \in Nat \ {0} PROVE i \in Hid' <=> i \in Hid
    <3>1. CASE i \in 1..(Depth - 1)
      <4>1. 2 * i <= 2 * Depth - 2 + 1 /\ 2 * i <= 2 * Depth + 1
        BY <1>1, <3>1
      <4> QED
        BY <1>1, <1>8, <3>1, <4>1 DEF Hid, IsHidden
    <3>2. CASE i >= Depth
      <4>1. ~(2 * i <= 2 * Depth - 2 + 1)
        BY <1>1, <3>2
      <4>2. i \notin Hid'
        BY <1>1, <4>1 DEF Hid, IsHidden
      <4>3. i \in Hid => i = Depth
        BY <1>1, <3>2, HidFacts
      <4> QED
        BY <4>2, <4>3
    <3> QED
      BY <1>1, <3>1, <3>2
  <2> QED
    BY <2>1 DEF Hid
<1>10. ASSUME NEW i \in 1..(Depth - 1) PROVE ReturnAddr(i)' = ReturnAddr(i)
  <2>1. i \in Nat /\ i # Depth /\ (IsHidden(i)' <=> IsHidden(i))
    <3>1. i \in Nat \ {0} /\ i # Depth
      BY <1>1
    <3>2. i \in Hid' <=> i \in Hid
      BY <1>9
    <3> QED
      BY <3>1, <3>2 DEF Hid
  <2>2. Rank(i)' = Rank(i)
    BY <1>9, <2>1, RankHid
  <2> QED
    BY <1>5, <1>8, <2>1, <2>2 DEF ReturnAddr
<1>11. ASSUME NEW i \in 1..(Depth - 1) PROVE FrameFn(i)' = FrameFn(i)
  <2>1. CASE i = Depth - 1
    <3>1. i + 1 = Depth /\ i = Depth' /\ i # Depth
      BY <1>1, <1>6, <2>1
    <3>2. ReturnAddr(Depth) = mem[2 * Depth - 1]
      <4>1. ~IsHidden(Depth)
        BY <1>1 DEF Hid
      <4> QED
        BY <1>1, <4>1 DEF ReturnAddr
    <3>3. FrameFn(i) = g
      BY <1>3, <3>1, <3>2, WordFacts DEF FrameFn
    <3> QED
      BY <1>4, <3>1, <3>3 DEF FrameFn
  <2>2. CASE i # Depth - 1
    <3>1. i + 1 \in 1..(Depth - 1) /\ i # Depth' /\ i # Depth
      BY <1>1, <1>6, <2>2
    <3> QED
      BY <1>10, <3>1 DEF FrameFn
  <2> QED
    BY <2>1, <2>2
<1>12. ShadowIsHidden'
  <2>1. RankIn(Hid, Depth) = RankIn(Hid, Depth - 1)
    <3>1. Depth - 1 \in Nat /\ (Depth - 1) + 1 = Depth
      BY <1>1
    <3>2. RankIn(Hid, (Depth - 1) + 1) = RankIn(Hid, Depth - 1) + 0 /\ RankIn(Hid, Depth - 1) \in Nat
      BY <3>1, RankFacts
    <3> QED
      BY <3>1, <3>2
  <2>2. ASSUME NEW i \in Hid' PROVE dbg'.stack[RankIn(Hid', i)] = FrameFn(i)'
    <3>1. i \in 1..(Depth - 1)
      <4>1. i \in 2..Depth /\ i # Depth
        BY <1>9, HidFacts
      <4> QED
        BY <1>1, <4>1
    <3> QED
      BY <1>9, <1>11, <3>1, ShadowFacts
  <2>3. Depth - 1 \in Nat
    BY <1>1
  <2> QED
    BY <1>1, <1>5, <1>6, <1>9, <2>1, <2>2, <2>3, ShadowFacts, ShadowNext
<1> QED
  BY <1>1, <1>4, <1>5, <1>6, <1>7, <1>9, <1>11, <1>12

(* A return into the end handler: the place in the caller is in the shadow. *)
LEMMA HiddenReturn ==
  ASSUME IInv, Alive, child.at = "body", mem[child.rbp - 1] # EndAddr, Returned,
         NEW d \in Hid, d = Depth,
         dbg'.on = dbg.on, dbg'.stack = dbg.stack, dbg'.return_addr = dbg.return_addr
  PROVE  /\ child' \in [fn : Code, at : {"entry"}, rbp : Nat] /\ mem' \in Seq(Words)
         /\ Alive' /\ Pointers' /\ Returns' /\ ShadowIsHidden'
         /\ ~AtEnd /\ AtEnd' /\ Depth' = Depth /\ Hid' = Hid \ {d}
         /\ \A i \in 1..(Depth - 1) : FrameFn(i)' = FrameFn(i)
         /\ FrameFn(d)' = EndHandler
<1>1. /\ Depth \in Nat /\ Depth >= 2 /\ Len(mem) = 2 * Depth
      /\ mem[child.rbp - 1] = mem[2 * Depth - 1] /\ child'.rbp = 2 * Depth - 2
      /\ mem' \in Seq(Words) /\ Len(mem') = 2 * Depth - 2
      /\ \A i \in 1..(2 * Depth - 2) : mem'[i] = mem[i]
      /\ ~AtEnd
  BY PopFacts
<1>2. mem[2 * Depth - 1] = Entry(EndHandler)
  BY HidFacts
<1>4. child'.fn = EndHandler /\ child'.at = "entry" /\ child' \in [fn : Code, at : {"entry"}, rbp : Nat]
  <2>1. Entry(EndHandler).of = EndHandler /\ Entry(EndHandler).kind = "entry"
    BY WordFacts
  <2>2. child' = [fn |-> EndHandler, rbp |-> child'.rbp, at |-> "entry"] /\ child'.rbp \in Nat
    BY <1>1, <1>2, <2>1 DEF Returned
  <2> QED
    BY <2>2 DEF Code
<1>5. Alive' /\ AtEnd'
  BY <1>4 DEF Alive, AtEnd
<1>6. Depth' = Depth
  <2>1. Depth' = (Len(mem') + 2) \div 2
    BY <1>4, <1>5 DEF Depth
  <2>2. (2 * Depth - 2 + 2) \div 2 = Depth
    BY <1>1
  <2> QED
    BY <1>1, <2>1, <2>2
<1>7. Pointers' /\ Returns'
  BY <1>4, <1>5, <1>6, OuterFrames
<1>8. ASSUME NEW i \in 1..(Depth - 1) PROVE mem'[2 * i - 1] = mem[2 * i - 1]
  <2>1. 2 * i - 1 \in 1..(2 * Depth - 2)
    BY <1>1
  <2> QED
    BY <1>1, <2>1
<1>9. Hid' = Hid \ {d}
  <2>1. ASSUME NEW i \in Nat \ {0} PROVE i \in Hid' <=> i \in Hid /\ i # d
    <3>1. CASE i \in 1..(Depth - 1)
      <4>1. 2 * i <= 2 * Depth - 2 + 1 /\ 2 * i <= 2 * Depth + 1 /\ i # d
        BY <1>1, <3>1
      <4> QED
        BY <1>1, <1>8, <3>1, <4>1 DEF Hid, IsHidden
    <3>2. CASE i >= Depth
      <4>1. ~(2 * i <= 2 * Depth - 2 + 1)
        BY <1>1, <3>2
      <4>2. i \notin Hid'
        BY <1>1, <4>1 DEF Hid, IsHidden
      <4>3. i \in Hid => i = Depth
        BY <1>1, <3>2, HidFacts
      <4> QED
        BY <4>2, <4>3
    <3> QED
      BY <1>1, <3>1, <3>2
  <2> QED
    BY <2>1 DEF Hid
<1>10. RankIn(Hid, Depth) = RankIn(Hid', Depth) + 1 /\ RankIn(Hid', Depth) \in Nat
  <2>1. Depth - 1 \in Nat /\ (Depth - 1) + 1 = Depth
    BY <1>1
  <2>2. /\ RankIn(Hid, (Depth - 1) + 1) = RankIn(Hid, Depth - 1) + 1
        /\ RankIn(Hid', (Depth - 1) + 1) = RankIn(Hid', Depth - 1) + 0
        /\ RankIn(Hid', Depth - 1) \in Nat
    <3>1. Depth \in Hid /\ Depth \notin Hid'
      BY <1>9
    <3> QED
      BY <2>1, <3>1, RankFacts
  <2>3. RankIn(Hid', Depth - 1) = RankIn(Hid, Depth - 1)
    <3>1. \A j \in 1..(Depth - 1) : j \in Hid' <=> j \in Hid
      BY <1>1, <1>9
    <3> QED
      BY <3>1, RankSame
  <2> QED
    BY <2>1, <2>2, <2>3
<1>11. ASSUME NEW i \in Hid'
       PROVE  i \in 2..(Depth - 1) /\ RankIn(Hid', i) = RankIn(Hid, i) /\ i \in Hid
  <2>1. i \in 2..Depth /\ i # Depth /\ i \in Hid
    BY <1>9, HidFacts
  <2>2. \A j \in 1..i : j \in Hid' <=> j \in Hid
    BY <1>1, <1>9, <2>1
  <2> QED
    BY <1>1, <2>1, <2>2, RankSame
<1>12. ReturnAddr(d) = Last(dbg.return_addr) /\ ReturnAddr(d)' = ReturnAddr(d)
  <2>1. IsHidden(d) /\ ~IsHidden(d)' /\ d \in Nat
    BY <1>9 DEF Hid
  <2>2. ReturnAddr(d)' = Last(dbg.return_addr)
    BY <1>5, <1>6, <2>1 DEF ReturnAddr
  <2>3. ReturnAddr(d) = dbg.return_addr[RankIn(Hid, d)]
    BY <2>1, RankHid DEF ReturnAddr
  <2>4. Len(dbg.return_addr) = RankIn(Hid, d) + 0 /\ RankIn(Hid, d) \in Nat
    BY <1>1, ShadowFacts
  <2> QED
    BY <2>2, <2>3, <2>4 DEF Last
<1>13. ASSUME NEW i \in 1..(Depth - 1) PROVE ReturnAddr(i)' = ReturnAddr(i)
  <2>1. i \in Nat /\ i # Depth /\ (IsHidden(i)' <=> IsHidden(i))
    <3>1. i \in Nat \ {0} /\ i # Depth
      BY <1>1
    <3>2. i \in Hid' <=> i \in Hid
      BY <1>9
    <3> QED
      BY <3>1, <3>2 DEF Hid
  <2>2. RankIn(Hid', i) = RankIn(Hid, i)
    <3>1. \A j \in 1..i : j # Depth
      BY <1>1
    <3>2. \A j \in 1..i : j \in Hid' <=> j \in Hid
      BY <1>9, <3>1
    <3> QED
      BY <3>2, RankSame
  <2>3. Rank(i)' = Rank(i)
    BY <2>1, <2>2, RankHid
  <2> QED
    BY <1>6, <1>8, <2>1, <2>3 DEF ReturnAddr
<1>14. ASSUME NEW i \in 1..(Depth - 1) PROVE FrameFn(i)' = FrameFn(i)
  <2>1. i # Depth /\ i # Depth'
    BY <1>1, <1>6
  <2>2. ReturnAddr(i + 1)' = ReturnAddr(i + 1)
    <3>1. i + 1 \in 1..(Depth - 1) \/ i + 1 = d
      BY <1>1
    <3> QED
      BY <1>12, <1>13, <3>1
  <2> QED
    BY <2>1, <2>2 DEF FrameFn
<1>15. FrameFn(d)' = EndHandler
  BY <1>4, <1>6 DEF FrameFn
<1>16. ShadowIsHidden'
  <2>1. ASSUME NEW i \in Hid' PROVE dbg'.stack[RankIn(Hid', i)] = FrameFn(i)'
    <3>1. i \in 1..(Depth - 1) /\ RankIn(Hid', i) = RankIn(Hid, i) /\ i \in Hid
      BY <1>1, <1>11
    <3> QED
      BY <1>14, <3>1, ShadowFacts
  <2>2. /\ Len(dbg'.stack) = RankIn(Hid', Depth') + (IF AtEnd' THEN 1 ELSE 0)
        /\ Len(dbg'.return_addr) = Len(dbg'.stack)
    BY <1>1, <1>5, <1>6, <1>10, ShadowFacts
  <2> QED
    BY <1>1, <1>5, <1>6, <2>1, <2>2, ShadowNext
<1> QED
  BY <1>1, <1>4, <1>5, <1>6, <1>7, <1>9, <1>14, <1>15, <1>16

LEMMA HalfFacts == \A n \in Nat : (2 * n + 1) \div 2 = n
  OBVIOUS

(* A stop at a function whose end is to be reported: the handler puts its   *)
(* own address in place of the return address, which goes to the shadow.    *)
LEMMA HideFacts ==
  ASSUME IInv, Alive, child.at = "entry", ~AtEnd, NEW d, d = Depth,
         child' = [child EXCEPT !.at = "pushed"],
         mem' = Front(mem) \o <<Entry(EndHandler), Saved(child.rbp)>>,
         dbg'.on = dbg.on, dbg'.stack = Append(dbg.stack, child.fn),
         dbg'.return_addr = Append(dbg.return_addr, Last(mem))
  PROVE  /\ child' \in [fn : Code, at : {"pushed"}, rbp : Nat] /\ mem' \in Seq(Words)
         /\ dbg'.stack \in Seq(Code) /\ dbg'.return_addr \in Seq(Sites)
         /\ Alive' /\ Pointers' /\ Returns' /\ ShadowIsHidden'
         /\ ~AtEnd' /\ Depth' = Depth /\ d \notin Hid /\ Hid' = Hid \cup {d}
         /\ \A i \in 1..Depth : FrameFn(i)' = FrameFn(i)
<1> DEFINE L == Len(mem)
           m == Len(dbg.return_addr)
<1>1. /\ child'.fn = child.fn /\ child'.at = "pushed" /\ child'.rbp = child.rbp
      /\ child' \in [fn : Code, at : {"pushed"}, rbp : Nat] /\ child.fn \in Code
  BY DEF IInv, TypeOK
<1>2. /\ Depth \in Nat /\ L = 2 * Depth - 1 /\ child.rbp = 2 * Depth - 2 /\ Depth >= 2
      /\ mem \in Seq(Words) /\ child.rbp \in Nat
  BY Positions DEF IInv, TypeOK
<1>3. Last(mem) = mem[2 * Depth - 1] /\ mem[2 * Depth - 1] \in Sites
  BY <1>2 DEF Last, IInv, Returns
<1>4. /\ mem' \in Seq(Words) /\ Len(mem') = 2 * Depth
      /\ \A i \in 1..(2 * Depth - 2) : mem'[i] = mem[i]
      /\ mem'[2 * Depth - 1] = Entry(EndHandler) /\ mem'[2 * Depth] = Saved(child.rbp)
  <2> DEFINE front == Front(mem)
             tail == <<Entry(EndHandler), Saved(child.rbp)>>
             n == 2 * Depth - 2
  <2>1. /\ front \in Seq(Words) /\ Len(front) = n /\ n \in Nat /\ 2 * Depth - 1 = n + 1
        /\ 2 * Depth = n + 2
        /\ \A i \in 1..n : front[i] = mem[i]
    <3>1. /\ Len(mem) > 0 /\ Len(mem) - 1 = n
          /\ n \in Nat /\ 2 * Depth - 1 = n + 1 /\ 2 * Depth = n + 2
      BY <1>2, SMTT(20)
    <3> QED
      BY <1>2, <3>1, FrontLast
  <2>2. /\ tail \in Seq(Words) /\ Len(tail) = 2
        /\ tail[1] = Entry(EndHandler) /\ tail[2] = Saved(child.rbp)
    BY <1>2 DEF Words
  <2>3. mem' = front \o tail
    OBVIOUS
  <2> HIDE DEF front, tail, n
  <2>4. /\ front \o tail \in Seq(Words) /\ Len(front \o tail) = n + 2
        /\ \A i \in 1..(n + 2) :
             (front \o tail)[i] = IF i <= n THEN front[i] ELSE tail[i - n]
    <3>1. /\ front \o tail \in Seq(Words)
          /\ Len(front \o tail) = Len(front) + Len(tail)
          /\ \A i \in 1..(Len(front) + Len(tail)) :
               (front \o tail)[i] = IF i <= Len(front) THEN front[i] ELSE tail[i - Len(front)]
      BY <2>1, <2>2, ConcatProperties
    <3> QED
      BY <2>1, <2>2, <3>1
  <2>5. \A i \in 1..n : mem'[i] = mem[i]
    <3>1. \A i \in 1..n : i \in 1..(n + 2) /\ i <= n
      BY <2>1
    <3> QED
      BY <2>1, <2>3, <2>4, <3>1
  <2>6. mem'[n + 1] = tail[1] /\ mem'[n + 2] = tail[2]
    <3>1. /\ n + 1 \in 1..(n + 2) /\ ~(n + 1 <= n) /\ (n + 1) - n = 1
          /\ n + 2 \in 1..(n + 2) /\ ~(n + 2 <= n) /\ (n + 2) - n = 2
      BY <2>1
    <3> QED
      BY <2>3, <2>4, <3>1
  <2>7. Len(mem') = 2 * Depth /\ mem' \in Seq(Words)
    BY <2>1, <2>3, <2>4
  <2> QED
    BY <2>1, <2>2, <2>5, <2>6, <2>7 DEF n
<1>5. Alive' /\ ~AtEnd'
  BY <1>1 DEF Alive, AtEnd
<1>6. Depth' = Depth
  <2>1. Depth' = (Len(mem') + 1) \div 2
    BY <1>1, <1>5 DEF Depth
  <2>2. (2 * Depth + 1) \div 2 = Depth
    BY <1>2, HalfFacts
  <2> QED
    BY <1>4, <2>1, <2>2
<1>7. Pointers'
  <2>1. ASSUME NEW i \in 1..Depth PROVE mem'[2 * i] = Saved(2 * (i - 1))
    <3>1. CASE i < Depth
      <4>1. 2 * i <= L /\ 2 * i \in 1..(2 * Depth - 2)
        BY <1>2, <3>1, SMTT(20)
      <4> QED
        BY <1>4, <4>1 DEF IInv, Pointers
    <3>2. CASE i = Depth
      <4>1. 2 * i = 2 * Depth /\ 2 * (i - 1) = child.rbp
        BY <1>2, <3>2
      <4> QED
        BY <1>4, <4>1
    <3>3. i < Depth \/ i = Depth
      BY <1>2
    <3> QED
      BY <3>1, <3>2, <3>3
  <2>2. child.rbp >= 2 /\ child.rbp % 2 = 0
    BY DEF IInv, Pointers
  <2>3. 2 * Depth = child.rbp + 2
    BY <1>2
  <2> QED
    BY <1>1, <1>4, <1>6, <2>1, <2>2, <2>3 DEF Pointers
<1>8. Returns'
  <2>1. mem[1] = EndAddr /\ 1 \in 1..(2 * Depth - 2)
    BY <1>2 DEF IInv, Returns
  <2>2. ASSUME NEW i \in 2..Depth
        PROVE  mem'[2 * i - 1] \in Sites \cup {Entry(EndHandler)}
    <3>1. CASE i < Depth
      <4>1. 2 * i - 1 <= L /\ 2 * i - 1 \in 1..(2 * Depth - 2)
        BY <1>2, <3>1, SMTT(20)
      <4> QED
        BY <1>4, <4>1 DEF IInv, Returns
    <3>2. CASE i = Depth
      BY <1>4, <3>2
    <3>3. i < Depth \/ i = Depth
      BY <1>2
    <3> QED
      BY <3>1, <3>2, <3>3
  <2> QED
    BY <1>1, <1>4, <1>6, <2>1, <2>2 DEF Returns
<1>9. d \notin Hid /\ Hid' = Hid \cup {d} /\ d \in Nat \ {0}
  <2>1. d \in Nat \ {0} /\ 2 * d <= L + 1
    BY <1>2
  <2>2. mem[2 * d - 1] # Entry(EndHandler)
    BY <1>3, WordFacts DEF Sites
  <2>3. d \notin Hid
    BY <2>1, <2>2 DEF Hid, IsHidden
  <2>4. ASSUME NEW i \in Nat \ {0} PROVE i \in Hid' <=> i \in Hid \/ i = d
    <3>1. CASE i \in 1..(Depth - 1)
      <4>1. 2 * i <= 2 * Depth + 1 /\ 2 * i <= L + 1
        BY <1>2, <3>1, SMTT(20)
      <4>2. 2 * i - 1 \in 1..(2 * Depth - 2) /\ i # d
        BY <1>2, <3>1, SMTT(20)
      <4> QED
        BY <1>4, <4>1, <4>2 DEF Hid, IsHidden
    <3>2. CASE i = Depth
      <4>1. 2 * i <= 2 * Depth + 1
        BY <1>2, <3>2
      <4> QED
        BY <1>4, <3>2, <4>1 DEF Hid, IsHidden
    <3>3. CASE i > Depth
      <4>1. ~(2 * i <= 2 * Depth + 1) /\ ~(2 * i <= L + 1) /\ i # d
        BY <1>2, <3>3, SMTT(20)
      <4> QED
        BY <1>4, <4>1 DEF Hid, IsHidden
    <3>4. i \in 1..(Depth - 1) \/ i = Depth \/ i > Depth
      BY <1>2
    <3> QED
      BY <3>1, <3>2, <3>3, <3>4
  <2> QED
    BY <2>1, <2>3, <2>4 DEF Hid
<1>10. /\ m \in Nat /\ m = RankIn(Hid, Depth) /\ Len(dbg.stack) = m
       /\ dbg'.stack \in Seq(Code) /\ dbg'.return_addr \in Seq(Sites)
       /\ Len(dbg'.stack) = m + 1 /\ Len(dbg'.return_addr) = m + 1
       /\ \A r \in 1..m : dbg'.stack[r] = dbg.stack[r] /\ dbg'.return_addr[r] = dbg.return_addr[r]
       /\ dbg'.stack[m + 1] = child.fn /\ dbg'.return_addr[m + 1] = Last(mem)
  <2>1. /\ dbg.stack \in Seq(Code) /\ dbg.return_addr \in Seq(Sites)
        /\ Len(dbg.stack) = RankIn(Hid, Depth) + 0 /\ RankIn(Hid, Depth) \in Nat
        /\ m = Len(dbg.stack)
    BY ShadowFacts
  <2>2. m = RankIn(Hid, Depth) /\ Len(dbg.stack) = m
    BY <2>1
  <2> QED
    BY <1>1, <1>3, <2>1, <2>2, AppendFacts
<1> HIDE DEF L, m
<1>11. RankIn(Hid', d) = m + 1 /\ \A i \in 0..(Depth - 1) : RankIn(Hid', i) = RankIn(Hid, i)
  <2>1. ASSUME NEW i \in 0..(Depth - 1) PROVE RankIn(Hid', i) = RankIn(Hid, i)
    <3>1. \A j \in 1..i : j \in Hid' <=> j \in Hid
      BY <1>2, <1>9, SMTT(20)
    <3> QED
      BY <3>1, RankSame
  <2>2. Depth - 1 \in Nat /\ (Depth - 1) + 1 = Depth /\ Depth - 1 \in 0..(Depth - 1)
    BY <1>2, SMTT(20)
  <2>3. /\ RankIn(Hid, (Depth - 1) + 1) = RankIn(Hid, Depth - 1) + 0
        /\ RankIn(Hid', (Depth - 1) + 1) = RankIn(Hid', Depth - 1) + 1
        /\ RankIn(Hid, Depth - 1) \in Nat
    BY <1>9, <2>2, RankFacts
  <2> QED
    BY <1>10, <2>1, <2>2, <2>3
<1>12. ASSUME NEW i \in 2..Depth PROVE ReturnAddr(i)' = ReturnAddr(i)
  <2>0. i \in Nat
    OBVIOUS
  <2>1. CASE i # d
    <3>1. i \in 0..(Depth - 1) /\ 2 * i - 1 \in 1..(2 * Depth - 2)
      BY <1>2, <2>1, SMTT(20)
    <3>2. Rank(i)' = Rank(i) /\ Rank(i) = RankIn(Hid, i)
      BY <1>11, <3>1, RankHid
    <3>3. IsHidden(i)' <=> IsHidden(i)
      BY <1>9, <2>1 DEF Hid
    <3>4. IsHidden(i) => RankIn(Hid, i) \in 1..m
      <4>1. IsHidden(i) => i \in Hid
        BY <2>0 DEF Hid
      <4>2. i \in Hid => RankIn(Hid, i) \in 1..RankIn(Hid, Depth)
        BY ShadowFacts
      <4> QED
        BY <1>10, <4>1, <4>2
    <3>5. IsHidden(i) => dbg'.return_addr[Rank(i)] = dbg.return_addr[Rank(i)]
      BY <1>10, <3>2, <3>4
    <3> QED
      BY <1>4, <1>5, <3>1, <3>2, <3>3, <3>5 DEF ReturnAddr
  <2>2. CASE i = d
    <3>1. IsHidden(i)' /\ ~IsHidden(i)
      BY <1>9, <2>2 DEF Hid
    <3>2. Rank(i)' = m + 1
      BY <1>11, <2>0, <2>2, RankHid
    <3>3. ReturnAddr(i)' = Last(mem)
      BY <1>10, <3>1, <3>2 DEF ReturnAddr
    <3>4. ReturnAddr(i) = mem[2 * Depth - 1]
      BY <2>2, <3>1 DEF ReturnAddr
    <3> QED
      BY <1>3, <3>3, <3>4
  <2> QED
    BY <2>1, <2>2
<1>13. ASSUME NEW i \in 1..Depth PROVE FrameFn(i)' = FrameFn(i)
  <2>1. CASE i = Depth
    BY <1>1, <1>6, <2>1 DEF FrameFn
  <2>2. CASE i # Depth
    <3>1. i + 1 \in 2..Depth /\ i # Depth'
      BY <1>2, <1>6, <2>2, SMTT(20)
    <3> QED
      BY <1>12, <2>2, <3>1 DEF FrameFn
  <2> QED
    BY <2>1, <2>2
<1>14. ShadowIsHidden'
  <2>1. ASSUME NEW i \in Hid' PROVE dbg'.stack[RankIn(Hid', i)] = FrameFn(i)'
    <3>1. CASE i = d
      <4>1. d \in 1..Depth
        BY <1>2
      <4>2. FrameFn(d)' = FrameFn(d) /\ FrameFn(d) = child.fn
        BY <1>13, <4>1 DEF FrameFn
      <4> QED
        BY <1>10, <1>11, <3>1, <4>2
    <3>2. CASE i # d
      <4>1. i \in Hid /\ i \in 2..Depth
        BY <1>9, <3>2, HidFacts
      <4>2. i \in 0..(Depth - 1) /\ i \in 1..Depth
        BY <1>2, <3>2, <4>1
      <4>3. RankIn(Hid', i) = RankIn(Hid, i) /\ RankIn(Hid, i) \in 1..m
        BY <1>10, <1>11, <4>1, <4>2, ShadowFacts
      <4> QED
        BY <1>10, <1>13, <4>1, <4>2, <4>3, ShadowFacts
    <3> QED
      BY <3>1, <3>2
  <2>2. /\ Len(dbg'.stack) = RankIn(Hid', Depth') + (IF AtEnd' THEN 1 ELSE 0)
        /\ Len(dbg'.return_addr) = Len(dbg'.stack)
    BY <1>5, <1>6, <1>10, <1>11
  <2> QED
    BY <1>2, <1>5, <1>6, <2>1, <2>2, ShadowNext
<1> QED
  BY <1>1, <1>4, <1>5, <1>6, <1>7, <1>8, <1>9, <1>10, <1>13, <1>14

(* The stop at the end: the return address comes back from the shadow.      *)
LEMMA UnhideFacts ==
  ASSUME IInv, Alive, AtEnd, child' = [child EXCEPT !.at = "pushed"],
         mem' = Append(Append(mem, Last(dbg.return_addr)), Saved(child.rbp)),
         dbg'.on = dbg.on, dbg'.stack = Front(dbg.stack), dbg'.return_addr = Front(dbg.return_addr)
  PROVE  /\ child' \in [fn : Code, at : {"pushed"}, rbp : Nat] /\ mem' \in Seq(Words)
         /\ dbg'.stack \in Seq(Code) /\ dbg'.return_addr \in Seq(Sites)
         /\ Alive' /\ Pointers' /\ Returns' /\ ShadowIsHidden'
         /\ ~AtEnd' /\ Depth' = Depth /\ Hid' = Hid
         /\ \A i \in 1..Depth : FrameFn(i)' = FrameFn(i)
<1> DEFINE ra == dbg.return_addr
           n == RankIn(Hid, Depth)
<1>1. /\ child'.fn = child.fn /\ child'.at = "pushed" /\ child'.rbp = child.rbp
      /\ child' \in [fn : Code, at : {"pushed"}, rbp : Nat] /\ child.fn \in Code
  BY DEF IInv, TypeOK
<1>2. /\ Depth \in Nat /\ Len(mem) = 2 * Depth - 2 /\ child.rbp = 2 * Depth - 2 /\ Depth >= 2
      /\ mem \in Seq(Words) /\ child.rbp \in Nat
  BY Positions DEF IInv, TypeOK
<1>3. /\ n \in Nat /\ Len(dbg.stack) = n + 1 /\ Len(ra) = n + 1
      /\ dbg.stack \in Seq(Code) /\ ra \in Seq(Sites)
  BY ShadowFacts
<1>4. /\ Last(ra) \in Sites /\ dbg'.stack \in Seq(Code) /\ dbg'.return_addr \in Seq(Sites)
      /\ Len(dbg'.stack) = n /\ Len(dbg'.return_addr) = n
      /\ \A r \in 1..n : dbg'.stack[r] = dbg.stack[r] /\ dbg'.return_addr[r] = ra[r]
  <2>1. Len(dbg.stack) > 0 /\ Len(ra) > 0 /\ Len(dbg.stack) - 1 = n /\ Len(ra) - 1 = n
    BY <1>3
  <2> QED
    <3>1. /\ Front(dbg.stack) \in Seq(Code) /\ Len(Front(dbg.stack)) = n
          /\ \A r \in 1..n : Front(dbg.stack)[r] = dbg.stack[r]
      BY <1>3, <2>1, FrontLast
    <3>2. /\ Last(ra) \in Sites /\ Front(ra) \in Seq(Sites) /\ Len(Front(ra)) = n
          /\ \A r \in 1..n : Front(ra)[r] = ra[r]
      BY <1>3, <2>1, FrontLast
    <3> QED
      BY <3>1, <3>2
<1> HIDE DEF ra, n
<1>5. /\ mem' \in Seq(Words) /\ Len(mem') = 2 * Depth
      /\ \A i \in 1..(2 * Depth - 2) : mem'[i] = mem[i]
      /\ mem'[2 * Depth - 1] = Last(ra) /\ mem'[2 * Depth] = Saved(child.rbp)
  <2> DEFINE restored == Append(mem, Last(ra))
  <2>1. Last(ra) \in Words
    BY <1>4 DEF Words
  <2>2. /\ restored \in Seq(Words) /\ Len(restored) = Len(mem) + 1
        /\ \A i \in 1..Len(mem) : restored[i] = mem[i]
        /\ restored[Len(mem) + 1] = Last(ra)
    BY <1>2, <2>1, AppendFacts
  <2>3. mem' = Append(restored, Saved(child.rbp))
    BY DEF ra
  <2> HIDE DEF restored
  <2>4. /\ mem' \in Seq(Words) /\ Len(mem') = Len(restored) + 1
        /\ \A i \in 1..Len(restored) : mem'[i] = restored[i]
        /\ mem'[Len(restored) + 1] = Saved(child.rbp)
    BY <1>2, <2>2, <2>3, SavedWord, AppendFacts
  <2>5. /\ Len(restored) = 2 * Depth - 1 /\ Len(restored) + 1 = 2 * Depth
        /\ Len(mem) + 1 = 2 * Depth - 1 /\ 2 * Depth - 1 \in 1..Len(restored)
        /\ \A i \in 1..(2 * Depth - 2) : i \in 1..Len(mem) /\ i \in 1..Len(restored)
    BY <1>2, <2>2
  <2> QED
    BY <2>2, <2>4, <2>5
<1>6. Alive' /\ ~AtEnd'
  BY <1>1 DEF Alive, AtEnd
<1>7. Depth' = Depth
  <2>1. Depth' = (Len(mem') + 1) \div 2
    BY <1>1, <1>6 DEF Depth
  <2>2. (2 * Depth + 1) \div 2 = Depth
    BY <1>2, HalfFacts
  <2> QED
    BY <1>5, <2>1, <2>2
<1>8. Pointers'
  <2>1. ASSUME NEW i \in 1..Depth PROVE mem'[2 * i] = Saved(2 * (i - 1))
    <3>1. CASE i < Depth
      <4>1. 2 * i <= Len(mem) /\ 2 * i \in 1..(2 * Depth - 2)
        BY <1>2, <3>1
      <4> QED
        BY <1>5, <4>1 DEF IInv, Pointers
    <3>2. CASE i = Depth
      <4>1. 2 * i = 2 * Depth /\ 2 * (i - 1) = child.rbp
        BY <1>2, <3>2
      <4> QED
        BY <1>5, <4>1
    <3>3. i < Depth \/ i = Depth
      BY <1>2
    <3> QED
      BY <3>1, <3>2, <3>3
  <2>2. child.rbp >= 2 /\ child.rbp % 2 = 0
    BY DEF IInv, Pointers
  <2>3. 2 * Depth = child.rbp + 2
    BY <1>2
  <2> QED
    BY <1>1, <1>5, <1>7, <2>1, <2>2, <2>3 DEF Pointers
<1>9. Returns'
  <2>1. mem[1] = EndAddr /\ 1 \in 1..(2 * Depth - 2)
    BY <1>2 DEF IInv, Returns
  <2>2. ASSUME NEW i \in 2..Depth
        PROVE  mem'[2 * i - 1] \in Sites \cup {Entry(EndHandler)}
    <3>1. CASE i < Depth
      <4>1. 2 * i - 1 <= Len(mem) /\ 2 * i - 1 \in 1..(2 * Depth - 2)
        BY <1>2, <3>1
      <4> QED
        BY <1>5, <4>1 DEF IInv, Returns
    <3>2. CASE i = Depth
      BY <1>4, <1>5, <3>2
    <3>3. i < Depth \/ i = Depth
      BY <1>2
    <3> QED
      BY <3>1, <3>2, <3>3
  <2> QED
    BY <1>1, <1>5, <1>7, <2>1, <2>2 DEF Returns
<1>10. Hid' = Hid
  <2>1. ASSUME NEW i \in Nat \ {0} PROVE i \in Hid' <=> i \in Hid
    <3>1. CASE i \in 1..(Depth - 1)
      <4>1. 2 * i <= 2 * Depth + 1 /\ 2 * i <= Len(mem) + 1 /\ 2 * i - 1 \in 1..(2 * Depth - 2)
        BY <1>2, <3>1
      <4> QED
        BY <1>5, <4>1 DEF Hid, IsHidden
    <3>2. CASE i = Depth
      <4>1. ~(2 * i <= Len(mem) + 1)
        BY <1>2, <3>2
      <4>2. mem'[2 * i - 1] # Entry(EndHandler)
        <5>1. mem'[2 * i - 1] \in Sites
          BY <1>4, <1>5, <3>2
        <5>2. Entry(EndHandler) \notin Sites
          BY WordFacts DEF Sites
        <5> QED
          BY <5>1, <5>2
      <4> QED
        BY <4>1, <4>2 DEF Hid, IsHidden
    <3>3. CASE i > Depth
      <4>1. ~(2 * i <= 2 * Depth + 1) /\ ~(2 * i <= Len(mem) + 1)
        BY <1>2, <3>3
      <4> QED
        BY <1>5, <4>1 DEF Hid, IsHidden
    <3>4. i \in 1..(Depth - 1) \/ i = Depth \/ i > Depth
      BY <1>2
    <3> QED
      BY <3>1, <3>2, <3>3, <3>4
  <2> QED
    BY <2>1 DEF Hid
<1>11. ASSUME NEW i \in 2..Depth PROVE ReturnAddr(i)' = ReturnAddr(i)
  <2>0. i \in Nat /\ (IsHidden(i)' <=> IsHidden(i))
    BY <1>10 DEF Hid
  <2>1. CASE i # Depth
    <3>1. 2 * i - 1 \in 1..(2 * Depth - 2)
      BY <1>2, <2>1
    <3>2. Rank(i)' = Rank(i) /\ Rank(i) = RankIn(Hid, i)
      BY <1>10, <2>0, RankHid
    <3>3. IsHidden(i) => RankIn(Hid, i) \in 1..n
      <4>1. IsHidden(i) => i \in Hid
        BY <2>0, <2>1 DEF Hid
      <4> QED
        BY <4>1, ShadowFacts DEF n
    <3>4. IsHidden(i) => dbg'.return_addr[Rank(i)] = dbg.return_addr[Rank(i)]
      BY <1>4, <3>2, <3>3 DEF ra
    <3> QED
      BY <1>5, <1>6, <2>0, <2>1, <3>1, <3>2, <3>4 DEF ReturnAddr
  <2>2. CASE i = Depth
    <3>1. ~IsHidden(i) /\ ~IsHidden(i)'
      <4>1. ~(2 * i <= Len(mem) + 1)
        BY <1>2, <2>2
      <4> QED
        BY <2>0, <4>1 DEF IsHidden
    <3>2. ReturnAddr(i)' = mem'[2 * Depth - 1]
      BY <1>6, <2>2, <3>1 DEF ReturnAddr
    <3>3. ReturnAddr(i) = Last(ra)
      BY <2>2, <3>1 DEF ReturnAddr, ra
    <3> QED
      BY <1>5, <3>2, <3>3
  <2> QED
    BY <2>1, <2>2
<1>12. ASSUME NEW i \in 1..Depth PROVE FrameFn(i)' = FrameFn(i)
  <2>1. CASE i = Depth
    BY <1>1, <1>7, <2>1 DEF FrameFn
  <2>2. CASE i # Depth
    <3>1. i + 1 \in 2..Depth /\ i # Depth'
      BY <1>2, <1>7, <2>2
    <3> QED
      BY <1>11, <2>2, <3>1 DEF FrameFn
  <2> QED
    BY <2>1, <2>2
<1>13. ShadowIsHidden'
  <2>1. ASSUME NEW i \in Hid' PROVE dbg'.stack[RankIn(Hid', i)] = FrameFn(i)'
    <3>1. i \in Hid /\ i \in 1..Depth
      BY <1>10, HidFacts
    <3>2. RankIn(Hid', i) = RankIn(Hid, i) /\ RankIn(Hid, i) \in 1..n
      BY <1>10, <3>1, ShadowFacts DEF n
    <3> QED
      BY <1>4, <1>12, <3>1, <3>2, ShadowFacts
  <2>2. /\ Len(dbg'.stack) = RankIn(Hid', Depth') + (IF AtEnd' THEN 1 ELSE 0)
        /\ Len(dbg'.return_addr) = Len(dbg'.stack)
    BY <1>3, <1>4, <1>6, <1>7, <1>10 DEF n
  <2> QED
    BY <1>2, <1>6, <1>7, <2>1, <2>2, ShadowNext
<1> QED
  BY <1>1, <1>4, <1>5, <1>6, <1>7, <1>8, <1>9, <1>10, <1>12, <1>13

-------------------------------------------------------------------------------
(* The steps. *)
Stops(t, r, st, ra) ==
  dbg' = [dbg EXCEPT !.regs = r, !.trace = t, !.stack = st, !.return_addr = ra]

LEMMA DbgStops ==
  ASSUME NEW t, NEW r, NEW st \in Seq(Code), NEW ra \in Seq(Sites),
         TypeOK, Stops(t, r, st, ra)
  PROVE  /\ dbg' \in DebugInfo(dbg')
         /\ dbg'.on = dbg.on /\ dbg'.list = dbg.list /\ dbg'.num = dbg.num
         /\ dbg'.count = dbg.count
         /\ dbg'.stack = st /\ dbg'.return_addr = ra
         /\ dbg'.regs = r /\ dbg'.trace = t
  BY DEF TypeOK, DebugInfo, Stops

LEMMA ChildRuns ==
  ASSUME IInv, Running("child")
  PROVE  Alive /\ dbg.on /\ child.at # "exit" /\ state["debugger"] = "WAITING"
  BY DEF IInv, Control, Running, Alive

LEMMA KeepStep ==
  ASSUME IInv, Running("child"), Keep, Alive', calls' \in Nat,
         NEW at \in {"entry", "pushed", "body"},
         child' \in [fn : Code, at : {at}, rbp : Nat], mem' \in Seq(Words),
         Pointers', Returns', ShadowIsHidden'
  PROVE  IInv'
<1>1. state' = state /\ dbg' = dbg /\ code' = code /\ rax' = rax
  BY DEF Keep
<1>2. child' \in [fn : Code, at : {"none", "entry", "pushed", "body", "exit"}, rbp : Nat]
  OBVIOUS
<1>3. TypeOK'
  BY <1>1, <1>2 DEF IInv, TypeOK
<1>4. Control'
  BY <1>1, ChildRuns DEF IInv, Control, Alive, Running
<1> QED
  BY <1>1, <1>3, <1>4, ListFrame DEF IInv

LEMMA HandStep ==
  ASSUME IInv, Running("child"), HandOver, UNCHANGED code, Alive',
         dbg' \in DebugInfo(dbg'), dbg'.on = dbg.on, dbg'.list = dbg.list,
         dbg'.num = dbg.num, dbg'.count = dbg.count,
         child' \in [fn : Code, at : {"pushed"}, rbp : Nat], mem' \in Seq(Words),
         Pointers', Returns', ShadowIsHidden'
  PROVE  IInv'
<1>1. /\ state' = [debugger |-> "RUNNING", child |-> "WAITING"]
      /\ state'["debugger"] = "RUNNING" /\ state'["child"] = "WAITING" /\ calls' = calls
  BY DEF HandOver
<1>2. child' \in [fn : Code, at : {"none", "entry", "pushed", "body", "exit"}, rbp : Nat]
  OBVIOUS
<1>3. TypeOK'
  BY <1>1, <1>2 DEF IInv, TypeOK
<1>4. Control'
  BY <1>1, ChildRuns DEF IInv, Control, Alive, Running
<1> QED
  BY <1>3, <1>4, ListFrame DEF IInv

LEMMA ForkStep ==
  ASSUME IInv, do_fork
  PROVE  IInv' /\ Alive' /\ Depth' = 1 /\ Hid' = {} /\ ~AtEnd'
<1>1. /\ dbg.on /\ dbg.stack = <<>> /\ dbg.return_addr = <<>>
      /\ state["debugger"] = "RUNNING" /\ state' = [state EXCEPT !["child"] = "WAITING"]
      /\ child' = [fn |-> Main, at |-> "body", rbp |-> 2]
      /\ mem' = <<EndAddr, Saved(0)>> /\ dbg' = dbg /\ code' = code /\ calls' = calls
  BY DEF do_fork, Running, IInv, Control
<1>2. /\ Len(mem') = 2 /\ mem'[1] = EndAddr /\ mem'[2] = Saved(0) /\ mem' \in Seq(Words)
  BY <1>1 DEF Words
<1>3. TypeOK'
  <2>1. child' \in [fn : Code, at : {"none", "entry", "pushed", "body", "exit"}, rbp : Nat]
    BY <1>1 DEF Code
  <2> QED
    BY <1>1, <1>2, <2>1 DEF IInv, TypeOK
<1>4. Alive' /\ ~AtEnd'
  BY <1>1 DEF Alive, AtEnd
<1>5. Depth' = 1
  <2>1. Depth' = (2 + 1) \div 2
    BY <1>1, <1>2, <1>4 DEF Depth
  <2> QED
    BY <2>1
<1>6. Control'
  BY <1>1, <1>4 DEF IInv, TypeOK, Control, Running, Alive
<1>7. Pointers'
  BY <1>1, <1>2, <1>4, <1>5 DEF Pointers
<1>8. Returns'
  BY <1>1, <1>2, <1>4, <1>5 DEF Returns
<1>9. Hid' = {}
  <2>1. ASSUME NEW i \in Nat \ {0}, IsHidden(i)' PROVE FALSE
    <3>1. i = 1
      BY <1>2, <2>1 DEF IsHidden
    <3> QED
      BY <1>2, <2>1, <3>1, WordFacts DEF IsHidden
  <2> QED
    BY <2>1 DEF Hid
<1>10. ShadowIsHidden'
  <2>1. RankIn(Hid', 1) = 0
    <3>1. RankIn(Hid', 0 + 1) = RankIn(Hid', 0) + 0 /\ RankIn(Hid', 0) = 0
      BY <1>9, RankFacts
    <3> QED
      BY <3>1
  <2>2. Len(dbg'.stack) = 0 /\ Len(dbg'.return_addr) = 0
    BY <1>1
  <2> QED
    BY <1>4, <1>5, <1>9, <2>1, <2>2, ShadowNext
<1> QED
  BY <1>1, <1>3, <1>4, <1>5, <1>6, <1>7, <1>8, <1>9, <1>10, ListFrame DEF IInv

(* A step that changes nothing about the child but whether it has exited. *)
LEMMA ExitFrame ==
  ASSUME IInv, mem' = mem, dbg' = dbg, child.at \in {"body", "exit"}, child'.at \in {"body", "exit"},
         child'.fn = child.fn, child'.rbp = child.rbp
  PROVE  Pointers' /\ Returns' /\ ShadowIsHidden'
<1>1. /\ Alive' = Alive /\ ~AtEnd /\ ~AtEnd' /\ Depth' = Depth
      /\ \A i : IsHidden(i)' = IsHidden(i)
  BY DEF Alive, AtEnd, Depth, IsHidden
<1>2. \A i : Rank(i)' = Rank(i)
  BY DEF Rank, IsHidden
<1>3. \A i : ReturnAddr(i)' = ReturnAddr(i)
  BY <1>1, <1>2 DEF ReturnAddr, IsHidden
<1>4. \A i : FrameFn(i)' = FrameFn(i)
  BY <1>1, <1>3 DEF FrameFn
<1>5. Pointers'
  BY <1>1 DEF IInv, Pointers
<1>6. Returns'
  BY <1>1 DEF IInv, Returns
<1> QED
  BY <1>1, <1>2, <1>4, <1>5, <1>6 DEF IInv, ShadowIsHidden

LEMMA WaitStep ==
  ASSUME IInv, do_wait_and_continue
  PROVE  IInv'
<1>1. CASE UNCHANGED <<state, dbg, code, childVars>>
  BY <1>1, SameStep DEF do_wait_and_continue
<1>2. CASE /\ dbg.on /\ child.at # "none"
           /\ state' = [debugger |-> "WAITING", child |-> "RUNNING"]
           /\ child' = [child EXCEPT !.at = IF @ = "exit" THEN "body" ELSE @]
           /\ rax' = Done /\ UNCHANGED <<dbg, code, mem, calls>>
  <2>1. /\ mem' = mem /\ calls' = calls /\ dbg' = dbg /\ code' = code
        /\ state'["debugger"] = "WAITING" /\ state'["child"] = "RUNNING"
    BY <1>2
  <2>2. /\ child' \in [fn : Code, at : {"entry", "pushed", "body"}, rbp : Nat]
        /\ child'.fn = child.fn /\ child'.rbp = child.rbp
        /\ child'.at = IF child.at = "exit" THEN "body" ELSE child.at
    BY <1>2 DEF IInv, TypeOK
  <2>3. TypeOK'
    BY <1>2, <2>1, <2>2 DEF IInv, TypeOK
  <2>4. Control'
    BY <1>2, <2>1, <2>2 DEF IInv, Control, Running
  <2>5. Pointers' /\ Returns' /\ ShadowIsHidden'
    <3>1. CASE child.at = "exit"
      BY <2>1, <2>2, <3>1, ExitFrame
    <3>2. CASE child.at # "exit"
      <4>1. child' = child
        BY <1>2, <3>2 DEF IInv, TypeOK
      <4> QED
        BY <2>1, <4>1, StackFrame
    <3> QED
      BY <3>1, <3>2
  <2> QED
    BY <2>1, <2>3, <2>4, <2>5, ListFrame DEF IInv
<1> QED
  BY <1>1, <1>2 DEF do_wait_and_continue, Refuses, Says, childVars

LEMMA QuitStep ==
  ASSUME IInv, debugger_exit
  PROVE  IInv'
<1>1. /\ child.at \in {"none", "exit"}
      /\ state' = [state EXCEPT !["debugger"] = "UNUSED"] /\ dbg' = NoDebug
      /\ child' = child /\ mem' = mem /\ calls' = calls /\ code' = code
  BY DEF debugger_exit, childVars
<1>2. ~dbg'.on /\ dbg'.stack = <<>> /\ dbg'.return_addr = <<>>
  BY <1>1 DEF NoDebug
<1>3. dbg' \in DebugInfo(dbg')
  <2>1. <<>> \in Seq(Node) /\ <<>> \in Seq(Code) /\ <<>> \in Seq(Sites)
    OBVIOUS
  <2> QED
    BY <1>1, <2>1 DEF DebugInfo, NoDebug
<1>4. TypeOK'
  BY <1>1, <1>3 DEF IInv, TypeOK
<1>5. /\ state'["debugger"] = "UNUSED" /\ state'["child"] = "UNUSED"
  BY <1>1 DEF IInv, TypeOK, Control
<1>6. ~Alive'
  BY <1>2 DEF Alive
<1>7. Control'
  BY <1>1, <1>2, <1>5 DEF Control, Running
<1> QED
  BY <1>2, <1>4, <1>6, <1>7
     DEF IInv, CodeMatchesList, Pointers, Returns, ShadowIsHidden, Alive

LEMMA ExitStep ==
  ASSUME IInv, child_exit
  PROVE  IInv'
<1>1. /\ child.at = "body" /\ dbg.on /\ dbg' = dbg /\ code' = code /\ mem' = mem /\ calls' = calls
      /\ state' = [debugger |-> "RUNNING", child |-> "UNUSED"]
      /\ state'["debugger"] = "RUNNING" /\ state'["child"] = "UNUSED"
      /\ child' = [child EXCEPT !.at = "exit"]
  BY ChildRuns DEF child_exit
<1>2. /\ child' \in [fn : Code, at : {"exit"}, rbp : Nat] /\ child'.at = "exit"
      /\ child'.fn = child.fn /\ child'.rbp = child.rbp
  BY <1>1 DEF IInv, TypeOK
<1>3. TypeOK'
  BY <1>1, <1>2 DEF IInv, TypeOK
<1>4. Control'
  BY <1>1, <1>2 DEF IInv, Control, Running
<1> QED
  BY <1>1, <1>2, <1>3, <1>4, ExitFrame, ListFrame DEF IInv

LEMMA CallStep ==
  ASSUME IInv, NEW f \in Fns, Call(f)
  PROVE  IInv'
<1>1. /\ Running("child") /\ child.at = "body" /\ Keep /\ dbg' = dbg
      /\ mem' = Append(mem, Site(child.fn)) /\ child' = [child EXCEPT !.fn = f, !.at = "entry"]
      /\ calls' = calls + 1 /\ Alive
  BY ChildRuns DEF Call, Push, Keep
<1>2. calls' \in Nat
  BY <1>1 DEF IInv, TypeOK
<1> QED
  BY <1>1, <1>2, CallFacts, KeepStep

LEMMA PushStep ==
  ASSUME IInv, PushRbp
  PROVE  IInv' /\ ~AtEnd
<1>1. /\ Running("child") /\ child.at = "entry" /\ Keep /\ dbg' = dbg
      /\ code[child.fn] = "PUSHRBP" /\ mem' = Append(mem, Saved(child.rbp))
      /\ child' = [child EXCEPT !.at = "pushed"] /\ calls' = calls /\ Alive /\ dbg.on
  BY ChildRuns DEF PushRbp, Push, Keep
<1>2. ~AtEnd
  <2>1. code[EndHandler] = "INT3"
    BY <1>1 DEF IInv, CodeMatchesList, Functions
  <2> QED
    BY <1>1, <2>1 DEF AtEnd
<1>3. calls' \in Nat
  BY <1>1 DEF IInv, TypeOK
<1> QED
  BY <1>1, <1>2, <1>3, PushFacts, KeepStep

LEMMA BaseStep ==
  ASSUME IInv, SetRbp
  PROVE  IInv'
<1>1. /\ Running("child") /\ child.at = "pushed" /\ Keep /\ dbg' = dbg /\ mem' = mem
      /\ child' = [child EXCEPT !.at = "body", !.rbp = Len(mem)] /\ calls' = calls /\ Alive
  BY ChildRuns DEF SetRbp, Keep
<1>2. calls' \in Nat
  BY <1>1 DEF IInv, TypeOK
<1> QED
  <2>1. /\ child' \in [fn : Code, at : {"body"}, rbp : Nat] /\ mem' \in Seq(Words)
        /\ Alive' /\ Pointers' /\ Returns' /\ ShadowIsHidden'
    BY <1>1, BaseFacts DEF IInv, TypeOK
  <2> QED
    BY <1>1, <1>2, <2>1, KeepStep

LEMMA ReturnParts ==
  ASSUME IInv, Return
  PROVE  /\ Running("child") /\ child.at = "body" /\ Keep /\ dbg' = dbg /\ calls' = calls /\ Alive
         /\ mem[child.rbp - 1] # EndAddr /\ Returned
  BY ChildRuns DEF Return, Keep, Returned

LEMMA ReturnStep ==
  ASSUME IInv, Return
  PROVE  IInv'
<1>1. calls' \in Nat
  BY ReturnParts DEF IInv, TypeOK
<1>2. CASE Depth \notin Hid
  BY <1>1, <1>2, ReturnParts, PlainReturn, KeepStep
<1>3. CASE Depth \in Hid
  <2>1. PICK d \in Hid : d = Depth
    BY <1>3
  <2> QED
    BY <1>1, <2>1, ReturnParts, HiddenReturn, KeepStep
<1> QED
  BY <1>2, <1>3

(* What the handlers write, in full. *)
LEMMA StopParts ==
  ASSUME IInv, int3_handler
  PROVE  /\ Running("child") /\ Alive /\ dbg.on /\ HandOver /\ UNCHANGED code /\ child.at = "entry"
         /\ child' = [child EXCEPT !.at = "pushed"]
         /\ code[child.fn] = "INT3" /\ dbg \in DebugInfo(dbg)
         /\ dbg.stack \in Seq(Code) /\ dbg.return_addr \in Seq(Sites)
         /\ child.fn = EndHandler <=> AtEnd
  BY ChildRuns, DbgFields DEF int3_handler, HandOver, AtEnd, IInv, TypeOK

LEMMA StopPlainParts ==
  ASSUME IInv, int3_handler, ~AtEnd, ~EndWanted
  PROVE  /\ dbg' = [dbg EXCEPT !.regs = CopyRegs(Len(mem)),
                               !.trace = <<Entry(child.fn)>> \o CopyStack(mem, dbg.return_addr),
                               !.stack = dbg.stack, !.return_addr = dbg.return_addr]
         /\ mem' = Append(mem, Saved(child.rbp))
<1>1. dbg' = SeenAtFunction /\ mem' = Append(mem, Saved(child.rbp)) /\ dbg \in DebugInfo(dbg)
  BY StopParts DEF int3_handler, StopAtFunction, Push
<1> QED
  BY <1>1 DEF SeenAtFunction, DebugInfo

LEMMA StopHidingParts ==
  ASSUME IInv, int3_handler, ~AtEnd, EndWanted
  PROVE  /\ dbg' = [dbg EXCEPT !.regs = CopyRegs(Len(mem)),
                               !.trace = <<Entry(child.fn)>> \o CopyStack(mem, dbg.return_addr),
                               !.stack = Append(dbg.stack, child.fn),
                               !.return_addr = Append(dbg.return_addr, Last(mem))]
         /\ mem' = Front(mem) \o <<Entry(EndHandler), Saved(child.rbp)>>
<1>1. /\ dbg' = [SeenAtFunction EXCEPT !.stack = Append(@, child.fn),
                                       !.return_addr = Append(@, Last(mem))]
      /\ mem' = Front(mem) \o <<Entry(EndHandler), Saved(child.rbp)>> /\ dbg \in DebugInfo(dbg)
  BY StopParts DEF int3_handler, StopAtFunction
<1> QED
  BY <1>1 DEF SeenAtFunction, DebugInfo

LEMMA StopEndParts ==
  ASSUME IInv, int3_handler, AtEnd
  PROVE  /\ dbg' = [dbg EXCEPT !.regs = CopyRegs(Len(mem) + 1),
                               !.trace = CopyStack(Append(mem, Last(dbg.return_addr)),
                                                   Front(dbg.return_addr)),
                               !.stack = Front(dbg.stack),
                               !.return_addr = Front(dbg.return_addr)]
         /\ mem' = Append(Append(mem, Last(dbg.return_addr)), Saved(child.rbp))
<1>1. StopAtEnd /\ dbg \in DebugInfo(dbg)
  BY StopParts DEF int3_handler
<1> QED
  BY <1>1 DEF StopAtEnd, StopAtEndPopping, Push, DebugInfo

LEMMA StopStep ==
  ASSUME IInv, int3_handler
  PROVE  IInv'
<1>1. CASE ~AtEnd /\ ~EndWanted
  <2>1. /\ dbg' \in DebugInfo(dbg') /\ dbg'.on = dbg.on /\ dbg'.list = dbg.list
        /\ dbg'.num = dbg.num /\ dbg'.count = dbg.count
        /\ dbg'.stack = dbg.stack /\ dbg'.return_addr = dbg.return_addr
    <3> DEFINE t == <<Entry(child.fn)>> \o CopyStack(mem, dbg.return_addr)
               r == CopyRegs(Len(mem))
    <3>1. Stops(t, r, dbg.stack, dbg.return_addr) /\ TypeOK
      BY <1>1, StopPlainParts DEF Stops, IInv
    <3> HIDE DEF t, r
    <3> QED
      BY <3>1, StopParts, DbgStops
  <2>2. /\ child' \in [fn : Code, at : {"pushed"}, rbp : Nat] /\ mem' \in Seq(Words)
        /\ Alive' /\ Pointers' /\ Returns' /\ ShadowIsHidden'
    BY <1>1, <2>1, StopParts, StopPlainParts, PushFacts
  <2> QED
    BY <2>1, <2>2, StopParts, HandStep
<1>2. CASE ~AtEnd /\ EndWanted
  <2>1. /\ dbg'.stack = Append(dbg.stack, child.fn)
        /\ dbg'.return_addr = Append(dbg.return_addr, Last(mem)) /\ dbg'.on = dbg.on
    BY <1>2, StopParts, StopHidingParts DEF DebugInfo
  <2>2. PICK d : d = Depth
    OBVIOUS
  <2>3. /\ child' \in [fn : Code, at : {"pushed"}, rbp : Nat] /\ mem' \in Seq(Words)
        /\ dbg'.stack \in Seq(Code) /\ dbg'.return_addr \in Seq(Sites)
        /\ Alive' /\ Pointers' /\ Returns' /\ ShadowIsHidden'
    BY <1>2, <2>1, <2>2, StopParts, StopHidingParts, HideFacts
  <2>4. /\ dbg' \in DebugInfo(dbg') /\ dbg'.on = dbg.on /\ dbg'.list = dbg.list
        /\ dbg'.num = dbg.num /\ dbg'.count = dbg.count
    <3> DEFINE t == <<Entry(child.fn)>> \o CopyStack(mem, dbg.return_addr)
               r == CopyRegs(Len(mem))
    <3>1. Stops(t, r, dbg'.stack, dbg'.return_addr) /\ TypeOK
      BY <1>2, <2>1, StopHidingParts DEF Stops, IInv
    <3> HIDE DEF t, r
    <3> QED
      BY <2>3, <3>1, DbgStops
  <2> QED
    BY <2>3, <2>4, StopParts, HandStep
<1>3. CASE AtEnd
  <2>1. /\ dbg'.stack = Front(dbg.stack) /\ dbg'.return_addr = Front(dbg.return_addr)
        /\ dbg'.on = dbg.on
    BY <1>3, StopParts, StopEndParts DEF DebugInfo
  <2>2. /\ child' \in [fn : Code, at : {"pushed"}, rbp : Nat] /\ mem' \in Seq(Words)
        /\ dbg'.stack \in Seq(Code) /\ dbg'.return_addr \in Seq(Sites)
        /\ Alive' /\ Pointers' /\ Returns' /\ ShadowIsHidden'
    BY <1>3, <2>1, StopParts, StopEndParts, UnhideFacts
  <2>3. /\ dbg' \in DebugInfo(dbg') /\ dbg'.on = dbg.on /\ dbg'.list = dbg.list
        /\ dbg'.num = dbg.num /\ dbg'.count = dbg.count
    <3> DEFINE t == CopyStack(Append(mem, Last(dbg.return_addr)), Front(dbg.return_addr))
               r == CopyRegs(Len(mem) + 1)
    <3>1. Stops(t, r, dbg'.stack, dbg'.return_addr) /\ TypeOK
      BY <1>3, <2>1, StopEndParts DEF Stops, IInv
    <3> HIDE DEF t, r
    <3> QED
      BY <2>2, <3>1, DbgStops
  <2> QED
    BY <2>2, <2>3, StopParts, HandStep
<1> QED
  BY <1>1, <1>2, <1>3

LEMMA InitIInv == Init => IInv
<1> SUFFICES ASSUME Init PROVE IInv
  OBVIOUS
<1>1. /\ state = [debugger |-> "RUNNING", child |-> "UNUSED"] /\ dbg = NoDebug
      /\ code = [f \in Functions |-> "PUSHRBP"]
      /\ child = [fn |-> Main, at |-> "none", rbp |-> 0] /\ mem = <<>> /\ calls = 0
      /\ state["debugger"] = "RUNNING" /\ state["child"] = "UNUSED"
  BY DEF Init
<1>2. ~dbg.on /\ dbg.stack = <<>> /\ dbg.return_addr = <<>> /\ ~Alive
  BY <1>1 DEF NoDebug, Alive
<1>3. TypeOK
  <2>1. <<>> \in Seq(Node) /\ <<>> \in Seq(Code) /\ <<>> \in Seq(Sites) /\ <<>> \in Seq(Words)
    OBVIOUS
  <2>2. dbg \in DebugInfo(dbg)
    BY <1>1, <2>1 DEF DebugInfo, NoDebug
  <2>3. child \in [fn : Code, at : {"none", "entry", "pushed", "body", "exit"}, rbp : Nat]
    BY <1>1 DEF Code
  <2> QED
    BY <1>1, <2>1, <2>2, <2>3 DEF TypeOK
<1>4. Control
  BY <1>1, <1>2 DEF Control, Running
<1> QED
  BY <1>2, <1>3, <1>4
     DEF IInv, CodeMatchesList, Pointers, Returns, ShadowIsHidden, Alive

LEMMA StepIInv == IInv /\ [Next]_vars => IInv'
<1> SUFFICES ASSUME IInv, [Next]_vars PROVE IInv'
  OBVIOUS
<1>1. CASE do_become_debugger
  BY <1>1, BecomeStep
<1>2. CASE do_fork
  BY <1>2, ForkStep
<1>3. CASE do_wait_and_continue
  BY <1>3, WaitStep
<1>4. CASE debugger_exit
  BY <1>4, QuitStep
<1>5. CASE \E f \in Fns : do_remove_breakpoint(f)
  BY <1>5, RemoveStep
<1>6. CASE \E f \in Fns : \E flag \in BOOLEAN : do_set_breakpoint(f, flag)
  BY <1>6, SetStep
<1>7. CASE \E f \in Fns : Call(f)
  BY <1>7, CallStep
<1>8. CASE PushRbp
  BY <1>8, PushStep
<1>9. CASE SetRbp
  BY <1>9, BaseStep
<1>10. CASE Return
  BY <1>10, ReturnStep
<1>11. CASE int3_handler
  BY <1>11, StopStep
<1>12. CASE child_exit
  BY <1>12, ExitStep
<1>13. CASE UNCHANGED vars
  BY <1>13, SameStep DEF vars
<1> QED
  BY <1>1, <1>2, <1>3, <1>4, <1>5, <1>6, <1>7, <1>8, <1>9, <1>10, <1>11, <1>12, <1>13
     DEF Next, DebuggerStep, ChildStep

(* Code, list, child stack, shadow stack and the two states fit together     *)
(* after every call, stop, return and exit (debug.c).                        *)
THEOREM Safety == Spec => []IInv
  BY InitIInv, StepIInv, PTL DEF Spec

(* The bytes in the code are the breakpoints of the list and the end       *)
(* handler, after any mix of calls that set, overwrite, refuse and remove. *)
THEOREM PatchesAreTheList == Spec => []CodeMatchesList
<1>1. IInv => CodeMatchesList
  BY DEF IInv
<1> QED
  BY <1>1, Safety, PTL

(* Debugger and child never both run, and a waiting debugger has a child    *)
(* that runs for it: no handler and no exit forgets to wake it.             *)
THEOREM ControlIsHandedOver == Spec => []HandedOver
<1>1. IInv => HandedOver
  BY DEF IInv, HandedOver, Control, Alive, Running
<1> QED
  BY <1>1, Safety, PTL

-------------------------------------------------------------------------------
(***************************************************************************)
(* The debugger calls implement DebugPromise.  The list, the trail of      *)
(* saved base pointers and the shadow stack are turned into the points,    *)
(* the frames and the reports of the abstract debugger, one kind of step   *)
(* at a time.                                                              *)
(***************************************************************************)

(* The walk over the saved base pointers of d frames, all but the last      *)
(* complete: where it looks, and what it finds there.                       *)
Walked(m, d) ==
  /\ Len(m) = 2 * d - 1 /\ child.rbp = 2 * d - 2
  /\ \A i \in 1..(d - 1) : m[2 * i] = Saved(2 * (i - 1))
  /\ m[1] = EndAddr
  /\ \A i \in 2..d : m[2 * i - 1] # EndAddr

Base(m) == CHOOSE base : base = [k \in 0..Len(m) |-> IF k = 0 THEN child.rbp
                               ELSE IF base[k - 1] = 0 THEN 0 ELSE m[base[k - 1]].of]

It(m, k) == IF k = 0 THEN Len(m) ELSE Base(m)[k - 1] - 1
End(m) == CHOOSE k \in 0..Len(m) : /\ m[It(m, k)] = EndAddr
                                   /\ \A j \in 0..k - 1 : m[It(m, j)] # EndAddr
Above(m, k) == Cardinality({j \in 0..k - 1 : m[It(m, j)] = Entry(EndHandler)})

LEMMA TrailIs ==
  ASSUME NEW m, NEW sh
  PROVE Trail(m, sh) = [k \in 1..End(m) |-> IF m[It(m, k-1)] = Entry(EndHandler) THEN sh[Above(m, k - 1) + 1] ELSE m[It(m, k - 1)]]
  BY DEF Trail, Base, It, End, Above

LEMMA BaseFound ==
  ASSUME NEW m, NEW d \in Nat, d >= 2, Walked(m, d)
  PROVE  /\ \A k \in 0..(d - 1) : Base(m)[k] = 2 * (d - 1 - k)
<1> DEFINE b == [k \in 0..Len(m) |-> IF k <= d - 1 THEN 2 * (d - 1 - k) ELSE 0]
           Body(base) == [k \in 0..Len(m) |-> IF k = 0 THEN child.rbp
                               ELSE IF base[k - 1] = 0 THEN 0 ELSE m[base[k - 1]].of]
<1>1. b = Body(b)
  <2>1. ASSUME NEW k \in 0..Len(m)
        PROVE  b[k] = IF k = 0 THEN child.rbp
                               ELSE IF b[k - 1] = 0 THEN 0 ELSE m[b[k - 1]].of
    <3>0. Len(m) = 2 * d - 1 /\ child.rbp = 2 * d - 2
      BY DEF Walked
    <3>1. CASE k = 0
      BY <3>0, <3>1
    <3>2. CASE k > d
      BY <3>0, <3>2
    <3>3. CASE k = d
      BY <3>0, <3>3
    <3>4. CASE k \in 1..(d - 1)
      <4>1. b[k - 1] = 2 * (d - k) /\ b[k] = 2 * (d - 1 - k) /\ d - k \in 1..(d - 1)
        BY <3>0, <3>4
      <4>2. m[2 * (d - k)] = Saved(2 * (d - k - 1))
        BY <4>1 DEF Walked
      <4>3. m[b[k - 1]].of = 2 * (d - k - 1)
        BY <4>1, <4>2, WordFacts
      <4> QED
        BY <3>0, <3>4, <4>1, <4>3
    <3>5. k = 0 \/ k > d \/ k = d \/ k \in 1..(d - 1)
      OBVIOUS
    <3> QED
      BY <3>1, <3>2, <3>3, <3>4, <3>5
  <2> QED
    BY <2>1
<1>2. Base(m) = Body(Base(m))
  <2> HIDE DEF Body, b
  <2>1. Base(m) = CHOOSE base : base = Body(base)
    BY DEF Base, Body
  <2> QED
    BY <1>1, <2>1
<1> DEFINE S == {k \in 0..(d - 1) : Base(m)[k] = 2 * (d - 1 - k)}
<1>3. 0 \in S
  <2>1. child.rbp = 2 * d - 2 /\ 0 \in 0..Len(m)
    BY DEF Walked
  <2>2. Body(Base(m))[0] = child.rbp
    BY <2>1
  <2> QED
    BY <1>2, <2>1, <2>2
<1>4. ASSUME NEW n \in 0..((d - 1) - 1), n \in S PROVE n + 1 \in S
  <2>1. /\ n + 1 \in 0..Len(m) /\ n + 1 # 0 /\ (n + 1) - 1 = n
        /\ Base(m)[n] = 2 * (d - 1 - n) /\ 2 * (d - 1 - n) # 0 /\ d - 1 - n \in 1..(d - 1)
    BY <1>4 DEF Walked
  <2>2. Body(Base(m))[n + 1] = m[2 * (d - 1 - n)].of
    BY <2>1
  <2>3. m[2 * (d - 1 - n)] = Saved(2 * ((d - 1 - n) - 1))
    BY <2>1 DEF Walked
  <2>4. Body(Base(m))[n + 1] = 2 * ((d - 1 - n) - 1)
    BY <2>2, <2>3, WordFacts
  <2>5. n + 1 \in 0..(d - 1) /\ 2 * (d - 1 - (n + 1)) = 2 * ((d - 1 - n) - 1)
    BY <2>1
  <2> QED
    BY <1>2, <2>4, <2>5
<1> HIDE DEF S
<1>5. 0..(d - 1) \subseteq S
  BY <1>3, <1>4, Inductive
<1> QED
  BY <1>5 DEF S

LEMMA WalkIs ==
  ASSUME NEW m, NEW d \in Nat, d >= 2, Walked(m, d)
  PROVE  /\ End(m) = d - 1
         /\ \A k \in 0..(d - 1) : It(m, k) = 2 * (d - k) - 1
<1>1. Len(m) = 2 * d - 1
  BY DEF Walked
<1>2. ASSUME NEW k \in 0..(d - 1) PROVE It(m, k) = 2 * (d - k) - 1
  <2>1. CASE k = 0
    BY <1>1, <2>1 DEF It
  <2>2. CASE k # 0
    <3>1. k - 1 \in 0..(d - 1)
      BY <2>2
    <3>2. Base(m)[k - 1] = 2 * (d - 1 - (k - 1))
      BY <3>1, BaseFound
    <3>3. 2 * (d - 1 - (k - 1)) - 1 = 2 * (d - k) - 1
      OBVIOUS
    <3> QED
      BY <2>2, <3>2, <3>3 DEF It
  <2> QED
    BY <2>1, <2>2
<1>3. m[It(m, d - 1)] = EndAddr /\ d - 1 \in 0..Len(m)
  <2>1. d - 1 \in 0..(d - 1) /\ 2 * (d - (d - 1)) - 1 = 1 /\ d - 1 \in 0..Len(m)
    BY <1>1
  <2> QED
    BY <1>2, <2>1 DEF Walked
<1>4. ASSUME NEW k \in 0..(d - 2) PROVE m[It(m, k)] # EndAddr
  <2>1. k \in 0..(d - 1) /\ d - k \in 2..d
    OBVIOUS
  <2>2. m[2 * (d - k) - 1] # EndAddr
    BY <2>1 DEF Walked
  <2> QED
    BY <1>2, <2>1, <2>2
<1> DEFINE Ends(k) == /\ m[It(m, k)] = EndAddr
                      /\ \A j \in 0..k - 1 : m[It(m, j)] # EndAddr
<1>5. Ends(d - 1)
  <2>1. (d - 1) - 1 = d - 2
    OBVIOUS
  <2> QED
    BY <1>3, <1>4, <2>1
<1>6. ASSUME NEW k \in 0..Len(m), Ends(k) PROVE k = d - 1
  <2>1. ~(k \in 0..(d - 2))
    BY <1>4, <1>6
  <2>2. ~(d - 1 \in 0..(k - 1))
    BY <1>3, <1>6
  <2> QED
    BY <1>1, <2>1, <2>2
<1>7. End(m) = CHOOSE k \in 0..Len(m) : Ends(k)
  BY DEF End
<1> HIDE DEF Ends
<1>8. End(m) = d - 1
  BY <1>3, <1>5, <1>6, <1>7
<1> QED
  BY <1>2, <1>8

FoundAt(m, sh, d, k) ==
  IF m[2 * (d - k) + 1] = Entry(EndHandler)
  THEN sh[Cardinality({j \in 0..(k - 2) : m[2 * (d - j) - 1] = Entry(EndHandler)}) + 1]
  ELSE m[2 * (d - k) + 1]

LEMMA TrailFacts ==
  ASSUME NEW m, NEW sh, NEW d \in Nat, d >= 2, Walked(m, d)
  PROVE  Trail(m, sh) = [k \in 1..(d - 1) |-> FoundAt(m, sh, d, k)]
<1>1. ASSUME NEW k \in 1..(d - 1)
      PROVE  /\ It(m, k - 1) = 2 * (d - k) + 1
             /\ Above(m, k - 1) = Cardinality({j \in 0..(k - 2) : m[2 * (d - j) - 1] = Entry(EndHandler)})
  <2>1. k - 1 \in 0..(d - 1) /\ 2 * (d - (k - 1)) - 1 = 2 * (d - k) + 1 /\ (k - 1) - 1 = k - 2
    OBVIOUS
  <2>2. \A j \in 0..(k - 2) : It(m, j) = 2 * (d - j) - 1
    BY WalkIs
  <2>3. {j \in 0..(k - 2) : m[It(m, j)] = Entry(EndHandler)}
          = {j \in 0..(k - 2) : m[2 * (d - j) - 1] = Entry(EndHandler)}
    BY <2>2
  <2> QED
    BY <2>1, <2>3, WalkIs DEF Above
<1>2. End(m) = d - 1
  BY WalkIs
<1> QED
  BY <1>1, <1>2, TrailIs DEF FoundAt

-------------------------------------------------------------------------------
(* The list of breakpoints as a function. *)
AddrsOf(l) == {f \in Fns : \E i \in 1..Len(l) : l[i].addr = f}
PlaceIn(l, f) == CHOOSE i \in 1..Len(l) : l[i].addr = f
PointsOf(l) == [f \in AddrsOf(l) |-> l[PlaceIn(l, f)].end]
Distinct(l) == \A i, j \in 1..Len(l) : l[i].addr = l[j].addr => i = j

LEMMA PointsMapped == Points = PointsOf(dbg.list) /\ Points' = PointsOf(dbg'.list)
<1>1. /\ {g \in Fns : IsSet(g)} = AddrsOf(dbg.list)
      /\ {g \in Fns : IsSet(g)}' = AddrsOf(dbg'.list)
  BY DEF IsSet, AddrsOf
<1>2. \A f : Flag(f) = dbg.list[PlaceIn(dbg.list, f)].end /\ Flag(f)' = dbg'.list[PlaceIn(dbg'.list, f)].end
  BY DEF Flag, Place, PlaceIn
<1> QED
  BY <1>1, <1>2 DEF Points, PointsOf

LEMMA PointAt ==
  ASSUME NEW l, Distinct(l), NEW i \in 1..Len(l), l[i].addr \in Fns
  PROVE  l[i].addr \in DOMAIN PointsOf(l) /\ PointsOf(l)[l[i].addr] = l[i].end
<1>1. PlaceIn(l, l[i].addr) \in 1..Len(l) /\ l[PlaceIn(l, l[i].addr)].addr = l[i].addr
  BY DEF PlaceIn
<1>2. PlaceIn(l, l[i].addr) = i
  BY <1>1 DEF Distinct
<1> QED
  BY <1>2 DEF PointsOf, AddrsOf

LEMMA PointFrom ==
  ASSUME NEW l, NEW f \in DOMAIN PointsOf(l)
  PROVE  f \in Fns /\ \E i \in 1..Len(l) : l[i].addr = f
  BY DEF PointsOf, AddrsOf

LEMMA ListFacts ==
  ASSUME IInv
  PROVE  /\ Distinct(dbg.list)
         /\ \A i \in 1..Len(dbg.list) : dbg.list[i].addr \in Fns
         /\ dbg.list \in Seq(Node) /\ Len(dbg.list) \in Nat
         /\ dbg.on => dbg.count = Len(dbg.list)
         /\ ~dbg.on => dbg.list = <<>>
<1>1. dbg.list \in Seq(Node) /\ Len(dbg.list) \in Nat
  BY DbgFields DEF IInv
<1>2. ASSUME NEW i \in 1..Len(dbg.list) PROVE dbg.list[i].addr \in Fns
  <2>1. dbg.list[i] \in Node
    BY <1>1
  <2> QED
    BY <2>1 DEF Node
<1>3. ~dbg.on => dbg.list = <<>>
  BY DEF IInv, Control, NoDebug
<1>4. CASE dbg.on
  <2>1. \A i, j \in 1..Len(dbg.list) : i < j => dbg.list[i].addr # dbg.list[j].addr
    BY <1>4 DEF IInv, CodeMatchesList, do_info_breakpoints
  <2>2. Distinct(dbg.list)
    BY <1>1, <2>1 DEF Distinct
  <2> QED
    BY <1>1, <1>2, <1>3, <1>4, <2>2 DEF IInv, CodeMatchesList, do_info_breakpoints
<1>5. CASE ~dbg.on
  <2>1. Distinct(dbg.list)
    BY <1>3, <1>5 DEF Distinct
  <2> QED
    BY <1>1, <1>2, <1>3, <1>5, <2>1
<1> QED
  BY <1>4, <1>5

LEMMA PointCount ==
  ASSUME IInv
  PROVE  Cardinality(DOMAIN Points) \in Nat /\ Cardinality(DOMAIN Points) <= Len(dbg.list)
<1> DEFINE n == Len(dbg.list)
           T == AddrsOf(dbg.list)
           addr == [i \in 1..n |-> dbg.list[i].addr]
<1>1. DOMAIN Points = T
  BY PointsMapped DEF PointsOf
<1>2. addr \in Surjection(1..n, T)
  <2>1. addr \in [1..n -> T]
    BY ListFacts DEF AddrsOf
  <2>2. \A f \in T : \E i \in 1..n : addr[i] = f
    BY DEF AddrsOf
  <2> QED
    BY <2>1, <2>2 DEF Surjection
<1>3. IsFiniteSet(1..n) /\ Cardinality(1..n) = n /\ n \in Nat
  <2>1. n \in Nat
    BY ListFacts
  <2> HIDE DEF n
  <2>2. IsFiniteSet(1..n) /\ Cardinality(1..n) = IF 1 > n THEN 0 ELSE n - 1 + 1
    BY <2>1, FS_Interval
  <2> QED
    BY <2>1, <2>2
<1> HIDE DEF n, T, addr
<1>4. IsFiniteSet(T) /\ Cardinality(T) <= Cardinality(1..n)
  BY <1>2, <1>3, FS_Surjection
<1> QED
  BY <1>1, <1>3, <1>4, FS_CardinalityType DEF n

(* A function is set, and with which flag, as the program asks it. *)
LEMMA PointAsked ==
  ASSUME IInv, NEW f \in Fns
  PROVE  /\ IsSet(f) <=> f \in DOMAIN Points
         /\ IsSet(f) => Flag(f) = Points[f] /\ Points[f] \in BOOLEAN
         /\ (\E i \in 1..Len(dbg.list) : dbg.list[i].addr = f /\ dbg.list[i].end)
              <=> IsSet(f) /\ Points[f]
<1>1. IsSet(f) <=> f \in DOMAIN Points
  BY DEF Points
<1>2. IsSet(f) => Flag(f) = Points[f]
  BY DEF Points
<1>3. ASSUME NEW i \in 1..Len(dbg.list), dbg.list[i].addr = f
      PROVE  Points[f] = dbg.list[i].end /\ dbg.list[i].end \in BOOLEAN
  <2>1. dbg.list[i] \in Node
    BY ListFacts
  <2> QED
    BY <1>3, <2>1, ListFacts, PointsMapped, PointAt DEF Node
<1>4. IsSet(f) <=> \E i \in 1..Len(dbg.list) : dbg.list[i].addr = f
  BY DEF IsSet
<1> QED
  BY <1>1, <1>2, <1>3, <1>4

-------------------------------------------------------------------------------
(* The frames. *)
LEMMA FnIsSeq ==
  ASSUME NEW S, NEW n \in Nat, NEW s \in [1..n -> S]
  PROVE  s \in Seq(S) /\ Len(s) = n
  OBVIOUS

LEMMA FramesAre ==
  ASSUME IInv, Alive, child.at # "exit"
  PROVE  /\ Frames \in Seq([fn : Code, ends : BOOLEAN]) /\ Len(Frames) = Depth
         /\ \A i \in 1..Depth : Frames[i].fn = FrameFn(i) /\ (Frames[i].ends <=> i \in Hid)
<1>1. Depth \in Nat
  BY Positions
<1>2. ASSUME NEW i \in 1..Depth
      PROVE  Frames[i] = [fn |-> FrameFn(i), ends |-> i \in Hid] /\ FrameFn(i) \in Code
             /\ (i \in Hid) \in BOOLEAN
  <2>1. FrameFn(i) \in Code
    BY FrameType
  <2>2. IsHidden(i) = (i \in Hid)
    <3>1. i \in Nat \ {0}
      BY <1>1
    <3>2. IsHidden(i) \in BOOLEAN
      BY DEF IsHidden
    <3> QED
      BY <3>1, <3>2 DEF Hid
  <2> QED
    BY <2>1, <2>2 DEF Frames
<1>3. Frames = [i \in 1..Depth |-> Frames[i]]
  BY DEF Frames
<1>4. ASSUME NEW i \in 1..Depth PROVE Frames[i] \in [fn : Code, ends : BOOLEAN]
  <2>1. \A f \in Code, b \in BOOLEAN : [fn |-> f, ends |-> b] \in [fn : Code, ends : BOOLEAN]
    OBVIOUS
  <2>2. CASE i \in Hid
    <3>1. Frames[i] = [fn |-> FrameFn(i), ends |-> TRUE]
      BY <1>2, <2>2
    <3> QED
      BY <1>2, <2>1, <3>1
  <2>3. CASE i \notin Hid
    <3>1. Frames[i] = [fn |-> FrameFn(i), ends |-> FALSE]
      BY <1>2, <2>3
    <3> QED
      BY <1>2, <2>1, <3>1
  <2> QED
    BY <2>2, <2>3
<1> HIDE DEF Frames
<1>5. Frames \in [1..Depth -> [fn : Code, ends : BOOLEAN]]
  BY <1>3, <1>4, Zenon
<1>6. Frames \in Seq([fn : Code, ends : BOOLEAN]) /\ Len(Frames) = Depth
  BY <1>1, <1>5, FnIsSeq
<1> QED
  BY <1>2, <1>6

LEMMA NextFrames ==
  ASSUME child'.at # "exit", NEW n \in Nat, Depth' = n, NEW F \in Seq([fn : Code, ends : BOOLEAN]), Len(F) = n,
         \A i \in 1..n : FrameFn(i)' = F[i].fn /\ (i \in Hid' <=> F[i].ends)
  PROVE  Frames' = F
<1>1. ASSUME NEW i \in 1..n PROVE Frames'[i] = F[i]
  <2>1. Frames'[i] = [fn |-> FrameFn(i)', ends |-> IsHidden(i)']
    BY DEF Frames
  <2>2. F[i] \in [fn : Code, ends : BOOLEAN] /\ i \in Nat \ {0}
    <3>1. i \in 1..Len(F) /\ i \in Nat \ {0}
      OBVIOUS
    <3>2. F[i] \in [fn : Code, ends : BOOLEAN]
      BY <3>1, ElementOfSeq
    <3> QED
      BY <3>1, <3>2
  <2>3. F[i] = [fn |-> F[i].fn, ends |-> F[i].ends] /\ F[i].ends \in BOOLEAN
    BY <2>2
  <2>4. IsHidden(i)' \in BOOLEAN /\ (IsHidden(i)' <=> F[i].ends)
    BY <2>2 DEF IsHidden, Hid
  <2>5. IsHidden(i)' = F[i].ends
    BY <2>3, <2>4
  <2> QED
    BY <2>1, <2>3, <2>5
<1>2. Frames' = [i \in 1..n |-> Frames'[i]]
  BY DEF Frames
<1>3. F = [i \in 1..n |-> F[i]]
  OBVIOUS
<1> QED
  BY <1>1, <1>2, <1>3

LEMMA FramesKept ==
  ASSUME IInv, Alive, child.at # "exit", child'.at # "exit", Depth' = Depth, Hid' = Hid, \A i \in 1..Depth : FrameFn(i)' = FrameFn(i)
  PROVE  Frames' = Frames
<1>1. Depth \in Nat
  BY Positions
<1>2. \A i \in 1..Depth : FrameFn(i)' = Frames[i].fn /\ (i \in Hid' <=> Frames[i].ends)
  BY FramesAre
<1> QED
  BY <1>1, <1>2, FramesAre, NextFrames

LEMMA StackSame ==
  ASSUME child' = child, mem' = mem, dbg'.return_addr = dbg.return_addr
  PROVE  Frames' = Frames /\ Progress' = Progress
<1>1. AtEnd' = AtEnd /\ Depth' = Depth /\ \A i : IsHidden(i)' = IsHidden(i)
  BY DEF AtEnd, Depth, IsHidden
<1>2. \A i : Rank(i)' = Rank(i)
  BY DEF Rank, IsHidden
<1>3. \A i : ReturnAddr(i)' = ReturnAddr(i)
  BY <1>2 DEF ReturnAddr, IsHidden, Depth, AtEnd
<1>4. \A i : FrameFn(i)' = FrameFn(i)
  BY <1>3 DEF FrameFn, Depth, AtEnd
<1> QED
  BY <1>1, <1>4 DEF Frames, Progress

(* What the walk finds is what the program would show. *)
LEMMA TraceIsCallers ==
  ASSUME IInv, Alive, child.at # "exit", NEW m, NEW ra \in Seq(Sites), NEW d \in Nat, d = Depth, d >= 2,
         Walked(m, d), Len(ra) = RankIn(Hid, d),
         \A i \in 1..d : m[2 * i - 1] = Entry(EndHandler) <=> i \in Hid,
         \A i \in 2..d : ReturnAddr(i) = IF i \in Hid THEN ra[RankIn(Hid, i)] ELSE m[2 * i - 1]
  PROVE  CopyStack(m, ra) = Promise!Callers(Frames)
<1> DEFINE Found(k) == FoundAt(m, Reverse(ra), d, k)
<1>1. CopyStack(m, ra) = [k \in 1..(d - 1) |-> Found(k)]
  BY TrailFacts DEF CopyStack
<1>2. Promise!Callers(Frames) = [k \in 1..(d - 1) |-> Site(Frames[d - k].fn)]
  BY FramesAre DEF Promise!Callers, Promise!Site, Site
<1>3. ASSUME NEW k \in 1..(d - 1) PROVE Found(k) = Site(Frames[d - k].fn)
  <2> DEFINE i == d - k + 1
  <2>1. /\ i \in 2..d /\ i \in 1..d /\ i \in Nat /\ d - k \in 1..d /\ d - k # d /\ (d - k) + 1 = i
        /\ 2 * (d - k) + 1 = 2 * i - 1 /\ k - 1 \in 0..d /\ d - (k - 1) = i
        /\ (k - 1) - 1 = k - 2
    OBVIOUS
  <2>2. Site(Frames[d - k].fn) = ReturnAddr(i)
    <3>1. Frames[d - k].fn = FrameFn(d - k)
      BY <2>1, FramesAre
    <3>2. FrameFn(d - k) = ReturnAddr(i).of
      BY <2>1 DEF FrameFn
    <3>3. ReturnAddr(i) \in Sites
      BY <2>1, ReturnFacts
    <3>4. PICK f \in Code : ReturnAddr(i) = Site(f)
      BY <3>3 DEF Sites
    <3> QED
      BY <3>1, <3>2, <3>4, WordFacts
  <2>3. CASE i \in Hid
    <3> DEFINE A == {j \in 0..(k - 2) : m[2 * (d - j) - 1] = Entry(EndHandler)}
               r == RankIn(Hid, i)
               n == Len(ra)
    <3>1. A = {j \in 0..((k - 1) - 1) : d - j \in Hid}
      <4>1. ASSUME NEW j \in 0..(k - 2)
            PROVE  m[2 * (d - j) - 1] = Entry(EndHandler) <=> d - j \in Hid
        <5>1. d - j \in 1..d
          OBVIOUS
        <5> QED
          BY <5>1
      <4> QED
        BY <2>1, <4>1
    <3>2. n = r + Cardinality(A) /\ IsFiniteSet(A)
      <4> DEFINE c == k - 1
      <4>1. c \in 0..d /\ d - c = i
        OBVIOUS
      <4> HIDE DEF c, i
      <4>2. /\ IsFiniteSet({j \in 0..(c - 1) : d - j \in Hid})
            /\ RankIn(Hid, d) = RankIn(Hid, d - c) + Cardinality({j \in 0..(c - 1) : d - j \in Hid})
        BY <4>1, RankAbove
      <4> QED
        BY <3>1, <4>1, <4>2 DEF c
    <3>3. r \in 1..n /\ Cardinality(A) \in Nat
      BY <2>3, <3>2, FS_CardinalityType, ShadowFacts
    <3>4. Found(k) = Reverse(ra)[Cardinality(A) + 1]
      BY <2>1, <2>3 DEF FoundAt
    <3> HIDE DEF A, r, n
    <3>5. Cardinality(A) + 1 \in 1..n /\ (n - (Cardinality(A) + 1)) + 1 = r
      BY <3>2, <3>3
    <3>6. Reverse(ra)[Cardinality(A) + 1] = ra[r]
      BY <3>5 DEF Reverse, n
    <3>7. ReturnAddr(i) = ra[r]
      BY <2>1, <2>3 DEF r
    <3> QED
      BY <2>2, <3>4, <3>6, <3>7
  <2>4. CASE i \notin Hid
    BY <2>1, <2>2, <2>4 DEF FoundAt
  <2> QED
    BY <2>3, <2>4
<1> HIDE DEF Found
<1> QED
  BY <1>1, <1>2, <1>3

LEMMA TraceAtFunction ==
  ASSUME IInv, Alive, child.at = "entry", ~AtEnd
  PROVE  CopyStack(mem, dbg.return_addr) = Promise!Callers(Frames)
<1>1. PICK d : d = Depth
  OBVIOUS
<1>2. d \in Nat /\ d >= 2 /\ Len(mem) = 2 * d - 1 /\ child.rbp = 2 * d - 2
  BY <1>1, Positions
<1>3. ASSUME NEW i \in 1..d PROVE mem[2 * i - 1] = Entry(EndHandler) <=> i \in Hid
  <2>1. i \in Nat \ {0} /\ 2 * i <= Len(mem) + 1
    BY <1>2
  <2> QED
    BY <2>1 DEF Hid, IsHidden
<1>4. ASSUME NEW i \in 2..d PROVE mem[2 * i - 1] # EndAddr
  <2>1. 2 * i - 1 <= Len(mem) /\ i \in 2..Depth
    BY <1>1, <1>2
  <2>2. mem[2 * i - 1] \in Sites \cup {Entry(EndHandler)}
    BY <2>1 DEF IInv, Returns
  <2>3. EndAddr \notin Sites /\ EndAddr # Entry(EndHandler)
    BY WordFacts DEF Sites
  <2> QED
    BY <2>2, <2>3
<1>5. ASSUME NEW i \in 1..(d - 1) PROVE mem[2 * i] = Saved(2 * (i - 1))
  <2>1. 2 * i <= Len(mem) /\ i \in 1..Depth
    BY <1>1, <1>2
  <2> QED
    BY <2>1 DEF IInv, Pointers
<1>6. Walked(mem, d)
  BY <1>2, <1>4, <1>5 DEF Walked, IInv, Returns
<1>7. Len(dbg.return_addr) = RankIn(Hid, d) /\ dbg.return_addr \in Seq(Sites)
  <2>1. /\ Len(dbg.return_addr) = RankIn(Hid, Depth) + 0 /\ RankIn(Hid, Depth) \in Nat
        /\ dbg.return_addr \in Seq(Sites)
    BY ShadowFacts
  <2> QED
    BY <1>1, <2>1
<1>8. ASSUME NEW i \in 2..d
      PROVE  ReturnAddr(i) = IF i \in Hid THEN dbg.return_addr[RankIn(Hid, i)] ELSE mem[2 * i - 1]
  <2>1. i \in Nat /\ (IsHidden(i) <=> i \in Hid)
    BY DEF Hid
  <2>2. Rank(i) = RankIn(Hid, i)
    BY <2>1, RankHid
  <2> QED
    BY <2>1, <2>2 DEF ReturnAddr
<1> QED
  BY <1>1, <1>2, <1>3, <1>6, <1>7, <1>8, TraceIsCallers

LEMMA TraceAtEnd ==
  ASSUME IInv, Alive, AtEnd
  PROVE  CopyStack(Append(mem, Last(dbg.return_addr)), Front(dbg.return_addr))
           = Promise!Callers(Frames)
<1> DEFINE ra == dbg.return_addr
           m == Append(mem, Last(ra))
<1>1. PICK d : d = Depth
  OBVIOUS
<1>2. d \in Nat /\ d >= 2 /\ Len(mem) = 2 * d - 2 /\ child.rbp = 2 * d - 2 /\ mem \in Seq(Words)
  BY <1>1, Positions DEF IInv, TypeOK
<1>3. Len(ra) = RankIn(Hid, d) + 1 /\ RankIn(Hid, d) \in Nat /\ ra \in Seq(Sites)
  BY <1>1, ShadowFacts
<1>4. /\ Last(ra) \in Sites /\ Front(ra) \in Seq(Sites) /\ Len(Front(ra)) = RankIn(Hid, d)
      /\ \A r \in 1..RankIn(Hid, d) : Front(ra)[r] = ra[r]
  <2>1. Len(ra) > 0 /\ Len(ra) - 1 = RankIn(Hid, d)
    BY <1>3
  <2> QED
    BY <1>3, <2>1, FrontLast
<1> HIDE DEF ra
<1>5. /\ Len(m) = 2 * d - 1 /\ \A i \in 1..(2 * d - 2) : m[i] = mem[i]
      /\ m[2 * d - 1] = Last(ra)
  <2>1. Last(ra) \in Words
    BY <1>4 DEF Words
  <2>2. /\ Len(m) = Len(mem) + 1 /\ \A i \in 1..Len(mem) : m[i] = mem[i]
        /\ m[Len(mem) + 1] = Last(ra)
    BY <1>2, <2>1, AppendFacts
  <2>3. Len(mem) + 1 = 2 * d - 1
    BY <1>2
  <2> QED
    BY <1>2, <2>2, <2>3
<1> HIDE DEF m
<1>6. EndAddr \notin Sites /\ Entry(EndHandler) \notin Sites /\ EndAddr # Entry(EndHandler)
  BY WordFacts DEF Sites
<1>7. ASSUME NEW i \in 1..(d - 1)
      PROVE  /\ m[2 * i - 1] = mem[2 * i - 1] /\ m[2 * i] = mem[2 * i]
             /\ 2 * i <= Len(mem) /\ 2 * i - 1 <= Len(mem) /\ i \in 1..Depth
  <2>1. 2 * i - 1 \in 1..(2 * d - 2) /\ 2 * i \in 1..(2 * d - 2)
    BY <1>2
  <2> QED
    BY <1>1, <1>2, <1>5, <2>1
<1>8. ~IsHidden(d) /\ d \notin Hid
  <2>1. ~(2 * d <= Len(mem) + 1)
    BY <1>2
  <2> QED
    BY <2>1 DEF Hid, IsHidden
<1>9. ASSUME NEW i \in 1..d PROVE m[2 * i - 1] = Entry(EndHandler) <=> i \in Hid
  <2>1. CASE i = d
    BY <1>4, <1>5, <1>6, <1>8, <2>1
  <2>2. CASE i # d
    <3>1. i \in 1..(d - 1) /\ i \in Nat \ {0}
      BY <1>2, <2>2
    <3>2. 2 * i <= Len(mem) + 1
      BY <1>2, <3>1
    <3> QED
      BY <1>7, <3>1, <3>2 DEF Hid, IsHidden
  <2> QED
    BY <2>1, <2>2
<1>10. ASSUME NEW i \in 2..d PROVE m[2 * i - 1] # EndAddr
  <2>1. CASE i = d
    BY <1>4, <1>5, <1>6, <2>1
  <2>2. CASE i # d
    <3>1. i \in 1..(d - 1) /\ i \in 2..Depth
      BY <1>1, <1>2, <2>2
    <3>2. mem[2 * i - 1] \in Sites \cup {Entry(EndHandler)}
      BY <1>7, <3>1 DEF IInv, Returns
    <3> QED
      BY <1>6, <1>7, <3>1, <3>2
  <2> QED
    BY <2>1, <2>2
<1>11. ASSUME NEW i \in 1..(d - 1) PROVE m[2 * i] = Saved(2 * (i - 1))
  BY <1>7 DEF IInv, Pointers
<1>12. m[1] = EndAddr
  <2>1. 1 \in 1..(2 * d - 2)
    BY <1>2
  <2> QED
    BY <1>5, <2>1 DEF IInv, Returns
<1>13. Walked(m, d)
  BY <1>2, <1>5, <1>10, <1>11, <1>12 DEF Walked
<1>14. ASSUME NEW i \in 2..d
       PROVE  ReturnAddr(i) = IF i \in Hid THEN Front(ra)[RankIn(Hid, i)] ELSE m[2 * i - 1]
  <2>1. i \in Nat /\ (IsHidden(i) <=> i \in Hid)
    BY DEF Hid
  <2>2. CASE i = d
    BY <1>1, <1>5, <1>8, <2>2 DEF ReturnAddr, ra
  <2>3. CASE i # d /\ i \in Hid
    <3>1. ReturnAddr(i) = ra[RankIn(Hid, i)]
      BY <2>1, <2>3, RankHid DEF ReturnAddr, ra
    <3>2. RankIn(Hid, i) \in 1..RankIn(Hid, d)
      BY <1>1, <2>3, ShadowFacts
    <3> QED
      BY <1>4, <2>3, <3>1, <3>2
  <2>4. CASE i # d /\ i \notin Hid
    <3>1. i \in 1..(d - 1)
      BY <1>2, <2>4
    <3> QED
      BY <1>1, <1>7, <2>1, <2>4, <3>1 DEF ReturnAddr
  <2> QED
    BY <2>2, <2>3, <2>4
<1> QED
  BY <1>1, <1>2, <1>4, <1>9, <1>13, <1>14, TraceIsCallers DEF ra, m, AtEnd

-------------------------------------------------------------------------------
(* How deep it gets: the child's calls are limited, and with them the three   *)
(* arrays whose bound the code does not check.                                *)
Shallow ==
  /\ Alive => Depth <= MaxDepth
  /\ Len(do_backtrace) \in 0..MaxDepth

LEMMA RankAtMost ==
  ASSUME NEW H, NEW n \in Nat
  PROVE  RankIn(H, n) \in Nat /\ RankIn(H, n) <= n
<1> DEFINE R == {j \in 1..n : j \in H}
<1>1. IsFiniteSet(1..n) /\ Cardinality(1..n) = n
  BY FS_Interval
<1>2. R \subseteq 1..n
  OBVIOUS
<1> HIDE DEF R
<1>3. IsFiniteSet(R) /\ Cardinality(R) <= Cardinality(1..n)
  BY <1>1, <1>2, FS_Subset
<1>4. RankIn(H, n) = Cardinality(R)
  BY DEF R, RankIn
<1> QED
  BY <1>1, <1>3, <1>4, FS_CardinalityType

LEMMA ShadowFits ==
  ASSUME IInv, Shallow
  PROVE  Len(dbg.stack) <= MaxDepth /\ Len(dbg.return_addr) <= MaxDepth
<1>1. CASE ~Alive
  <2>1. dbg.stack = <<>> /\ dbg.return_addr = <<>>
    BY <1>1 DEF IInv, Control, Alive, NoDebug
  <2> QED
    BY <2>1, DebuggerAssumption
<1>2. CASE Alive
  <2>1. /\ Depth \in Nat /\ Depth >= 1 /\ Depth <= MaxDepth
        /\ Len(dbg.stack) = RankIn(Hid, Depth) + (IF AtEnd THEN 1 ELSE 0)
        /\ Len(dbg.return_addr) = Len(dbg.stack)
    BY <1>2, Positions, ShadowFacts DEF Shallow
  <2> DEFINE n == Depth
  <2>2. n \in Nat /\ n >= 1 /\ n - 1 \in Nat /\ (n - 1) + 1 = n /\ n <= MaxDepth
    BY <2>1
  <2>3. AtEnd => n \notin Hid
    <3>1. ASSUME AtEnd, n \in Hid PROVE FALSE
      BY <1>2, <2>2, <3>1, HidFacts
    <3> QED
      BY <3>1
  <2> HIDE DEF n
  <2>4. RankIn(Hid, (n - 1) + 1) = RankIn(Hid, n - 1) + (IF (n - 1) + 1 \in Hid THEN 1 ELSE 0)
    BY <2>2, RankFacts
  <2>5. RankIn(Hid, n - 1) \in Nat /\ RankIn(Hid, n - 1) <= n - 1
    BY <2>2, RankAtMost
  <2>6. RankIn(Hid, n) + (IF AtEnd THEN 1 ELSE 0) <= n
    BY <2>2, <2>3, <2>4, <2>5
  <2>7. MaxDepth \in Nat
    BY DebuggerAssumption
  <2> QED
    BY <2>1, <2>2, <2>5, <2>6, <2>7 DEF n
<1> QED
  BY <1>1, <1>2

LEMMA CallersLen ==
  ASSUME IInv, Alive, child.at # "exit", NEW e
  PROVE  /\ Len(Promise!Callers(Frames)) = Depth - 1
         /\ Len(<<e>> \o Promise!Callers(Frames)) = Depth
<1> DEFINE n == Depth - 1
           C == Promise!Callers(Frames)
           S == {C[i] : i \in 1..n} \cup {e}
<1>1. n \in Nat /\ Len(Frames) - 1 = n /\ n + 1 = Depth
  BY Positions, FramesAre
<1>2. C = [i \in 1..n |-> C[i]]
  BY <1>1 DEF Promise!Callers
<1> HIDE DEF C, n
<1>3. C \in [1..n -> S]
  BY <1>2
<1> HIDE DEF S
<1>4. C \in Seq(S) /\ Len(C) = n
  BY <1>1, <1>3, FnIsSeq
<1>5. <<e>> \in Seq(S) /\ Len(<<e>>) = 1
  BY DEF S
<1>6. Len(<<e>> \o C) = 1 + n
  BY <1>4, <1>5, ConcatProperties
<1>7. Len(C) = Depth - 1 /\ Len(<<e>> \o C) = Depth
  BY <1>1, <1>4, <1>6
<1> QED
  BY <1>7 DEF C

(* What a step leaves or makes of the depth and the trace. *)
LEMMA StopShallow ==
  ASSUME IInv, int3_handler
  PROVE  Depth' = Depth /\ Len(dbg'.trace) \in 0..Depth
<1>1. /\ Alive /\ child.at = "entry" /\ child.at # "exit" /\ child' = [child EXCEPT !.at = "pushed"]
      /\ Depth \in Nat
  BY StopParts, Positions
<1>2. CASE ~AtEnd
  <2> DEFINE t == <<Entry(child.fn)>> \o CopyStack(mem, dbg.return_addr)
             r == CopyRegs(Len(mem))
  <2>1. Len(t) = Depth
    BY <1>1, <1>2, TraceAtFunction, CallersLen
  <2>2. CASE ~EndWanted
    <3>1. Stops(t, r, dbg.stack, dbg.return_addr) /\ TypeOK /\ mem' = Append(mem, Saved(child.rbp))
      BY <1>2, <2>2, StopPlainParts DEF Stops, IInv
    <3> HIDE DEF t, r
    <3>2. /\ dbg'.on = dbg.on /\ dbg'.stack = dbg.stack /\ dbg'.return_addr = dbg.return_addr
          /\ dbg'.trace = t
      BY <3>1, StopParts, DbgStops
    <3>3. Depth' = Depth
      BY <1>1, <1>2, <3>1, <3>2, PushFacts
    <3> QED
      BY <1>1, <2>1, <3>2, <3>3
  <2>3. CASE EndWanted
    <3>1. /\ Stops(t, r, Append(dbg.stack, child.fn), Append(dbg.return_addr, Last(mem))) /\ TypeOK
          /\ mem' = Front(mem) \o <<Entry(EndHandler), Saved(child.rbp)>>
      BY <1>2, <2>3, StopHidingParts DEF Stops, IInv
    <3> HIDE DEF t, r
    <3>2. /\ dbg'.stack = Append(dbg.stack, child.fn)
          /\ dbg'.return_addr = Append(dbg.return_addr, Last(mem)) /\ dbg'.on = dbg.on
          /\ dbg'.trace = t
      BY <3>1, StopParts DEF Stops, DebugInfo
    <3>3. PICK d : d = Depth
      OBVIOUS
    <3>4. Depth' = Depth
      BY <1>1, <1>2, <3>1, <3>2, <3>3, HideFacts
    <3> QED
      BY <1>1, <2>1, <3>2, <3>4
  <2> QED
    BY <2>2, <2>3
<1>3. CASE AtEnd
  <2> DEFINE t == CopyStack(Append(mem, Last(dbg.return_addr)), Front(dbg.return_addr))
             r == CopyRegs(Len(mem) + 1)
  <2>1. Len(t) \in 0..Depth
    BY <1>1, <1>3, TraceAtEnd, CallersLen
  <2>2. /\ Stops(t, r, Front(dbg.stack), Front(dbg.return_addr))
        /\ mem' = Append(Append(mem, Last(dbg.return_addr)), Saved(child.rbp))
    BY <1>3, StopEndParts DEF Stops
  <2> HIDE DEF t, r
  <2>3. /\ dbg'.stack = Front(dbg.stack) /\ dbg'.return_addr = Front(dbg.return_addr)
        /\ dbg'.on = dbg.on /\ dbg'.trace = t
    BY <2>2, StopParts DEF Stops, DebugInfo
  <2>4. Depth' = Depth
    BY <1>1, <1>3, <2>2, <2>3, UnhideFacts
  <2> QED
    BY <2>1, <2>3, <2>4
<1> QED
  BY <1>2, <1>3

LEMMA TraceSame ==
  ASSUME IInv, Shallow, dbg'.trace = dbg.trace,
         Alive' => (Alive /\ Depth' = Depth) \/ Depth' = 1
  PROVE  Shallow'
  BY DebuggerAssumption DEF Shallow, do_backtrace

LEMMA StepShallow == IInv /\ Shallow /\ [Next]_vars => Shallow'
<1> SUFFICES ASSUME IInv, Shallow, [Next]_vars PROVE Shallow'
  OBVIOUS
<1>0. MaxDepth \in Nat /\ MaxDepth >= 1 /\ dbg \in DebugInfo(dbg)
  BY DebuggerAssumption DEF IInv, TypeOK
<1>1. CASE do_become_debugger
  <2>1. /\ dbg'.trace = <<>> /\ child' = child /\ mem' = mem
        /\ ~dbg.on => child.at = "none"
    BY <1>1 DEF do_become_debugger, Says, childVars, NoDebug, IInv, Control
  <2>2. dbg.on \in BOOLEAN /\ Depth' = Depth /\ (Alive' => Alive)
    BY <2>1, DbgFields DEF Alive, Depth, AtEnd, IInv
  <2> QED
    BY <1>0, <2>1, <2>2 DEF Shallow, do_backtrace
<1>2. CASE do_fork
  <2>1. dbg' = dbg /\ Depth' = 1
    BY <1>2, ForkStep DEF do_fork
  <2> QED
    BY <2>1, TraceSame
<1>3. CASE do_wait_and_continue
  <2>1. dbg' = dbg
    BY <1>3 DEF do_wait_and_continue, Refuses
  <2>2. CASE child' = child /\ mem' = mem
    BY <2>1, <2>2, TraceSame DEF Alive, Depth, AtEnd
  <2>3. CASE /\ child.at # "none" /\ mem' = mem
             /\ child' = [child EXCEPT !.at = IF @ = "exit" THEN "body" ELSE @]
    <3>1. /\ child'.at = IF child.at = "exit" THEN "body" ELSE child.at
          /\ child'.fn = child.fn
      BY <2>3 DEF IInv, TypeOK
    <3>2. AtEnd' = AtEnd
      BY <3>1 DEF AtEnd
    <3>3. Depth' = Depth
      <4>1. child.at # "none" /\ child'.at # "none" /\ Len(mem') = Len(mem)
        BY <2>3, <3>1
      <4> QED
        BY <3>2, <4>1 DEF Depth
    <3>4. Alive' => Alive
      BY <2>1, <2>3 DEF Alive
    <3> QED
      BY <2>1, <3>3, <3>4, TraceSame
  <2> QED
    BY <1>3, <2>2, <2>3 DEF do_wait_and_continue, Refuses, Says, childVars
<1>4. CASE debugger_exit
  <2>1. dbg'.trace = <<>> /\ ~dbg'.on
    BY <1>4 DEF debugger_exit, NoDebug
  <2> QED
    BY <1>0, <2>1 DEF Shallow, do_backtrace, Alive
<1>5. CASE \E f \in Fns : do_remove_breakpoint(f)
  <2>1. dbg'.trace = dbg.trace /\ dbg'.on = dbg.on /\ child' = child /\ mem' = mem
    BY <1>0, <1>5 DEF do_remove_breakpoint, Refuses, Says, childVars, Unlinked, DebugInfo
  <2> QED
    BY <2>1, TraceSame DEF Alive, Depth, AtEnd
<1>6. CASE \E f \in Fns : \E flag \in BOOLEAN : do_set_breakpoint(f, flag)
  <2>1. dbg'.trace = dbg.trace /\ dbg'.on = dbg.on /\ child' = child /\ mem' = mem
    BY <1>0, <1>6 DEF do_set_breakpoint, Refuses, Says, childVars, DebugInfo
  <2> QED
    BY <2>1, TraceSame DEF Alive, Depth, AtEnd
<1>7. CASE \E f \in Fns : Call(f)
  <2>1. PICK f \in Fns : Call(f)
    BY <1>7
  <2>2. /\ Running("child") /\ child.at = "body" /\ Keep /\ dbg' = dbg /\ child.rbp < 2 * MaxDepth
        /\ mem' = Append(mem, Site(child.fn)) /\ child' = [child EXCEPT !.fn = f, !.at = "entry"]
        /\ Alive
    BY <2>1, ChildRuns DEF Call, Push, Keep
  <2>3. PICK n : n = Depth + 1
    OBVIOUS
  <2>4. Depth' = Depth + 1
    BY <2>2, <2>3, CallFacts
  <2>5. Depth \in Nat /\ child.rbp = 2 * Depth
    BY <2>2, Positions
  <2>6. Depth + 1 <= MaxDepth
    BY <1>0, <2>2, <2>5
  <2> QED
    BY <2>2, <2>4, <2>6 DEF Shallow, do_backtrace
<1>8. CASE PushRbp
  <2>1. /\ dbg' = dbg /\ Alive /\ child.at = "entry" /\ ~AtEnd
        /\ mem' = Append(mem, Saved(child.rbp)) /\ child' = [child EXCEPT !.at = "pushed"]
    BY <1>8, PushStep, ChildRuns DEF PushRbp, Push, Keep
  <2> QED
    BY <2>1, PushFacts, TraceSame
<1>9. CASE SetRbp
  <2>1. /\ dbg' = dbg /\ Alive /\ child.at = "pushed" /\ mem' = mem
        /\ child' = [child EXCEPT !.at = "body", !.rbp = Len(mem)]
    BY <1>9, ChildRuns DEF SetRbp, Keep
  <2> QED
    BY <2>1, BaseFacts, TraceSame
<1>10. CASE Return
  <2>1. /\ dbg' = dbg /\ Alive /\ child.at = "body" /\ mem[child.rbp - 1] # EndAddr /\ Returned
    BY <1>10, ReturnParts
  <2>2. CASE Depth \notin Hid
    <3>1. Depth' = Depth - 1 /\ Depth > 1 /\ Depth \in Nat
      BY <2>1, <2>2, PlainReturn, Positions
    <3> QED
      BY <1>0, <2>1, <3>1 DEF Shallow, do_backtrace
  <2>3. CASE Depth \in Hid
    <3>1. PICK d \in Hid : d = Depth
      BY <2>3
    <3>2. Depth' = Depth
      BY <2>1, <3>1, HiddenReturn
    <3> QED
      BY <2>1, <3>2, TraceSame
  <2> QED
    BY <2>2, <2>3
<1>11. CASE int3_handler
  <2>1. /\ Depth' = Depth /\ Len(dbg'.trace) \in 0..Depth /\ Alive
        /\ Depth \in Nat /\ Depth <= MaxDepth
    BY <1>11, StopShallow, StopParts, Positions DEF Shallow
  <2>2. Len(dbg'.trace) \in 0..MaxDepth
    BY <1>0, <2>1
  <2> QED
    BY <2>1, <2>2 DEF Shallow, do_backtrace
<1>12. CASE child_exit
  <2>1. /\ child.at = "body" /\ Alive /\ dbg' = dbg /\ mem' = mem
        /\ child' = [child EXCEPT !.at = "exit"]
    BY <1>12, ChildRuns DEF child_exit
  <2>2. child'.at = "exit"
    BY <2>1 DEF IInv, TypeOK
  <2>3. Depth' = Depth
    BY <2>1, <2>2 DEF Depth, AtEnd
  <2> QED
    BY <2>1, <2>3, TraceSame
<1>13. CASE UNCHANGED vars
  BY <1>13, TraceSame DEF vars, childVars, Alive, Depth, AtEnd
<1> QED
  BY <1>1, <1>2, <1>3, <1>4, <1>5, <1>6, <1>7, <1>8, <1>9, <1>10, <1>11, <1>12, <1>13
     DEF Next, DebuggerStep, ChildStep

(* The shadow stack holds the replaced return addresses and the functions   *)
(* they belong to, in order, however calls nest and however often an exited *)
(* child is run again; as long as no more calls nest than the assignment    *)
(* allows, no array overflows (int3_handler, do_backtrace).                 *)
THEOREM ShadowHoldsWhatIsHidden == Spec => []ShadowMatchesFrames
<1>1. Init => Shallow
  <2>1. Init => ~Alive /\ dbg.trace = <<>>
    BY DEF Init, Alive, NoDebug
  <2> QED
    BY <2>1, DebuggerAssumption DEF Shallow, do_backtrace
<1>2. IInv /\ Shallow => ShadowMatchesFrames
  <2> SUFFICES ASSUME IInv, Shallow PROVE ShadowMatchesFrames
    OBVIOUS
  <2>1. /\ Len(dbg.stack) <= MaxDepth /\ Len(dbg.return_addr) <= MaxDepth
        /\ Len(do_backtrace) \in 0..MaxDepth
    BY ShadowFits DEF Shallow
  <2>2. MaxDepth \in Nat /\ MAX_BACKTRACE \in Nat /\ MaxDepth <= MAX_BACKTRACE
    BY DebuggerAssumption
  <2>3. Len(dbg.stack) \in Nat /\ Len(dbg.return_addr) \in Nat
    BY DbgFields DEF IInv
  <2>4. Len(dbg.stack) <= MAX_BACKTRACE /\ Len(dbg.return_addr) <= MAX_BACKTRACE
    BY <2>1, <2>2, <2>3
  <2>5. Len(do_backtrace) <= MAX_BACKTRACE
    BY <2>1, <2>2
  <2> QED
    BY <2>4, <2>5 DEF IInv, ShadowMatchesFrames, ArraysSuffice
<1> QED
  BY <1>1, <1>2, StepShallow, Safety, PTL DEF Spec

-------------------------------------------------------------------------------
(* The steps, as steps of the promise. *)
PromiseVars == <<Phase, Points, Frames, Progress, Report, rax>>

LEMMA InitMapped == Init => Promise!Init
<1> SUFFICES ASSUME Init PROVE Promise!Init
  OBVIOUS
<1>1. /\ state["debugger"] = "RUNNING" /\ dbg = NoDebug /\ child.at = "none" /\ rax = Done
      /\ ~dbg.on /\ dbg.list = <<>>
  BY DEF Init, NoDebug
<1>2. Phase = "plain" /\ Progress = "none"
  BY <1>1 DEF Phase, Progress, AtEnd
<1>3. Points = Promise!NoPoint
  BY <1>1 DEF Points, IsSet, Promise!NoPoint
<1>4. Frames = <<>>
  BY <1>1 DEF Frames, Depth
<1>5. Report = Promise!NoReport
  <2>1. (-1 + 1) \div 2 = 0
    OBVIOUS
  <2> QED
    BY <1>1, <2>1 DEF Report, Promise!NoReport, do_info_registers, do_backtrace, NoDebug, Done, Promise!Done
<1> QED
  BY <1>1, <1>2, <1>3, <1>4, <1>5 DEF Promise!Init, Done, Promise!Done

LEMMA SameMapped ==
  ASSUME UNCHANGED <<state, dbg, childVars>>
  PROVE  UNCHANGED <<Phase, Points, Frames, Progress, Report>>
<1>1. child' = child /\ mem' = mem /\ dbg' = dbg /\ state' = state
  BY DEF childVars
<1>2. Frames' = Frames /\ Progress' = Progress
  BY <1>1, StackSame
<1>3. Points' = Points
  BY <1>1, PointsMapped
<1>4. Phase' = Phase /\ Report' = Report
  BY <1>1 DEF Phase, Running, Report, do_info_registers, do_backtrace
<1> QED
  BY <1>2, <1>3, <1>4

LEMMA InControlMapped ==
  ASSUME IInv, Running("debugger")
  PROVE  /\ Promise!InControl
         /\ dbg.on <=> Phase # "plain"
         /\ Phase = IF ~dbg.on THEN "plain" ELSE IF child.at = "none" THEN "alone"
                    ELSE IF child.at = "exit" THEN "exited" ELSE "stopped"
<1>1. state["debugger"] = "RUNNING" /\ ~Running("child")
  BY DEF IInv, Control, Running
<1> QED
  BY <1>1 DEF Promise!InControl, Phase

LEMMA RefuseMapped ==
  ASSUME IInv, Running("debugger"), Refuses
  PROVE  Promise!Refuse
<1>1. rax' = Failed /\ UNCHANGED <<state, dbg, childVars>>
  BY DEF Refuses, Says
<1> QED
  BY <1>1, SameMapped, InControlMapped DEF Promise!Refuse, Failed, Promise!Failed

LEMMA ForkMapped ==
  ASSUME IInv, do_fork
  PROVE  Promise!Fork
<1>1. /\ Running("debugger") /\ dbg.on /\ child.at = "none"
      /\ state["debugger"] = "RUNNING" /\ state' = [state EXCEPT !["child"] = "WAITING"]
      /\ child' = [fn |-> Main, at |-> "body", rbp |-> 2] /\ dbg' = dbg /\ rax' = Done
  BY DEF do_fork, Running
<1>2. Alive' /\ Depth' = 1 /\ Hid' = {} /\ ~AtEnd'
  BY ForkStep
<1>3. state'["debugger"] = "RUNNING" /\ state'["child"] = "WAITING"
  BY <1>1 DEF IInv, TypeOK
<1>4. Phase = "alone" /\ Phase' = "stopped" /\ Progress' = "body"
  BY <1>1, <1>2, <1>3, InControlMapped DEF Phase, Running, Progress
<1>5. Frames' = <<[fn |-> Main, ends |-> FALSE]>>
  <2>1. FrameFn(1)' = Main
    BY <1>1, <1>2 DEF FrameFn
  <2>2. [fn |-> Main, ends |-> FALSE] \in [fn : Code, ends : BOOLEAN]
    BY DEF Code
  <2> DEFINE F == <<[fn |-> Main, ends |-> FALSE]>>
  <2>3. F \in Seq([fn : Code, ends : BOOLEAN]) /\ Len(F) = 1 /\ F[1].fn = Main /\ F[1].ends = FALSE
    BY <2>2
  <2>4. \A i \in 1..1 : FrameFn(i)' = F[i].fn /\ (i \in Hid' <=> F[i].ends)
    <3>1. \A i \in 1..1 : i = 1
      OBVIOUS
    <3> QED
      BY <1>2, <2>1, <2>3, <3>1
  <2> HIDE DEF F
  <2>5. Frames' = F
    BY <1>1, <1>2, <2>3, <2>4, NextFrames
  <2> QED
    BY <2>5 DEF F
<1>6. Points' = Points /\ Report' = Report
  BY <1>1, PointsMapped DEF Report, do_info_registers, do_backtrace
<1> QED
  BY <1>1, <1>4, <1>5, <1>6 DEF Promise!Fork, Promise!Outermost, Done, Promise!Done

LEMMA WaitMapped ==
  ASSUME IInv, do_wait_and_continue
  PROVE  Promise!Next \/ WaitsForNobody
<1>1. Running("debugger")
  BY DEF do_wait_and_continue
<1>2. CASE Refuses
  BY <1>1, <1>2, RefuseMapped DEF Promise!Next
<1>3. CASE child.at \in {"none", "exit"}
  BY <1>3 DEF WaitsForNobody
<1>4. CASE /\ dbg.on /\ child.at \notin {"none", "exit"}
           /\ state' = [debugger |-> "WAITING", child |-> "RUNNING"]
           /\ child' = [child EXCEPT !.at = IF @ = "exit" THEN "body" ELSE @]
           /\ rax' = Done
           /\ UNCHANGED <<dbg, code, mem, calls>>
  <2>1. child' = child /\ mem' = mem /\ dbg' = dbg
    BY <1>4 DEF IInv, TypeOK
  <2>2. Phase = "stopped" /\ Phase' = "running"
    BY <1>1, <1>4, <2>1, InControlMapped DEF Phase, Running
  <2>3. Points' = Points /\ Report' = Report
    BY <2>1, PointsMapped DEF Report, do_info_registers, do_backtrace
  <2>4. Promise!WaitAndContinue
    BY <1>4, <2>1, <2>2, <2>3, StackSame DEF Promise!WaitAndContinue, Done, Promise!Done
  <2> QED
    BY <2>4 DEF Promise!Next
<1> QED
  BY <1>2, <1>3, <1>4 DEF do_wait_and_continue

LEMMA QuitMapped ==
  ASSUME IInv, debugger_exit
  PROVE  Promise!Quit
<1>1. /\ Running("debugger") /\ child.at \in {"none", "exit"}
      /\ state' = [state EXCEPT !["debugger"] = "UNUSED"] /\ dbg' = NoDebug
      /\ rax' = rax /\ child' = child /\ mem' = mem
  BY DEF debugger_exit, childVars
<1>2. Phase \in {"plain", "alone", "exited"}
  BY <1>1, InControlMapped
<1>3. state'["debugger"] = "UNUSED" /\ Phase' = "gone"
  BY <1>1 DEF IInv, TypeOK, Phase
<1>4. Points' = Promise!NoPoint
  <2>1. dbg'.list = <<>>
    BY <1>1 DEF NoDebug
  <2> QED
    BY <2>1, PointsMapped DEF PointsOf, AddrsOf, Promise!NoPoint
<1>5. Report' = Promise!NoReport
  <2>1. (-1 + 1) \div 2 = 0
    OBVIOUS
  <2> QED
    BY <1>1, <2>1 DEF Report, Promise!NoReport, do_info_registers, do_backtrace, NoDebug, Done, Promise!Done
<1>6. Frames' = <<>> /\ Frames = <<>> /\ Progress' = Progress
  <2>1. child.at = "none" => Depth = 0 /\ Depth' = 0
    BY <1>1 DEF Depth
  <2>2. Frames = <<>> /\ Frames' = <<>>
    BY <1>1, <2>1 DEF Frames
  <2> QED
    BY <1>1, <2>2 DEF Progress, AtEnd
<1> QED
  BY <1>1, <1>2, <1>3, <1>4, <1>5, <1>6 DEF Promise!Quit

(* An end that is to be reported has its function on the shadow stack. *)
LEMMA PendingOnStack ==
  ASSUME IInv, NEW f, Promise!EndPending(f)
  PROVE  OnStack(f)
<1>1. PICK i \in 1..Len(Frames) : Frames[i] = [fn |-> f, ends |-> TRUE]
  BY DEF Promise!EndPending, Promise!Depth
<1>2. Alive /\ child.at # "exit"
  <2>1. ASSUME child.at \in {"none", "exit"} PROVE Frames = <<>>
    <3>1. child.at = "none" => Depth = 0
      BY DEF Depth
    <3> QED
      BY <2>1, <3>1 DEF Frames
  <2>2. Frames = <<>> => FALSE
    BY <1>1
  <2> QED
    BY <2>1, <2>2 DEF IInv, Control, Alive
<1>3. i \in Hid /\ FrameFn(i) = f
  <2>1. Frames[i].fn = FrameFn(i) /\ (Frames[i].ends <=> i \in Hid)
    BY <1>1, <1>2, FramesAre
  <2> QED
    BY <1>1, <2>1
<1>4. /\ dbg.stack[RankIn(Hid, i)] = f /\ RankIn(Hid, i) \in 1..RankIn(Hid, Depth)
      /\ Len(dbg.stack) >= RankIn(Hid, Depth) /\ RankIn(Hid, Depth) \in Nat
      /\ dbg.stack \in Seq(Code)
  BY <1>2, <1>3, ShadowFacts
<1>5. RankIn(Hid, i) \in DOMAIN dbg.stack
  BY <1>4
<1> QED
  BY <1>4, <1>5 DEF OnStack, Range

LEMMA BecomeMapped ==
  ASSUME IInv, do_become_debugger
  PROVE  Promise!BecomeDebugger
<1>1. /\ Running("debugger") /\ dbg.list = <<>> /\ dbg.stack = <<>> /\ dbg.on \in BOOLEAN
      /\ dbg' = [NoDebug EXCEPT !.on = TRUE]
      /\ state' = state /\ child' = child /\ mem' = mem /\ rax' = Done
      /\ ~dbg.on => child.at = "none"
  BY DbgFields DEF do_become_debugger, Says, childVars, IInv, Control
<1>2. /\ dbg'.on = TRUE /\ dbg'.list = dbg.list /\ dbg'.return_addr = <<>>
      /\ dbg'.trace = NoDebug.trace /\ dbg'.regs = NoDebug.regs
  BY <1>1 DEF NoDebug
<1>3. dbg.return_addr = <<>>
  <2>1. CASE ~dbg.on
    BY <2>1 DEF IInv, Control, NoDebug
  <2>2. CASE dbg.on /\ child.at = "none"
    BY <2>2 DEF IInv, Control
  <2>3. CASE dbg.on /\ child.at # "none"
    <3>1. Len(dbg.return_addr) = Len(dbg.stack) /\ Len(dbg.stack) = 0
      BY <1>1, <2>3 DEF IInv, ShadowIsHidden
    <3>2. dbg.return_addr \in Seq(Sites)
      BY DbgFields DEF IInv
    <3> QED
      BY <3>1, <3>2
  <2> QED
    BY <1>1, <2>1, <2>2, <2>3
<1>4. Promise!InControl /\ Phase' = IF Phase = "plain" THEN "alone" ELSE Phase
  BY <1>1, <1>2, InControlMapped DEF Phase, Running
<1>5. Points = Promise!NoPoint /\ Points' = Promise!NoPoint
  BY <1>1, <1>2, PointsMapped DEF PointsOf, AddrsOf, Promise!NoPoint
<1>6. \A f \in Fns : ~Promise!EndPending(f)
  <2>1. \A f : ~OnStack(f)
    BY <1>1 DEF OnStack, Range
  <2> QED
    BY <2>1, PendingOnStack
<1>7. Report' = Promise!NoReport
  <2>1. (-1 + 1) \div 2 = 0
    OBVIOUS
  <2> QED
    BY <1>2, <2>1 DEF Report, Promise!NoReport, do_info_registers, do_backtrace, NoDebug, Done, Promise!Done
<1>8. Frames' = Frames /\ Progress' = Progress
  BY <1>1, <1>2, <1>3, StackSame
<1> QED
  BY <1>1, <1>4, <1>5, <1>6, <1>7, <1>8 DEF Promise!BecomeDebugger, Done, Promise!Done

(* The list with another flag, with another node, and without one. *)
WithFlag(l, f, flag) == [g \in AddrsOf(l) \cup {f} |-> IF g = f THEN flag ELSE PointsOf(l)[g]]

FlagAt(l, l2, k, flag) ==
  /\ Len(l2) = Len(l)
  /\ \A i \in 1..Len(l) :
       l2[i].addr = l[i].addr /\ l2[i].end = IF i = k THEN flag ELSE l[i].end

LEMMA FlagWritten ==
  ASSUME NEW l \in Seq(Node), NEW l2 \in Seq(Node), NEW k \in 1..Len(l), NEW flag \in BOOLEAN,
         Distinct(l), FlagAt(l, l2, k, flag)
  PROVE  PointsOf(l2) = WithFlag(l, l[k].addr, flag)
<1>1. AddrsOf(l2) = AddrsOf(l) /\ Distinct(l2)
  BY DEF AddrsOf, Distinct, FlagAt
<1>2. l[k].addr \in AddrsOf(l)
  <2>1. l[k] \in Node
    OBVIOUS
  <2> QED
    BY <2>1 DEF AddrsOf, Node
<1>3. ASSUME NEW g \in AddrsOf(l)
      PROVE  PointsOf(l2)[g] = IF g = l[k].addr THEN flag ELSE PointsOf(l)[g]
  <2>1. PICK i \in 1..Len(l) : l[i].addr = g
    BY DEF AddrsOf
  <2>2. g \in Fns
    BY DEF AddrsOf
  <2>3. PointsOf(l)[g] = l[i].end /\ PointsOf(l2)[g] = l2[i].end
    BY <1>1, <2>1, <2>2, PointAt DEF FlagAt
  <2>4. g = l[k].addr <=> i = k
    BY <2>1 DEF Distinct
  <2> QED
    BY <2>1, <2>3, <2>4 DEF FlagAt
<1>4. PointsOf(l2) = [g \in AddrsOf(l) |-> PointsOf(l2)[g]]
  BY <1>1 DEF PointsOf
<1>5. AddrsOf(l) \cup {l[k].addr} = AddrsOf(l)
  BY <1>2
<1> HIDE DEF PointsOf, AddrsOf
<1> QED
  BY <1>3, <1>4, <1>5 DEF WithFlag

LEMMA PointAdded ==
  ASSUME NEW l \in Seq(Node), NEW node \in Node, Distinct(l),
         \A i \in 1..Len(l) : l[i].addr # node.addr
  PROVE  PointsOf(Append(l, node)) = WithFlag(l, node.addr, node.end)
<1> DEFINE n == Len(l)
           l2 == Append(l, node)
<1>1. /\ n \in Nat /\ Len(l2) = n + 1 /\ \A i \in 1..n : l2[i] = l[i]
      /\ l2[n + 1] = node
  BY AppendFacts
<1> HIDE DEF l2
<1>2. node.addr \in Fns
  BY DEF Node
<1>3. AddrsOf(l2) = AddrsOf(l) \cup {node.addr}
  BY <1>1, <1>2 DEF AddrsOf
<1>4. Distinct(l2)
  <2>1. ASSUME NEW i \in 1..(n + 1), NEW j \in 1..(n + 1), l2[i].addr = l2[j].addr
        PROVE  i = j
    <3>1. CASE i \in 1..n /\ j \in 1..n
      BY <1>1, <2>1, <3>1 DEF Distinct
    <3>2. CASE i \in 1..n /\ j = n + 1
      BY <1>1, <2>1, <3>2
    <3>3. CASE i = n + 1 /\ j \in 1..n
      BY <1>1, <2>1, <3>3
    <3>4. CASE i = n + 1 /\ j = n + 1
      BY <3>4
    <3> QED
      BY <1>1, <3>1, <3>2, <3>3, <3>4
  <2> QED
    BY <1>1, <2>1 DEF Distinct
<1>5. ASSUME NEW g \in AddrsOf(l2)
      PROVE  PointsOf(l2)[g] = IF g = node.addr THEN node.end ELSE PointsOf(l)[g]
  <2>1. CASE g = node.addr
    <3>1. n + 1 \in 1..Len(l2)
      BY <1>1
    <3> QED
      BY <1>1, <1>2, <1>4, <2>1, <3>1, PointAt
  <2>2. CASE g # node.addr
    <3>1. PICK i \in 1..n : l[i].addr = g
      BY <1>3, <2>2 DEF AddrsOf
    <3>2. g \in Fns /\ i \in 1..Len(l2) /\ l2[i] = l[i]
      BY <1>1 DEF AddrsOf
    <3> QED
      BY <1>4, <2>2, <3>1, <3>2, PointAt
  <2> QED
    BY <2>1, <2>2
<1>6. PointsOf(l2) = [g \in AddrsOf(l2) |-> PointsOf(l2)[g]]
  BY DEF PointsOf
<1>7. PointsOf(l2) = WithFlag(l, node.addr, node.end)
  <2> HIDE DEF PointsOf, AddrsOf
  <2> QED
    BY <1>3, <1>5, <1>6 DEF WithFlag
<1> QED
  BY <1>7 DEF l2

LEMMA PointRemoved ==
  ASSUME NEW l \in Seq(Node), NEW k \in 1..Len(l), Distinct(l)
  PROVE  PointsOf(RemoveAt(l, k)) = [g \in AddrsOf(l) \ {l[k].addr} |-> PointsOf(l)[g]]
<1> DEFINE n == Len(l)
           l2 == RemoveAt(l, k)
<1>1. /\ n \in Nat /\ Len(l2) = n - 1
      /\ \A i \in 1..(n - 1) : l2[i] = IF i < k THEN l[i] ELSE l[i + 1]
  BY RemoveFacts
<1> HIDE DEF l2
<1> DEFINE Was(i) == IF i < k THEN i ELSE i + 1
<1>2. \A i \in 1..(n - 1) : l2[i] = l[Was(i)] /\ Was(i) \in 1..n /\ Was(i) # k
  BY <1>1
<1>3. ASSUME NEW i \in 1..n, i # k PROVE \E j \in 1..(n - 1) : Was(j) = i
  <2>1. CASE i < k
    BY <1>1, <2>1
  <2>2. CASE i > k
    <3>1. i - 1 \in 1..(n - 1) /\ Was(i - 1) = i
      BY <1>1, <2>2
    <3> QED
      BY <3>1
  <2> QED
    BY <1>1, <1>3, <2>1, <2>2
<1>4. \A i, j \in 1..(n - 1) : Was(i) = Was(j) => i = j
  BY <1>1
<1> HIDE DEF Was
<1>5. Distinct(l2)
  BY <1>1, <1>2, <1>4 DEF Distinct
<1>6. AddrsOf(l2) = AddrsOf(l) \ {l[k].addr}
  <2>1. ASSUME NEW g \in AddrsOf(l2) PROVE g \in AddrsOf(l) /\ g # l[k].addr
    <3>1. PICK i \in 1..(n - 1) : l2[i].addr = g
      BY <1>1 DEF AddrsOf
    <3>2. l[Was(i)].addr = g /\ Was(i) \in 1..Len(l) /\ Was(i) # k
      BY <1>2, <3>1
    <3> QED
      BY <3>2 DEF AddrsOf, Distinct
  <2>2. ASSUME NEW g \in AddrsOf(l), g # l[k].addr PROVE g \in AddrsOf(l2)
    <3>1. PICK i \in 1..n : l[i].addr = g
      BY DEF AddrsOf
    <3>2. PICK j \in 1..(n - 1) : Was(j) = i
      BY <1>3, <2>2, <3>1
    <3>3. j \in 1..Len(l2) /\ l2[j].addr = g /\ g \in Fns
      BY <1>1, <1>2, <3>1, <3>2 DEF AddrsOf
    <3> QED
      BY <3>3 DEF AddrsOf
  <2> QED
    BY <2>1, <2>2
<1>7. ASSUME NEW g \in AddrsOf(l2) PROVE PointsOf(l2)[g] = PointsOf(l)[g]
  <2>1. PICK i \in 1..(n - 1) : l2[i].addr = g
    BY <1>1 DEF AddrsOf
  <2>2. i \in 1..Len(l2) /\ l2[i] = l[Was(i)] /\ Was(i) \in 1..Len(l) /\ g \in Fns
    BY <1>1, <1>2 DEF AddrsOf
  <2> QED
    BY <1>5, <2>1, <2>2, PointAt
<1>8. PointsOf(l2) = [g \in AddrsOf(l2) |-> PointsOf(l2)[g]]
  BY DEF PointsOf
<1>9. PointsOf(l2) = [g \in AddrsOf(l) \ {l[k].addr} |-> PointsOf(l)[g]]
  <2> HIDE DEF PointsOf, AddrsOf
  <2> QED
    BY <1>6, <1>7, <1>8
<1> QED
  BY <1>9 DEF l2

(* FiniteSets as the module of the promise sees it. *)
LEMMA SameCardinality == \A S : Promise!Cardinality(S) = Cardinality(S)
  BY DEF Promise!Cardinality, Cardinality

(* A call of the debugger that leaves the child alone. *)
LEMMA SaidMapped ==
  ASSUME IInv, Running("debugger"), Says(Done), dbg'.on = dbg.on,
         dbg'.return_addr = dbg.return_addr, dbg'.trace = dbg.trace, dbg'.regs = dbg.regs
  PROVE  UNCHANGED <<Phase, Frames, Progress, Report>>
<1>1. state' = state /\ child' = child /\ mem' = mem
  BY DEF Says, childVars
<1> QED
  BY <1>1, StackSame DEF Phase, Running, Report, do_info_registers, do_backtrace

LEMMA SetMapped ==
  ASSUME IInv, NEW f \in Fns, NEW flag \in BOOLEAN, do_set_breakpoint(f, flag)
  PROVE  Promise!Next
<1>0. /\ Running("debugger") /\ dbg \in DebugInfo(dbg) /\ IInv'
      /\ Promise!InControl /\ (dbg.on <=> Phase # "plain")
  BY SetStep, InControlMapped DEF do_set_breakpoint, IInv, TypeOK
<1>1. CASE Refuses
  BY <1>0, <1>1, RefuseMapped DEF Promise!Next
<1>2. CASE /\ IsSet(f) /\ ~(OnStack(f) /\ Flag(f) /\ ~flag)
           /\ dbg' = [dbg EXCEPT !.list[Place(f)].end = flag]
           /\ Says(Done)
  <2> DEFINE l == dbg.list
             k == Place(f)
             l2 == dbg'.list
  <2>1. k \in 1..Len(l) /\ l[k].addr = f
    BY <1>2, PlaceFacts
  <2>2. l \in Seq(Node) /\ l2 \in Seq(Node) /\ Distinct(l) /\ dbg.on
    <3>1. dbg.on
      BY <2>1, ListFacts
    <3>2. dbg'.list \in Seq(Node)
      BY <1>0 DEF IInv, TypeOK, DebugInfo
    <3> QED
      BY <3>1, <3>2, ListFacts
  <2>3. /\ l2 = [l EXCEPT ![k].end = flag]
        /\ dbg'.on = dbg.on /\ dbg'.return_addr = dbg.return_addr
        /\ dbg'.trace = dbg.trace /\ dbg'.regs = dbg.regs
    BY <1>0, <1>2 DEF DebugInfo
  <2> HIDE DEF l, k, l2
  <2>4. FlagAt(l, l2, k, flag)
    <3> DEFINE node == [l[k] EXCEPT !.end = flag]
    <3>1. l[k] \in Node
      BY <2>1, <2>2
    <3>2. node.addr = l[k].addr /\ node.end = flag /\ node \in Node
      BY <3>1 DEF Node
    <3>3. l2 = [l EXCEPT ![k] = node]
      BY <2>3
    <3> HIDE DEF node
    <3>4. Len(l2) = Len(l) /\ \A i \in 1..Len(l) : l2[i] = IF i = k THEN node ELSE l[i]
      BY <2>1, <2>2, <3>2, <3>3, ExceptSeq
    <3> QED
      BY <3>2, <3>4 DEF FlagAt
  <2>5. PointsOf(l2) = WithFlag(l, f, flag)
    BY <2>1, <2>2, <2>4, FlagWritten
  <2>6. Points' = [g \in DOMAIN Points \cup {f} |-> IF g = f THEN flag ELSE Points[g]]
    <3>1. Points = PointsOf(l) /\ Points' = PointsOf(l2)
      BY PointsMapped DEF l, l2
    <3>2. DOMAIN Points = AddrsOf(l)
      BY <3>1 DEF PointsOf
    <3> QED
      BY <2>5, <3>1, <3>2 DEF WithFlag
  <2>7. f \in DOMAIN Points /\ Flag(f) = Points[f]
    BY <1>2, PointAsked
  <2>8. ~(f \in DOMAIN Points /\ Points[f] /\ ~flag /\ Promise!EndPending(f))
    BY <1>2, <2>7, PendingOnStack
  <2>9. UNCHANGED <<Phase, Frames, Progress, Report>>
    BY <1>0, <1>2, <2>3, SaidMapped
  <2>10. Promise!SetBreakpoint(f, flag)
    BY <1>0, <1>2, <2>2, <2>6, <2>7, <2>8, <2>9
       DEF Promise!SetBreakpoint, Says, Done, Promise!Done
  <2> QED
    BY <2>10 DEF Promise!Next
<1>3. CASE /\ dbg.on /\ ~IsSet(f) /\ dbg.count < MaxBreakpoints
           /\ dbg' = [dbg EXCEPT !.num = @ + 1, !.count = @ + 1,
                     !.list = Append(@, [num |-> dbg.num + 1, addr |-> f, end |-> flag])]
           /\ Says(Done)
  <2> DEFINE l == dbg.list
             node == [num |-> dbg.num + 1, addr |-> f, end |-> flag]
             l2 == dbg'.list
  <2>1. node \in Node /\ node.addr = f /\ node.end = flag
    BY <1>0 DEF Node, DebugInfo
  <2>2. /\ l2 = Append(l, node)
        /\ dbg'.on = dbg.on /\ dbg'.return_addr = dbg.return_addr
        /\ dbg'.trace = dbg.trace /\ dbg'.regs = dbg.regs
    BY <1>0, <1>3 DEF DebugInfo
  <2>3. l \in Seq(Node) /\ Distinct(l) /\ \A i \in 1..Len(l) : l[i].addr # f
    BY <1>3, ListFacts DEF IsSet
  <2>4. Points = PointsOf(l) /\ Points' = PointsOf(l2)
    BY PointsMapped
  <2> HIDE DEF l, l2, node
  <2>5. PointsOf(l2) = WithFlag(l, f, flag)
    BY <2>1, <2>2, <2>3, PointAdded
  <2>6. Points' = [g \in DOMAIN Points \cup {f} |-> IF g = f THEN flag ELSE Points[g]]
    <3>1. DOMAIN Points = AddrsOf(l)
      BY <2>4 DEF PointsOf
    <3> QED
      BY <2>4, <2>5, <3>1 DEF WithFlag
  <2>7. f \notin DOMAIN Points
    BY <1>3, PointAsked
  <2>8. Cardinality(DOMAIN Points) < MaxBreakpoints
    <3>1. /\ dbg.count = Len(l) /\ Cardinality(DOMAIN Points) <= Len(l) /\ Len(l) \in Nat
          /\ Cardinality(DOMAIN Points) \in Nat
      BY <1>3, ListFacts, PointCount DEF l
    <3> QED
      BY <1>3, <3>1, DebuggerAssumption
  <2>9. UNCHANGED <<Phase, Frames, Progress, Report>>
    BY <1>0, <1>3, <2>2, SaidMapped
  <2>10. Promise!SetBreakpoint(f, flag)
    BY <1>0, <1>3, <2>6, <2>7, <2>8, <2>9, SameCardinality
       DEF Promise!SetBreakpoint, Says, Done, Promise!Done
  <2> QED
    BY <2>10 DEF Promise!Next
<1> QED
  BY <1>1, <1>2, <1>3 DEF do_set_breakpoint

LEMMA RemoveMapped ==
  ASSUME IInv, NEW f \in Fns, do_remove_breakpoint(f)
  PROVE  Promise!Next
<1>0. Running("debugger") /\ dbg \in DebugInfo(dbg) /\ Promise!InControl
  BY InControlMapped DEF do_remove_breakpoint, IInv, TypeOK
<1>1. CASE Refuses
  BY <1>0, <1>1, RefuseMapped DEF Promise!Next
<1>2. CASE /\ IsSet(f) /\ ~(OnStack(f) /\ Flag(f)) /\ dbg' = Unlinked(f) /\ Says(Done)
  <2> DEFINE l == dbg.list
             k == Place(f)
             l2 == dbg'.list
  <2>1. k \in 1..Len(l) /\ l[k].addr = f
    BY <1>2, PlaceFacts
  <2>2. /\ l2 = RemoveAt(l, k)
        /\ dbg'.on = dbg.on /\ dbg'.return_addr = dbg.return_addr
        /\ dbg'.trace = dbg.trace /\ dbg'.regs = dbg.regs
    BY <1>0, <1>2 DEF DebugInfo, Unlinked
  <2>3. l \in Seq(Node) /\ Distinct(l)
    BY ListFacts
  <2>4. Points = PointsOf(l) /\ Points' = PointsOf(l2)
    BY PointsMapped
  <2> HIDE DEF l, k, l2
  <2>5. Points' = [g \in DOMAIN Points \ {f} |-> Points[g]]
    <3>1. PointsOf(l2) = [g \in AddrsOf(l) \ {f} |-> PointsOf(l)[g]]
      BY <2>1, <2>2, <2>3, PointRemoved
    <3>2. DOMAIN Points = AddrsOf(l)
      BY <2>4 DEF PointsOf
    <3> QED
      BY <2>4, <3>1, <3>2
  <2>6. f \in DOMAIN Points /\ Flag(f) = Points[f]
    BY <1>2, PointAsked
  <2>7. ~(Points[f] /\ Promise!EndPending(f))
    BY <1>2, <2>6, PendingOnStack
  <2>8. UNCHANGED <<Phase, Frames, Progress, Report>>
    BY <1>0, <1>2, <2>2, SaidMapped
  <2>9. Promise!RemoveBreakpoint(f)
    BY <1>0, <1>2, <2>5, <2>6, <2>7, <2>8
       DEF Promise!RemoveBreakpoint, Says, Done, Promise!Done
  <2> QED
    BY <2>9 DEF Promise!Next
<1> QED
  BY <1>1, <1>2 DEF do_remove_breakpoint

LEMMA RunningMapped ==
  ASSUME IInv, Running("child")
  PROVE  /\ Phase = "running" /\ Alive /\ dbg.on
         /\ Progress = IF AtEnd THEN "over" ELSE child.at
<1>1. Alive /\ dbg.on /\ child.at # "exit" /\ state["debugger"] = "WAITING"
  BY ChildRuns
<1> QED
  BY <1>1 DEF Phase, Progress, Alive

LEMMA KeptMapped ==
  ASSUME IInv, Running("child"), Keep, Alive', child'.at # "exit"
  PROVE  /\ UNCHANGED <<Phase, Points, Report, rax>>
         /\ Progress' = IF AtEnd' THEN "over" ELSE child'.at
<1>1. state' = state /\ dbg' = dbg /\ rax' = rax
  BY DEF Keep
<1> QED
  BY <1>1, PointsMapped, RunningMapped
     DEF Phase, Running, Report, do_info_registers, do_backtrace, Progress, Alive

LEMMA CallMapped ==
  ASSUME IInv, NEW f \in Fns, Call(f)
  PROVE  Promise!Call(f)
<1>1. /\ Running("child") /\ child.at = "body" /\ Keep /\ dbg' = dbg
      /\ mem' = Append(mem, Site(child.fn)) /\ child' = [child EXCEPT !.fn = f, !.at = "entry"]
      /\ Alive /\ Depth \in Nat
  BY ChildRuns, Positions DEF Call, Push, Keep
<1>2. PICK n : n = Depth + 1
  OBVIOUS
<1>3. /\ child' \in [fn : Code, at : {"entry"}, rbp : Nat]
      /\ Alive' /\ ~AtEnd /\ ~AtEnd' /\ Depth' = n /\ Hid' = Hid
      /\ \A i \in 1..Depth : FrameFn(i)' = FrameFn(i)
      /\ FrameFn(n)' = f
  BY <1>1, <1>2, CallFacts
<1> DEFINE new == [fn |-> f, ends |-> FALSE]
           F == Append(Frames, new)
<1>4. new \in [fn : Code, ends : BOOLEAN] /\ new.fn = f /\ new.ends = FALSE
  BY DEF Code
<1> HIDE DEF new
<1>5. /\ F \in Seq([fn : Code, ends : BOOLEAN]) /\ Len(F) = n /\ n \in Nat
      /\ \A i \in 1..Depth : F[i] = Frames[i]
      /\ F[n] = new
  BY <1>1, <1>2, <1>4, FramesAre, AppendFacts
<1> HIDE DEF F
<1>6. ASSUME NEW i \in 1..n PROVE FrameFn(i)' = F[i].fn /\ (i \in Hid' <=> F[i].ends)
  <2>1. CASE i = n
    <3>1. i \notin Hid
      <4>1. ~(n \in 2..Depth)
        BY <1>1, <1>2
      <4> QED
        BY <1>1, <2>1, <4>1, HidFacts
    <3> QED
      BY <1>3, <1>4, <1>5, <2>1, <3>1
  <2>2. CASE i # n
    <3>1. i \in 1..Depth
      BY <1>1, <1>2, <2>2
    <3> QED
      BY <1>1, <1>3, <1>5, <3>1, FramesAre
  <2> QED
    BY <2>1, <2>2
<1>7. Frames' = Append(Frames, [fn |-> f, ends |-> FALSE])
  <2>1. Frames' = F
    BY <1>3, <1>5, <1>6, NextFrames
  <2> QED
    BY <2>1 DEF F, new
<1>8. /\ Phase = "running" /\ Progress = "body" /\ Progress' = "entry"
      /\ UNCHANGED <<Phase, Points, Report, rax>>
  BY <1>1, <1>3, RunningMapped, KeptMapped
<1> QED
  BY <1>7, <1>8 DEF Promise!Call

LEMMA EnterMapped ==
  ASSUME IInv, PushRbp
  PROVE  Promise!Enter
<1>1. /\ Running("child") /\ child.at = "entry" /\ Keep /\ dbg' = dbg /\ ~AtEnd
      /\ code[child.fn] = "PUSHRBP" /\ mem' = Append(mem, Saved(child.rbp))
      /\ child' = [child EXCEPT !.at = "pushed"] /\ Alive /\ dbg.on
  BY ChildRuns, PushStep DEF PushRbp, Push, Keep
<1>2. /\ child' \in [fn : Code, at : {"pushed"}, rbp : Nat] /\ Alive' /\ ~AtEnd'
      /\ Depth' = Depth /\ Hid' = Hid /\ \A i \in 1..Depth : FrameFn(i)' = FrameFn(i)
  BY <1>1, PushFacts
<1>3. Frames' = Frames
  BY <1>1, <1>2, FramesKept
<1>4. Frames[Len(Frames)].fn \notin DOMAIN Points
  <2>1. Depth \in 1..Depth /\ Len(Frames) = Depth /\ Frames[Depth].fn = FrameFn(Depth)
    BY <1>1, Positions, FramesAre
  <2>2. FrameFn(Depth) = child.fn
    BY DEF FrameFn
  <2>3. child.fn \in Fns => ~IsSet(child.fn)
    BY <1>1 DEF IInv, CodeMatchesList, Functions
  <2> QED
    BY <2>1, <2>2, <2>3 DEF Points
<1>5. /\ Phase = "running" /\ Progress = "entry" /\ Progress' = "pushed"
      /\ UNCHANGED <<Phase, Points, Report, rax>>
  BY <1>1, <1>2, RunningMapped, KeptMapped
<1> QED
  BY <1>3, <1>4, <1>5 DEF Promise!Enter, Promise!Depth

LEMMA EstablishMapped ==
  ASSUME IInv, SetRbp
  PROVE  Promise!Establish
<1>1. /\ Running("child") /\ child.at = "pushed" /\ Keep /\ dbg' = dbg /\ mem' = mem
      /\ child' = [child EXCEPT !.at = "body", !.rbp = Len(mem)] /\ Alive
  BY ChildRuns DEF SetRbp, Keep
<1>2. /\ child' \in [fn : Code, at : {"body"}, rbp : Nat] /\ Alive' /\ ~AtEnd /\ ~AtEnd'
      /\ Depth' = Depth /\ Hid' = Hid /\ \A i \in 1..Depth : FrameFn(i)' = FrameFn(i)
  BY <1>1, BaseFacts
<1>3. Frames' = Frames
  BY <1>1, <1>2, FramesKept
<1>4. /\ Phase = "running" /\ Progress = "pushed" /\ Progress' = "body"
      /\ UNCHANGED <<Phase, Points, Report, rax>>
  BY <1>1, <1>2, RunningMapped, KeptMapped
<1> QED
  BY <1>3, <1>4 DEF Promise!Establish

LEMMA ReturnMapped ==
  ASSUME IInv, Return
  PROVE  Promise!Return \/ Promise!Finish
<1>1. /\ Running("child") /\ child.at = "body" /\ Keep /\ dbg' = dbg /\ Alive
      /\ mem[child.rbp - 1] # EndAddr /\ Returned
  BY ReturnParts
<1>2. /\ Depth \in Nat /\ Depth >= 2 /\ ~AtEnd /\ Len(Frames) = Depth
      /\ Frames \in Seq([fn : Code, ends : BOOLEAN])
      /\ \A i \in 1..Depth : Frames[i].fn = FrameFn(i) /\ (Frames[i].ends <=> i \in Hid)
  BY <1>1, PopFacts, FramesAre
<1>3. CASE Depth \notin Hid
  <2>1. /\ child' \in [fn : Code, at : {"body"}, rbp : Nat] /\ Alive' /\ ~AtEnd'
        /\ Depth' = Depth - 1 /\ Hid' = Hid
        /\ \A i \in 1..(Depth - 1) : FrameFn(i)' = FrameFn(i)
    BY <1>1, <1>3, PlainReturn
  <2> DEFINE F == Front(Frames)
             n == Depth - 1
  <2>2. /\ F \in Seq([fn : Code, ends : BOOLEAN]) /\ Len(F) = n /\ n \in Nat
        /\ \A i \in 1..n : F[i] = Frames[i]
    <3>1. Len(Frames) > 0 /\ Len(Frames) - 1 = n /\ n \in Nat
      BY <1>2
    <3> QED
      BY <1>2, <3>1, FrontLast
  <2> HIDE DEF F, n
  <2>3. \A i \in 1..n : i \in 1..Depth /\ i \in 1..(Depth - 1)
    BY <1>2 DEF n
  <2>4. \A i \in 1..n : FrameFn(i)' = F[i].fn /\ (i \in Hid' <=> F[i].ends)
    BY <1>2, <2>1, <2>2, <2>3
  <2>5. Depth' = n
    BY <2>1 DEF n
  <2>6. Frames' = F
    BY <2>1, <2>2, <2>4, <2>5, NextFrames
  <2>7. Frames' = Promise!Front(Frames)
    BY <2>6 DEF F, Front, Promise!Front
  <2>8. /\ Phase = "running" /\ Progress = "body" /\ Progress' = "body"
        /\ UNCHANGED <<Phase, Points, Report, rax>>
    BY <1>1, <1>2, <2>1, RunningMapped, KeptMapped
  <2>9. Len(Frames) > 1 /\ ~Frames[Len(Frames)].ends
    BY <1>2, <1>3
  <2> QED
    BY <2>7, <2>8, <2>9 DEF Promise!Return, Promise!Depth
<1>4. CASE Depth \in Hid
  <2>1. PICK d \in Hid : d = Depth
    BY <1>4
  <2>2. /\ child' \in [fn : Code, at : {"entry"}, rbp : Nat] /\ Alive' /\ AtEnd'
        /\ Depth' = d /\ Hid' = Hid \ {d}
        /\ \A i \in 1..(Depth - 1) : FrameFn(i)' = FrameFn(i)
        /\ FrameFn(d)' = EndHandler
    BY <1>1, <2>1, HiddenReturn
  <2> DEFINE new == [fn |-> EndHandler, ends |-> FALSE]
             F == [Frames EXCEPT ![d] = new]
  <2>3. new \in [fn : Code, ends : BOOLEAN] /\ new.fn = EndHandler /\ new.ends = FALSE
    BY DEF Code
  <2> HIDE DEF new
  <2>4. d \in Nat /\ d \in 1..Len(Frames)
    BY <1>2, <2>1
  <2>5. /\ F \in Seq([fn : Code, ends : BOOLEAN]) /\ Len(F) = d
        /\ \A i \in 1..d : F[i] = IF i = d THEN new ELSE Frames[i]
    BY <1>2, <2>1, <2>3, <2>4, ExceptSeq
  <2> HIDE DEF F
  <2>6. ASSUME NEW i \in 1..d PROVE FrameFn(i)' = F[i].fn /\ (i \in Hid' <=> F[i].ends)
    <3>1. CASE i = d
      BY <2>2, <2>3, <2>5, <3>1
    <3>2. CASE i # d
      <4>1. i \in 1..(Depth - 1) /\ i \in 1..Depth
        BY <1>2, <2>1, <3>2
      <4> QED
        BY <1>2, <2>2, <2>5, <3>2, <4>1
    <3> QED
      BY <3>1, <3>2
  <2>7. Frames' = F
    BY <2>2, <2>4, <2>5, <2>6, NextFrames
  <2>8. Frames' = [Frames EXCEPT ![Len(Frames)] = [fn |-> EndHandler, ends |-> FALSE]]
    BY <1>2, <2>1, <2>7 DEF F, new
  <2>9. /\ Phase = "running" /\ Progress = "body" /\ Progress' = "over"
        /\ UNCHANGED <<Phase, Points, Report, rax>>
    BY <1>1, <1>2, <2>2, RunningMapped, KeptMapped
  <2>10. Frames[Len(Frames)].ends
    BY <1>2, <1>4
  <2> QED
    BY <2>8, <2>9, <2>10 DEF Promise!Finish, Promise!Depth
<1> QED
  BY <1>3, <1>4

LEMMA ExitMapped ==
  ASSUME IInv, child_exit
  PROVE  Promise!Exit
<1>1. /\ Running("child") /\ child.at = "body" /\ dbg' = dbg /\ rax' = rax
      /\ state' = [debugger |-> "RUNNING", child |-> "UNUSED"]
      /\ child' = [child EXCEPT !.at = "exit"] /\ state["debugger"] = "WAITING" /\ dbg.on
  BY ChildRuns DEF child_exit
<1>2. child'.at = "exit" /\ state'["debugger"] = "RUNNING"
  BY <1>1 DEF IInv, TypeOK
<1>3. Phase = "running" /\ Progress = "body"
  BY <1>1, RunningMapped DEF AtEnd
<1>4. Phase' = "exited" /\ Progress' = "none"
  BY <1>1, <1>2 DEF Phase, Progress, AtEnd
<1>5. Frames' = <<>>
  BY <1>2 DEF Frames
<1>6. Points' = Points /\ Report' = Report
  BY <1>1, PointsMapped DEF Report, do_info_registers, do_backtrace
<1>7. rax' = Done
  BY <1>1 DEF IInv, Control
<1> QED
  BY <1>3, <1>4, <1>5, <1>6, <1>7 DEF Promise!Exit, Promise!ChildExit, Done

(* What every stop writes. *)
LEMMA HandedMapped ==
  ASSUME IInv, int3_handler, NEW f, f = child.fn, NEW n, NEW t,
         dbg'.on = dbg.on, dbg'.list = dbg.list,
         dbg'.regs = CopyRegs(n), dbg'.trace = t
  PROVE  /\ Phase = "running" /\ Phase' = "stopped" /\ Progress' = "pushed"
         /\ Points' = Points /\ rax' = Promise!Entry(f)
         /\ Report' = [rip |-> Promise!Entry(f), depth |-> (n + 1) \div 2, trace |-> t]
<1>1. /\ Running("child") /\ dbg.on /\ rax' = Entry(f)
      /\ state' = [debugger |-> "RUNNING", child |-> "WAITING"]
      /\ child' = [child EXCEPT !.at = "pushed"]
  BY StopParts DEF HandOver
<1>2. child'.at = "pushed" /\ state'["debugger"] = "RUNNING" /\ state'["child"] = "WAITING"
  BY <1>1 DEF IInv, TypeOK
<1>3. Phase = "running" /\ Phase' = "stopped" /\ Progress' = "pushed"
  BY <1>1, <1>2, RunningMapped DEF Phase, Running, Progress, AtEnd
<1>4. Entry(f) = Promise!Entry(f)
  BY DEF Entry, Promise!Entry
<1>5. Report' = [rip |-> Entry(f), depth |-> (n + 1) \div 2, trace |-> t]
  BY DEF Report, do_info_registers, do_backtrace, CopyRegs
<1> QED
  BY <1>1, <1>3, <1>4, <1>5, PointsMapped

LEMMA StopFrames ==
  ASSUME IInv, Alive, child.at = "entry", child'.at # "exit", ~AtEnd, NEW d, d = Depth, NEW b \in BOOLEAN,
         Depth' = Depth, Hid' = IF b THEN Hid \cup {d} ELSE Hid,
         \A i \in 1..Depth : FrameFn(i)' = FrameFn(i)
  PROVE  Frames' = [Frames EXCEPT ![Len(Frames)].ends = b]
<1>1. /\ d \in Nat /\ d >= 2 /\ Len(mem) = 2 * d - 1
      /\ Frames \in Seq([fn : Code, ends : BOOLEAN]) /\ Len(Frames) = d
      /\ \A i \in 1..d : Frames[i].fn = FrameFn(i) /\ (Frames[i].ends <=> i \in Hid)
  BY Positions, FramesAre
<1>2. d \notin Hid
  <2>1. mem[2 * d - 1] \in Sites
    BY <1>1 DEF IInv, Returns
  <2>2. Entry(EndHandler) \notin Sites
    BY WordFacts DEF Sites
  <2> QED
    BY <2>1, <2>2 DEF Hid, IsHidden
<1> DEFINE new == [Frames[d] EXCEPT !.ends = b]
           F == [Frames EXCEPT ![d] = new]
<1>3. d \in 1..Len(Frames) /\ Frames[d] \in [fn : Code, ends : BOOLEAN]
  <2>1. d \in 1..Len(Frames)
    BY <1>1
  <2> QED
    BY <1>1, <2>1, ElementOfSeq
<1>4. new \in [fn : Code, ends : BOOLEAN] /\ new.fn = Frames[d].fn /\ new.ends = b
  BY <1>3
<1>5. F = [Frames EXCEPT ![d].ends = b]
  OBVIOUS
<1> HIDE DEF new
<1>6. /\ F \in Seq([fn : Code, ends : BOOLEAN]) /\ Len(F) = d
      /\ \A i \in 1..d : F[i] = IF i = d THEN new ELSE Frames[i]
  BY <1>1, <1>3, <1>4, ExceptSeq
<1> HIDE DEF F
<1>7. ASSUME NEW i \in 1..d PROVE FrameFn(i)' = F[i].fn /\ (i \in Hid' <=> F[i].ends)
  <2>1. CASE i = d
    BY <1>1, <1>2, <1>4, <1>6, <2>1
  <2>2. CASE i # d
    BY <1>1, <1>6, <2>2
  <2> QED
    BY <2>1, <2>2
<1>8. Frames' = F
  BY <1>1, <1>6, <1>7, NextFrames
<1> QED
  BY <1>1, <1>5, <1>8

LEMMA StopMapped ==
  ASSUME IInv, int3_handler, ~AtEnd
  PROVE  Promise!Stop
<1> DEFINE f == child.fn
           t == <<Entry(f)>> \o CopyStack(mem, dbg.return_addr)
           b == Points[f]
           r == CopyRegs(Len(mem))
<1>1. /\ Running("child") /\ Alive /\ child.at = "entry" /\ dbg.on
      /\ child' = [child EXCEPT !.at = "pushed"] /\ code[f] = "INT3" /\ f # EndHandler
  BY StopParts
<1>2. PICK d : d = Depth
  OBVIOUS
<1>3. /\ d \in Nat /\ d >= 2 /\ Len(mem) = 2 * d - 1 /\ Len(Frames) = d
      /\ Frames[d].fn = f
  <2>1. d \in Nat /\ d >= 2 /\ Len(mem) = 2 * d - 1
    BY <1>1, <1>2, Positions
  <2>2. d \in 1..Depth
    BY <1>2, <2>1
  <2> QED
    BY <1>1, <1>2, <2>1, <2>2, FramesAre DEF FrameFn
<1>4. f \in Fns /\ IsSet(f)
  <2>1. f \in Functions
    BY <1>1 DEF IInv, Returns
  <2> QED
    BY <1>1, <2>1 DEF IInv, CodeMatchesList, Functions
<1>5. f \in DOMAIN Points /\ b \in BOOLEAN /\ (EndWanted <=> b)
  BY <1>4, PointAsked DEF EndWanted
<1>6. CopyStack(mem, dbg.return_addr) = Promise!Callers(Frames)
  BY <1>1, TraceAtFunction
<1>7. Entry(f) = Promise!Entry(f)
  BY DEF Entry, Promise!Entry
<1>8. (Len(mem) + 1) \div 2 = d
  BY <1>3
<1> HIDE DEF b, t, r
<1>9. CASE ~EndWanted
  <2>1. Stops(t, r, dbg.stack, dbg.return_addr) /\ TypeOK /\ mem' = Append(mem, Saved(child.rbp))
    BY <1>9, StopPlainParts DEF Stops, IInv, t, r
  <2>2. /\ dbg'.on = dbg.on /\ dbg'.list = dbg.list /\ dbg'.stack = dbg.stack
        /\ dbg'.return_addr = dbg.return_addr /\ dbg'.regs = r /\ dbg'.trace = t
    BY <2>1, StopParts, DbgStops
  <2>3. Depth' = Depth /\ Hid' = Hid /\ \A i \in 1..Depth : FrameFn(i)' = FrameFn(i)
    BY <1>1, <2>1, <2>2, PushFacts
  <2>4. Frames' = [Frames EXCEPT ![Len(Frames)].ends = b]
    BY <1>1, <1>2, <1>5, <1>9, <2>3, StopFrames
  <2>5. /\ Phase = "running" /\ Phase' = "stopped" /\ Progress' = "pushed"
        /\ Points' = Points /\ rax' = Promise!Entry(f)
        /\ Report' = [rip |-> Promise!Entry(f), depth |-> (Len(mem) + 1) \div 2, trace |-> t]
    BY <2>2, HandedMapped DEF r
  <2> QED
    BY <1>1, <1>3, <1>5, <1>6, <1>7, <1>8, <2>4, <2>5, RunningMapped
       DEF Promise!Stop, Promise!Depth, b, t
<1>10. CASE EndWanted
  <2>1. /\ Stops(t, r, Append(dbg.stack, f), Append(dbg.return_addr, Last(mem))) /\ TypeOK
        /\ mem' = Front(mem) \o <<Entry(EndHandler), Saved(child.rbp)>>
    BY <1>10, StopHidingParts DEF Stops, IInv, t, r
  <2>2. /\ dbg'.stack = Append(dbg.stack, f) /\ dbg'.return_addr = Append(dbg.return_addr, Last(mem))
        /\ dbg'.on = dbg.on
    BY <2>1, StopParts DEF Stops, DebugInfo
  <2>3. /\ dbg'.stack \in Seq(Code) /\ dbg'.return_addr \in Seq(Sites)
        /\ Depth' = Depth /\ Hid' = Hid \cup {d} /\ \A i \in 1..Depth : FrameFn(i)' = FrameFn(i)
    BY <1>1, <1>2, <2>1, <2>2, HideFacts
  <2>4. dbg'.on = dbg.on /\ dbg'.list = dbg.list /\ dbg'.regs = r /\ dbg'.trace = t
    <3>1. Stops(t, r, dbg'.stack, dbg'.return_addr)
      BY <2>1, <2>2
    <3> QED
      BY <2>1, <2>3, <3>1, DbgStops
  <2>5. Frames' = [Frames EXCEPT ![Len(Frames)].ends = b]
    <3>1. child'.at = "pushed"
      BY <1>1 DEF IInv, TypeOK
    <3> QED
      BY <1>1, <1>2, <1>5, <1>10, <2>3, <3>1, StopFrames
  <2>6. /\ Phase = "running" /\ Phase' = "stopped" /\ Progress' = "pushed"
        /\ Points' = Points /\ rax' = Promise!Entry(f)
        /\ Report' = [rip |-> Promise!Entry(f), depth |-> (Len(mem) + 1) \div 2, trace |-> t]
    BY <2>4, HandedMapped DEF r
  <2> QED
    BY <1>1, <1>3, <1>5, <1>6, <1>7, <1>8, <2>5, <2>6, RunningMapped
       DEF Promise!Stop, Promise!Depth, b, t
<1> QED
  BY <1>9, <1>10

LEMMA StopAtEndMapped ==
  ASSUME IInv, int3_handler, AtEnd
  PROVE  Promise!StopAtEnd
<1> DEFINE t == CopyStack(Append(mem, Last(dbg.return_addr)), Front(dbg.return_addr))
           r == CopyRegs(Len(mem) + 1)
<1>1. /\ Running("child") /\ Alive /\ child.at = "entry" /\ dbg.on
      /\ child' = [child EXCEPT !.at = "pushed"] /\ child.fn = EndHandler
  BY StopParts
<1>2. /\ Depth \in Nat /\ Depth >= 2 /\ Len(mem) = 2 * Depth - 2 /\ Len(Frames) = Depth
  BY <1>1, Positions, FramesAre
<1>3. t = Promise!Callers(Frames)
  BY <1>1, TraceAtEnd
<1>4. (Len(mem) + 1 + 1) \div 2 = Len(Frames)
  BY <1>2
<1> HIDE DEF t, r
<1>5. /\ Stops(t, r, Front(dbg.stack), Front(dbg.return_addr)) /\ TypeOK
      /\ mem' = Append(Append(mem, Last(dbg.return_addr)), Saved(child.rbp))
  BY StopEndParts DEF Stops, IInv, t, r
<1>6. /\ dbg'.stack = Front(dbg.stack) /\ dbg'.return_addr = Front(dbg.return_addr)
      /\ dbg'.on = dbg.on
  BY <1>5, StopParts DEF Stops, DebugInfo
<1>7. /\ dbg'.stack \in Seq(Code) /\ dbg'.return_addr \in Seq(Sites)
      /\ Depth' = Depth /\ Hid' = Hid /\ \A i \in 1..Depth : FrameFn(i)' = FrameFn(i)
  BY <1>1, <1>5, <1>6, UnhideFacts
<1>8. dbg'.on = dbg.on /\ dbg'.list = dbg.list /\ dbg'.regs = r /\ dbg'.trace = t
  <2>1. Stops(t, r, dbg'.stack, dbg'.return_addr)
    BY <1>5, <1>6
  <2> QED
    BY <1>5, <1>7, <2>1, DbgStops
<1>9. Frames' = Frames
  BY <1>1, <1>7, FramesKept
<1>10. /\ Phase = "running" /\ Phase' = "stopped" /\ Progress' = "pushed"
       /\ Points' = Points /\ rax' = Promise!Entry(EndHandler)
       /\ Report' = [rip |-> Promise!Entry(EndHandler), depth |-> (Len(mem) + 1 + 1) \div 2,
                     trace |-> t]
  BY <1>1, <1>8, HandedMapped DEF r
<1> QED
  BY <1>1, <1>3, <1>4, <1>9, <1>10, RunningMapped DEF Promise!StopAtEnd, Promise!Depth

LEMMA StepMapped == IInv /\ [Next]_vars => [Promise!Next \/ WaitsForNobody]_PromiseVars
<1> SUFFICES ASSUME IInv, [Next]_vars PROVE [Promise!Next \/ WaitsForNobody]_PromiseVars
  OBVIOUS
<1>1. CASE do_become_debugger
  BY <1>1, BecomeMapped DEF Promise!Next
<1>2. CASE do_fork
  BY <1>2, ForkMapped DEF Promise!Next
<1>3. CASE do_wait_and_continue
  BY <1>3, WaitMapped
<1>4. CASE debugger_exit
  BY <1>4, QuitMapped DEF Promise!Next
<1>5. CASE \E f \in Fns : do_remove_breakpoint(f)
  BY <1>5, RemoveMapped
<1>6. CASE \E f \in Fns : \E flag \in BOOLEAN : do_set_breakpoint(f, flag)
  BY <1>6, SetMapped
<1>7. CASE \E f \in Fns : Call(f)
  BY <1>7, CallMapped DEF Promise!Next
<1>8. CASE PushRbp
  BY <1>8, EnterMapped DEF Promise!Next
<1>9. CASE SetRbp
  BY <1>9, EstablishMapped DEF Promise!Next
<1>10. CASE Return
  BY <1>10, ReturnMapped DEF Promise!Next
<1>11. CASE int3_handler
  BY <1>11, StopMapped, StopAtEndMapped DEF Promise!Next
<1>12. CASE child_exit
  BY <1>12, ExitMapped DEF Promise!Next
<1>13. CASE UNCHANGED vars
  BY <1>13, SameMapped DEF vars, PromiseVars
<1> QED
  BY <1>1, <1>2, <1>3, <1>4, <1>5, <1>6, <1>7, <1>8, <1>9, <1>10, <1>11, <1>12, <1>13
     DEF Next, DebuggerStep, ChildStep

(* Patched code, replaced return addresses and the walk over saved base     *)
(* pointers never show: every step is one the promise allows, or none, or a *)
(* wait without a living child (do_wait_and_continue).                      *)
THEOREM ImplementsPromise == Spec => KeepsDebugPromise
<1>1. [Promise!Next \/ WaitsForNobody]_PromiseVars
        => [Promise!Next \/ WaitsForNobody]_(Promise!vars)
  BY DEF PromiseVars, Promise!vars
<1> QED
  BY <1>1, InitMapped, StepMapped, Safety, PTL DEF Spec, KeepsDebugPromise

===============================================================================
