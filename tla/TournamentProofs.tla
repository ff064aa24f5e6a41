--------------------------- MODULE TournamentProofs ---------------------------
(***************************************************************************)
(* Proofs about the tournament for groups of any size and matches of any   *)
(* length: what each pair of pipes holds while a team is awaited, who wins *)
(* a match, and that a group reports the best of its members.              *)
(***************************************************************************)
EXTENDS Tournament, WellFoundedInduction, FiniteSetTheorems, TLAPS

Requests == {1, 2}
Games == [team1 : 0..NoTeam, team2 : 0..NoTeam, bat : 0..NoTeam, ball : 0..NoTeam,
          innings : Nat, i : Nat, j : Nat, wkt : Nat, balls : Nat, tot : Nat, tot2 : Nat]
Results == [team1 : 0..NoTeam, second : 0..NoTeam, win : 0..NoTeam, tot : Nat, tot2 : Nat,
            wkt : Nat, balls : Nat]

TypeOK ==
  /\ comm \in [Teams -> Seq(Requests)]
  /\ matchpipe \in [Teams -> Seq(Digits)]
  /\ team \in [Teams -> {"playing", "over"}]
  /\ pc \in [Mediators -> {"wait", "first", "second", "exit"}]
  /\ game \in [Mediators -> Games]
  /\ heard \in [Mediators -> Nat]
  /\ winner \in [Teams -> Nat]
  /\ leader \in [Groups -> Teams \cup {NoTeam}]
  /\ last \in Results

-----------------------------------------------------------------------------
(***************************************************************************)
(* The inductive invariant: two teams of the right group play, and each    *)
(* bats or bowls; a team is told to stop only when no match is left for    *)
(* it; its pipes hold one message while it is awaited; and the wins of a   *)
(* group are the matches before the one it plays.                          *)
(***************************************************************************)

Playing(m) == pc[m] \in {"first", "second"}

\* The wins of the teams S, as pairs of a team and a number.
Points(won, S) == UNION {{t} \X (1..won[t]) : t \in S}

\* Twice the number of pairings before that of the members a and b, and of
\* the group g before the match x.
Earlier(a, b) == a * (2 * GroupSize - a - 1) + 2 * (b - a - 1)
Before(g, x) == Earlier(x.team1 - g * GroupSize, x.team2 - g * GroupSize)

GroupOK(g) ==
  /\ pc[g] # "wait"
  /\ Playing(g) =>
       /\ {game[g].team1, game[g].team2} \subseteq Members(g)
       /\ game[g].team1 < game[g].team2
       /\ leader[g] = NoTeam /\ pc[Host] = "wait"
       /\ 2 * Cardinality(Points(winner, Members(g))) = Before(g, game[g])
  /\ pc[g] = "exit" =>
       /\ leader[g] \in Members(g)
       /\ \A t \in Members(g) : /\ winner[t] <= winner[leader[g]]
                                /\ winner[t] = winner[leader[g]] => leader[g] <= t
       /\ 2 * Cardinality(Points(winner, Members(g))) = GroupSize * (GroupSize - 1)

HostOK ==
  pc[Host] # "wait" =>
    /\ \A g \in Groups : pc[g] = "exit"
    /\ Playing(Host) => game[Host].team1 = leader[0] /\ game[Host].team2 = leader[1]

SidesOK ==
  \A m \in Mediators : Playing(m) =>
    LET g == game[m] IN <<g.bat, g.ball>> \in {<<g.team1, g.team2>>, <<g.team2, g.team1>>}

Dismissed(t) == team[t] = "over" \/ comm[t] = <<2>>
DismissedOK ==
  \A t \in Teams : Dismissed(t) =>
    /\ pc[GroupOf(t)] = "exit"
    /\ leader[GroupOf(t)] = t => pc[Host] = "exit"

Silent(t) == comm[t] \in {<<>>, <<2>>} /\ matchpipe[t] = <<>>
Asking(t) == comm[t] = <<1>> /\ matchpipe[t] = <<>>
Answered(t) == comm[t] = <<>> /\ \E d \in Digits : matchpipe[t] = <<d>>
PipesOK ==
  \A t \in Teams :
    IF \E m \in Mediators : Awaits(m, t) THEN Asking(t) \/ Answered(t) ELSE Silent(t)

IInv ==
  /\ TypeOK /\ IsFiniteSet(Points(winner, Teams))
  /\ (\A g \in Groups : GroupOK(g)) /\ HostOK /\ SidesOK /\ DismissedOK /\ PipesOK

-----------------------------------------------------------------------------
(***************************************************************************)
(* Numbers.                                                                *)
(***************************************************************************)

LEMMA Sizes ==
  /\ GroupSize \in Nat /\ GroupSize > 1 /\ NoTeam \in Nat /\ NoTeam \notin Teams
  /\ Teams \subseteq 0..NoTeam /\ Teams \subseteq Nat
  /\ Host \notin Groups /\ Mediators = {0, 1, 2} /\ Groups = {0, 1} /\ Host = 2
  /\ Digits \subseteq Nat
<1> USE TournamentAssumption DEF Groups, Host, Mediators
<1>1. GroupSize \in Nat /\ GroupSize > 1
  OBVIOUS
<1>2. NoTeam \in Nat /\ NoTeam \notin Teams /\ Teams \subseteq 0..NoTeam
  BY <1>1 DEF NoTeam, Teams
<1> QED
  BY <1>1, <1>2 DEF Teams

LEMMA MembersAre ==
  ASSUME NEW g \in Groups
  PROVE  /\ Members(g) = g * GroupSize .. g * GroupSize + GroupSize - 1
         /\ Members(g) \subseteq Teams /\ IsFiniteSet(Members(g))
         /\ \A t \in Teams : GroupOf(t) \in Groups /\ (t \in Members(g) <=> GroupOf(t) = g)
<1> DEFINE from == g * GroupSize
<1>1. GroupSize \in Nat /\ GroupSize > 1 /\ (g = 0 \/ g = 1)
  BY Sizes
<1>2. (g = 0 /\ from = 0) \/ (g = 1 /\ from = GroupSize)
  <2>1. g = 0 => from = 0
    BY <1>1
  <2>2. g = 1 => from = GroupSize
    BY <1>1
  <2> HIDE DEF from
  <2> QED
    BY <1>1, <2>1, <2>2
<1> HIDE DEF from
<1>3. \A t : t \in Members(g) <=> t \in from .. from + GroupSize - 1
  <2>1. CASE g = 0
    BY <1>1, <1>2, <2>1 DEF Members, Teams, GroupOf
  <2>2. CASE g = 1
    BY <1>1, <1>2, <2>2 DEF Members, Teams, GroupOf
  <2> QED
    BY <1>1, <2>1, <2>2
<1>4. Members(g) = from .. from + GroupSize - 1 /\ from \in Int /\ from + GroupSize - 1 \in Int
  <2>1. from \in Int /\ from + GroupSize - 1 \in Int
    BY <1>1, <1>2
  <2>2. Members(g) = from .. from + GroupSize - 1
    BY <1>3, Zenon
  <2> QED
    BY <2>1, <2>2
<1>5. IsFiniteSet(Members(g))
  BY <1>4, FS_Interval
<1>6. Members(g) \subseteq Teams /\ \A t \in Teams : GroupOf(t) \in Groups
  BY Sizes DEF Members, GroupOf
<1> QED
  BY <1>4, <1>5, <1>6 DEF Members, from

-----------------------------------------------------------------------------
(***************************************************************************)
(* Induction over the subsets of a finite set, as a fact about a set P of  *)
(* them: each is reached from one with an element less.                    *)
(***************************************************************************)

LEMMA SubsetsInductive ==
  ASSUME NEW S, IsFiniteSet(S), NEW P, {} \in P,
         \A s \in SUBSET S : s # {} => \E x \in s : s \ {x} \in P => s \in P
  PROVE  S \in P
<1> DEFINE Missing == {s \in SUBSET S : s \notin P}
<1>1. FiniteSubsetsOf(S) = SUBSET S
  BY FS_FiniteSubsetsOfFinite
<1>2. IsWellFoundedOn(StrictSubsetOrdering(S), SUBSET S)
  BY <1>1, FS_StrictSubsetOrderingWellFounded
<1>3. Missing \subseteq SUBSET S
  OBVIOUS
<1>4. ASSUME Missing # {} PROVE FALSE
  <2>1. PICK s \in Missing : \A r \in Missing : ~(<<r, s>> \in StrictSubsetOrdering(S))
    <3> HIDE DEF Missing
    <3> QED
      BY <1>2, <1>3, <1>4, WFMin
  <2>2. s \in SUBSET S /\ s \notin P /\ s # {}
    OBVIOUS
  <2>3. PICK x \in s : s \ {x} \notin P
    BY <2>2
  <2>4. s \ {x} \in Missing
    BY <2>2, <2>3
  <2> HIDE DEF Missing
  <2>5. <<s \ {x}, s>> \in StrictSubsetOrdering(S)
    BY <2>2, <2>3 DEF StrictSubsetOrdering
  <2> QED
    BY <2>1, <2>4, <2>5
<1> QED
  BY <1>4

-----------------------------------------------------------------------------
(***************************************************************************)
(* The sum of the wins is the number of the points.                        *)
(***************************************************************************)

LEMMA PointsOf ==
  ASSUME NEW won, NEW S
  PROVE  \A e : e \in Points(won, S) <=> \E t \in S : \E k \in 1..won[t] : e = <<t, k>>
  BY DEF Points

LEMMA PointsOfOne ==
  ASSUME NEW won, NEW t, won[t] \in Nat
  PROVE  IsFiniteSet({t} \X (1..won[t])) /\ Cardinality({t} \X (1..won[t])) = won[t]
<1>1. IsFiniteSet(1..won[t]) /\ Cardinality(1..won[t]) = won[t]
  <2> DEFINE n == won[t]
  <2>1. n \in Int /\ 1 \in Int /\ (IF 1 > n THEN 0 ELSE n - 1 + 1) = n
    OBVIOUS
  <2> HIDE DEF n
  <2>2. IsFiniteSet(1..n) /\ Cardinality(1..n) = IF 1 > n THEN 0 ELSE n - 1 + 1
    BY ONLY <2>1, FS_Interval
  <2> QED
    BY <2>1, <2>2 DEF n
<1>2. IsFiniteSet({t}) /\ Cardinality({t}) = 1
  BY FS_Singleton
<1>3. /\ IsFiniteSet({t} \X (1..won[t]))
      /\ Cardinality({t} \X (1..won[t])) = 1 * won[t]
  BY <1>1, <1>2, FS_Product
<1> QED
  BY <1>3

\* The points of S are those of x and those of the others.
Splits(won, S, x) ==
  Cardinality(Points(won, S)) = won[x] + Cardinality(Points(won, S \ {x}))

LEMMA PointsSplit ==
  ASSUME NEW won, NEW S, NEW x \in S, won[x] \in Nat, IsFiniteSet(Points(won, S))
  PROVE  Splits(won, S, x)
<1> DEFINE Rest == Points(won, S \ {x})
           Mine == {x} \X (1..won[x])
<1>1. Points(won, S) = Rest \cup Mine /\ Rest \cap Mine = {}
  <2>1. \A e : e \in Mine <=> \E k \in 1..won[x] : e = <<x, k>>
    OBVIOUS
  <2>2. \A e : e \in Rest <=> \E t \in S \ {x} : \E k \in 1..won[t] : e = <<t, k>>
    BY PointsOf
  <2> HIDE DEF Rest, Mine
  <2>3. \A e : e \in Points(won, S) <=> e \in Rest \/ e \in Mine
    BY <2>1, <2>2, PointsOf
  <2>4. \A e : ~(e \in Rest /\ e \in Mine)
    BY <2>1, <2>2
  <2> QED
    BY <2>3, <2>4
<1>2. IsFiniteSet(Rest)
  BY <1>1, FS_Subset
<1>3. IsFiniteSet(Mine) /\ Cardinality(Mine) = won[x]
  BY PointsOfOne
<1>4. Cardinality({}) = 0 /\ Cardinality(Rest) \in Nat
  BY <1>2, FS_EmptySet, FS_CardinalityType
<1> HIDE DEF Rest, Mine
<1>5. Cardinality(Rest \cup Mine)
        = Cardinality(Rest) + Cardinality(Mine) - Cardinality(Rest \cap Mine)
  BY <1>2, <1>3, FS_Union
<1>6. Cardinality(Points(won, S)) = Cardinality(Rest) + Cardinality(Mine) - 0
  BY <1>1, <1>4, <1>5, Zenon
<1>7. Cardinality(Points(won, S)) = won[x] + Cardinality(Rest)
  BY <1>3, <1>4, <1>6
<1> QED
  BY <1>7 DEF Rest, Splits

LEMMA SumIsPoints ==
  ASSUME NEW won, NEW S, IsFiniteSet(S), \A t \in S : won[t] \in Nat, IsFiniteSet(Points(won, S))
  PROVE  MapThenSumSet(LAMBDA t : won[t], S) = Cardinality(Points(won, S))
<1> DEFINE AnyOf(s) == CHOOSE x \in s : TRUE
           Body(sum) == [s \in SUBSET S |-> IF s = {} THEN 0 ELSE won[AnyOf(s)] + sum[s \ {AnyOf(s)}]]
           summed == CHOOSE sum : sum = Body(sum)
           counts == [s \in SUBSET S |-> Cardinality(Points(won, s))]
<1>1. \A s \in SUBSET S : s # {} => AnyOf(s) \in s /\ AnyOf(s) \in S /\ s \ {AnyOf(s)} \in SUBSET S
  OBVIOUS
<1>2. \A s \in SUBSET S : IsFiniteSet(Points(won, s))
  <2> SUFFICES ASSUME NEW s \in SUBSET S PROVE Points(won, s) \in SUBSET Points(won, S)
    BY FS_Subset
  <2> QED
    BY PointsOf
<1>3. counts = Body(counts)
  <2> SUFFICES ASSUME NEW s \in SUBSET S
               PROVE  counts[s] = IF s = {} THEN 0 ELSE won[AnyOf(s)] + counts[s \ {AnyOf(s)}]
    OBVIOUS
  <2>1. CASE s = {}
    <3>1. Points(won, s) = {}
      BY <2>1, PointsOf
    <3> QED
      BY <2>1, <3>1, FS_EmptySet
  <2>2. CASE s # {}
    <3> DEFINE x == AnyOf(s)
    <3>1. x \in s /\ x \in S /\ s \ {x} \in SUBSET S /\ won[x] \in Nat
      BY <1>1, <2>2
    <3> HIDE DEF x
    <3>2. Cardinality(Points(won, s)) = won[x] + Cardinality(Points(won, s \ {x}))
      <4>1. IsFiniteSet(Points(won, s))
        BY <1>2
      <4>2. Splits(won, s, x)
        BY ONLY <3>1, <4>1, PointsSplit
      <4> QED
        BY <4>2 DEF Splits
    <3>3. counts[s] = won[x] + counts[s \ {x}]
      BY <3>1, <3>2
    <3> QED
      BY <2>2, <3>3 DEF x
  <2> QED
    BY <2>1, <2>2
<1>4. summed = Body(summed)
  <2> HIDE DEF Body, counts
  <2> QED
    BY <1>3
<1> HIDE DEF summed
<1> DEFINE Right == {s \in SUBSET S : summed[s] = counts[s]}
<1>5. {} \in Right
  <2>1. Body(summed)[{}] = 0 /\ Body(counts)[{}] = 0
    OBVIOUS
  <2> HIDE DEF Body, counts
  <2> QED
    BY <1>3, <1>4, <2>1
<1>6. ASSUME NEW s \in SUBSET S, s # {}
      PROVE  \E x \in s : s \ {x} \in Right => s \in Right
  <2> DEFINE x == AnyOf(s)
  <2>1. x \in s /\ s \ {x} \in SUBSET S
    BY <1>1, <1>6
  <2>2. ASSUME s \ {x} \in Right PROVE s \in Right
    <3>1. summed[s \ {x}] = counts[s \ {x}]
      BY <2>2
    <3>2. Body(summed)[s] = Body(counts)[s]
      <4> HIDE DEF counts
      <4> QED
        BY <1>6, <3>1
    <3> HIDE DEF Body, counts
    <3> QED
      BY <1>3, <1>4, <3>2
  <2> HIDE DEF x, Right
  <2> QED
    BY <2>1, <2>2
<1>7. summed[S] = counts[S]
  <2> HIDE DEF Right
  <2>1. S \in Right
    BY <1>5, <1>6, SubsetsInductive
  <2> QED
    BY <2>1 DEF Right
<1>8. MapThenSumSet(LAMBDA t : won[t], S) = summed[S]
  BY DEF MapThenSumSet, MapThenFoldSet, summed
<1> QED
  BY <1>7, <1>8


-----------------------------------------------------------------------------
(***************************************************************************)
(* The leader: of the teams so far, the one with the most wins, of those   *)
(* the lowest; none while nobody has won.                                  *)
(***************************************************************************)

Ahead(won, a, b) == won[a] > won[b] \/ (won[a] = won[b] /\ a <= b)
IsBest(won, S, b) == b \in S /\ \A t \in S : Ahead(won, b, t)
Best(won, S) ==
  IF \A t \in S : won[t] = 0 THEN NoTeam ELSE CHOOSE b \in S : IsBest(won, S, b)
Better(won, a, t) == IF won[t] > (IF a = NoTeam THEN 0 ELSE won[a]) THEN t ELSE a

LEMMA BestExists ==
  ASSUME NEW S, S \subseteq Teams, S # {}, IsFiniteSet(S), NEW won \in [Teams -> Nat]
  PROVE  \E b \in S : IsBest(won, S, b)
<1> DEFINE Have == {s \in SUBSET S : s = {} \/ \E b \in s : IsBest(won, s, b)}
<1>1. ASSUME NEW s \in SUBSET S, s # {}
      PROVE  \E x \in s : s \ {x} \in Have => s \in Have
  <2>1. PICK x \in s : TRUE
    BY <1>1
  <2>2. ASSUME s \ {x} \in Have PROVE s \in Have
    <3>1. \A t \in s : t \in Nat /\ won[t] \in Nat
      BY Sizes
    <3>2. CASE s \ {x} = {}
      <4>1. s = {x}
        BY <3>2
      <4>2. IsBest(won, s, x)
        BY <3>1, <4>1 DEF IsBest, Ahead
      <4> QED
        BY <2>1, <4>2
    <3>3. CASE s \ {x} # {}
      <4>1. PICK b \in s \ {x} : IsBest(won, s \ {x}, b)
        BY <2>2, <3>3
      <4>2. CASE Ahead(won, x, b)
        <5>1. IsBest(won, s, x)
          BY <3>1, <4>1, <4>2 DEF IsBest, Ahead
        <5> QED
          BY <2>1, <5>1
      <4>3. CASE ~Ahead(won, x, b)
        <5>1. IsBest(won, s, b)
          BY <3>1, <4>1, <4>3 DEF IsBest, Ahead
        <5> QED
          BY <4>1, <5>1
      <4> QED
        BY <4>2, <4>3
    <3> QED
      BY <3>2, <3>3
  <2> QED
    BY <2>1, <2>2
<1>2. {} \in Have
  OBVIOUS
<1>3. S \in Have
  <2> HIDE DEF Have
  <2> QED
    BY <1>1, <1>2, SubsetsInductive
<1> QED
  BY <1>3

LEMMA BestIs ==
  ASSUME NEW S, S \subseteq Teams, IsFiniteSet(S), NEW won \in [Teams -> Nat],
         NEW t \in S, won[t] > 0
  PROVE  /\ Best(won, S) \in S /\ won[Best(won, S)] > 0
         /\ \A r \in S : /\ won[r] <= won[Best(won, S)]
                         /\ won[r] = won[Best(won, S)] => Best(won, S) <= r
<1>1. \A r \in S : r \in Nat /\ won[r] \in Nat
  BY Sizes
<1>2. \E b \in S : IsBest(won, S, b)
  BY BestExists
<1>3. Best(won, S) = CHOOSE b \in S : IsBest(won, S, b)
  BY <1>1 DEF Best
<1>4. IsBest(won, S, Best(won, S))
  BY <1>2, <1>3
<1>5. Best(won, S) \in S /\ \A r \in S : Ahead(won, Best(won, S), r)
  BY <1>4 DEF IsBest
<1>6. \A r \in S : won[r] <= won[Best(won, S)] /\ (won[r] = won[Best(won, S)] => Best(won, S) <= r)
  BY <1>1, <1>5 DEF Ahead
<1> QED
  BY <1>1, <1>5, <1>6

\* One more team, behind the others.
LEMMA BestOfMore ==
  ASSUME NEW S, S \subseteq Teams, IsFiniteSet(S), NEW won \in [Teams -> Nat],
         NEW t \in S, \A r \in S : r <= t
  PROVE  Best(won, S) = Better(won, Best(won, S \ {t}), t)
<1> DEFINE Rest == S \ {t}
<1>1. \A r \in S : r \in Nat /\ won[r] \in Nat /\ r # NoTeam
  BY Sizes
<1>2. IsFiniteSet(Rest) /\ Rest \subseteq Teams
  BY FS_RemoveElement
<1>3. CASE \A r \in Rest : won[r] = 0
  <2>1. Best(won, Rest) = NoTeam
    BY <1>3 DEF Best
  <2>2. CASE won[t] = 0
    <3>1. \A r \in S : won[r] = 0
      BY <1>3, <2>2
    <3> QED
      BY <2>1, <2>2, <3>1 DEF Best, Better
  <2>3. CASE won[t] > 0
    <3>1. Best(won, S) \in S /\ won[Best(won, S)] > 0
      BY <2>3, BestIs
    <3>2. Best(won, S) = t
      BY <1>3, <3>1
    <3> QED
      BY <2>1, <2>3, <3>2 DEF Better
  <2> QED
    BY <1>1, <2>2, <2>3
<1>4. CASE \E r \in Rest : won[r] # 0
  <2>1. PICK r \in Rest : won[r] > 0
    BY <1>1, <1>4
  <2> DEFINE a == Best(won, Rest)
             b == Best(won, S)
  <2>2. /\ a \in Rest /\ won[a] > 0
        /\ \A q \in Rest : won[q] <= won[a] /\ (won[q] = won[a] => a <= q)
    <3> HIDE DEF Rest
    <3> QED
      BY <1>2, <2>1, BestIs
  <2>3. /\ b \in S /\ won[b] > 0
        /\ \A q \in S : won[q] <= won[b] /\ (won[q] = won[b] => b <= q)
    BY <2>1, BestIs
  <2> HIDE DEF a, b
  <2>4. a \in S /\ a # t /\ a # NoTeam /\ a <= t
    BY <1>1, <2>2
  <2>5. CASE won[t] > won[a]
    <3>1. b = t
      <4>1. b \in Rest => won[b] <= won[a]
        BY <2>2
      <4>2. won[t] <= won[b]
        BY <2>3
      <4> QED
        BY <1>1, <2>3, <2>4, <2>5, <4>1, <4>2
    <3> QED
      BY <2>4, <2>5, <3>1 DEF Better, a, b
  <2>6. CASE ~(won[t] > won[a])
    <3>1. b = a
      <4>1. won[a] <= won[b] /\ (won[a] = won[b] => b <= a)
        BY <2>3, <2>4
      <4>2. CASE b = t
        BY <1>1, <2>4, <2>6, <4>1, <4>2
      <4>3. CASE b \in Rest
        <5>1. won[b] <= won[a] /\ (won[b] = won[a] => a <= b)
          BY <2>2, <4>3
        <5> QED
          BY <1>1, <2>3, <2>4, <4>1, <5>1
      <4> QED
        BY <2>3, <4>2, <4>3
    <3> QED
      BY <2>4, <2>6, <3>1 DEF Better, a, b
  <2> QED
    BY <2>5, <2>6
<1> QED
  BY <1>3, <1>4


LEMMA MaxOfSet ==
  ASSUME NEW n \in Nat, NEW s, s \subseteq 1..n, s # {}
  PROVE  Max(s) \in s /\ \A k \in s : k <= Max(s)
<1> DEFINE Bounded(r) == \E x \in r : \A k \in r : x >= k
           Have == {r \in SUBSET (1..n) : r = {} \/ Bounded(r)}
<1>1. ASSUME NEW r \in SUBSET s, r # {}
      PROVE  \E x \in r : r \ {x} \in Have => r \in Have
  <2>1. PICK x \in r : TRUE
    BY <1>1
  <2>2. ASSUME r \ {x} \in Have PROVE Bounded(r)
    <3>1. CASE r \ {x} = {}
      BY <3>1
    <3>2. CASE r \ {x} # {}
      <4>1. PICK y \in r \ {x} : \A k \in r \ {x} : y >= k
        BY <2>2, <3>2
      <4>2. \A k \in r : k \in Nat
        OBVIOUS
      <4>3. CASE x >= y
        <5>1. \A k \in r : x >= k
          BY <4>1, <4>2, <4>3
        <5> QED
          BY <5>1
      <4>4. CASE ~(x >= y)
        <5>1. \A k \in r : y >= k
          BY <4>1, <4>2, <4>4
        <5> QED
          BY <4>1, <5>1
      <4> QED
        BY <4>3, <4>4
    <3> QED
      BY <3>1, <3>2
  <2> HIDE DEF Bounded
  <2> QED
    BY <2>1, <2>2
<1>2. IsFiniteSet(s) /\ {} \in Have
  <2>1. IsFiniteSet(1..n)
    BY FS_Interval
  <2> QED
    BY <2>1, FS_Subset
<1>3. s \in Have
  <2> HIDE DEF Have
  <2> QED
    BY <1>1, <1>2, SubsetsInductive
<1>4. \E x \in s : \A k \in s : x >= k
  BY <1>3
<1>5. Max(s) \in s /\ \A k \in s : Max(s) >= k
  BY <1>4 DEF Max
<1> QED
  BY <1>5

LEMMA LeaderIsBest ==
  ASSUME NEW g \in Groups, NEW won \in [Teams -> Nat]
  PROVE  Leader(g, won) = Best(won, Members(g))
<1> DEFINE TeamAt(k) == g * GroupSize + k - 1
           Row == [k \in 1..GroupSize |-> TeamAt(k)]
           At(s) == {TeamAt(k) : k \in s}
           Body(fold) == [s \in SUBSET DOMAIN Row |-> IF s = {} THEN NoTeam
                            ELSE Better(won, fold[s \ {Max(s)}], Row[Max(s)])]
           folded == CHOOSE fold : fold = Body(fold)
           best == [s \in SUBSET DOMAIN Row |-> Best(won, At(s))]
<1>1. GroupSize \in Nat /\ g \in Nat /\ g * GroupSize \in Nat /\ DOMAIN Row = 1..GroupSize
  BY Sizes
<1>2. ASSUME NEW s \in SUBSET (1..GroupSize)
      PROVE  /\ At(s) \subseteq Members(g) /\ At(s) \subseteq Teams /\ IsFiniteSet(At(s))
             /\ \A x \in s : At(s \ {x}) = At(s) \ {TeamAt(x)}
  <2>1. At(s) \subseteq Members(g)
    BY <1>1, MembersAre
  <2>2. IsFiniteSet(At(s)) /\ At(s) \subseteq Teams
    <3> HIDE DEF At
    <3> QED
      BY <2>1, MembersAre, FS_Subset
  <2>3. \A k, l \in s : TeamAt(k) = TeamAt(l) => k = l
    BY <1>1
  <2> HIDE DEF TeamAt
  <2> QED
    BY <2>1, <2>2, <2>3
<1>3. ASSUME NEW s \in SUBSET (1..GroupSize), s # {}
      PROVE  /\ Max(s) \in s /\ s \ {Max(s)} \in SUBSET (1..GroupSize)
             /\ Best(won, At(s)) = Better(won, Best(won, At(s \ {Max(s)})), Row[Max(s)])
  <2>1. Max(s) \in s /\ \A k \in s : k <= Max(s)
    BY <1>1, <1>3, MaxOfSet
  <2>2. ASSUME NEW k \in s PROVE TeamAt(k) <= TeamAt(Max(s))
    <3> DEFINE from == g * GroupSize
    <3>1. k \in Nat /\ Max(s) \in Nat /\ k <= Max(s) /\ from \in Nat
      <4>1. from \in Nat /\ GroupSize \in Nat
        BY <1>1
      <4>2. k \in 1..GroupSize /\ Max(s) \in 1..GroupSize
        BY <2>1
      <4> HIDE DEF from
      <4> QED
        BY <2>1, <4>1, <4>2
    <3> HIDE DEF from
    <3>2. from + k - 1 <= from + Max(s) - 1
      BY <3>1
    <3> QED
      BY <3>2 DEF from
  <2>3. TeamAt(Max(s)) \in At(s) /\ (\A r \in At(s) : r <= TeamAt(Max(s))) /\ Row[Max(s)] = TeamAt(Max(s))
    BY <2>1, <2>2
  <2> HIDE DEF At, TeamAt, Row
  <2>4. Best(won, At(s)) = Better(won, Best(won, At(s) \ {TeamAt(Max(s))}), TeamAt(Max(s)))
    BY <1>2, <2>3, BestOfMore
  <2>5. Best(won, At(s)) = Better(won, Best(won, At(s \ {Max(s)})), Row[Max(s)])
    BY <1>2, <2>1, <2>3, <2>4, Zenon
  <2> QED
    BY <2>1, <2>5
<1>4. At({}) = {} /\ Best(won, {}) = NoTeam
  BY DEF Best
<1>5. best = Body(best)
  <2> SUFFICES ASSUME NEW s \in SUBSET (1..GroupSize)
               PROVE  best[s] = IF s = {} THEN NoTeam
                                ELSE Better(won, best[s \ {Max(s)}], Row[Max(s)])
    BY <1>1
  <2> HIDE DEF At, TeamAt
  <2>1. CASE s = {}
    BY <1>4, <2>1
  <2>2. CASE s # {}
    <3>1. best[s] = Best(won, At(s)) /\ best[s \ {Max(s)}] = Best(won, At(s \ {Max(s)}))
      BY <1>1, <1>3, <2>2
    <3> HIDE DEF best, Row
    <3> QED
      BY <1>3, <2>2, <3>1
  <2> QED
    BY <2>1, <2>2
<1>6. folded = Body(folded)
  <2> HIDE DEF Body, best
  <2> QED
    BY <1>5
<1> HIDE DEF folded
<1> DEFINE Right == {s \in SUBSET (1..GroupSize) : folded[s] = best[s]}
<1>7. {} \in Right
  <2>1. Body(folded)[{}] = NoTeam /\ Body(best)[{}] = NoTeam
    OBVIOUS
  <2> HIDE DEF Body, best
  <2> QED
    BY <1>5, <1>6, <2>1
<1>8. ASSUME NEW s \in SUBSET (1..GroupSize), s # {}
      PROVE  \E x \in s : s \ {x} \in Right => s \in Right
  <2>1. ASSUME s \ {Max(s)} \in Right PROVE s \in Right
    <3>1. folded[s \ {Max(s)}] = best[s \ {Max(s)}]
      BY <2>1
    <3>2. Body(folded)[s] = Body(best)[s]
      <4> HIDE DEF best
      <4> QED
        BY <1>1, <1>8, <3>1
    <3> HIDE DEF Body, best
    <3> QED
      BY <1>5, <1>6, <3>2
  <2> HIDE DEF Right
  <2> QED
    BY <1>3, <1>8, <2>1
<1>9. folded[1..GroupSize] = best[1..GroupSize]
  <2> HIDE DEF Right
  <2>1. IsFiniteSet(1..GroupSize)
    BY <1>1, FS_Interval
  <2>2. 1..GroupSize \in Right
    BY <1>7, <1>8, <2>1, SubsetsInductive
  <2> QED
    BY <2>2 DEF Right
<1>10. Leader(g, won) = folded[DOMAIN Row]
  BY DEF Leader, FoldLeft, MapThenFoldSet, folded, Better
<1>11. At(1..GroupSize) = Members(g)
  <2>1. ASSUME NEW t \in Members(g) PROVE t \in At(1..GroupSize)
    <3>1. t - g * GroupSize + 1 \in 1..GroupSize /\ t = TeamAt(t - g * GroupSize + 1)
      BY <1>1, MembersAre
    <3> HIDE DEF TeamAt
    <3> QED
      BY <3>1
  <2>2. At(1..GroupSize) \subseteq Members(g)
    <3> HIDE DEF At
    <3> QED
      BY <1>2
  <2> QED
    BY <2>1, <2>2
<1>12. best[1..GroupSize] = Best(won, Members(g))
  <2> HIDE DEF At
  <2> QED
    BY <1>1, <1>11
<1> HIDE DEF Row, best
<1> QED
  BY <1>1, <1>9, <1>10, <1>12


-----------------------------------------------------------------------------
(***************************************************************************)
(* Points and pairings.                                                    *)
(***************************************************************************)

Won(won, t) == [won EXCEPT ![t] = @ + 1]

LEMMA PointsFinite ==
  ASSUME NEW won, NEW S, S \subseteq Teams, IsFiniteSet(Points(won, Teams))
  PROVE  IsFiniteSet(Points(won, S)) /\ Cardinality(Points(won, S)) \in Nat
<1>1. Points(won, S) \in SUBSET Points(won, Teams)
  BY PointsOf
<1> QED
  BY <1>1, FS_Subset, FS_CardinalityType

\* A match is won: a point more for every set the winner is in.
LEMMA PointWon ==
  ASSUME NEW won \in [Teams -> Nat], NEW t \in Teams, IsFiniteSet(Points(won, Teams)),
         NEW S, S \subseteq Teams
  PROVE  /\ Won(won, t) \in [Teams -> Nat]
         /\ IsFiniteSet(Points(Won(won, t), Teams))
         /\ Cardinality(Points(Won(won, t), S))
              = IF t \in S THEN Cardinality(Points(won, S)) + 1 ELSE Cardinality(Points(won, S))
<1> DEFINE new == Won(won, t)
           p == <<t, won[t] + 1>>
<1>1. new \in [Teams -> Nat] /\ new[t] = won[t] + 1 /\ \A r \in Teams \ {t} : new[r] = won[r]
  BY DEF Won
<1> HIDE DEF new
<1>2. ASSUME NEW R, R \subseteq Teams, t \in R
      PROVE  Points(new, R) = Points(won, R) \cup {p} /\ p \notin Points(won, R)
  <2>1. p \notin Points(won, R)
    <3> SUFFICES ASSUME NEW r \in R, NEW k \in 1..won[r], p = <<r, k>> PROVE FALSE
      BY PointsOf
    <3>1. r = t /\ k = won[t] + 1 /\ won[t] \in Nat
      OBVIOUS
    <3> QED
      BY <3>1
  <2>2. ASSUME NEW e PROVE e \in Points(new, R) <=> e \in Points(won, R) \cup {p}
    <3>1. ASSUME NEW r \in R, NEW k \in 1..new[r], e = <<r, k>>
          PROVE  e \in Points(won, R) \cup {p}
      <4>1. CASE r = t
        <5>1. k \in 1..won[t] \/ k = won[t] + 1
          BY <1>1, <4>1
        <5> QED
          BY <3>1, <4>1, <5>1, PointsOf
      <4>2. CASE r # t
        <5>1. k \in 1..won[r]
          BY <1>1, <1>2, <4>2
        <5> QED
          BY <3>1, <5>1, PointsOf
      <4> QED
        BY <4>1, <4>2
    <3>2. ASSUME NEW r \in R, NEW k \in 1..won[r], e = <<r, k>> PROVE e \in Points(new, R)
      <4>1. k \in 1..new[r]
        <5>1. r \in Teams /\ won[r] \in Nat /\ (new[r] = won[r] \/ new[r] = won[r] + 1)
          BY <1>1, <1>2
        <5> QED
          BY <5>1
      <4> QED
        BY <3>2, <4>1, PointsOf
    <3>3. p \in Points(new, R)
      <4>1. won[t] + 1 \in 1..new[t]
        BY <1>1
      <4> QED
        BY <1>2, <4>1, PointsOf
    <3> HIDE DEF p
    <3> QED
      BY <3>1, <3>2, <3>3, PointsOf
  <2> QED
    BY <2>1, <2>2
<1>3. ASSUME NEW R, R \subseteq Teams, t \notin R PROVE Points(new, R) = Points(won, R)
  <2>1. \A r \in R : new[r] = won[r]
    BY <1>1, <1>3
  <2>2. \A e : e \in Points(new, R) <=> e \in Points(won, R)
    BY <2>1, PointsOf
  <2> QED
    BY <2>2
<1> HIDE DEF p
<1>4. IsFiniteSet(Points(new, Teams))
  BY <1>2, FS_AddElement
<1>5. IsFiniteSet(Points(won, S))
  BY PointsFinite
<1>6. CASE t \in S
  <2>1. Cardinality(Points(won, S) \cup {p}) = Cardinality(Points(won, S)) + 1
    BY <1>2, <1>5, <1>6, FS_AddElement
  <2> QED
    BY <1>1, <1>2, <1>4, <1>6, <2>1 DEF new
<1>7. CASE t \notin S
  BY <1>1, <1>3, <1>4, <1>7 DEF new
<1> QED
  BY <1>6, <1>7

LEMMA MatchIs ==
  ASSUME NEW t1 \in 0..NoTeam, NEW t2 \in 0..NoTeam
  PROVE  /\ Match(t1, t2) \in Games
         /\ Match(t1, t2).team1 = t1 /\ Match(t1, t2).team2 = t2
         /\ Match(t1, t2).bat = t1 /\ Match(t1, t2).ball = t2
         /\ Match(t1, t2).innings = 0
  BY DEF Match, Games

Opposed(g, x) == {x.team1, x.team2} \subseteq Members(g) /\ x.team1 < x.team2

LEMMA OpeningIs ==
  ASSUME NEW g \in Groups
  PROVE  /\ Opening(g) \in Games /\ Opposed(g, Opening(g)) /\ Before(g, Opening(g)) = 0
         /\ Opening(g).team1 = g * GroupSize /\ Opening(g).team2 = g * GroupSize + 1
         /\ Opening(g).bat = Opening(g).team1 /\ Opening(g).ball = Opening(g).team2
<1> DEFINE from == g * GroupSize
<1>1. GroupSize \in Nat /\ GroupSize > 1 /\ from \in Nat
  BY Sizes
<1>2. from \in Members(g) /\ from + 1 \in Members(g)
  <2>1. Members(g) = from .. from + GroupSize - 1
    BY MembersAre
  <2> HIDE DEF from
  <2> QED
    BY <1>1, <2>1
<1>3. from \in 0..NoTeam /\ from + 1 \in 0..NoTeam
  BY <1>2, MembersAre, Sizes
<1>4. Opening(g) = Match(from, from + 1)
  BY DEF Opening
<1>5. /\ Opening(g) \in Games /\ Opening(g).team1 = from /\ Opening(g).team2 = from + 1
      /\ Opening(g).bat = from /\ Opening(g).ball = from + 1
  <2> HIDE DEF from
  <2> QED
    BY <1>3, <1>4, MatchIs
<1>6. Opposed(g, Opening(g))
  <2> HIDE DEF from
  <2> QED
    BY <1>1, <1>2, <1>5 DEF Opposed
<1>7. Before(g, Opening(g)) = 0
  <2> HIDE DEF from
  <2>1. from - from = 0 /\ from + 1 - from = 1
    BY <1>1
  <2>2. Opening(g).team1 - from = 0 /\ Opening(g).team2 - from = 1
    BY <1>1, <1>5
  <2>3. Before(g, Opening(g)) = Earlier(0, 1)
    BY <2>2, Zenon DEF Before, from
  <2> QED
    BY <1>1, <2>3 DEF Earlier
<1> QED
  BY <1>5, <1>6, <1>7


\* The next of the two loops has two more of the pairings before it, and the
\* last leaves none out.
LEMMA PairingIs ==
  ASSUME NEW g \in Groups, NEW x \in Games, Opposed(g, x)
  PROVE  /\ Before(g, x) \in Int
         /\ ~IsLastMatch(g, x) =>
              LET y == Pairing(g, x)
              IN  /\ y \in Games /\ Opposed(g, y) /\ Before(g, y) = Before(g, x) + 2
                  /\ y.bat = y.team1 /\ y.ball = y.team2
         /\ IsLastMatch(g, x) => Before(g, x) + 2 = GroupSize * (GroupSize - 1)
<1> DEFINE from == g * GroupSize
           a == x.team1 - from
           b == x.team2 - from
           y == Pairing(g, x)
<1>1. GroupSize \in Nat /\ GroupSize > 1 /\ from \in Nat
  BY Sizes
<1>2. Members(g) = from .. from + GroupSize - 1 /\ Members(g) \subseteq 0..NoTeam
  BY MembersAre, Sizes
<1>3. LastOf(g) = from + GroupSize - 1
  <2>1. CASE g = 0
    BY <1>1, <2>1 DEF LastOf
  <2>2. CASE g = 1
    BY <1>1, <2>2 DEF LastOf
  <2> QED
    BY <2>1, <2>2, Sizes
<1> HIDE DEF from
<1>4. x.team1 \in from .. from + GroupSize - 1 /\ x.team2 \in from .. from + GroupSize - 1
  BY <1>2 DEF Opposed
<1>5. a \in 0 .. GroupSize - 1 /\ b \in 0 .. GroupSize - 1 /\ a < b
      /\ x.team1 = from + a /\ x.team2 = from + b
  BY <1>1, <1>4 DEF Opposed
<1>6. Before(g, x) = Earlier(a, b)
  BY Zenon DEF Before, from
<1> HIDE DEF a, b
<1>7. Before(g, x) \in Int
  BY <1>1, <1>5, <1>6 DEF Earlier
<1>8. IsLastMatch(g, x) <=> a = GroupSize - 2
  BY <1>1, <1>3, <1>5 DEF IsLastMatch
<1>9. ASSUME NEW t1 \in Nat, NEW t2 \in Nat, t1 < t2, t2 < GroupSize, y = Match(from + t1, from + t2),
             Earlier(t1, t2) = Earlier(a, b) + 2
      PROVE  /\ y \in Games /\ Opposed(g, y) /\ Before(g, y) = Before(g, x) + 2
             /\ y.bat = y.team1 /\ y.ball = y.team2
  <2> HIDE DEF y
  <2>1. from + t1 \in Members(g) /\ from + t2 \in Members(g)
    BY <1>1, <1>2, <1>9
  <2>2. /\ y \in Games /\ y.team1 = from + t1 /\ y.team2 = from + t2
        /\ y.bat = y.team1 /\ y.ball = y.team2
    BY <1>2, <1>9, <2>1, MatchIs
  <2>3. Opposed(g, y)
    BY <1>1, <1>9, <2>1, <2>2 DEF Opposed
  <2>4. y.team1 - from = t1 /\ y.team2 - from = t2
    BY <1>1, <2>2
  <2>5. Before(g, y) = Earlier(t1, t2)
    BY <2>4, Zenon DEF Before, from
  <2> QED
    BY <1>6, <1>9, <2>2, <2>3, <2>5
<1>10. CASE b < GroupSize - 1
  <2>1. y = Match(from + a, from + (b + 1))
    BY <1>1, <1>3, <1>5, <1>10 DEF Pairing
  <2>2. Earlier(a, b + 1) = Earlier(a, b) + 2
    BY <1>1, <1>5 DEF Earlier
  <2>3. a # GroupSize - 2
    BY <1>1, <1>5, <1>10
  <2> HIDE DEF y
  <2>4. a \in Nat /\ b + 1 \in Nat /\ a < b + 1 /\ b + 1 < GroupSize
    BY <1>1, <1>5, <1>10
  <2> QED
    BY <1>7, <1>8, <1>9, <2>1, <2>2, <2>3, <2>4 DEF y
<1>11. CASE b = GroupSize - 1
  <2>1. y = Match(from + (a + 1), from + (a + 2))
    BY <1>1, <1>3, <1>5, <1>11 DEF Pairing
  <2>2. Earlier(a + 1, a + 2) = Earlier(a, b) + 2
    BY <1>1, <1>5, <1>11 DEF Earlier
  <2>3. CASE a = GroupSize - 2
    <3>1. Earlier(a, b) + 2 = GroupSize * (GroupSize - 1)
      BY <1>1, <1>5, <1>11, <2>3 DEF Earlier
    <3> QED
      BY <1>6, <1>7, <1>8, <2>3, <3>1
  <2>4. CASE a # GroupSize - 2
    <3>1. a + 1 \in Nat /\ a + 2 \in Nat /\ a + 1 < a + 2 /\ a + 2 < GroupSize
      BY <1>1, <1>5, <1>11, <2>4
    <3> HIDE DEF y
    <3> QED
      BY <1>7, <1>8, <1>9, <2>1, <2>2, <2>4, <3>1 DEF y
  <2> QED
    BY <2>3, <2>4
<1> QED
  BY <1>1, <1>5, <1>10, <1>11

-----------------------------------------------------------------------------
(***************************************************************************)
(* A match: its two teams stay the ones that bat and bowl.                 *)
(***************************************************************************)

Sides(x) == {x.team1, x.team2}
TwoSides(x) ==
  /\ x \in Games /\ Sides(x) \subseteq Teams /\ x.team1 # x.team2
  /\ <<x.bat, x.ball>> \in {<<x.team1, x.team2>>, <<x.team2, x.team1>>}
SameSides(x, y) == y \in Games /\ Sides(y) = Sides(x) /\ y.team1 = x.team1 /\ y.team2 = x.team2

LEMMA SidesHeard ==
  ASSUME NEW x, TwoSides(x)
  PROVE  {First(x), Second(x)} = Sides(x) /\ First(x) # Second(x)
<1>1. x.team1 \in Teams /\ x.team2 \in Teams /\ x.team1 # x.team2
  BY DEF TwoSides, Sides
<1>2. x.team1 \in Nat /\ x.team2 \in Nat
  BY <1>1, Sizes
<1>3. First(x) = x.team1 \/ First(x) = x.team2
  BY DEF TwoSides, First
<1>4. CASE First(x) = x.team1
  BY <1>1, <1>2, <1>4 DEF Second, Sides
<1>5. CASE First(x) = x.team2
  BY <1>1, <1>2, <1>5 DEF Second, Sides
<1> QED
  BY <1>3, <1>4, <1>5

LEMMA TossKeeps ==
  ASSUME NEW x, TwoSides(x), NEW d1, NEW d2
  PROVE  SameSides(x, Toss(x, d1, d2)) /\ TwoSides(Toss(x, d1, d2))
<1>1. x \in Games
  BY DEF TwoSides
<1> DEFINE y == Toss(x, d1, d2)
<1>2. /\ y \in Games /\ y.team1 = x.team1 /\ y.team2 = x.team2
      /\ <<y.bat, y.ball>> \in {<<x.team1, x.team2>>, <<x.team2, x.team1>>}
  BY <1>1 DEF Toss, Games
<1> HIDE DEF y
<1> QED
  BY <1>2 DEF TwoSides, SameSides, Sides, y

LEMMA BallKeeps ==
  ASSUME NEW x, TwoSides(x), NEW d1 \in Nat, NEW d2 \in Nat
  PROVE  LET y == Counted(Scored(x, d1, d2))
         IN  SameSides(x, y) /\ TwoSides(y) /\ y.innings = x.innings
<1> DEFINE z == Scored(x, d1, d2)
           y == Counted(z)
<1>1. x \in Games
  BY DEF TwoSides
<1>2. /\ z \in Games /\ z.team1 = x.team1 /\ z.team2 = x.team2 /\ z.bat = x.bat /\ z.ball = x.ball
      /\ z.innings = x.innings
  <2> DEFINE b == [x EXCEPT !.balls = @ + 1]
  <2>1. /\ b \in Games /\ b.team1 = x.team1 /\ b.team2 = x.team2 /\ b.bat = x.bat /\ b.ball = x.ball
        /\ b.innings = x.innings
    BY <1>1 DEF Games
  <2>2. \/ z = [b EXCEPT !.wkt = @ + 1]
        \/ z = [b EXCEPT !.tot = @ + d2]
        \/ z = [b EXCEPT !.tot2 = @ + d2]
    BY Zenon DEF Scored
  <2> HIDE DEF b, z
  <2> QED
    BY <2>1, <2>2 DEF Games
<1> HIDE DEF z
<1>3. /\ y \in Games /\ y.team1 = z.team1 /\ y.team2 = z.team2 /\ y.bat = z.bat /\ y.ball = z.ball
      /\ y.innings = z.innings
  <2>1. z.i \in Nat /\ z.j \in Nat
    BY <1>2 DEF Games
  <2>2. \/ y = [z EXCEPT !.j = z.j + 1]
        \/ y = [z EXCEPT !.i = z.i + 1, !.j = 0]
        \/ y = [z EXCEPT !.i = z.i + 1, !.j = z.j + 1]
    BY Zenon DEF Counted
  <2> HIDE DEF y
  <2>3. z.i + 1 \in Nat /\ z.j + 1 \in Nat
    BY <2>1
  <2>4. z \in Games
    BY <1>2
  <2>5. CASE y = [z EXCEPT !.j = z.j + 1]
    BY <2>3, <2>4, <2>5 DEF Games
  <2>6. CASE y = [z EXCEPT !.i = z.i + 1, !.j = 0]
    BY <2>3, <2>4, <2>6 DEF Games
  <2>7. CASE y = [z EXCEPT !.i = z.i + 1, !.j = z.j + 1]
    BY <2>3, <2>4, <2>7 DEF Games
  <2> QED
    BY <2>2, <2>5, <2>6, <2>7
<1> HIDE DEF y
<1>4. SameSides(x, y) /\ TwoSides(y) /\ y.innings = x.innings
  BY <1>2, <1>3 DEF TwoSides, SameSides, Sides
<1> QED
  BY <1>4 DEF y, z

LEMMA InningsKeeps ==
  ASSUME NEW x, TwoSides(x)
  PROVE  SameSides(x, SecondInnings(x)) /\ TwoSides(SecondInnings(x))
<1>1. x \in Games
  BY DEF TwoSides
<1> DEFINE y == SecondInnings(x)
<1>2. /\ y \in Games /\ y.team1 = x.team1 /\ y.team2 = x.team2 /\ y.bat = x.bat /\ y.ball = x.ball
  BY <1>1 DEF SecondInnings, Games
<1> HIDE DEF y
<1> QED
  BY <1>2 DEF TwoSides, SameSides, Sides, y

\* Who wins a match: one of the two, and by more runs if it is by runs.
LEMMA WinnerIs ==
  ASSUME NEW x, TwoSides(x)
  PROVE  Win(x) \in Sides(x) /\ Result(x) \in Results
<1>1. x.tot \in Nat /\ x.tot2 \in Nat /\ x.wkt \in Nat /\ x.balls \in Nat /\ x.team1 \in 0..NoTeam /\ x.ball \in 0..NoTeam
  BY DEF TwoSides, Games
<1>2. x.bat # x.ball /\ x.bat \in Sides(x) /\ x.ball \in Sides(x) /\ x.team1 \in Sides(x)
  BY DEF TwoSides, Sides
<1>3. Win(x) \in Sides(x)
  BY <1>2 DEF Win
<1>4. Win(x) \in 0..NoTeam
  BY <1>3, Sizes DEF TwoSides
<1>5. Result(x) \in Results
  BY <1>1, <1>4 DEF Result, Results
<1> QED
  BY <1>3, <1>5

LEMMA NoResultIs == NoResult \in Results
<1>1. NoTeam \in 0..NoTeam
  BY Sizes
<1> QED
  BY <1>1 DEF NoResult, Results


-----------------------------------------------------------------------------
(***************************************************************************)
(* What the invariant says of those who play.                              *)
(***************************************************************************)

LEMMA GroupSides ==
  ASSUME IInv, NEW g \in Groups, Playing(g)
  PROVE  /\ Opposed(g, game[g]) /\ Sides(game[g]) \subseteq Members(g)
         /\ leader[g] = NoTeam /\ pc[Host] = "wait" /\ pc[g] # "exit"
         /\ 2 * Cardinality(Points(winner, Members(g))) = Before(g, game[g])
<1>1. GroupOK(g)
  BY DEF IInv
<1> QED
  BY <1>1 DEF GroupOK, Opposed, Sides, Playing

LEMMA HostSides ==
  ASSUME IInv, Playing(Host)
  PROVE  /\ game[Host].team1 = leader[0] /\ game[Host].team2 = leader[1]
         /\ leader[0] \in Members(0) /\ leader[1] \in Members(1)
         /\ \A g \in Groups : pc[g] = "exit"
<1>1. HostOK /\ GroupOK(0) /\ GroupOK(1)
  BY Sizes DEF IInv
<1>2. pc[Host] # "wait"
  BY DEF Playing
<1> QED
  BY <1>1, <1>2, Sizes DEF HostOK, GroupOK

LEMMA Players ==
  ASSUME IInv, NEW m \in Mediators, Playing(m)
  PROVE  /\ TwoSides(game[m])
         /\ \A t \in Sides(game[m]) : ~Dismissed(t)
         /\ \A n \in Mediators : n # m /\ Playing(n) => Sides(game[m]) \cap Sides(game[n]) = {}
<1>1. /\ game[m] \in Games
      /\ <<game[m].bat, game[m].ball>> \in {<<game[m].team1, game[m].team2>>,
                                            <<game[m].team2, game[m].team1>>}
  BY DEF IInv, TypeOK, SidesOK
<1>2. \A t \in Teams : Dismissed(t) =>
        pc[GroupOf(t)] = "exit" /\ (leader[GroupOf(t)] = t => pc[Host] = "exit")
  BY DEF IInv, DismissedOK
<1>3. CASE m \in Groups
  <2>1. /\ Opposed(m, game[m]) /\ Sides(game[m]) \subseteq Members(m)
        /\ pc[Host] = "wait" /\ pc[m] # "exit"
    BY <1>3, GroupSides
  <2>2. /\ Members(m) \subseteq Teams /\ \A t \in Members(m) : GroupOf(t) = m /\ t \in Nat
    BY <1>3, MembersAre, Sizes
  <2>3. TwoSides(game[m])
    BY <1>1, <2>1, <2>2 DEF TwoSides, Opposed, Sides
  <2>4. \A t \in Sides(game[m]) : ~Dismissed(t)
    BY <1>2, <2>1, <2>2
  <2>5. ASSUME NEW n \in Mediators, n # m, Playing(n)
        PROVE  Sides(game[m]) \cap Sides(game[n]) = {}
    <3>1. n # Host
      BY <2>1, <2>5 DEF Playing
    <3>2. n \in Groups
      BY <3>1, Sizes
    <3>3. Sides(game[n]) \subseteq Members(n) /\ \A t \in Members(n) : GroupOf(t) = n
      BY <2>5, <3>2, GroupSides, MembersAre
    <3> QED
      BY <2>1, <2>2, <2>5, <3>3
  <2> QED
    BY <2>3, <2>4, <2>5
<1>4. CASE m = Host
  <2>1. /\ game[Host].team1 = leader[0] /\ game[Host].team2 = leader[1]
        /\ leader[0] \in Members(0) /\ leader[1] \in Members(1)
        /\ \A g \in Groups : pc[g] = "exit"
    BY <1>4, HostSides
  <2>2. /\ GroupOf(leader[0]) = 0 /\ GroupOf(leader[1]) = 1
        /\ leader[0] \in Teams /\ leader[1] \in Teams
    BY <2>1, Sizes, MembersAre
  <2>3. TwoSides(game[m])
    BY <1>1, <1>4, <2>1, <2>2 DEF TwoSides, Sides
  <2>4. \A t \in Sides(game[m]) : ~Dismissed(t)
    <3>1. pc[Host] # "exit"
      BY <1>4 DEF Playing
    <3> QED
      BY <1>2, <1>4, <2>1, <2>2, <3>1 DEF Sides
  <2>5. \A n \in Mediators : n # m => ~Playing(n)
    BY <1>4, <2>1, Sizes DEF Playing
  <2> QED
    BY <2>3, <2>4, <2>5
<1> QED
  BY <1>3, <1>4, Sizes

\* Those that others have asked; all that the mediator m leaves to them.
AskedByOthers(m, t) == \E n \in Mediators : n # m /\ Awaits(n, t)
AwaitedIs == \A m \in Mediators, t \in Teams : Awaits(m, t) => Playing(m) /\ t \in Sides(game[m])

LEMMA AwaitedSides ==
  ASSUME IInv
  PROVE  AwaitedIs
<1> SUFFICES ASSUME NEW m \in Mediators, NEW t \in Teams, Awaits(m, t)
             PROVE  Playing(m) /\ t \in Sides(game[m])
  BY DEF AwaitedIs
<1>1. Playing(m)
  BY DEF Awaits, Playing
<1>2. TwoSides(game[m])
  BY <1>1, Players
<1>3. Second(game[m]) \in Sides(game[m])
  BY <1>2, SidesHeard
<1> QED
  BY <1>1, <1>3 DEF Awaits, Sides

LEMMA ItsOwn ==
  ASSUME IInv, NEW m \in Mediators, Playing(m), NEW t \in Sides(game[m])
  PROVE  t \in Teams /\ ~AskedByOthers(m, t)
<1>1. t \in Teams
  BY Players DEF TwoSides
<1>2. ASSUME NEW n \in Mediators, n # m, Awaits(n, t) PROVE FALSE
  <2>1. Playing(n) /\ t \in Sides(game[n])
    BY <1>1, <1>2, AwaitedSides DEF AwaitedIs
  <2> QED
    BY <1>2, <2>1, Players
<1> QED
  BY <1>1, <1>2 DEF AskedByOthers

\* RequestsAnswered, from the invariant.
LEMMA OneMessage ==
  ASSUME IInv
  PROVE  RequestsAnswered
<1> DEFINE Asks(t) == {k \in DOMAIN comm[t] : comm[t][k] = 1}
           Who(t) == {m \in Mediators : Awaits(m, t)}
<1> SUFFICES ASSUME NEW t \in Teams
             PROVE  Cardinality(Asks(t)) + Len(matchpipe[t]) = Cardinality(Who(t))
  BY DEF RequestsAnswered
<1>1. IF \E m \in Mediators : Awaits(m, t) THEN Asking(t) \/ Answered(t) ELSE Silent(t)
  BY DEF IInv, PipesOK
<1>2. Cardinality({}) = 0 /\ Cardinality({1}) = 1
  BY FS_EmptySet, FS_Singleton
<1>3. CASE \E m \in Mediators : Awaits(m, t)
  <2>1. PICK m \in Mediators : Awaits(m, t)
    BY <1>3
  <2>2. Playing(m) /\ t \in Sides(game[m])
    BY <2>1, AwaitedSides DEF AwaitedIs
  <2>3. Who(t) = {m}
    BY <2>1, <2>2, ItsOwn DEF AskedByOthers
  <2>4. Cardinality(Who(t)) = 1
    BY <2>3, FS_Singleton
  <2>5. CASE Asking(t)
    <3>1. Asks(t) = {1} /\ Len(matchpipe[t]) = 0
      BY <2>5 DEF Asking
    <3> HIDE DEF Asks, Who
    <3> QED
      BY <1>2, <2>4, <3>1
  <2>6. CASE Answered(t)
    <3>1. Asks(t) = {} /\ Len(matchpipe[t]) = 1
      BY <2>6 DEF Answered
    <3> HIDE DEF Asks, Who
    <3> QED
      BY <1>2, <2>4, <3>1
  <2> QED
    BY <1>1, <1>3, <2>5, <2>6
<1>4. CASE ~\E m \in Mediators : Awaits(m, t)
  <2>1. Silent(t)
    BY <1>1, <1>4
  <2>2. Asks(t) = {} /\ Len(matchpipe[t]) = 0
    <3>1. CASE comm[t] = <<>>
      BY <2>1, <3>1 DEF Silent
    <3>2. CASE comm[t] = <<2>>
      <4>1. Len(matchpipe[t]) = 0
        BY <2>1 DEF Silent
      <4>2. DOMAIN comm[t] = {1} /\ comm[t][1] = 2
        BY <3>2
      <4> QED
        BY <4>1, <4>2
    <3> QED
      BY <2>1, <3>1, <3>2 DEF Silent
  <2>3. Who(t) = {}
    BY <1>4
  <2> HIDE DEF Asks, Who
  <2> QED
    BY <1>2, <2>2, <2>3
<1> QED
  BY <1>3, <1>4

LEMMA LeadersBest ==
  ASSUME IInv
  PROVE  LeaderHasMostWins
<1> SUFFICES ASSUME NEW g \in Groups, leader[g] # NoTeam
             PROVE  /\ leader[g] \in Members(g)
                    /\ \A t \in Members(g) : /\ winner[t] <= winner[leader[g]]
                                             /\ winner[t] = winner[leader[g]] => leader[g] <= t
                    /\ 2 * MapThenSumSet(LAMBDA t : winner[t], Members(g))
                         = GroupSize * (GroupSize - 1)
  BY Zenon DEF LeaderHasMostWins
<1>1. GroupOK(g) /\ ~Playing(g) /\ pc[g] \in {"wait", "first", "second", "exit"}
  BY GroupSides, Sizes DEF IInv, TypeOK
<1>2. pc[g] = "exit"
  BY <1>1 DEF GroupOK, Playing
<1>3. /\ leader[g] \in Members(g)
      /\ \A t \in Members(g) : /\ winner[t] <= winner[leader[g]]
                               /\ winner[t] = winner[leader[g]] => leader[g] <= t
      /\ 2 * Cardinality(Points(winner, Members(g))) = GroupSize * (GroupSize - 1)
  BY <1>1, <1>2 DEF GroupOK
<1>4. /\ IsFiniteSet(Members(g)) /\ IsFiniteSet(Points(winner, Members(g)))
      /\ \A t \in Members(g) : winner[t] \in Nat
  BY MembersAre, PointsFinite DEF IInv, TypeOK
<1>5. MapThenSumSet(LAMBDA t : winner[t], Members(g)) = Cardinality(Points(winner, Members(g)))
  BY <1>4, SumIsPoints
<1> QED
  BY <1>3, <1>5, Zenon


-----------------------------------------------------------------------------
(***************************************************************************)
(* What a step of the mediator m leaves to the others, and the pipes after *)
(* it has asked the teams A and told the teams B to stop.                  *)
(***************************************************************************)

OthersGoOn(m) == \A n \in Mediators : n # m => pc'[n] = pc[n] /\ game'[n] = game[n]
LeftBy(m) ==
  \A t \in Teams :
    IF AskedByOthers(m, t)
    THEN (Asking(t) \/ Answered(t)) /\ matchpipe'[t] = matchpipe[t]
    ELSE comm[t] \in {<<>>, <<2>>} /\ matchpipe'[t] = <<>>
FreeFor(m, S) == \A t \in S : t \in Teams /\ comm[t] = <<>> /\ ~AskedByOthers(m, t)
AsksOnly(m, A) == \A t \in Teams : (Awaits(m, t))' <=> t \in A
WrittenTo(A, B) ==
  \A t \in Teams : comm'[t] = IF t \in A THEN <<1>> ELSE IF t \in B THEN <<2>> ELSE comm[t]

LEMMA OthersAsk ==
  ASSUME NEW m \in Mediators, OthersGoOn(m)
  PROVE  \A n \in Mediators, t \in Teams : n # m => ((Awaits(n, t))' <=> Awaits(n, t))
<1> SUFFICES ASSUME NEW n \in Mediators, NEW t \in Teams, n # m
             PROVE  (Awaits(n, t))' <=> Awaits(n, t)
  OBVIOUS
<1>1. pc'[n] = pc[n] /\ game'[n] = game[n]
  BY DEF OthersGoOn
<1> QED
  BY <1>1 DEF Awaits

LEMMA PipesAfter ==
  ASSUME NEW m \in Mediators, NEW A, NEW B, OthersGoOn(m), LeftBy(m), AsksOnly(m, A),
         FreeFor(m, A), FreeFor(m, B), A \cap B = {}, WrittenTo(A, B)
  PROVE  PipesOK'
<1> SUFFICES ASSUME NEW t \in Teams
             PROVE  IF \E n \in Mediators : (Awaits(n, t))'
                    THEN (Asking(t))' \/ (Answered(t))' ELSE (Silent(t))'
  BY DEF PipesOK
<1>1. \A n \in Mediators : n # m => ((Awaits(n, t))' <=> Awaits(n, t))
  BY OthersAsk
<1>2. /\ (Awaits(m, t))' <=> t \in A
      /\ comm'[t] = IF t \in A THEN <<1>> ELSE IF t \in B THEN <<2>> ELSE comm[t]
  BY DEF AsksOnly, WrittenTo
<1>3. CASE AskedByOthers(m, t)
  <2>1. (Asking(t) \/ Answered(t)) /\ matchpipe'[t] = matchpipe[t]
    BY <1>3 DEF LeftBy
  <2>2. t \notin A /\ t \notin B
    BY <1>3 DEF FreeFor
  <2>3. comm'[t] = comm[t]
    BY <1>2, <2>2
  <2>4. (Asking(t))' \/ (Answered(t))'
    BY <2>1, <2>3 DEF Asking, Answered
  <2>5. \E n \in Mediators : (Awaits(n, t))'
    BY <1>1, <1>3 DEF AskedByOthers
  <2> QED
    BY <2>4, <2>5
<1>4. CASE ~AskedByOthers(m, t)
  <2>1. comm[t] \in {<<>>, <<2>>} /\ matchpipe'[t] = <<>>
    BY <1>4 DEF LeftBy
  <2>2. CASE t \in A
    <3>1. (Asking(t))'
      BY <1>2, <2>1, <2>2 DEF Asking
    <3> QED
      BY <1>2, <2>2, <3>1
  <2>3. CASE t \notin A
    <3>1. (Silent(t))'
      BY <1>2, <2>1, <2>3 DEF Silent
    <3>2. ~\E n \in Mediators : (Awaits(n, t))'
      BY <1>1, <1>2, <1>4, <2>3 DEF AskedByOthers
    <3> QED
      BY <3>1, <3>2
  <2> QED
    BY <2>2, <2>3
<1> QED
  BY <1>3, <1>4

LEMMA ToldIs ==
  ASSUME TypeOK, NEW S, NEW what \in Requests, comm' = Told(S, what),
         \A t \in S : t \in Teams => comm[t] = <<>>
  PROVE  /\ comm' \in [Teams -> Seq(Requests)]
         /\ \A t \in Teams : comm'[t] = IF t \in S THEN <<what>> ELSE comm[t]
<1>1. ASSUME NEW t \in Teams
      PROVE  comm'[t] = IF t \in S THEN <<what>> ELSE comm[t]
  <2>1. comm'[t] = IF t \in S THEN Append(comm[t], what) ELSE comm[t]
    BY DEF Told
  <2>2. Append(<<>>, what) = <<what>>
    OBVIOUS
  <2>3. t \in S => comm[t] = <<>>
    OBVIOUS
  <2> QED
    BY <2>1, <2>2, <2>3, Zenon
<1>2. ASSUME NEW t \in Teams PROVE comm'[t] \in Seq(Requests)
  <2>1. <<what>> \in Seq(Requests) /\ comm[t] \in Seq(Requests)
    BY DEF TypeOK
  <2> QED
    BY <1>1, <2>1
<1>3. comm' = [t \in Teams |-> comm'[t]]
  BY DEF Told
<1> QED
  BY <1>1, <1>2, <1>3

\* A mediator asks the two teams of x.
LEMMA AskedKeeps ==
  ASSUME IInv, NEW m \in Mediators, NEW x, TwoSides(x), FreeFor(m, Sides(x)), LeftBy(m), Asked(m, x)
  PROVE  /\ comm' \in [Teams -> Seq(Requests)]
         /\ pc' \in [Mediators -> {"wait", "first", "second", "exit"}] /\ game' \in [Mediators -> Games]
         /\ pc'[m] = "first" /\ game'[m] = x /\ OthersGoOn(m) /\ PipesOK' /\ SidesOK'
         /\ \A t \in Teams : comm'[t] = <<2>> => comm[t] = <<2>>
<1>1. /\ comm \in [Teams -> Seq(Requests)]
      /\ pc \in [Mediators -> {"wait", "first", "second", "exit"}] /\ game \in [Mediators -> Games]
      /\ TypeOK /\ SidesOK
  BY DEF IInv, TypeOK
<1>2. comm' = Told(Sides(x), 1) /\ game' = [game EXCEPT ![m] = x] /\ pc' = [pc EXCEPT ![m] = "first"]
  BY DEF Asked, Sides
<1>3. /\ pc' \in [Mediators -> {"wait", "first", "second", "exit"}] /\ game' \in [Mediators -> Games]
      /\ pc'[m] = "first" /\ game'[m] = x
  BY <1>1, <1>2 DEF TwoSides
<1>4. OthersGoOn(m)
  BY <1>1, <1>2 DEF OthersGoOn
<1>5. /\ comm' \in [Teams -> Seq(Requests)]
      /\ \A t \in Teams : comm'[t] = IF t \in Sides(x) THEN <<1>> ELSE comm[t]
  <2>1. 1 \in Requests /\ \A t \in Sides(x) : comm[t] = <<>>
    BY DEF Requests, FreeFor
  <2> QED
    BY <1>1, <1>2, <2>1, ToldIs
<1>6. AsksOnly(m, Sides(x))
  BY <1>3 DEF AsksOnly, Awaits, Sides
<1>7. FreeFor(m, {}) /\ WrittenTo(Sides(x), {})
  BY <1>5 DEF FreeFor, WrittenTo
<1>8. PipesOK'
  BY <1>4, <1>6, <1>7, PipesAfter
<1>9. SidesOK'
  <2> SUFFICES ASSUME NEW n \in Mediators, pc'[n] \in {"first", "second"}
               PROVE  <<game'[n].bat, game'[n].ball>>
                        \in {<<game'[n].team1, game'[n].team2>>, <<game'[n].team2, game'[n].team1>>}
    BY DEF SidesOK, Playing
  <2>1. CASE n = m
    BY <1>3, <2>1 DEF TwoSides
  <2>2. CASE n # m
    BY <1>1, <1>4, <2>2 DEF OthersGoOn, SidesOK, Playing
  <2> QED
    BY <2>1, <2>2
<1>10. \A t \in Teams : comm'[t] = <<2>> => comm[t] = <<2>>
  BY <1>5
<1> QED
  BY <1>3, <1>4, <1>5, <1>8, <1>9, <1>10

\* A mediator tells the teams S to stop, and exits.
LEMMA ExitKeeps ==
  ASSUME IInv, NEW m \in Mediators, NEW x, TwoSides(x), NEW S, FreeFor(m, S), LeftBy(m),
         endTeam(S), Exits(m, x)
  PROVE  /\ comm' \in [Teams -> Seq(Requests)]
         /\ pc' \in [Mediators -> {"wait", "first", "second", "exit"}] /\ game' \in [Mediators -> Games]
         /\ pc'[m] = "exit" /\ OthersGoOn(m) /\ PipesOK' /\ SidesOK'
         /\ \A t \in Teams : comm'[t] = <<2>> => comm[t] = <<2>> \/ t \in S
<1>1. /\ comm \in [Teams -> Seq(Requests)]
      /\ pc \in [Mediators -> {"wait", "first", "second", "exit"}] /\ game \in [Mediators -> Games]
      /\ TypeOK /\ SidesOK
  BY DEF IInv, TypeOK
<1>2. /\ comm' = Told(S, 2) /\ game' = [game EXCEPT ![m] = Match(x.team1, x.team2)]
      /\ pc' = [pc EXCEPT ![m] = "exit"]
  BY DEF endTeam, Exits
<1>3. Match(x.team1, x.team2) \in Games
  BY Sizes, MatchIs DEF TwoSides, Sides
<1>4. /\ pc' \in [Mediators -> {"wait", "first", "second", "exit"}] /\ game' \in [Mediators -> Games]
      /\ pc'[m] = "exit"
  BY <1>1, <1>2, <1>3
<1>5. OthersGoOn(m)
  BY <1>1, <1>2 DEF OthersGoOn
<1>6. /\ comm' \in [Teams -> Seq(Requests)]
      /\ \A t \in Teams : comm'[t] = IF t \in S THEN <<2>> ELSE comm[t]
  <2>1. 2 \in Requests /\ \A t \in S : comm[t] = <<>>
    BY DEF Requests, FreeFor
  <2> QED
    BY <1>1, <1>2, <2>1, ToldIs
<1>7. AsksOnly(m, {})
  BY <1>4 DEF AsksOnly, Awaits
<1>8. FreeFor(m, {}) /\ WrittenTo({}, S)
  BY <1>6 DEF FreeFor, WrittenTo
<1>9. PipesOK'
  BY <1>5, <1>7, <1>8, PipesAfter
<1>10. SidesOK'
  <2> SUFFICES ASSUME NEW n \in Mediators, pc'[n] \in {"first", "second"}
               PROVE  <<game'[n].bat, game'[n].ball>>
                        \in {<<game'[n].team1, game'[n].team2>>, <<game'[n].team2, game'[n].team1>>}
    BY DEF SidesOK, Playing
  <2>1. n # m
    BY <1>4
  <2> QED
    BY <1>1, <1>5, <2>1 DEF OthersGoOn, SidesOK, Playing
<1>11. \A t \in Teams : comm'[t] = <<2>> => comm[t] = <<2>> \/ t \in S
  BY <1>6
<1> QED
  BY <1>4, <1>5, <1>6, <1>9, <1>10, <1>11

\* A group that the step does not concern.
LEMMA GroupKept ==
  ASSUME IInv, NEW g \in Groups, pc'[g] = pc[g], game'[g] = game[g], leader'[g] = leader[g],
         \A t \in Members(g) : winner'[t] = winner[t], Playing(g) => pc'[Host] = "wait"
  PROVE  GroupOK(g)'
<1>1. GroupOK(g)
  BY DEF IInv
<1>2. Points(winner', Members(g)) = Points(winner, Members(g))
  <2>1. \A e : e \in Points(winner', Members(g)) <=> e \in Points(winner, Members(g))
    BY PointsOf
  <2> QED
    BY <2>1
<1>3. CASE pc[g] = "exit"
  <2>1. leader[g] \in Members(g)
    BY <1>1, <1>3 DEF GroupOK
  <2> QED
    BY <1>1, <1>2, <1>3, <2>1 DEF GroupOK, Playing
<1>4. CASE Playing(g)
  BY <1>1, <1>2, <1>4 DEF GroupOK, Playing, Before
<1>5. CASE pc[g] # "exit" /\ ~Playing(g)
  BY <1>1, <1>5 DEF GroupOK, Playing
<1> QED
  BY <1>3, <1>4, <1>5


-----------------------------------------------------------------------------
(***************************************************************************)
(* The steps.                                                              *)
(***************************************************************************)

LEMMA InitOK == Init => IInv
<1> SUFFICES ASSUME Init PROVE IInv
  OBVIOUS
<1>1. \A t \in Teams : comm[t] \in {<<>>, <<1>>} /\ matchpipe[t] = <<>> /\ team[t] = "playing"
                       /\ winner[t] = 0
  BY DEF Init
<1>2. /\ \A g \in Groups : pc[g] = "first" /\ game[g] = Opening(g) /\ leader[g] = NoTeam
      /\ pc[Host] = "wait" /\ game[Host] = Match(NoTeam, NoTeam)
      /\ last = NoResult
  BY Sizes DEF Init
<1>3. NoResult \in Results /\ Match(NoTeam, NoTeam) \in Games
  <2>1. NoTeam \in 0..NoTeam
    BY Sizes
  <2> QED
    BY <2>1, NoResultIs, MatchIs
<1>4. TypeOK
  <2>1. comm \in [Teams -> Seq(Requests)]
    <3>1. <<>> \in Seq(Requests) /\ <<1>> \in Seq(Requests)
      BY DEF Requests
    <3>2. comm = [t \in Teams |-> IF t % GroupSize < 2 THEN <<1>> ELSE <<>>]
      BY DEF Init
    <3> QED
      BY <3>1, <3>2
  <2>2. game \in [Mediators -> Games]
    <3>1. \A m \in Mediators : IF m = Host THEN game[m] = Match(NoTeam, NoTeam) ELSE game[m] = Opening(m)
      BY DEF Init
    <3>2. \A m \in Mediators : game[m] \in Games
      BY <1>3, <3>1, Sizes, OpeningIs
    <3>3. game = [m \in Mediators |-> game[m]]
      BY DEF Init
    <3> QED
      BY <3>2, <3>3
  <2>3. matchpipe \in [Teams -> Seq(Digits)] /\ team \in [Teams -> {"playing", "over"}]
    BY DEF Init
  <2>4. pc \in [Mediators -> {"wait", "first", "second", "exit"}] /\ heard \in [Mediators -> Nat]
    BY DEF Init
  <2>5. winner \in [Teams -> Nat] /\ leader \in [Groups -> Teams \cup {NoTeam}]
    BY DEF Init
  <2>6. last \in Results
    BY <1>3 DEF Init
  <2> QED
    BY <2>1, <2>2, <2>3, <2>4, <2>5, <2>6 DEF TypeOK
<1>5. ASSUME NEW S, S \subseteq Teams
      PROVE  Points(winner, S) = {} /\ IsFiniteSet(Points(winner, S)) /\ Cardinality(Points(winner, S)) = 0
  <2>1. Points(winner, S) = {}
    BY <1>1, <1>5, PointsOf
  <2> QED
    BY <2>1, FS_EmptySet
<1>6. ASSUME NEW g \in Groups PROVE GroupOK(g)
  <2>1. Opposed(g, game[g]) /\ Before(g, game[g]) = 0
    BY <1>2, OpeningIs
  <2>2. Cardinality(Points(winner, Members(g))) = 0
    BY <1>5, MembersAre
  <2>3. 2 * Cardinality(Points(winner, Members(g))) = Before(g, game[g])
    BY <2>1, <2>2
  <2> QED
    BY <1>2, <2>1, <2>3 DEF GroupOK, Opposed
<1>7. HostOK
  BY <1>2 DEF HostOK
<1>8. SidesOK
  <2> SUFFICES ASSUME NEW m \in Mediators, Playing(m)
               PROVE  game[m].bat = game[m].team1 /\ game[m].ball = game[m].team2
    BY DEF SidesOK
  <2>1. m \in Groups
    BY <1>2, Sizes DEF Playing
  <2> QED
    BY <1>2, <2>1, OpeningIs
<1>9. DismissedOK
  <2> SUFFICES ASSUME NEW t \in Teams PROVE ~Dismissed(t)
    BY DEF DismissedOK
  <2> QED
    BY <1>1 DEF Dismissed
<1>10. PipesOK
  <2> SUFFICES ASSUME NEW t \in Teams
               PROVE  IF \E m \in Mediators : Awaits(m, t) THEN Asking(t) \/ Answered(t) ELSE Silent(t)
    BY DEF PipesOK
  <2> DEFINE g == GroupOf(t)
             from == g * GroupSize
  <2>1. /\ g \in Groups /\ t \in from .. from + GroupSize - 1 /\ from \in Nat
        /\ GroupSize \in Nat /\ GroupSize > 1
    BY Sizes, MembersAre
  <2>2. t % GroupSize < 2 <=> t \in {from, from + 1}
    <3>1. CASE g = 0
      <4>1. t \in 0 .. GroupSize - 1 /\ from = 0
        BY <2>1, <3>1
      <4>2. t % GroupSize = t
        BY <2>1, <4>1
      <4> QED
        BY <4>1, <4>2
    <3>2. CASE g = 1
      <4>1. t \in GroupSize .. GroupSize + GroupSize - 1 /\ from = GroupSize
        BY <2>1, <3>2
      <4>2. (0 + (t - GroupSize)) % GroupSize = t - GroupSize
        BY <2>1, <4>1
      <4>3. t % GroupSize = t - GroupSize
        BY <2>1, <4>1
      <4> HIDE DEF from
      <4> QED
        BY <2>1, <4>1, <4>3
    <3> QED
      BY <2>1, <3>1, <3>2, Sizes
  <2>3. comm[t] = IF t \in {from, from + 1} THEN <<1>> ELSE <<>>
    BY <2>2 DEF Init
  <2>4. \A n \in Groups : Awaits(n, t) <=> t \in {n * GroupSize, n * GroupSize + 1}
    BY <1>2, OpeningIs DEF Awaits
  <2>5. ~Awaits(Host, t)
    BY <1>2 DEF Awaits
  <2>6. (\E m \in Mediators : Awaits(m, t)) <=> t \in {from, from + 1}
    <3>1. \A n \in Groups : Awaits(n, t) => n = g
      <4> SUFFICES ASSUME NEW n \in Groups, t \in {n * GroupSize, n * GroupSize + 1} PROVE n = g
        BY <2>4
      <4>1. n * GroupSize \in Members(n) /\ n * GroupSize + 1 \in Members(n)
        BY OpeningIs DEF Opposed
      <4> QED
        BY <4>1, MembersAre
    <3>2. \A m \in Mediators : m \in Groups \/ m = Host
      BY Sizes
    <3>3. Groups \subseteq Mediators /\ (Awaits(g, t) <=> t \in {from, from + 1})
      BY <2>1, <2>4, Sizes
    <3> HIDE DEF g, from
    <3> QED
      BY <2>1, <2>5, <3>1, <3>2, <3>3
  <2> HIDE DEF g, from
  <2> QED
    BY <1>1, <2>3, <2>6 DEF Asking, Silent
<1> QED
  BY <1>4, <1>5, <1>6, <1>7, <1>8, <1>9, <1>10 DEF IInv

LEMMA TeamKeeps ==
  ASSUME IInv, NEW t \in Teams, teamPlay(t)
  PROVE  IInv'
<1>1. /\ TypeOK /\ PipesOK /\ DismissedOK
      /\ UNCHANGED <<pc, game, heard, winner, leader>> /\ last' \in Results
      /\ team[t] = "playing" /\ comm[t] # <<>> /\ comm' = [comm EXCEPT ![t] = Tail(@)]
  BY NoResultIs DEF IInv, teamPlay
<1>2. \A m \in Mediators, r \in Teams : (Awaits(m, r))' <=> Awaits(m, r)
  BY <1>1 DEF Awaits
<1>3. comm[t] \in {<<1>>, <<2>>} /\ (comm[t] = <<1>> => Asking(t)) /\ (comm[t] = <<2>> => Silent(t))
  <2>1. IF \E m \in Mediators : Awaits(m, t) THEN Asking(t) \/ Answered(t) ELSE Silent(t)
    BY <1>1 DEF PipesOK
  <2>2. <<1>> # <<2>>
    <3>1. <<1>>[1] = 1 /\ <<2>>[1] = 2
      OBVIOUS
    <3> QED
      BY <3>1
  <2> QED
    BY <1>1, <2>1, <2>2 DEF Asking, Answered, Silent
<1>4. comm'[t] = <<>> /\ comm' \in [Teams -> Seq(Requests)] /\ \A r \in Teams \ {t} : comm'[r] = comm[r]
  <2>1. comm \in [Teams -> Seq(Requests)]
    BY <1>1 DEF TypeOK
  <2>2. Tail(<<1>>) = <<>> /\ Tail(<<2>>) = <<>>
    OBVIOUS
  <2>3. Tail(comm[t]) = <<>>
    BY <1>3, <2>2
  <2>4. comm' = [comm EXCEPT ![t] = <<>>]
    BY <1>1, <2>3
  <2>5. <<>> \in Seq(Requests)
    OBVIOUS
  <2> QED
    BY <2>1, <2>4, <2>5
<1>5. \/ /\ comm[t] = <<1>> /\ UNCHANGED team
         /\ \E d \in Digits : matchpipe' = [matchpipe EXCEPT ![t] = Append(@, d)]
      \/ /\ comm[t] = <<2>> /\ team' = [team EXCEPT ![t] = "over"] /\ UNCHANGED matchpipe
  <2>1. Head(<<1>>) = 1 /\ Head(<<2>>) = 2
    OBVIOUS
  <2> QED
    BY <1>3, <2>1 DEF teamPlay
<1>6. /\ matchpipe' \in [Teams -> Seq(Digits)] /\ team' \in [Teams -> {"playing", "over"}]
      /\ \A r \in Teams \ {t} : matchpipe'[r] = matchpipe[r] /\ team'[r] = team[r]
      /\ comm[t] = <<1>> => team'[t] = "playing" /\ (Answered(t))'
      /\ comm[t] = <<2>> => matchpipe'[t] = matchpipe[t]
  <2>1. matchpipe \in [Teams -> Seq(Digits)] /\ team \in [Teams -> {"playing", "over"}]
    BY <1>1 DEF TypeOK
  <2>2. CASE comm[t] = <<1>> /\ UNCHANGED team
             /\ \E d \in Digits : matchpipe' = [matchpipe EXCEPT ![t] = Append(@, d)]
    <3>1. PICK d \in Digits : matchpipe' = [matchpipe EXCEPT ![t] = Append(@, d)]
      BY <2>2
    <3>2. matchpipe[t] = <<>> /\ Append(<<>>, d) = <<d>> /\ <<d>> \in Seq(Digits)
      BY <1>3, <2>2 DEF Asking
    <3>3. matchpipe' = [matchpipe EXCEPT ![t] = <<d>>]
      BY <3>1, <3>2
    <3>4. /\ matchpipe' \in [Teams -> Seq(Digits)] /\ matchpipe'[t] = <<d>>
          /\ \A r \in Teams \ {t} : matchpipe'[r] = matchpipe[r]
      BY <2>1, <3>2, <3>3
    <3>5. comm[t] # <<2>>
      <4>1. <<1>>[1] = 1 /\ <<2>>[1] = 2
        OBVIOUS
      <4> QED
        BY <2>2, <4>1
    <3> QED
      BY <1>1, <1>4, <2>1, <2>2, <3>4, <3>5 DEF Answered
  <2>3. CASE comm[t] = <<2>> /\ team' = [team EXCEPT ![t] = "over"] /\ UNCHANGED matchpipe
    <3>1. comm[t] # <<1>>
      <4>1. <<1>>[1] = 1 /\ <<2>>[1] = 2
        OBVIOUS
      <4> QED
        BY <2>3, <4>1
    <3> QED
      BY <2>1, <2>3, <3>1
  <2> QED
    BY <1>5, <2>2, <2>3
<1>7. TypeOK'
  BY <1>1, <1>4, <1>6 DEF TypeOK
<1>8. PipesOK'
  <2> SUFFICES ASSUME NEW r \in Teams
               PROVE  IF \E n \in Mediators : (Awaits(n, r))'
                      THEN (Asking(r))' \/ (Answered(r))' ELSE (Silent(r))'
    BY DEF PipesOK
  <2>1. IF \E n \in Mediators : (Awaits(n, r))' THEN Asking(r) \/ Answered(r) ELSE Silent(r)
    BY <1>1, <1>2 DEF PipesOK
  <2>2. CASE r # t
    BY <1>4, <1>6, <2>1, <2>2 DEF Asking, Answered, Silent
  <2>3. CASE r = t /\ comm[t] = <<1>>
    <3>1. ~Silent(t)
      <4>1. <<1>>[1] = 1 /\ <<2>>[1] = 2
        OBVIOUS
      <4> QED
        BY <1>1, <2>3, <4>1 DEF Silent
    <3> QED
      BY <1>6, <2>1, <2>3, <3>1
  <2>4. CASE r = t /\ comm[t] = <<2>>
    <3>1. ~Asking(t) /\ ~Answered(t)
      <4>1. <<1>>[1] = 1 /\ <<2>>[1] = 2
        OBVIOUS
      <4> QED
        BY <1>1, <2>4, <4>1 DEF Asking, Answered
    <3>2. (Silent(t))'
      BY <1>3, <1>4, <1>6, <2>4 DEF Silent
    <3> QED
      BY <2>1, <2>4, <3>1, <3>2
  <2> QED
    BY <1>3, <2>2, <2>3, <2>4
<1>9. DismissedOK'
  <2> SUFFICES ASSUME NEW r \in Teams, (Dismissed(r))'
               PROVE  Dismissed(r)
    BY <1>1 DEF DismissedOK
  <2>1. <<>> # <<2>>
    OBVIOUS
  <2>2. CASE r # t
    BY <1>4, <1>6, <2>2 DEF Dismissed
  <2>3. CASE r = t
    BY <1>3, <1>4, <1>6, <2>1, <2>3 DEF Dismissed
  <2> QED
    BY <2>2, <2>3
<1>10. \A g \in Groups : GroupOK(g)'
  <2> SUFFICES ASSUME NEW g \in Groups PROVE GroupOK(g)'
    OBVIOUS
  <2>1. Playing(g) => pc'[Host] = "wait"
    BY <1>1, GroupSides
  <2> QED
    BY <1>1, <2>1, GroupKept
<1>11. HostOK' /\ SidesOK' /\ IsFiniteSet(Points(winner, Teams))'
  BY <1>1 DEF IInv, HostOK, SidesOK, Playing, Points
<1> QED
  BY <1>7, <1>8, <1>9, <1>10, <1>11 DEF IInv


\* An answer is read: what is left in the pipes of the one who gave it.
AnswerRead(t) == matchpipe' = [matchpipe EXCEPT ![t] = Tail(@)]

LEMMA AnswerIs ==
  ASSUME IInv, NEW m \in Mediators, NEW t \in Teams, Awaits(m, t), matchpipe[t] # <<>>, AnswerRead(t)
  PROVE  /\ Head(matchpipe[t]) \in Nat /\ comm[t] = <<>> /\ matchpipe'[t] = <<>>
         /\ matchpipe' \in [Teams -> Seq(Digits)]
         /\ \A r \in Teams \ {t} : matchpipe'[r] = matchpipe[r]
<1>1. Answered(t)
  <2>1. Asking(t) \/ Answered(t)
    BY DEF IInv, PipesOK
  <2> QED
    BY <2>1 DEF Asking
<1>2. PICK d \in Digits : matchpipe[t] = <<d>>
  BY <1>1 DEF Answered
<1>3. Head(<<d>>) = d /\ Tail(<<d>>) = <<>> /\ <<>> \in Seq(Digits)
  OBVIOUS
<1>4. matchpipe \in [Teams -> Seq(Digits)]
  BY DEF IInv, TypeOK
<1>5. matchpipe' = [matchpipe EXCEPT ![t] = <<>>]
  BY <1>2, <1>3 DEF AnswerRead
<1>6. /\ matchpipe' \in [Teams -> Seq(Digits)] /\ matchpipe'[t] = <<>>
      /\ \A r \in Teams \ {t} : matchpipe'[r] = matchpipe[r]
  BY <1>3, <1>4, <1>5
<1>7. Head(matchpipe[t]) \in Nat
  BY <1>2, <1>3, Sizes
<1> QED
  BY <1>1, <1>6, <1>7 DEF Answered

LEMMA HearFirstKeeps ==
  ASSUME IInv, NEW m \in Mediators, HearFirst(m)
  PROVE  IInv'
<1> DEFINE x == game[m]
           t == First(x)
<1>1. /\ TypeOK /\ PipesOK /\ SidesOK /\ DismissedOK /\ HostOK
      /\ pc[m] = "first" /\ matchpipe[t] # <<>> /\ AnswerRead(t)
      /\ heard' = [heard EXCEPT ![m] = Head(matchpipe[t])]
      /\ pc' = [pc EXCEPT ![m] = "second"] /\ last' = NoResult
      /\ UNCHANGED <<comm, team, game, winner, leader>>
  BY DEF IInv, HearFirst, AnswerRead
<1>2. Playing(m)
  BY <1>1 DEF Playing
<1>3. TwoSides(x) /\ {t, Second(x)} = Sides(x) /\ t # Second(x)
  BY <1>2, Players, SidesHeard
<1>4. t \in Teams /\ t \in Sides(x) /\ ~AskedByOthers(m, t)
  BY <1>2, <1>3, ItsOwn
<1>5. Awaits(m, t)
  BY <1>1, <1>4 DEF Awaits, Sides
<1> HIDE DEF x, t
<1>6. /\ Head(matchpipe[t]) \in Nat /\ comm[t] = <<>> /\ matchpipe'[t] = <<>>
      /\ matchpipe' \in [Teams -> Seq(Digits)]
      /\ \A r \in Teams \ {t} : matchpipe'[r] = matchpipe[r]
  BY <1>1, <1>4, <1>5, AnswerIs
<1>7. pc \in [Mediators -> {"wait", "first", "second", "exit"}]
  BY <1>1 DEF TypeOK
<1>8. /\ pc' \in [Mediators -> {"wait", "first", "second", "exit"}] /\ pc'[m] = "second"
      /\ \A n \in Mediators : n # m => pc'[n] = pc[n]
  BY <1>1, <1>7
<1>10. last' \in Results /\ heard' \in [Mediators -> Nat]
  BY <1>1, <1>6, NoResultIs DEF TypeOK
<1>11. TypeOK'
  BY <1>1, <1>6, <1>8, <1>10 DEF TypeOK
<1>12. \A n \in Mediators : Playing(n)' <=> Playing(n)
  BY <1>2, <1>8 DEF Playing
<1>13. PipesOK'
  <2> SUFFICES ASSUME NEW r \in Teams
               PROVE  IF \E n \in Mediators : (Awaits(n, r))'
                      THEN (Asking(r))' \/ (Answered(r))' ELSE (Silent(r))'
    BY DEF PipesOK
  <2>1. \A n \in Mediators : n # m => ((Awaits(n, r))' <=> Awaits(n, r))
    BY <1>1, <1>8 DEF Awaits
  <2>2. (Awaits(m, r))' <=> r = Second(x)
    BY <1>1, <1>8 DEF Awaits, x
  <2>3. CASE r = t
    <3>1. ~\E n \in Mediators : (Awaits(n, r))'
      BY <1>3, <1>4, <2>1, <2>2, <2>3 DEF AskedByOthers
    <3>2. (Silent(r))'
      BY <1>1, <1>6, <2>3 DEF Silent
    <3> QED
      BY <3>1, <3>2
  <2>4. CASE r # t
    <3>1. Awaits(m, r) <=> r = Second(x)
      BY <1>1, <1>3, <2>4 DEF Awaits, Sides, x
    <3>2. (\E n \in Mediators : (Awaits(n, r))') <=> (\E n \in Mediators : Awaits(n, r))
      BY <2>1, <2>2, <3>1
    <3> QED
      BY <1>1, <1>6, <2>4, <3>2 DEF PipesOK, Asking, Answered, Silent
  <2> QED
    BY <2>3, <2>4
<1>14. DismissedOK'
  <2>1. \A n \in Mediators : pc[n] = "exit" => pc'[n] = "exit"
    BY <1>1, <1>8
  <2>2. \A r \in Teams : GroupOf(r) \in Mediators /\ Host \in Mediators
    BY MembersAre, Sizes DEF GroupOf
  <2> QED
    BY <1>1, <2>1, <2>2 DEF DismissedOK, Dismissed
<1>15. \A n \in Mediators : (pc'[n] = "wait" <=> pc[n] = "wait") /\ (pc'[n] = "exit" <=> pc[n] = "exit")
  BY <1>1, <1>8
<1>16. ASSUME NEW g \in Groups PROVE GroupOK(g)'
  <2>1. GroupOK(g) /\ g \in Mediators /\ Host \in Mediators
    BY Sizes DEF IInv
  <2>2. /\ Playing(g)' <=> Playing(g)
        /\ pc'[g] = "wait" <=> pc[g] = "wait"
        /\ pc'[g] = "exit" <=> pc[g] = "exit"
        /\ pc'[Host] = "wait" <=> pc[Host] = "wait"
    BY <1>12, <1>15, <2>1
  <2> QED
    BY <1>1, <2>1, <2>2 DEF GroupOK, Points, Before
<1>17. HostOK' /\ SidesOK'
  <2>1. Host \in Mediators /\ Groups \subseteq Mediators
    BY Sizes
  <2>2. HostOK'
    BY <1>1, <1>12, <1>15, <2>1 DEF HostOK
  <2>3. SidesOK'
    BY <1>1, <1>12 DEF SidesOK
  <2> QED
    BY <2>2, <2>3
<1>18. IsFiniteSet(Points(winner, Teams))'
  BY <1>1 DEF IInv, Points
<1> QED
  BY <1>11, <1>13, <1>14, <1>16, <1>17, <1>18 DEF IInv


\* The second answer is read: the mediator has heard everyone it has asked.
SecondHeard(m) ==
  /\ pc[m] = "second" /\ matchpipe[Second(game[m])] # <<>> /\ AnswerRead(Second(game[m]))
  /\ heard' = [heard EXCEPT ![m] = 0] /\ UNCHANGED team

LEMMA AllHeard ==
  ASSUME IInv, NEW m \in Mediators, SecondHeard(m)
  PROVE  /\ Playing(m) /\ TwoSides(game[m]) /\ LeftBy(m) /\ FreeFor(m, Sides(game[m]))
         /\ m \in Groups => FreeFor(m, Members(m))
         /\ heard[m] \in Nat /\ Head(matchpipe[Second(game[m])]) \in Nat
         /\ matchpipe' \in [Teams -> Seq(Digits)] /\ heard' \in [Mediators -> Nat]
         /\ team' \in [Teams -> {"playing", "over"}]
<1> DEFINE x == game[m]
           s == Second(x)
<1>1. TypeOK /\ PipesOK /\ DismissedOK
  BY DEF IInv
<1>2. Playing(m)
  BY DEF SecondHeard, Playing
<1>3. TwoSides(x) /\ {First(x), s} = Sides(x)
  BY <1>2, Players, SidesHeard
<1>4. s \in Sides(x) /\ s \in Teams /\ ~AskedByOthers(m, s)
  BY <1>2, <1>3, ItsOwn
<1>5. \A r \in Teams : Awaits(m, r) <=> r = s
  BY DEF SecondHeard, Awaits
<1>6. /\ Head(matchpipe[s]) \in Nat /\ comm[s] = <<>> /\ matchpipe'[s] = <<>>
      /\ matchpipe' \in [Teams -> Seq(Digits)]
      /\ \A r \in Teams \ {s} : matchpipe'[r] = matchpipe[r]
  <2> HIDE DEF x, s
  <2> QED
    BY <1>4, <1>5, AnswerIs DEF SecondHeard, s, x
<1>7. heard' \in [Mediators -> Nat] /\ team' \in [Teams -> {"playing", "over"}] /\ heard[m] \in Nat
  BY <1>1 DEF SecondHeard, TypeOK
<1> HIDE DEF x, s
<1>8. LeftBy(m)
  <2> SUFFICES ASSUME NEW t \in Teams
               PROVE  IF AskedByOthers(m, t)
                      THEN (Asking(t) \/ Answered(t)) /\ matchpipe'[t] = matchpipe[t]
                      ELSE comm[t] \in {<<>>, <<2>>} /\ matchpipe'[t] = <<>>
    BY DEF LeftBy
  <2>1. IF \E n \in Mediators : Awaits(n, t) THEN Asking(t) \/ Answered(t) ELSE Silent(t)
    BY <1>1 DEF PipesOK
  <2>2. CASE AskedByOthers(m, t)
    <3>1. t # s /\ \E n \in Mediators : Awaits(n, t)
      BY <1>4, <2>2 DEF AskedByOthers
    <3> QED
      BY <1>6, <2>1, <2>2, <3>1
  <2>3. CASE ~AskedByOthers(m, t) /\ t = s
    BY <1>6, <2>3
  <2>4. CASE ~AskedByOthers(m, t) /\ t # s
    <3>1. Silent(t)
      BY <1>5, <2>1, <2>4 DEF AskedByOthers
    <3> QED
      BY <1>6, <2>4, <3>1 DEF Silent
  <2> QED
    BY <2>2, <2>3, <2>4
<1>9. ASSUME NEW t \in Teams, ~Dismissed(t), ~AskedByOthers(m, t) PROVE comm[t] = <<>>
  BY <1>8, <1>9 DEF LeftBy, Dismissed
<1>10. FreeFor(m, Sides(x))
  <2>1. \A t \in Sides(x) : t \in Teams /\ ~Dismissed(t) /\ ~AskedByOthers(m, t)
    BY <1>2, ItsOwn, Players DEF x
  <2> QED
    BY <1>9, <2>1 DEF FreeFor
<1>11. ASSUME m \in Groups PROVE FreeFor(m, Members(m))
  <2> SUFFICES ASSUME NEW t \in Members(m)
               PROVE  t \in Teams /\ ~Dismissed(t) /\ ~AskedByOthers(m, t)
    BY <1>9 DEF FreeFor
  <2>1. t \in Teams /\ GroupOf(t) = m
    BY <1>11, MembersAre
  <2>2. pc[m] # "exit" /\ pc[Host] = "wait"
    BY <1>2, <1>11, GroupSides
  <2>3. ~Dismissed(t)
    BY <1>1, <2>1, <2>2 DEF DismissedOK
  <2>4. ASSUME NEW n \in Mediators, n # m, Awaits(n, t) PROVE FALSE
    <3>1. Playing(n) /\ t \in Sides(game[n])
      BY <2>1, <2>4, AwaitedSides DEF AwaitedIs
    <3>2. n \in Groups
      BY <2>2, <3>1, Sizes DEF Playing
    <3>3. t \in Members(n)
      BY <3>1, <3>2, GroupSides
    <3> QED
      BY <2>1, <2>4, <3>2, <3>3, MembersAre
  <2> QED
    BY <2>1, <2>3, <2>4 DEF AskedByOthers
<1> QED
  BY <1>2, <1>3, <1>6, <1>7, <1>8, <1>10, <1>11 DEF x, s

\* The group m plays, or the host does: nobody else is concerned.
LEMMA OthersKept ==
  ASSUME IInv, NEW m \in Mediators, Playing(m), OthersGoOn(m),
         \A g \in Groups : g # m => leader'[g] = leader[g],
         \A g \in Groups : g # m => \A t \in Members(g) : winner'[t] = winner[t]
  PROVE  /\ \A g \in Groups : g # m => GroupOK(g)'
         /\ m \in Groups => pc'[Host] = "wait" /\ HostOK'
<1>1. m \in Groups => pc[Host] = "wait" /\ pc'[Host] = "wait"
  BY GroupSides, Sizes DEF OthersGoOn
<1>2. ASSUME NEW g \in Groups, g # m PROVE GroupOK(g)'
  <2>1. pc'[g] = pc[g] /\ game'[g] = game[g]
    BY <1>2, Sizes DEF OthersGoOn
  <2>2. ASSUME Playing(g) PROVE pc'[Host] = "wait"
    <3>1. pc[Host] = "wait"
      BY <2>2, GroupSides
    <3>2. m # Host
      BY <3>1 DEF Playing
    <3> QED
      BY <3>1, <3>2, Sizes DEF OthersGoOn
  <2> QED
    BY <1>2, <2>1, <2>2, GroupKept
<1>3. m \in Groups => HostOK'
  BY <1>1 DEF HostOK
<1> QED
  BY <1>1, <1>2, <1>3

\* A step that tells no team to stop.
StopsNobody == \A t \in Teams : comm'[t] = <<2>> => comm[t] = <<2>>

LEMMA DismissedKept ==
  ASSUME IInv, NEW m \in Mediators, Playing(m), OthersGoOn(m), UNCHANGED <<team, leader>>,
         StopsNobody
  PROVE  DismissedOK'
<1> SUFFICES ASSUME NEW t \in Teams, (Dismissed(t))'
             PROVE  pc'[GroupOf(t)] = "exit" /\ (leader[GroupOf(t)] = t => pc'[Host] = "exit")
  BY DEF DismissedOK
<1>1. Dismissed(t)
  BY DEF Dismissed, StopsNobody
<1>2. pc[GroupOf(t)] = "exit" /\ (leader[GroupOf(t)] = t => pc[Host] = "exit")
  BY <1>1 DEF IInv, DismissedOK
<1>3. \A n \in Mediators : pc[n] = "exit" => pc'[n] = "exit"
  BY DEF OthersGoOn, Playing
<1>4. GroupOf(t) \in Mediators /\ Host \in Mediators
  BY MembersAre, Sizes
<1> QED
  BY <1>2, <1>3, <1>4

LEMMA ContinueKeeps ==
  ASSUME IInv, NEW m \in Mediators, SecondHeard(m), NEW x, TwoSides(x), SameSides(game[m], x),
         Continue(m, x)
  PROVE  IInv'
<1>1. /\ Playing(m) /\ LeftBy(m) /\ FreeFor(m, Sides(x))
      /\ matchpipe' \in [Teams -> Seq(Digits)] /\ heard' \in [Mediators -> Nat]
      /\ team' \in [Teams -> {"playing", "over"}]
  BY AllHeard DEF SameSides
<1>2. Asked(m, x) /\ UNCHANGED <<winner, leader, team>> /\ last' \in Results
  BY NoResultIs DEF Continue, SecondHeard
<1>3. /\ comm' \in [Teams -> Seq(Requests)]
      /\ pc' \in [Mediators -> {"wait", "first", "second", "exit"}] /\ game' \in [Mediators -> Games]
      /\ pc'[m] = "first" /\ game'[m] = x /\ OthersGoOn(m) /\ PipesOK' /\ SidesOK'
      /\ \A t \in Teams : comm'[t] = <<2>> => comm[t] = <<2>>
  BY <1>1, <1>2, AskedKeeps
<1>4. TypeOK'
  BY <1>1, <1>2, <1>3 DEF IInv, TypeOK
<1>5. DismissedOK'
  BY <1>1, <1>2, <1>3, DismissedKept DEF StopsNobody
<1>6. /\ \A g \in Groups : g # m => GroupOK(g)'
      /\ m \in Groups => pc'[Host] = "wait" /\ HostOK'
  BY <1>1, <1>2, <1>3, OthersKept
<1>7. ASSUME m \in Groups PROVE GroupOK(m)'
  <2>1. /\ Opposed(m, game[m]) /\ leader[m] = NoTeam
        /\ 2 * Cardinality(Points(winner, Members(m))) = Before(m, game[m])
    BY <1>1, <1>7, GroupSides
  <2>2. game'[m].team1 = game[m].team1 /\ game'[m].team2 = game[m].team2
    BY <1>3 DEF SameSides
  <2> QED
    BY <1>2, <1>3, <1>6, <1>7, <2>1, <2>2 DEF GroupOK, Opposed, Before, Points
<1>8. ASSUME m = Host PROVE HostOK'
  <2>1. /\ game[Host].team1 = leader[0] /\ game[Host].team2 = leader[1]
        /\ \A g \in Groups : pc[g] = "exit"
    BY <1>1, <1>8, HostSides
  <2>2. \A g \in Groups : pc'[g] = pc[g]
    BY <1>3, <1>8, Sizes DEF OthersGoOn
  <2> QED
    BY <1>2, <1>3, <1>8, <2>1, <2>2 DEF HostOK, SameSides
<1>9. (\A g \in Groups : GroupOK(g)') /\ HostOK'
  BY <1>6, <1>7, <1>8, Sizes
<1>10. IsFiniteSet(Points(winner, Teams))'
  BY <1>2 DEF IInv, Points
<1> QED
  BY <1>3, <1>4, <1>5, <1>9, <1>10 DEF IInv


LEMMA GroupMatchKeeps ==
  ASSUME IInv, NEW g \in Groups, SecondHeard(g), NEW x, TwoSides(x), SameSides(game[g], x),
         last' = Result(x), GroupMatchOver(g, x)
  PROVE  IInv'
<1> DEFINE w == Win(x)
           won == Won(winner, w)
           points == Cardinality(Points(winner, Members(g)))
<1>1. g \in Mediators /\ g # Host /\ Host \in Mediators
  BY Sizes
<1>2. /\ Playing(g) /\ LeftBy(g) /\ FreeFor(g, Members(g))
      /\ matchpipe' \in [Teams -> Seq(Digits)] /\ heard' \in [Mediators -> Nat]
      /\ team' \in [Teams -> {"playing", "over"}] /\ UNCHANGED team
  BY <1>1, AllHeard DEF SecondHeard
<1>3. /\ TypeOK /\ winner \in [Teams -> Nat] /\ leader \in [Groups -> Teams \cup {NoTeam}]
      /\ IsFiniteSet(Points(winner, Teams)) /\ DismissedOK
  BY DEF IInv, TypeOK
<1>4. last' \in Results
  BY WinnerIs
<1>5. /\ Opposed(g, game[g]) /\ leader[g] = NoTeam /\ pc[g] # "exit"
      /\ 2 * points = Before(g, game[g])
  BY <1>2, GroupSides
<1>6. Opposed(g, x) /\ Before(g, x) = Before(g, game[g]) /\ x \in Games
  BY <1>5 DEF Opposed, Before, SameSides, TwoSides
<1>7. w \in Members(g) /\ Members(g) \subseteq Teams /\ w \in Teams /\ IsFiniteSet(Members(g))
  <2>1. w \in Sides(x) /\ Sides(x) \subseteq Members(g)
    BY <1>6, WinnerIs DEF Opposed, Sides
  <2> QED
    BY <2>1, MembersAre
<1>8. /\ winner' = won
      /\ \/ ~IsLastMatch(g, x) /\ Asked(g, Pairing(g, x)) /\ UNCHANGED leader
         \/ /\ IsLastMatch(g, x) /\ endTeam(Members(g) \ {Leader(g, won)})
            /\ leader' = [leader EXCEPT ![g] = Leader(g, won)] /\ Exits(g, x)
  BY DEF GroupMatchOver, Won
<1>9. /\ won \in [Teams -> Nat] /\ IsFiniteSet(Points(won, Teams))
      /\ Cardinality(Points(won, Members(g))) = points + 1 /\ points \in Nat
      /\ won[w] > 0 /\ \A t \in Teams : t # w => won[t] = winner[t]
  <2>1. won[w] = winner[w] + 1 /\ winner[w] \in Nat /\ \A t \in Teams : t # w => won[t] = winner[t]
    BY <1>3, <1>7 DEF Won
  <2> HIDE DEF w
  <2>2. /\ won \in [Teams -> Nat] /\ IsFiniteSet(Points(won, Teams))
        /\ Cardinality(Points(won, Members(g))) = points + 1
    BY <1>3, <1>7, PointWon
  <2>3. points \in Nat
    BY <1>3, <1>7, PointsFinite
  <2> QED
    BY <2>1, <2>2, <2>3
<1>10. \A n \in Groups : n # g => \A t \in Members(n) : won[t] = winner[t]
  BY <1>7, <1>9, MembersAre
<1>11. \A n \in Groups : n # g => leader'[n] = leader[n]
  BY <1>3, <1>8
<1> HIDE DEF w, won, points
<1>12. CASE ~IsLastMatch(g, x) /\ Asked(g, Pairing(g, x)) /\ UNCHANGED leader
  <2> DEFINE y == Pairing(g, x)
  <2>1. /\ y \in Games /\ Opposed(g, y) /\ Before(g, y) = Before(g, x) + 2
        /\ y.bat = y.team1 /\ y.ball = y.team2 /\ Before(g, x) \in Int
    BY <1>6, <1>12, PairingIs
  <2> HIDE DEF y
  <2>2. Sides(y) \subseteq Members(g) /\ TwoSides(y)
    <3>1. y.team1 \in Members(g) /\ y.team2 \in Members(g) /\ y.team1 < y.team2
      BY <2>1 DEF Opposed
    <3>2. y.team1 \in Teams /\ y.team2 \in Teams /\ y.team1 \in Nat /\ y.team2 \in Nat
      BY <1>7, <3>1, Sizes
    <3>3. y.team1 # y.team2
      BY <3>1, <3>2
    <3> QED
      BY <2>1, <3>1, <3>2, <3>3 DEF TwoSides, Sides
  <2>3. FreeFor(g, Sides(y)) /\ Asked(g, y)
    BY <1>2, <1>12, <2>2 DEF FreeFor, y
  <2>4. /\ comm' \in [Teams -> Seq(Requests)]
        /\ pc' \in [Mediators -> {"wait", "first", "second", "exit"}] /\ game' \in [Mediators -> Games]
        /\ pc'[g] = "first" /\ game'[g] = y /\ OthersGoOn(g) /\ PipesOK' /\ SidesOK'
        /\ \A t \in Teams : comm'[t] = <<2>> => comm[t] = <<2>>
    BY <1>1, <1>2, <2>2, <2>3, AskedKeeps
  <2>5. TypeOK'
    BY <1>2, <1>3, <1>4, <1>8, <1>9, <1>12, <2>4 DEF TypeOK
  <2>6. DismissedOK'
    BY <1>1, <1>2, <1>12, <2>4, DismissedKept DEF StopsNobody
  <2>7. (\A n \in Groups : n # g => GroupOK(n)') /\ pc'[Host] = "wait" /\ HostOK'
    BY <1>1, <1>2, <1>8, <1>10, <1>11, <2>4, OthersKept
  <2>8. GroupOK(g)'
    <3>1. 2 * Cardinality(Points(won, Members(g))) = Before(g, y)
      BY <1>5, <1>6, <1>9, <2>1
    <3> QED
      BY <1>5, <1>8, <1>12, <2>1, <2>4, <2>7, <3>1 DEF GroupOK, Opposed, Before
  <2>9. IsFiniteSet(Points(winner, Teams))'
    BY <1>8, <1>9
  <2> QED
    BY <1>4, <2>4, <2>5, <2>6, <2>7, <2>8, <2>9 DEF IInv
<1>13. CASE /\ IsLastMatch(g, x) /\ endTeam(Members(g) \ {Leader(g, won)})
            /\ leader' = [leader EXCEPT ![g] = Leader(g, won)] /\ Exits(g, x)
  <2> DEFINE l == Leader(g, won)
             S == Members(g) \ {l}
  <2>1. /\ l \in Members(g)
        /\ \A t \in Members(g) : won[t] <= won[l] /\ (won[t] = won[l] => l <= t)
    <3>1. l = Best(won, Members(g))
      BY <1>9, LeaderIsBest
    <3> HIDE DEF l
    <3>2. /\ Best(won, Members(g)) \in Members(g)
          /\ \A t \in Members(g) : /\ won[t] <= won[Best(won, Members(g))]
                                   /\ won[t] = won[Best(won, Members(g))]
                                        => Best(won, Members(g)) <= t
      BY <1>7, <1>9, BestIs
    <3> QED
      BY <3>1, <3>2, Zenon
  <2>2. endTeam(S) /\ Exits(g, x) /\ leader' = [leader EXCEPT ![g] = l]
    BY <1>13
  <2> HIDE DEF l
  <2>3. FreeFor(g, S)
    BY <1>2 DEF FreeFor
  <2> HIDE DEF S
  <2>4. /\ comm' \in [Teams -> Seq(Requests)]
        /\ pc' \in [Mediators -> {"wait", "first", "second", "exit"}] /\ game' \in [Mediators -> Games]
        /\ pc'[g] = "exit" /\ OthersGoOn(g) /\ PipesOK' /\ SidesOK'
        /\ \A t \in Teams : comm'[t] = <<2>> => comm[t] = <<2>> \/ t \in S
    BY <1>1, <1>2, <2>2, <2>3, ExitKeeps
  <2>5. leader' \in [Groups -> Teams \cup {NoTeam}] /\ leader'[g] = l
    BY <1>3, <1>7, <2>1, <2>2
  <2>6. TypeOK'
    BY <1>2, <1>3, <1>4, <1>8, <1>9, <2>4, <2>5 DEF TypeOK
  <2>7. (\A n \in Groups : n # g => GroupOK(n)') /\ pc'[Host] = "wait" /\ HostOK'
    BY <1>1, <1>2, <1>8, <1>10, <1>11, <2>4, OthersKept
  <2>8. GroupOK(g)'
    <3>1. 2 * Cardinality(Points(won, Members(g))) = GroupSize * (GroupSize - 1)
      <4>1. Before(g, x) + 2 = GroupSize * (GroupSize - 1) /\ Before(g, x) \in Int
        BY <1>6, <1>13, PairingIs
      <4> QED
        BY <1>5, <1>6, <1>9, <4>1
    <3> QED
      BY <1>8, <2>1, <2>4, <2>5, <3>1 DEF GroupOK, Playing
  <2>9. DismissedOK'
    <3> SUFFICES ASSUME NEW t \in Teams, (Dismissed(t))'
                 PROVE  pc'[GroupOf(t)] = "exit" /\ leader'[GroupOf(t)] # t
      BY <2>7 DEF DismissedOK
    <3>1. Dismissed(t) \/ t \in S
      BY <1>2, <2>4 DEF Dismissed
    <3>2. CASE t \in S
      <4>1. GroupOf(t) = g /\ t # l
        BY <3>2, MembersAre DEF S
      <4> QED
        BY <2>4, <2>5, <4>1
    <3>3. CASE Dismissed(t)
      <4>1. /\ pc[GroupOf(t)] = "exit"
            /\ leader[GroupOf(t)] = t => pc[Host] = "exit"
        BY <1>3, <3>3 DEF DismissedOK
      <4>2. GroupOf(t) \in Groups /\ GroupOf(t) # g /\ GroupOf(t) \in Mediators
        BY <1>5, <4>1, MembersAre, Sizes
      <4>3. pc[Host] = "wait"
        BY <1>2, GroupSides
      <4> QED
        BY <1>11, <2>4, <4>1, <4>2, <4>3 DEF OthersGoOn
    <3> QED
      BY <3>1, <3>2, <3>3
  <2>10. IsFiniteSet(Points(winner, Teams))'
    BY <1>8, <1>9
  <2> QED
    BY <1>4, <2>4, <2>6, <2>7, <2>8, <2>9, <2>10 DEF IInv
<1> QED
  BY <1>8, <1>12, <1>13

LEMMA FinalKeeps ==
  ASSUME IInv, SecondHeard(Host), NEW x, TwoSides(x), SameSides(game[Host], x),
         last' = Result(x), FinalOver(x)
  PROVE  IInv'
<1> DEFINE S == Sides(x)
<1>1. Host \in Mediators
  BY Sizes
<1>2. /\ Playing(Host) /\ LeftBy(Host) /\ FreeFor(Host, S)
      /\ matchpipe' \in [Teams -> Seq(Digits)] /\ heard' \in [Mediators -> Nat]
      /\ team' \in [Teams -> {"playing", "over"}] /\ UNCHANGED <<team, winner, leader>>
  BY <1>1, AllHeard DEF SecondHeard, SameSides, FinalOver
<1>3. last' \in Results
  BY WinnerIs
<1>4. endTeam(S) /\ Exits(Host, x)
  BY DEF FinalOver, Sides
<1>5. /\ leader[0] \in Members(0) /\ leader[1] \in Members(1) /\ \A g \in Groups : pc[g] = "exit"
      /\ S = {leader[0], leader[1]}
  BY <1>2, HostSides DEF SameSides, Sides
<1> HIDE DEF S
<1>6. /\ comm' \in [Teams -> Seq(Requests)]
      /\ pc' \in [Mediators -> {"wait", "first", "second", "exit"}] /\ game' \in [Mediators -> Games]
      /\ pc'[Host] = "exit" /\ OthersGoOn(Host) /\ PipesOK' /\ SidesOK'
      /\ \A t \in Teams : comm'[t] = <<2>> => comm[t] = <<2>> \/ t \in S
  BY <1>1, <1>2, <1>4, ExitKeeps
<1>7. TypeOK'
  BY <1>2, <1>3, <1>6 DEF IInv, TypeOK
<1>8. \A g \in Groups : pc'[g] = "exit" /\ GroupOK(g)'
  <2>1. \A g \in Groups : g # Host /\ g \in Mediators
    BY Sizes
  <2>2. \A g \in Groups : pc'[g] = pc[g]
    BY <1>6, <2>1 DEF OthersGoOn
  <2>3. \A g \in Groups : g # Host => GroupOK(g)'
    BY <1>1, <1>2, <1>6, OthersKept
  <2> QED
    BY <1>5, <2>1, <2>2, <2>3
<1>9. HostOK'
  BY <1>6, <1>8 DEF HostOK, Playing
<1>10. DismissedOK'
  <2>1. \A t \in Teams : GroupOf(t) \in Groups
    BY Sizes, MembersAre
  <2> QED
    BY <1>6, <1>8, <2>1 DEF DismissedOK
<1>11. IsFiniteSet(Points(winner, Teams))'
  BY <1>2 DEF IInv, Points
<1> QED
  BY <1>3, <1>6, <1>7, <1>8, <1>9, <1>10, <1>11 DEF IInv

LEMMA FinalStarts ==
  ASSUME IInv, conductGroupMatches
  PROVE  IInv'
<1> DEFINE x == Match(leader[0], leader[1])
<1>1. Host \in Mediators /\ Host \notin Groups
  BY Sizes
<1>2. /\ pc[Host] = "wait" /\ \A g \in Groups : pc[g] = "exit"
      /\ Asked(Host, x) /\ UNCHANGED <<matchpipe, team, heard, winner, leader>> /\ last' \in Results
  BY NoResultIs DEF conductGroupMatches
<1>3. leader[0] \in Members(0) /\ leader[1] \in Members(1)
  BY <1>2, Sizes DEF IInv, GroupOK
<1>4. /\ leader[0] \in Teams /\ GroupOf(leader[0]) = 0
      /\ leader[1] \in Teams /\ GroupOf(leader[1]) = 1
  BY <1>3, MembersAre, Sizes
<1>5. /\ x \in Games /\ x.team1 = leader[0] /\ x.team2 = leader[1]
      /\ x.bat = leader[0] /\ x.ball = leader[1]
  <2>1. leader[0] \in 0..NoTeam /\ leader[1] \in 0..NoTeam
    BY <1>4, Sizes
  <2> QED
    BY <2>1, MatchIs
<1> HIDE DEF x
<1>6. TwoSides(x)
  BY <1>4, <1>5 DEF TwoSides, Sides
<1>7. \A m \in Mediators : ~Playing(m)
  BY <1>2, Sizes DEF Playing
<1>8. \A m \in Mediators, t \in Teams : ~Awaits(m, t)
  BY <1>7, AwaitedSides DEF AwaitedIs
<1>9. \A t \in Teams : Silent(t)
  BY <1>8 DEF IInv, PipesOK
<1>10. LeftBy(Host)
  BY <1>2, <1>8, <1>9 DEF LeftBy, AskedByOthers, Silent
<1>11. FreeFor(Host, Sides(x))
  <2> SUFFICES ASSUME NEW t \in Sides(x) PROVE t \in Teams /\ comm[t] = <<>> /\ ~AskedByOthers(Host, t)
    BY DEF FreeFor
  <2>1. t \in Teams /\ leader[GroupOf(t)] = t
    BY <1>4, <1>5 DEF Sides
  <2>2. ~Dismissed(t)
    BY <1>2, <2>1 DEF IInv, DismissedOK
  <2> QED
    BY <1>8, <1>9, <2>1, <2>2 DEF Silent, Dismissed, AskedByOthers
<1>12. /\ comm' \in [Teams -> Seq(Requests)]
       /\ pc' \in [Mediators -> {"wait", "first", "second", "exit"}] /\ game' \in [Mediators -> Games]
       /\ pc'[Host] = "first" /\ game'[Host] = x /\ OthersGoOn(Host) /\ PipesOK' /\ SidesOK'
       /\ \A t \in Teams : comm'[t] = <<2>> => comm[t] = <<2>>
  BY <1>1, <1>2, <1>6, <1>10, <1>11, AskedKeeps
<1>13. TypeOK'
  BY <1>2, <1>12 DEF IInv, TypeOK
<1>14. \A g \in Groups : pc'[g] = pc[g] /\ game'[g] = game[g]
  BY <1>12, Sizes DEF OthersGoOn
<1>15. \A g \in Groups : GroupOK(g)'
  <2> SUFFICES ASSUME NEW g \in Groups PROVE GroupOK(g)'
    OBVIOUS
  <2>1. ~Playing(g)
    BY <1>7, Sizes
  <2> QED
    BY <1>2, <1>14, <2>1, GroupKept
<1>16. HostOK'
  BY <1>2, <1>5, <1>12, <1>14 DEF HostOK
<1>17. DismissedOK'
  <2> SUFFICES ASSUME NEW t \in Teams, (Dismissed(t))'
               PROVE  pc'[GroupOf(t)] = "exit" /\ leader[GroupOf(t)] # t
    BY <1>2 DEF DismissedOK
  <2>1. Dismissed(t)
    BY <1>2, <1>12 DEF Dismissed
  <2>2. leader[GroupOf(t)] # t
    BY <1>2, <2>1 DEF IInv, DismissedOK
  <2> QED
    BY <1>2, <1>14, <2>2, MembersAre, Sizes
<1>18. IsFiniteSet(Points(winner, Teams))'
  BY <1>2 DEF IInv, Points
<1> QED
  BY <1>12, <1>13, <1>15, <1>16, <1>17, <1>18 DEF IInv

LEMMA HearSecondKeeps ==
  ASSUME IInv, NEW m \in Mediators, HearSecond(m)
  PROVE  IInv'
<1> DEFINE g == game[m]
           d == Head(matchpipe[Second(g)])
           x == Counted(Scored(g, heard[m], d))
<1>1. SecondHeard(m)
  BY DEF HearSecond, SecondHeard, AnswerRead
<1>2. TwoSides(g) /\ heard[m] \in Nat /\ d \in Nat
  BY <1>1, AllHeard
<1>3. \/ Continue(m, Toss(g, heard[m], d))
      \/ Continue(m, x)
      \/ Continue(m, SecondInnings(x))
      \/ last' = Result(x) /\ (IF m = Host THEN FinalOver(x) ELSE GroupMatchOver(m, x))
  BY Zenon DEF HearSecond
<1> HIDE DEF d
<1>4. SameSides(g, x) /\ TwoSides(x)
  <2> HIDE DEF g
  <2> QED
    BY <1>2, BallKeeps
<1> HIDE DEF x
<1>5. CASE Continue(m, Toss(g, heard[m], d))
  <2> DEFINE y == Toss(g, heard[m], d)
  <2>1. SameSides(g, y) /\ TwoSides(y)
    BY <1>2, TossKeeps
  <2> HIDE DEF y
  <2> QED
    BY <1>1, <1>5, <2>1, ContinueKeeps DEF y
<1>6. CASE Continue(m, x)
  BY <1>1, <1>4, <1>6, ContinueKeeps
<1>7. CASE Continue(m, SecondInnings(x))
  <2> DEFINE y == SecondInnings(x)
  <2>1. SameSides(x, y) /\ TwoSides(y)
    BY <1>4, InningsKeeps
  <2>2. SameSides(g, y)
    BY <1>4, <2>1 DEF SameSides
  <2> HIDE DEF y
  <2> QED
    BY <1>1, <1>7, <2>1, <2>2, ContinueKeeps DEF y
<1>8. CASE /\ last' = Result(x)
           /\ IF m = Host THEN FinalOver(x) ELSE GroupMatchOver(m, x)
  <2>1. CASE m = Host
    BY <1>1, <1>4, <1>8, <2>1, FinalKeeps
  <2>2. CASE m # Host
    <3>1. m \in Groups
      BY <2>2, Sizes
    <3> QED
      BY <1>1, <1>4, <1>8, <2>2, <3>1, GroupMatchKeeps
  <2> QED
    BY <2>1, <2>2
<1> QED
  BY <1>3, <1>5, <1>6, <1>7, <1>8

LEMMA StutterKeeps ==
  ASSUME IInv, UNCHANGED vars
  PROVE  IInv'
<1>1. UNCHANGED <<comm, matchpipe, team, pc, game, heard, winner, leader, last>>
  BY DEF vars
<1> QED
  <2>1. TypeOK' /\ IsFiniteSet(Points(winner, Teams))'
    BY <1>1 DEF IInv, TypeOK, Points
  <2>2. ASSUME NEW g \in Groups PROVE GroupOK(g)'
    BY <1>1, GroupSides, GroupKept
  <2>3. HostOK' /\ SidesOK'
    BY <1>1 DEF IInv, HostOK, SidesOK, Playing
  <2>4. DismissedOK'
    BY <1>1 DEF IInv, DismissedOK, Dismissed
  <2>5. PipesOK'
    BY <1>1 DEF IInv, PipesOK, Awaits, Asking, Answered, Silent
  <2> QED
    BY <2>1, <2>2, <2>3, <2>4, <2>5 DEF IInv

LEMMA InvKept == IInv /\ [Next]_vars => IInv'
<1> SUFFICES ASSUME IInv, [Next]_vars PROVE IInv'
  OBVIOUS
<1>1. CASE TeamStep
  BY <1>1, TeamKeeps DEF TeamStep
<1>2. ASSUME NEW m \in Mediators, MediatorStep(m) PROVE IInv'
  BY <1>2, HearFirstKeeps, HearSecondKeeps DEF MediatorStep
<1>3. CASE conductGroupMatches
  BY <1>3, FinalStarts
<1>4. CASE UNCHANGED vars
  BY <1>4, StutterKeeps
<1> QED
  BY <1>1, <1>2, <1>3, <1>4 DEF Next

(***************************************************************************)
(* The invariant holds throughout, whatever the size of the groups, the    *)
(* length of the matches and the inputs of the teams (utils.c, wc.c).      *)
(***************************************************************************)
THEOREM Invariance == Spec => []IInv
  BY InitOK, InvKept, PTL DEF Spec

(***************************************************************************)
(* A team that a mediator has asked and not heard has one message in its   *)
(* pipes, the request or the answer, and it has asked nobody else to       *)
(* answer; the others have none: neither the second group process nor the  *)
(* host, who hold the same ends, ever reads what another waits for         *)
(* (match).                                                                *)
(***************************************************************************)
THEOREM Answers == Spec => []RequestsAnswered
<1>1. IInv => RequestsAnswered
  BY OneMessage
<1> QED
  BY <1>1, Invariance, PTL

(***************************************************************************)
(* The leader that a group process writes to the host has won most of its  *)
(* matches, has the lowest index of those who have, and every pairing of   *)
(* the group has been played and counted once (conductGroupMatches).       *)
(***************************************************************************)
THEOREM Leaders == Spec => []LeaderHasMostWins
<1>1. IInv => LeaderHasMostWins
  BY LeadersBest
<1> QED
  BY <1>1, Invariance, PTL

-----------------------------------------------------------------------------
(***************************************************************************)
(* How a match is decided.  While an innings goes on, its balls are those  *)
(* of the overs before and of this one, and the target stands.             *)
(***************************************************************************)

Running(g) ==
  /\ g.innings \in 0..2 /\ g.i < Overs /\ g.j < Balls /\ g.wkt < Wickets
  /\ g.balls = g.i * Balls + g.j
  /\ IF g.innings = 2 THEN g.tot2 <= g.tot ELSE g.tot2 = 0

Decided(r) ==
  /\ r.tot2 > r.tot => r.win = r.second /\ r.wkt < Wickets
  /\ r.tot2 < r.tot => r.win # r.second /\ (r.wkt = Wickets \/ r.balls = Overs * Balls)
  /\ r.tot2 = r.tot /\ r.win # r.team1 =>
       r.win = r.second /\ r.wkt = Wickets /\ r.balls < (Overs - 1) * Balls

LEMMA Lengths == Overs \in Nat /\ Overs > 0 /\ Balls \in Nat /\ Balls > 0 /\ Wickets \in Nat /\ Wickets > 0
  BY TournamentAssumption

LEMMA BallsOfOvers ==
  ASSUME NEW n \in Nat
  PROVE  /\ n * Balls \in Nat /\ (n + 1) * Balls = n * Balls + Balls
         /\ \A k \in Nat : k <= n => k * Balls <= n * Balls
  BY Lengths

LEMMA MatchRuns ==
  ASSUME NEW t1, NEW t2
  PROVE  Running(Match(t1, t2))
<1>1. 0 * Balls + 0 = 0
  BY Lengths
<1> QED
  BY <1>1, Lengths DEF Running, Match

LEMMA TossRuns ==
  ASSUME NEW x \in Games, Running(x), x.innings = 0, NEW d1, NEW d2
  PROVE  Running(Toss(x, d1, d2))
<1> DEFINE y == Toss(x, d1, d2)
<1>1. /\ y.innings = 1 /\ y.i = x.i /\ y.j = x.j /\ y.wkt = x.wkt /\ y.balls = x.balls
      /\ y.tot2 = x.tot2
  BY DEF Toss, Games
<1> HIDE DEF y
<1> QED
  BY <1>1 DEF Running, y

\* What a ball changes.
AfterBall(x, y) ==
  /\ y.innings = x.innings /\ y.balls = x.balls + 1 /\ y.tot \in Nat /\ y.tot2 \in Nat
  /\ \/ y.wkt = x.wkt + 1 /\ y.tot = x.tot /\ y.tot2 = x.tot2
     \/ y.wkt = x.wkt /\ (x.innings = 1 => y.tot2 = x.tot2)
  /\ \/ Goes(y) /\ x.j + 1 < Balls /\ y.i = x.i /\ y.j = x.j + 1
     \/ Goes(y) /\ x.j + 1 = Balls /\ x.i + 1 < Overs /\ y.i = x.i + 1 /\ y.j = 0
     \/ /\ y.i = x.i + 1 /\ y.j = x.j + 1
        /\ Goes(y) => x.j + 1 = Balls /\ x.i + 1 = Overs

LEMMA BallIs ==
  ASSUME NEW x \in Games, Running(x), x.innings \in {1, 2}, NEW d1 \in Nat, NEW d2 \in Nat,
         NEW y, y = Counted(Scored(x, d1, d2))
  PROVE  AfterBall(x, y)
<1> DEFINE z == Scored(x, d1, d2)
           b == [x EXCEPT !.balls = @ + 1]
<1>1. /\ b \in Games /\ b.balls = x.balls + 1 /\ b.innings = x.innings /\ b.i = x.i /\ b.j = x.j
      /\ b.wkt = x.wkt /\ b.tot = x.tot /\ b.tot2 = x.tot2
  BY DEF Games
<1>2. z = IF d2 = d1 THEN [b EXCEPT !.wkt = @ + 1]
          ELSE IF x.innings = 1 THEN [b EXCEPT !.tot = @ + d2] ELSE [b EXCEPT !.tot2 = @ + d2]
  BY <1>1, Zenon DEF Scored
<1> HIDE DEF b, z
<1>3. /\ z \in Games /\ z.balls = x.balls + 1 /\ z.innings = x.innings /\ z.i = x.i /\ z.j = x.j
      /\ \/ z.wkt = x.wkt + 1 /\ z.tot = x.tot /\ z.tot2 = x.tot2
         \/ z.wkt = x.wkt /\ (x.innings = 1 => z.tot2 = x.tot2)
  BY <1>1, <1>2 DEF Games
<1>4. y = IF z.j + 1 < Balls /\ Goes(z) THEN [z EXCEPT !.j = @ + 1]
          ELSE IF z.i + 1 < Overs /\ Goes(z) THEN [z EXCEPT !.i = @ + 1, !.j = 0]
          ELSE [z EXCEPT !.i = @ + 1, !.j = @ + 1]
  BY Zenon DEF Counted, z
<1>5. /\ y.innings = z.innings /\ y.balls = z.balls /\ y.wkt = z.wkt /\ y.tot = z.tot /\ y.tot2 = z.tot2
      /\ \/ z.j + 1 < Balls /\ Goes(z) /\ y.i = z.i /\ y.j = z.j + 1
         \/ ~(z.j + 1 < Balls) /\ z.i + 1 < Overs /\ Goes(z) /\ y.i = z.i + 1 /\ y.j = 0
         \/ /\ y.i = z.i + 1 /\ y.j = z.j + 1
            /\ Goes(z) => ~(z.j + 1 < Balls) /\ ~(z.i + 1 < Overs)
  BY <1>3, <1>4 DEF Games
<1>6. Goes(y) <=> Goes(z)
  BY <1>5 DEF Goes
<1>7. x.i \in Nat /\ x.j \in Nat /\ x.i < Overs /\ x.j < Balls /\ z.tot \in Nat /\ z.tot2 \in Nat
  BY <1>3 DEF Games, Running
<1>8. (~(x.j + 1 < Balls) => x.j + 1 = Balls) /\ (~(x.i + 1 < Overs) => x.i + 1 = Overs)
  BY <1>7, Lengths
<1> QED
  BY <1>3, <1>5, <1>6, <1>7, <1>8 DEF AfterBall

LEMMA BallRuns ==
  ASSUME NEW x \in Games, Running(x), x.innings \in {1, 2}, NEW d1 \in Nat, NEW d2 \in Nat,
         NEW y, y = Counted(Scored(x, d1, d2)), ~Played(y)
  PROVE  Running(y)
<1>1. /\ y.innings = x.innings /\ y.balls = x.balls + 1
      /\ y.innings = 1 => y.tot2 = x.tot2
      /\ Goes(y) /\ ~(y.i >= Overs)
      /\ \/ x.j + 1 < Balls /\ y.i = x.i /\ y.j = x.j + 1
         \/ x.j + 1 = Balls /\ y.i = x.i + 1 /\ y.j = 0
         \/ y.i = x.i + 1 /\ x.i + 1 = Overs
  <2>1. AfterBall(x, y)
    BY BallIs
  <2>2. Goes(y) /\ ~(y.i >= Overs)
    BY DEF Played
  <2> QED
    BY <2>1, <2>2 DEF AfterBall
<1>2. x.i \in Nat /\ x.j \in Nat /\ x.i < Overs /\ x.j < Balls /\ x.balls = x.i * Balls + x.j
  BY DEF Games, Running
<1>3. y.balls = y.i * Balls + y.j /\ y.i < Overs /\ y.j < Balls
  BY <1>1, <1>2, Lengths, BallsOfOvers
<1> QED
  BY <1>1, <1>3 DEF Running, Goes

LEMMA InningsRuns ==
  ASSUME NEW x \in Games, Running(x), x.innings = 1, NEW d1 \in Nat, NEW d2 \in Nat,
         NEW y \in Games, y = Counted(Scored(x, d1, d2))
  PROVE  Running(SecondInnings(y))
<1> DEFINE w == SecondInnings(y)
<1>1. y.tot \in Nat /\ y.tot2 = 0
  <2>1. AfterBall(x, y)
    BY BallIs
  <2>2. x.tot2 = 0
    BY DEF Running
  <2> QED
    BY <2>1, <2>2 DEF AfterBall
<1>2. w.innings = 2 /\ w.i = 0 /\ w.j = 0 /\ w.wkt = 0 /\ w.balls = 0 /\ w.tot = y.tot /\ w.tot2 = y.tot2
  BY DEF SecondInnings, Games
<1>3. 0 * Balls + 0 = 0
  BY Lengths
<1> HIDE DEF w
<1> QED
  BY <1>1, <1>2, <1>3, Lengths DEF Running, w

LEMMA ResultIsDecided ==
  ASSUME NEW x \in Games, Running(x), x.innings = 2, NEW d1 \in Nat, NEW d2 \in Nat,
         NEW y, y = Counted(Scored(x, d1, d2)), Played(y), y.bat # y.ball
  PROVE  Decided(Result(y))
<1> DEFINE B == (Overs - 1) * Balls
<1>1. /\ x.i \in Nat /\ x.j \in Nat /\ x.i < Overs /\ x.j < Balls /\ x.wkt \in Nat /\ x.wkt < Wickets
      /\ x.balls = x.i * Balls + x.j /\ x.tot2 <= x.tot
  BY DEF Games, Running
<1>0. AfterBall(x, y)
  BY BallIs
<1>2. /\ y.innings = 2 /\ y.balls = x.i * Balls + x.j + 1 /\ y.tot \in Nat /\ y.tot2 \in Nat
      /\ \/ y.wkt = x.wkt + 1 /\ y.tot2 <= y.tot
         \/ y.wkt = x.wkt
      /\ y.i = x.i + 1 /\ y.j = x.j + 1
      /\ Goes(y) => x.j + 1 = Balls /\ x.i + 1 = Overs
  <2>1. x.i * Balls \in Nat /\ x.tot \in Nat /\ x.tot2 \in Nat
    BY <1>1, BallsOfOvers DEF Games
  <2>2. y.i >= Overs \/ ~Goes(y)
    BY DEF Played
  <2>3. /\ y.innings = 2 /\ y.balls = x.balls + 1 /\ y.tot \in Nat /\ y.tot2 \in Nat
        /\ \/ y.wkt = x.wkt + 1 /\ y.tot = x.tot /\ y.tot2 = x.tot2
           \/ y.wkt = x.wkt
        /\ y.i = x.i + 1 /\ y.j = x.j + 1
        /\ Goes(y) => x.j + 1 = Balls /\ x.i + 1 = Overs
    BY <1>0, <1>1, <2>2, Lengths DEF AfterBall
  <2> QED
    BY <1>1, <2>1, <2>3
<1>3. Goes(y) <=> y.wkt < Wickets /\ y.tot2 <= y.tot
  BY <1>2 DEF Goes
<1>4. y.wkt \in Nat /\ y.wkt <= Wickets /\ (y.tot2 > y.tot => y.wkt < Wickets)
  BY <1>1, <1>2, Lengths
<1>5. Overs - 1 \in Nat /\ Overs * Balls = B + Balls /\ B \in Nat /\ x.i * Balls \in Nat
  BY <1>1, Lengths, BallsOfOvers
<1>6. y.tot2 < y.tot => y.wkt = Wickets \/ y.balls = Overs * Balls
  <2> SUFFICES ASSUME y.tot2 < y.tot, y.wkt # Wickets PROVE y.balls = Overs * Balls
    OBVIOUS
  <2>1. Goes(y)
    BY <1>2, <1>3, <1>4, Lengths
  <2>2. x.j + 1 = Balls /\ x.i = Overs - 1
    BY <1>1, <1>2, <2>1, Lengths
  <2> QED
    BY <1>1, <1>2, <1>5, <2>2, Lengths
<1>7. y.i < Overs - 1 \/ (y.i = Overs - 1 /\ y.j < Balls - 1) => y.balls < B
  <2>1. CASE y.i < Overs - 1
    <3>1. x.i + 2 <= Overs - 1 /\ x.i + 2 \in Nat
      BY <1>1, <1>2, <2>1, Lengths
    <3>2. (x.i + 2) * Balls = x.i * Balls + Balls + Balls /\ (x.i + 2) * Balls <= B
      <4>1. (x.i + 1) * Balls = x.i * Balls + Balls
        BY <1>1, BallsOfOvers
      <4>2. (x.i + 1 + 1) * Balls = (x.i + 1) * Balls + Balls
        <5>1. x.i + 1 \in Nat
          BY <1>1
        <5> QED
          BY <5>1, BallsOfOvers
      <4>3. x.i + 1 + 1 = x.i + 2
        BY <1>1
      <4>4. (x.i + 2) * Balls <= B
        BY <1>5, <3>1, BallsOfOvers
      <4> QED
        BY <4>1, <4>2, <4>3, <4>4
    <3> HIDE DEF B
    <3> QED
      BY <1>1, <1>2, <1>5, <3>2, Lengths
  <2>2. CASE y.i = Overs - 1 /\ y.j < Balls - 1
    <3>1. x.i + 1 = Overs - 1
      BY <1>1, <1>2, <2>2, Lengths
    <3>2. B = x.i * Balls + Balls
      BY <1>1, <3>1, BallsOfOvers
    <3> HIDE DEF B
    <3> QED
      BY <1>1, <1>2, <1>5, <2>2, <3>2, Lengths
  <2> QED
    BY <2>1, <2>2
<1>8. y.tot2 = y.tot /\ Win(y) # y.team1 => Win(y) = y.ball /\ y.wkt = Wickets /\ y.balls < B
  <2> SUFFICES ASSUME y.tot2 = y.tot, Win(y) # y.team1
               PROVE  Win(y) = y.ball /\ y.wkt = Wickets /\ y.balls < B
    OBVIOUS
  <2>1. /\ Win(y) = y.ball
        /\ y.i < Overs - 1 \/ (y.i = Overs - 1 /\ y.j < Balls - 1)
    BY <1>2 DEF Win
  <2>2. ~Goes(y)
    BY <1>1, <1>2, <2>1, Lengths
  <2>3. y.wkt = Wickets
    BY <1>2, <1>3, <1>4, <2>2, Lengths
  <2> QED
    BY <1>7, <2>1, <2>3
<1>9. (y.tot2 > y.tot => Win(y) = y.ball) /\ (y.tot2 < y.tot => Win(y) # y.ball)
  BY <1>2 DEF Win
<1> QED
  BY <1>4, <1>6, <1>8, <1>9 DEF Decided, Result

\* The counters of everyone who plays.
CountsOK == \A m \in Mediators : Playing(m) => Running(game[m])

MInv == IInv /\ CountsOK /\ MatchIsDecided

\* Whoever is asked plays a match whose counters run.
LEMMA AskedRuns ==
  ASSUME IInv, CountsOK, NEW m \in Mediators, NEW x, Running(x), Asked(m, x)
  PROVE  CountsOK'
<1>1. game \in [Mediators -> Games] /\ pc \in [Mediators -> {"wait", "first", "second", "exit"}]
  BY DEF IInv, TypeOK
<1>2. game' = [game EXCEPT ![m] = x] /\ pc' = [pc EXCEPT ![m] = "first"]
  BY DEF Asked
<1> QED
  BY <1>1, <1>2 DEF CountsOK, Playing

LEMMA ExitRuns ==
  ASSUME IInv, CountsOK, NEW m \in Mediators, NEW x, Exits(m, x)
  PROVE  CountsOK'
<1>1. game \in [Mediators -> Games] /\ pc \in [Mediators -> {"wait", "first", "second", "exit"}]
  BY DEF IInv, TypeOK
<1>2. /\ game' = [game EXCEPT ![m] = Match(x.team1, x.team2)]
      /\ pc' = [pc EXCEPT ![m] = "exit"]
  BY DEF Exits
<1> QED
  BY <1>1, <1>2 DEF CountsOK, Playing

LEMMA HearSecondDecides ==
  ASSUME IInv, CountsOK, NEW m \in Mediators, HearSecond(m)
  PROVE  CountsOK' /\ MatchIsDecided'
<1> DEFINE g == game[m]
           d == Head(matchpipe[Second(g)])
           x == Counted(Scored(g, heard[m], d))
<1>1. SecondHeard(m)
  BY DEF HearSecond, SecondHeard, AnswerRead
<1>2. TwoSides(g) /\ heard[m] \in Nat /\ d \in Nat /\ Playing(m)
  BY <1>1, AllHeard
<1>3. g \in Games /\ Running(g) /\ g.innings \in Nat
  BY <1>2 DEF TwoSides, CountsOK, Games
<1>4. \/ g.innings = 0 /\ Continue(m, Toss(g, heard[m], d))
      \/ g.innings > 0 /\ ~Played(x) /\ Continue(m, x)
      \/ g.innings = 1 /\ Played(x) /\ Continue(m, SecondInnings(x))
      \/ /\ g.innings = 2 /\ Played(x) /\ last' = Result(x)
         /\ IF m = Host THEN FinalOver(x) ELSE GroupMatchOver(m, x)
  BY Zenon DEF HearSecond
<1>5. TwoSides(x) /\ x \in Games /\ x.bat # x.ball
  <2>1. TwoSides(x)
    <3> HIDE DEF g, d
    <3> QED
      BY <1>2, BallKeeps
  <2> HIDE DEF x
  <2> QED
    BY <2>1 DEF TwoSides
<1> HIDE DEF g, d
<1>6. ASSUME NEW y, Running(y), Continue(m, y)
      PROVE  CountsOK' /\ MatchIsDecided'
  BY <1>6, AskedRuns DEF Continue, MatchIsDecided
<1>7. CASE g.innings = 0 /\ Continue(m, Toss(g, heard[m], d))
  BY <1>3, <1>6, <1>7, TossRuns
<1>8. CASE g.innings > 0 /\ ~Played(x) /\ Continue(m, x)
  <2>1. g.innings \in {1, 2}
    BY <1>3, <1>8 DEF Running
  <2>2. Running(x)
    BY <1>2, <1>3, <1>8, <2>1, BallRuns
  <2> QED
    BY <1>6, <1>8, <2>2
<1>9. CASE g.innings = 1 /\ Played(x) /\ Continue(m, SecondInnings(x))
  <2>1. Running(SecondInnings(x))
    BY <1>2, <1>3, <1>5, <1>9, InningsRuns
  <2> QED
    BY <1>6, <1>9, <2>1
<1>10. CASE /\ g.innings = 2 /\ Played(x) /\ last' = Result(x)
            /\ IF m = Host THEN FinalOver(x) ELSE GroupMatchOver(m, x)
  <2>1. Decided(Result(x))
    BY <1>2, <1>3, <1>5, <1>10, ResultIsDecided
  <2> HIDE DEF x
  <2>2. MatchIsDecided'
    BY <1>10, <2>1 DEF MatchIsDecided, Decided
  <2>3. \/ \E y : Exits(m, y)
        \/ m \in Groups /\ Asked(m, Pairing(m, x))
    BY <1>10, Sizes DEF FinalOver, GroupMatchOver
  <2>4. Running(Pairing(m, x))
    BY MatchRuns DEF Pairing
  <2> QED
    BY <2>2, <2>3, <2>4, AskedRuns, ExitRuns
<1> QED
  BY <1>4, <1>7, <1>8, <1>9, <1>10

LEMMA MInvKept == MInv /\ [Next]_vars => MInv'
<1> SUFFICES ASSUME MInv, [Next]_vars PROVE CountsOK' /\ MatchIsDecided'
  BY InvKept DEF MInv
<1>1. IInv /\ CountsOK /\ MatchIsDecided
  BY DEF MInv
<1>2. CASE TeamStep
  <2>1. last' = NoResult /\ UNCHANGED <<pc, game>>
    BY <1>2 DEF TeamStep, teamPlay
  <2> QED
    BY <1>1, <2>1 DEF CountsOK, Playing, MatchIsDecided
<1>3. ASSUME NEW m \in Mediators, HearFirst(m) PROVE CountsOK' /\ MatchIsDecided'
  <2>1. last' = NoResult /\ UNCHANGED game /\ pc[m] = "first" /\ pc' = [pc EXCEPT ![m] = "second"]
    BY <1>3 DEF HearFirst
  <2>2. \A n \in Mediators : Playing(n)' => Playing(n)
    BY <1>1, <2>1 DEF Playing, IInv, TypeOK
  <2> QED
    BY <1>1, <2>1, <2>2 DEF CountsOK, MatchIsDecided
<1>4. ASSUME NEW m \in Mediators, HearSecond(m) PROVE CountsOK' /\ MatchIsDecided'
  BY <1>1, <1>4, HearSecondDecides
<1>5. CASE conductGroupMatches
  BY <1>1, <1>5, MatchRuns, AskedRuns, Sizes DEF conductGroupMatches, MatchIsDecided
<1>6. CASE UNCHANGED vars
  BY <1>1, <1>6 DEF vars, CountsOK, Playing, MatchIsDecided
<1> QED
  BY <1>2, <1>3, <1>4, <1>5, <1>6 DEF Next, MediatorStep

(***************************************************************************)
(* Every match goes to the right side, whoever won the toss and however    *)
(* the loops over overs and balls ended: a chase is won with wickets in    *)
(* hand, a total is defended to the last wicket or ball, and a level score *)
(* is a tie unless the second side was bowled out with more than an over   *)
(* to go (match, utils.c:218-233).                                         *)
(***************************************************************************)
THEOREM Decision == Spec => []MatchIsDecided
<1>1. Init => MInv
  <2> SUFFICES ASSUME Init PROVE CountsOK /\ MatchIsDecided
    BY InitOK DEF MInv
  <2>1. last = NoResult /\ \A m \in Mediators : \E t1, t2 : game[m] = Match(t1, t2)
    BY DEF Init, Opening
  <2> QED
    BY <2>1, MatchRuns DEF CountsOK, MatchIsDecided
<1>2. MInv => MatchIsDecided
  BY DEF MInv
<1> QED
  BY <1>1, <1>2, MInvKept, PTL DEF Spec

=============================================================================
