----------------------------- MODULE Tournament -----------------------------
(***************************************************************************)
(* The tournament of Assignment 1 (utils.c, wc.c): a process per team that *)
(* answers each request with the next digit of its input, two group        *)
(* processes that play the matches of their groups at the same time, and   *)
(* the host that plays the final between the leaders they report.  Each    *)
(* team has a pipe for requests and one for its answers.                   *)
(*                                                                         *)
(* An input is any sequence of digits.  The writes of a process between    *)
(* two of its reads are one step, with the read before them: no pipe ever  *)
(* gets full.                                                              *)
(***************************************************************************)
EXTENDS Naturals, SequencesExt

CONSTANTS GroupSize,  \* 4
          Overs,      \* 20
          Balls,      \* 6, of an over
          Wickets,    \* 10
          Digits      \* 0..6

ASSUME TournamentAssumption ==
  /\ GroupSize \in Nat /\ GroupSize > 1
  /\ {Overs, Balls, Wickets} \subseteq Nat \ {0}
  /\ Digits \subseteq Nat

Teams == 0..2 * GroupSize - 1
Groups == {0, 1}
Host == 2
Mediators == Groups \cup {Host}
GroupOf(t) == IF t < GroupSize THEN 0 ELSE 1
Members(g) == {t \in Teams : GroupOf(t) = g}

VARIABLES comm, matchpipe,  \* the two pipes of each team
          team,       \* of a team: playing or over
          pc,         \* of a mediator: what it does next
          game,       \* the match it mediates
          heard,      \* the digit it has read first
          winner,     \* matches won in the groups
          leader,     \* what a group process has written to the host
          last        \* the result of the match a step has decided

vars == <<comm, matchpipe, team, pc, game, heard, winner, leader, last>>

NoTeam == 2 * GroupSize
NoResult == [team1 |-> NoTeam, second |-> NoTeam, win |-> NoTeam, tot |-> 0, tot2 |-> 0,
             wkt |-> 0, balls |-> 0]

\* A match before its toss.  balls is not in the code: it counts the balls
\* of the innings, for the properties.
Match(t1, t2) == [team1 |-> t1, team2 |-> t2, bat |-> t1, ball |-> t2, innings |-> 0,
                  i |-> 0, j |-> 0, wkt |-> 0, balls |-> 0, tot |-> 0, tot2 |-> 0]
Opening(g) == Match(g * GroupSize, g * GroupSize + 1)

Init ==
  /\ comm = [t \in Teams |-> IF t % GroupSize < 2 THEN <<1>> ELSE <<>>]
  /\ matchpipe = [t \in Teams |-> <<>>]
  /\ team = [t \in Teams |-> "playing"]
  /\ pc = [m \in Mediators |-> IF m = Host THEN "wait" ELSE "first"]
  /\ game = [m \in Mediators |-> IF m = Host THEN Match(NoTeam, NoTeam) ELSE Opening(m)]
  /\ heard = [m \in Mediators |-> 0]
  /\ winner = [t \in Teams |-> 0]
  /\ leader = [g \in Groups |-> NoTeam]
  /\ last = NoResult

-----------------------------------------------------------------------------
(* A team.                                                                 *)

teamPlay(t) ==
  /\ team[t] = "playing" /\ comm[t] # <<>>
  /\ comm' = [comm EXCEPT ![t] = Tail(@)]
  /\ \/ /\ Head(comm[t]) # 2
        /\ \E d \in Digits : matchpipe' = [matchpipe EXCEPT ![t] = Append(@, d)]
        /\ UNCHANGED team
     \/ /\ Head(comm[t]) = 2
        /\ team' = [team EXCEPT ![t] = "over"]
        /\ UNCHANGED matchpipe
  /\ last' = NoResult
  /\ UNCHANGED <<pc, game, heard, winner, leader>>

-----------------------------------------------------------------------------
(* A mediator: the toss, then ball after ball.                             *)

Told(ts, what) == [t \in Teams |-> IF t \in ts THEN Append(comm[t], what) ELSE comm[t]]

\* Both teams of the match g get the next request.
AskedOne(m, g) ==    \* mutant: the team that bats is not asked
  /\ comm' = Told({g.ball}, 1)
  /\ game' = [game EXCEPT ![m] = g]
  /\ pc' = [pc EXCEPT ![m] = "first"]
Asked(m, g) ==
  /\ comm' = Told({g.team1, g.team2}, 1)
  /\ game' = [game EXCEPT ![m] = g]
  /\ pc' = [pc EXCEPT ![m] = "first"]

Exits(m, g) == /\ game' = [game EXCEPT ![m] = Match(g.team1, g.team2)]
               /\ pc' = [pc EXCEPT ![m] = "exit"]

\* Whose answer is read first: the lower index at the toss, then whoever bowls.
First(g) == IF g.innings = 0 THEN g.team1 ELSE IF g.innings = 1 THEN g.ball ELSE g.bat
Second(g) == g.team1 + g.team2 - First(g)

HearFirst(m) ==
  LET t == First(game[m]) IN
  /\ pc[m] = "first" /\ matchpipe[t] # <<>>
  /\ heard' = [heard EXCEPT ![m] = Head(matchpipe[t])]
  /\ matchpipe' = [matchpipe EXCEPT ![t] = Tail(@)]
  /\ pc' = [pc EXCEPT ![m] = "second"]
  /\ last' = NoResult
  /\ UNCHANGED <<comm, team, game, winner, leader>>

Toss(g, d1, d2) ==
  LET odd == (d1 + d2) % 2 = 1 IN
  [g EXCEPT !.innings = 1, !.bat = IF odd THEN g.team1 ELSE g.team2,
            !.ball = IF odd THEN g.team2 ELSE g.team1]

\* The innings may go on; the second one only while the target stands.
Goes(g) == g.wkt < Wickets /\ (g.innings = 2 => g.tot2 <= g.tot)

\* One ball: runs or a wicket, and what the two for loops make of i and j.
\* The innings is over when i is past the last over or nothing may go on.
\* Who bowls is heard first, in either innings.
Scored(g, bowled, hit) ==
  LET b == [g EXCEPT !.balls = @ + 1] IN
  IF hit = bowled THEN [b EXCEPT !.wkt = @ + 1]
  ELSE IF g.innings = 1 THEN [b EXCEPT !.tot = @ + hit] ELSE [b EXCEPT !.tot2 = @ + hit]
Counted(g) ==
  IF g.j + 1 < Balls /\ Goes(g) THEN [g EXCEPT !.j = @ + 1]
  ELSE IF g.i + 1 < Overs /\ Goes(g) THEN [g EXCEPT !.i = @ + 1, !.j = 0]
  ELSE [g EXCEPT !.i = @ + 1, !.j = @ + 1]
Played(g) == g.i >= Overs \/ ~Goes(g)
SecondInnings(g) == [g EXCEPT !.innings = 2, !.i = 0, !.j = 0, !.wkt = 0, !.balls = 0]

\* A level score is a tie only if the innings lasted long enough.
WinLevel(g) ==       \* mutant: the overs are compared, not the balls of the last but one
  IF g.tot2 > g.tot THEN g.ball
  ELSE IF g.tot2 < g.tot THEN g.bat
  ELSE IF g.i < Overs THEN g.ball ELSE g.team1
Win(g) ==
  IF g.tot2 > g.tot THEN g.ball
  ELSE IF g.tot2 < g.tot THEN g.bat
  ELSE IF g.i < Overs - 1 \/ (g.i = Overs - 1 /\ g.j < Balls - 1) THEN g.ball ELSE g.team1

Result(g) == [team1 |-> g.team1, second |-> g.ball, win |-> Win(g), tot |-> g.tot, tot2 |-> g.tot2,
              wkt |-> g.wkt, balls |-> g.balls]

\* The wins of the group g, and the first of its members with most of them.
LeaderLeast(g, won) ==   \* mutant: the comparison is turned round
  LET Better(a, t) == IF a = NoTeam \/ won[t] < won[a] THEN t ELSE a
  IN FoldLeft(Better, NoTeam, [k \in 1..GroupSize |-> g * GroupSize + k - 1])
Leader(g, won) ==
  LET Better(a, t) == IF won[t] > (IF a = NoTeam THEN 0 ELSE won[a]) THEN t ELSE a
  IN FoldLeft(Better, NoTeam, [k \in 1..GroupSize |-> g * GroupSize + k - 1])

\* The next pairing of the two nested loops, if there is one.
LastOf(g) == GroupSize * (g + 1) - 1
IsLastMatch(g, x) == x.team1 = LastOf(g) - 1
Pairing(g, x) == IF x.team2 < LastOf(g) THEN Match(x.team1, x.team2 + 1)
                 ELSE Match(x.team1 + 1, x.team1 + 2)

endTeamFirst(ts) ==   \* mutant: only one of the teams is told
  comm' = Told({CHOOSE t \in ts : TRUE}, 2)
endTeam(ts) == comm' = Told(ts, 2)

\* The match x of the mediator m is decided.
GroupMatchOver(g, x) ==
  LET won == [winner EXCEPT ![Win(x)] = @ + 1] IN
  /\ winner' = won
  /\ \/ /\ ~IsLastMatch(g, x)
        /\ Asked(g, Pairing(g, x))
        /\ UNCHANGED leader
     \/ /\ IsLastMatch(g, x)
        /\ endTeam(Members(g) \ {Leader(g, won)})
        /\ leader' = [leader EXCEPT ![g] = Leader(g, won)]
        /\ Exits(g, x)

FinalOver(x) ==
  /\ endTeam({x.team1, x.team2})
  /\ Exits(Host, x)
  /\ UNCHANGED <<winner, leader>>

Continue(m, x) ==
  /\ Asked(m, x)
  /\ last' = NoResult
  /\ UNCHANGED <<winner, leader>>

HearSecond(m) ==
  LET g == game[m]
      d == Head(matchpipe[Second(g)])
      x == Counted(Scored(g, heard[m], d))
  IN /\ pc[m] = "second" /\ matchpipe[Second(g)] # <<>>
     /\ matchpipe' = [matchpipe EXCEPT ![Second(g)] = Tail(@)]
     /\ heard' = [heard EXCEPT ![m] = 0]
     /\ \/ g.innings = 0 /\ Continue(m, Toss(g, heard[m], d))
        \/ g.innings > 0 /\ ~Played(x) /\ Continue(m, x)
        \/ g.innings = 1 /\ Played(x) /\ Continue(m, SecondInnings(x))
        \/ /\ g.innings = 2 /\ Played(x)
           /\ last' = Result(x)
           /\ IF m = Host THEN FinalOver(x) ELSE GroupMatchOver(m, x)
     /\ UNCHANGED team

\* The host waits for both group processes and reads their pipes.
conductGroupMatches ==
  /\ pc[Host] = "wait" /\ \A g \in Groups : pc[g] = "exit"
  /\ Asked(Host, Match(leader[0], leader[1]))
  /\ last' = NoResult
  /\ UNCHANGED <<matchpipe, team, heard, winner, leader>>

TeamStep == \E t \in Teams : teamPlay(t)
MediatorStep(m) == HearFirst(m) \/ HearSecond(m)
Next == TeamStep \/ (\E m \in Mediators : MediatorStep(m)) \/ conductGroupMatches

\* A process blocks in read and wait only: Runnable is ENABLED Next, written
\* out because TLC takes three times as long to find it.
Reads(m) == IF pc[m] = "first" THEN First(game[m]) ELSE Second(game[m])
Runnable ==
  \/ \E t \in Teams : team[t] = "playing" /\ comm[t] # <<>>
  \/ \E m \in Mediators : pc[m] \in {"first", "second"} /\ matchpipe[Reads(m)] # <<>>
  \/ pc[Host] = "wait" /\ \A g \in Groups : pc[g] = "exit"

\* As long as some process can go on, one does: every step uses up a request,
\* an answer or a match, so nobody can be passed over for ever.
Fairness == []<>~Runnable \/ []<><<Next>>_vars
Spec == Init /\ [][Next]_vars /\ Fairness

-----------------------------------------------------------------------------
(* Properties.                                                             *)

\* The mediator that has asked a team and not yet heard it.
Awaits(m, t) ==
  \/ pc[m] = "first" /\ t \in {game[m].team1, game[m].team2}
  \/ pc[m] = "second" /\ t = Second(game[m])

\* Each request has one answer and goes to one mediator: a team has one
\* message in its pipes while it is awaited and none else, although both
\* group processes and the host hold the ends of every pipe (match).
RequestsAnswered ==
  \A t \in Teams :
    Cardinality({k \in DOMAIN comm[t] : comm[t][k] = 1}) + Len(matchpipe[t])
      = Cardinality({m \in Mediators : Awaits(m, t)})

\* The side with more runs wins: the second, with wickets in hand, or the
\* first, once the second's wickets or balls are used up.  A level score is
\* a tie for the team with the lower index, except that a side bowled out
\* level with more than an over to go is the winner, by no wickets (the
\* counters the loops leave behind, utils.c:218-233).
MatchIsDecided ==
  last # NoResult =>
    /\ last.tot2 > last.tot => last.win = last.second /\ last.wkt < Wickets
    /\ last.tot2 < last.tot =>
         last.win # last.second /\ (last.wkt = Wickets \/ last.balls = Overs * Balls)
    /\ last.tot2 = last.tot /\ last.win # last.team1 =>
         last.win = last.second /\ last.wkt = Wickets /\ last.balls < (Overs - 1) * Balls

\* The leader a group reports has the most wins, and the lowest index among
\* those; every match of the group counts (the loops of conductGroupMatches).
LeaderHasMostWins ==
  \A g \in Groups : leader[g] # NoTeam =>
    /\ leader[g] \in Members(g)
    /\ \A t \in Members(g) : /\ winner[t] <= winner[leader[g]]
                             /\ winner[t] = winner[leader[g]] => leader[g] <= t
    /\ 2 * MapThenSumSet(LAMBDA t : winner[t], Members(g)) = GroupSize * (GroupSize - 1)

\* The tournament ends: every team process and every mediator exits
\* ("understand the interaction of the pipes carefully to avoid deadlocks").
Finishes == <>(/\ \A t \in Teams : team[t] = "over"
               /\ \A m \in Mediators : pc[m] = "exit")
=============================================================================
