------------------------------- MODULE Scoring -------------------------------
(***************************************************************************)
(* The final ranks of a set of games: packages/core/src/set/scoring.ts,    *)
(* called when the last game of a set is over or the set is drained.       *)
(***************************************************************************)
EXTENDS Naturals, Sequences, FiniteSets

CONSTANTS
  Players,      \* the four members of the set
  GamesPerSet   \* config.gamesPerSet

VARIABLES
  results,  \* the standings of each game played
  outcome   \* what scoreSet returns, NoOutcome before

vars == <<results, outcome>>

Standing == 1 .. 4
NoOutcome == [p \in {} |-> 0]

\* POINTS_BY_STANDING
PointsByStanding == <<5, 3, 2, 1>>

Points(p) ==
  LET sum[k \in 0 .. Len(results)] ==
        IF k = 0 THEN 0 ELSE sum[k - 1] + PointsByStanding[results[k][p]]
  IN  sum[Len(results)]

\* Where p is in the order of points, on equal points in that of the last game.
Place(p) ==
  LET last         == results[Len(results)]
      before(q, r) == \/ Points(q) > Points(r)
                      \/ Points(q) = Points(r) /\ last[q] < last[r]
  IN  1 + Cardinality({q \in Players : before(q, p)})

\* totalStanding: with the points of the one just before, that one's place.
TotalStanding(p) ==
  IF \E q \in Players : Place(q) = Place(p) - 1 /\ Points(q) = Points(p)
  THEN Place(p) - 1 ELSE Place(p)

\* scoreSet
ScoreSet ==
  [p \in Players |-> [points |-> Points(p), totalStanding |-> TotalStanding(p)]]

Init == results = <<>> /\ outcome = NoOutcome

\* A game ends with its standings.
GameOver(standings) ==
  /\ outcome = NoOutcome /\ Len(results) < GamesPerSet
  /\ results' = Append(results, standings)
  /\ UNCHANGED outcome

\* The set ends after its last game, or after any when it is drained.
Score ==
  /\ outcome = NoOutcome /\ results # <<>>
  /\ outcome' = ScoreSet
  /\ UNCHANGED results

Next ==
  \/ \E standings \in [Players -> Standing] :
       /\ \A p, q \in Players : standings[p] = standings[q] => p = q
       /\ GameOver(standings)
  \/ Score

Spec == Init /\ [][Next]_vars

\* Equal points are equal ranks, the last game decides no more than the order
\* in which those are shown: the comment of scoreSet and the tests of sets
\* ("on equal points the same rank").
EqualPointsEqualRank ==
  outcome # NoOutcome =>
    \A p, q \in Players :
      outcome[p].points = outcome[q].points =>
        outcome[p].totalStanding = outcome[q].totalStanding
=============================================================================
