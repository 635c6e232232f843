-------------------------------- MODULE Game --------------------------------
(***************************************************************************)
(* One card game: the reducer of packages/core/src/engine with the start   *)
(* of a game (game/start-game.ts), the order of finishing                  *)
(* (engine/standing.ts) and the effects of rules (engine/effects.ts).      *)
(*                                                                         *)
(* Ranks, suits and strength are left out: what may be played on what is   *)
(* open, since rules may change all of it.  So are the rules: in every     *)
(* hook they may have any effects the hook allows, and after a play or at  *)
(* the start they may ask players for choices.  What stays is where the    *)
(* cards are, whose turn it is, who has which standing and who is asked.   *)
(* A mini game is a choice of its player, answered when it is over.        *)
(*                                                                         *)
(* Definitions marked "Fault:" are variants of the definition that follows *)
(* with a plausible bug, to see that a property would notice it.           *)
(***************************************************************************)
EXTENDS Integers, Sequences, FiniteSets, FiniteSetsExt, Functions

CONSTANTS
  N,            \* players; the code insists on four
  Cards,        \* the deck
  FirstCard,    \* DIAMOND_THREE_ID: its holder leads first
  Rules,        \* rules in force that may ask for choices
  TurnLimit,    \* TURN_LIMIT
  FieldMayVanish,  \* may rules take the field away in the batch that clears it
  AsksOn,       \* may a rule follow up on one of several simultaneous answers
  MaxSkip,      \* bound: the largest count of a skip
  MaxAsked,     \* bound: players asked by one request
  MaxEffects    \* bound: effects and requests of all rules in a game

ASSUME PlayerAssumption == N \in Nat /\ N >= 2
ASSUME DeckAssumption ==
  IsFiniteSet(Cards) /\ Cardinality(Cards) >= N /\ FirstCard \in Cards
ASSUME LimitAssumption == TurnLimit \in Nat \ {0} /\ Rules \in Nat
ASSUME VariantAssumption == FieldMayVanish \in BOOLEAN /\ AsksOn \in BOOLEAN
ASSUME BoundAssumption ==
  /\ MaxSkip \in 1 .. 3 /\ MaxAsked \in Nat \ {0} /\ MaxEffects \in Nat

VARIABLE game  \* GameState

-----------------------------------------------------------------------------
(* The state.                                                              *)

Seats    == 1 .. N
NoPlayer == 0
NoRank   == 0

\* pendingChoice: the players asked, the current one first.  together: all at
\* once (simultaneousChoices), with answered for submittedChoices.  rules: how
\* many rules have yet to be looked at (remainingRuleIds).  asksOn: the rule
\* follows an answer other than the last with another request.
NoChoice == [ asked |-> <<>>, hook |-> "none", playedBy |-> NoPlayer,
              together |-> FALSE, answered |-> {}, rules |-> 0,
              clear |-> FALSE, asksOn |-> FALSE ]

Choice == [ asked    : Seq(Seats),
            hook     : {"none", "afterPlay", "onGameStart"},
            playedBy : Seats \cup {NoPlayer},
            together : BOOLEAN,
            answered : SUBSET Seats,
            rules    : Nat,
            clear    : BOOLEAN,
            asksOn   : BOOLEAN ]

GameState == [ phase     : {"awaitingPlay", "awaitingChoice", "finished"},
               turn      : Seats \cup {NoPlayer},
               direction : {-1, 1},
               hand      : [Seats -> SUBSET Cards],
               field     : SUBSET Cards,
               by        : Seats \cup {NoPlayer},
               passed    : SUBSET Seats,
               discard   : SUBSET Cards,
               excluded  : SUBSET Cards,
               status    : [Seats -> {"active", "finished", "retired"}],
               standing  : [Seats -> Seats \cup {NoRank}],
               taken     : SUBSET Seats,
               skip      : [Seats -> Nat],
               turnCount : Nat,
               choice    : Choice,
               effects   : 0 .. MaxEffects ]

Active(s)   == {p \in Seats : s.status[p] = "active"}
Decided(s)  == Cardinality(Active(s)) <= 1
OnField(s)  == s.by # NoPlayer

-----------------------------------------------------------------------------
(* Whose turn it is.                                                       *)

\* How far p sits from q in the direction of play.
Distance(s, q, p) == ((p - q) * s.direction) % N

\* nextActivePlayer: the first active player after q, q itself as the last.
NextActive(s, q) ==
  LET far(p) == IF p = q THEN N ELSE Distance(s, q, p)
  IN  CHOOSE p \in Active(s) : \A r \in Active(s) : far(p) <= far(r)

\* From q on, or from the next active player.
FirstActive(s, q) == IF q \in Active(s) THEN q ELSE NextActive(s, q)

\* Fault: waits for the owner of the field as well.
AllPassed(s, passed) == OnField(s) /\ Active(s) \subseteq passed

\* allOthersPassed, with the given players on record as having passed
AllOthersPassed(s, passed) == OnField(s) /\ Active(s) \ {s.by} \subseteq passed

\* How many active players come before p when the turn goes round from first.
Place(s, first, p) ==
  Cardinality({q \in Active(s) : Distance(s, first, q) < Distance(s, first, p)})

\* Fault: a skip is no pass.
PassedAsBefore(s, first, k) == s.passed

\* The passes on record once k turns have been skipped.
PassedAfter(s, first, k) ==
  IF OnField(s) THEN s.passed \cup {p \in Active(s) : Place(s, first, p) < k} ELSE s.passed

\* Fault: whoever gets the turn pays as well.
PaidAndMore(s, first, k, p) ==
  Cardinality({j \in 0 .. k : Place(s, first, p) + j * Cardinality(Active(s)) <= k})

\* How many of the first k turns were p's.
Paid(s, first, k, p) ==
  Cardinality({j \in 0 .. k : Place(s, first, p) + j * Cardinality(Active(s)) < k})

\* resolveNextTurn.  The turn goes round from first; a player who owes a skip
\* pays one each time and passes.  Each turn is that of the player whose place
\* is its number modulo the players, so that p would play in its turn number
\* Stop(p), the earliest of these being where the search ends, unless everybody
\* has passed before.
Resolved(s, first) ==
  LET Stop(p) == Place(s, first, p) + s.skip[p] * Cardinality(Active(s))
      lands   == Min({Stop(p) : p \in Active(s)})
      over    == {k \in 1 .. lands : AllOthersPassed(s, PassedAfter(s, first, k))}
      turns   == Min(over \cup {lands})
  IN  [ state |-> [s EXCEPT
           !.passed = PassedAfter(s, first, turns),
           !.turnCount = @ + turns,
           !.skip = [p \in Seats |-> @[p] - IF p \in Active(s)
                                            THEN Paid(s, first, turns, p) ELSE 0],
           !.turn = IF over = {} THEN CHOOSE p \in Active(s) : Stop(p) = lands ELSE @],
        fieldOver |-> over # {} ]

-----------------------------------------------------------------------------
(* Standings.                                                              *)

\* The standing that has exactly k free ones above it.
FreeStanding(taken, k) ==
  CHOOSE r \in Seats \ taken : Cardinality({q \in Seats \ taken : q < r}) = k

\* finishPlayer for several players: p takes the free standing with ahead[p]
\* free ones above it.
Finished(s, ahead) ==
  LET S      == DOMAIN ahead
      got(p) == FreeStanding(s.taken, ahead[p])
  IN  [s EXCEPT !.status = [p \in Seats |-> IF p \in S THEN "finished" ELSE s.status[p]],
                !.standing = [p \in Seats |-> IF p \in S THEN got(p) ELSE s.standing[p]],
                !.taken = s.taken \cup {got(p) : p \in S}]

\* Fault: forgets to look.
NobodyOut(s) == s

\* Whoever has no cards left, in the order of the seats.
OutOfCards(s) ==
  LET out == {p \in Active(s) : s.hand[p] = {}}
  IN  Finished(s, [p \in out |-> Cardinality({q \in out : q < p})])

\* finishGame: the last one gets what is left.
GameOver(s) ==
  LET last == IF Cardinality(Active(s)) = 1 THEN Active(s) ELSE {}
  IN  [Finished(s, [p \in last |-> 0]) EXCEPT !.phase = "finished", !.turn = NoPlayer]

\* forceFinishByHandCount: fewer cards rank higher.
RankedByHand(s) ==
  LET cards(p)    == Cardinality(s.hand[p])
      before(q, p) == cards(q) < cards(p) \/ (cards(q) = cards(p) /\ q < p)
  IN  Finished(s, [p \in Active(s) |-> Cardinality({q \in Active(s) : before(q, p)})])

\* The end of a game that is decided, or that has taken too long.
EndIfDecided(s) == IF Decided(s) THEN GameOver(s) ELSE s
EndIfDue(s) == IF s.turnCount > TurnLimit THEN GameOver(RankedByHand(s))
               ELSE EndIfDecided(s)

\* nearestAvailableStanding: the next one below, otherwise the next above.
NearestStanding(desired, used) ==
  LET below == {r \in Seats \ used : r >= desired}
  IN  IF below # {} THEN Min(below) ELSE Max(Seats \ used)

\* Fault: gives the rank asked for, whoever has it.
ForcedAsAsked(s, p, desired) ==
  LET ranked == [s EXCEPT !.standing[p] = desired,
                          !.taken = (s.taken \ {s.standing[p]}) \cup {desired}]
  IN  IF p \in Active(s)
      THEN [ranked EXCEPT !.status[p] = "retired", !.hand[p] = {},
                          !.excluded = @ \cup s.hand[p]]
      ELSE ranked

\* forceStanding: an active player is out of the game with the cards left;
\* anybody else gives the old standing back.
Forced(s, p, desired) ==
  LET got    == NearestStanding(desired, {s.standing[q] : q \in Seats \ {p}} \ {NoRank})
      ranked == [s EXCEPT !.standing[p] = got,
                          !.taken = (s.taken \ {s.standing[p]}) \cup {got}]
  IN  IF p \in Active(s)
      THEN [ranked EXCEPT !.status[p] = "retired", !.hand[p] = {},
                          !.excluded = @ \cup s.hand[p]]
      ELSE ranked

-----------------------------------------------------------------------------
(* Effects of rules.                                                       *)

\* The places cards can be moved between: hands, the field and the discard.
FieldZone   == 0
DiscardZone == -1
Zones       == Seats \cup {FieldZone, DiscardZone}

CardsIn(s, z) ==
  CASE z = FieldZone -> s.field [] z = DiscardZone -> s.discard [] OTHER -> s.hand[z]

\* takeFromZone: whoever takes the whole field leaves it empty, with the
\* passes on record.
TakenFrom(s, z, cs) ==
  CASE z = FieldZone   -> [s EXCEPT !.field = @ \ cs,
                                    !.by = IF s.field \subseteq cs THEN NoPlayer ELSE @]
    [] z = DiscardZone -> [s EXCEPT !.discard = @ \ cs]
    [] OTHER           -> [s EXCEPT !.hand[z] = @ \ cs]

\* appendToZone
GivenTo(s, z, cs) ==
  CASE z = FieldZone   -> [s EXCEPT !.field = @ \cup cs]
    [] z = DiscardZone -> [s EXCEPT !.discard = @ \cup cs]
    [] OTHER           -> [s EXCEPT !.hand[z] = @ \cup cs]

\* Fault: moves the cards chosen wherever they are by now.
MovedAsChosen(s, e) ==
  IF e.to = FieldZone /\ ~OnField(s) THEN s ELSE GivenTo(TakenFrom(s, e.from, e.cards), e.to, e.cards)

\* applyMoveCards: the cards were chosen when the hook was called; those that
\* have gone elsewhere stay there.
Moved(s, e) ==
  LET cs == e.cards \cap CardsIn(s, e.from)
  IN  IF cs = {} \/ (e.to = FieldZone /\ ~OnField(s)) THEN s
      ELSE GivenTo(TakenFrom(s, e.from, cs), e.to, cs)

\* What a rule may do in any hook, seeing the state s.
Effects(s) ==
  [type : {"skipTurns"}, player : Seats, count : 1 .. MaxSkip]
    \cup [type : {"reverseTurnOrder"}]
    \cup [type : {"forceRank"}, player : Seats, rank : Seats]
    \cup UNION {[type : {"moveCards"}, from : {z}, to : Zones \ {z},
                 cards : SUBSET CardsIn(s, z) \ {{}}] : z \in Zones}

\* conflictKeyOf: of two such effects only one is adopted.  Two moves of the same
\* card can both be, when they are of the same rule: the second finds it gone.
Conflict(e, f) ==
  /\ e.type = f.type
  /\ e.type = "reverseTurnOrder" \/ (e.type \in {"skipTurns", "forceRank"} /\ e.player = f.player)

\* Whether any rule still has effects to give is a matter of the bound.
Affordable(s, n) == s.effects + n <= MaxEffects

\* The adopted effects of all rules in the order they are applied: up to two.
Batches(s) ==
  {<<>>} \cup {<<e>> : e \in IF Affordable(s, 1) THEN Effects(s) ELSE {}}
         \cup (IF Affordable(s, 2)
               THEN {b \in Effects(s) \X Effects(s) : ~Conflict(b[1], b[2])} ELSE {})

Applied(s, e) ==
  CASE e.type = "skipTurns"        -> [s EXCEPT !.skip[e.player] = @ + e.count]
    [] e.type = "reverseTurnOrder" -> [s EXCEPT !.direction = -@]
    [] e.type = "forceRank"        -> Forced(s, e.player, e.rank)
    [] e.type = "moveCards"        -> Moved(s, e)

\* executeEffectHook
AfterEffects(s, batch) ==
  LET n    == Len(batch)
      one  == IF n >= 1 THEN Applied(s, batch[1]) ELSE s
      both == IF n = 2 THEN Applied(one, batch[2]) ELSE one
  IN  OutOfCards([both EXCEPT !.effects = @ + n])

Hooked(s) == {AfterEffects(s, batch) : batch \in Batches(s)}

\* The hook afterPlay may also ask for the field to be cleared later on.
HookedAfterPlay(s, clear) ==
  {r \in UNION {{[state |-> AfterEffects(s, batch), clear |-> clear],
                 [state |-> [AfterEffects(s, batch) EXCEPT !.effects = @ + 1],
                  clear |-> TRUE]} : batch \in Batches(s)} :
     /\ Affordable(r.state, 0)
     /\ r.clear => FieldMayVanish \/ OnField(r.state)}

-----------------------------------------------------------------------------
(* The rest of a turn.  Hooks may have any effect, so that each of these    *)
(* is the set of the states that can follow.                               *)

\* Fault: the lead goes on to the next player.
ClearedToNext(s) ==
  [s EXCEPT !.turn = NextActive(s, s.by), !.field = {}, !.by = NoPlayer,
            !.passed = {}, !.discard = @ \cup s.field]

\* clearField
Cleared(s) ==
  [s EXCEPT !.turn = FirstActive(s, s.by), !.field = {}, !.by = NoPlayer,
            !.passed = {}, !.discard = @ \cup s.field]

\* The turn of the leader, or of the next player who owes no skip.
Led(s) == IF Decided(s) THEN s ELSE Resolved(s, FirstActive(s, s.turn)).state

\* clearFieldWithHook: nothing at all happens when the field is empty.
ClearField(s) == IF OnField(s) THEN {Led(h) : h \in Hooked(Cleared(s))} ELSE {s}

\* Fault: one player too far.
AdvanceTurnTooFar(s, after) ==
  LET next == Resolved(s, NextActive(s, NextActive(s, after)))
  IN  IF next.fieldOver THEN ClearField(next.state) ELSE {next.state}

\* advanceTurn
AdvanceTurn(s, after) ==
  LET next == Resolved(s, NextActive(s, after))
  IN  IF next.fieldOver THEN ClearField(next.state) ELSE {next.state}

\* completeAfterPlay
CompletePlay(s, p, clear) ==
  IF s.turnCount > TurnLimit \/ Decided(s) THEN {EndIfDue(s)}
  ELSE IF clear THEN {EndIfDecided(t) : t \in ClearField(s)}
  ELSE {EndIfDue(t) : t \in AdvanceTurn(s, p)}

\* completeGameStart, with resolveOpeningTurn
CompleteStart(s) == IF Decided(s) THEN GameOver(s) ELSE Led(s)

-----------------------------------------------------------------------------
(* Choices of players.                                                     *)

\* Whom a rule may ask, nobody twice.
Requests ==
  UNION {{q \in [1 .. k -> Seats] : \A i, j \in 1 .. k : q[i] = q[j] => i = j} :
           k \in 1 .. MaxAsked}

Awaiting(s, c) == [s EXCEPT !.phase = "awaitingChoice", !.choice = c]

\* A request of players one after another, ahead of those c still asks.
OneByOne(s, c) ==
  IF ~Affordable(s, 1) THEN {}
  ELSE {Awaiting([s EXCEPT !.effects = @ + 1], [c EXCEPT !.asked = q \o c.asked]) :
          q \in Requests}

\* A request of several players at once.
AtOnce(s, c) ==
  {Awaiting(t.game, [t.game.choice EXCEPT !.together = TRUE, !.asksOn = t.on]) :
     t \in [game : {r \in OneByOne(s, c) : Len(r.choice.asked) > 1},
            on : IF AsksOn THEN BOOLEAN ELSE {FALSE}]}

\* The first request of a hook: the rule that asks first keeps the others
\* waiting until it is done.
Asking(s, hook, p) ==
  LET c == [NoChoice EXCEPT !.hook = hook, !.playedBy = p, !.rules = Rules - 1]
  IN  IF Rules = 0 THEN {} ELSE OneByOne(s, c) \cup AtOnce(s, c)

\* What the hook of c may do to s.
HookedFor(s, c) ==
  IF c.hook = "afterPlay" THEN HookedAfterPlay(s, c.clear)
  ELSE {[state |-> h, clear |-> FALSE] : h \in Hooked(s)}

Completed(s, c) ==
  IF c.hook = "afterPlay" THEN CompletePlay(s, c.playedBy, c.clear)
  ELSE {CompleteStart(s)}

\* On to the next player asked, the next rule that asks, or the effects of the
\* rules that do not.
Continued(s, c) ==
  IF c.asked # <<>> THEN {Awaiting(s, c)}
  ELSE IF c.rules = 0 THEN Completed(s, c)
  ELSE OneByOne(s, [c EXCEPT !.rules = @ - 1])
         \cup UNION {Completed(r.state, [c EXCEPT !.clear = r.clear]) : r \in HookedFor(s, c)}

\* reduceSingleRuleInput, reduceGameStartRuleInput: the rule answers the first
\* player asked with another request or with effects.
Served(s, c) ==
  LET rest == [c EXCEPT !.asked = Tail(@)]
  IN  OneByOne(s, rest)
        \cup UNION {Continued(r.state, [rest EXCEPT !.clear = r.clear]) : r \in HookedFor(s, rest)}

\* reduceSimultaneousRuleInput, with all answers there: one after another in the
\* order of the request, and only the last may be answered with a request.
ServedAtOnce(s, c) ==
  LET last == Len(c.asked)
      one  == [c EXCEPT !.asked = <<c.asked[last]>>, !.together = FALSE, !.answered = {}]
      after[k \in 0 .. last - 1] ==
        IF k = 0 THEN {[state |-> s, clear |-> FALSE]}
        ELSE UNION {HookedFor(r.state, [one EXCEPT !.clear = r.clear]) : r \in after[k - 1]}
  IN  IF c.asksOn THEN {}
      ELSE UNION {Served(r.state, [one EXCEPT !.clear = r.clear]) : r \in after[last - 1]}

-----------------------------------------------------------------------------
(* The game.                                                               *)

\* deal: round the table from any seat on.
Deals ==
  {hand \in {[p \in Seats |-> {c \in Cards : to[c] = p}] : to \in [Cards -> Seats]} :
     \E start \in Seats : \A p \in Seats :
       Cardinality(hand[p]) = (Cardinality(Cards) + N - 1 - ((p - start) % N)) \div N}

Fresh(hand) ==
  [ phase |-> "awaitingPlay", turn |-> CHOOSE p \in Seats : FirstCard \in hand[p],
    direction |-> 1, hand |-> hand, field |-> {}, by |-> NoPlayer, passed |-> {},
    discard |-> {}, excluded |-> {}, status |-> [p \in Seats |-> "active"],
    standing |-> [p \in Seats |-> NoRank], taken |-> {}, skip |-> [p \in Seats |-> 0],
    turnCount |-> 0, choice |-> NoChoice, effects |-> 0 ]

\* startGame
Init ==
  \E hand \in Deals :
    game \in Asking(Fresh(hand), "onGameStart", NoPlayer)
               \cup {CompleteStart(h) : h \in Hooked(Fresh(hand))}

\* reducePlay: p plays cs; whoever has no cards left is out before any rule acts.
Played(s, p, cs) ==
  LET laid == [s EXCEPT !.hand[p] = @ \ cs, !.field = cs, !.by = p, !.passed = {},
                        !.discard = @ \cup s.field, !.turnCount = @ + 1]
  IN  IF laid.hand[p] = {} THEN Finished(laid, [q \in {p} |-> 0]) ELSE laid

Play(p, cs) ==
  LET s == Played(game, p, cs)
  IN  /\ game.phase = "awaitingPlay" /\ game.turn = p
      /\ cs # {}
      /\ game' \in Asking(s, "afterPlay", p)
           \cup UNION {CompletePlay(r.state, p, r.clear) : r \in HookedAfterPlay(s, FALSE)}

\* reducePass
AfterPass(s, p) ==
  IF Decided(s) THEN {GameOver(s)}
  ELSE {EndIfDue(t) : t \in IF AllOthersPassed(s, s.passed) THEN ClearField(s)
                                                            ELSE AdvanceTurn(s, p)}

Pass(p) ==
  /\ game.phase = "awaitingPlay" /\ game.turn = p
  /\ OnField(game)
  /\ game' \in UNION {AfterPass(h, p) :
                        h \in Hooked([game EXCEPT !.passed = @ \cup {p}, !.turnCount = @ + 1])}

\* reduceRuleInput
Answer(p) ==
  LET c == game.choice
      s == [game EXCEPT !.phase = "awaitingPlay", !.choice = NoChoice]
  IN  /\ game.phase = "awaitingChoice"
      /\ \/ /\ ~c.together /\ p = Head(c.asked)
            /\ game' \in Served(s, c)
         \/ /\ c.together /\ p \in Range(c.asked) \ c.answered
            /\ c.answered \cup {p} # Range(c.asked)
            /\ game' = [game EXCEPT !.choice.answered = @ \cup {p}]
         \/ /\ c.together /\ c.answered \cup {p} = Range(c.asked)
            /\ game' \in ServedAtOnce(s, c)

\* A game that is over stays as it is.
Over == game.phase = "finished" /\ UNCHANGED game

Next ==
  \/ \E p \in Seats : \/ \E cs \in SUBSET game.hand[p] : Play(p, cs)
                      \/ Pass(p)
                      \/ Answer(p)
  \/ Over

Spec == Init /\ [][Next]_game

-----------------------------------------------------------------------------
(* Properties.                                                             *)

\* Every part of the state has its type.
TypeOK == game \in GameState

\* No card is lost or doubled, whatever rules move and whoever leaves the game.
CardsConserved ==
  /\ \A c \in Cards :
       LET piles == <<game.field, game.discard, game.excluded>>
       IN  Cardinality({p \in Seats : c \in game.hand[p]})
             + Cardinality({i \in DOMAIN piles : c \in piles[i]}) = 1
  /\ game.field = {} <=> ~OnField(game)

\* Exactly those out of the game have a standing, no two the same, and the
\* record of standings taken is the standings held: the engine's order of
\* finishing survives finishing, ranks forced by rules and the turn limit.
StandingsFit ==
  /\ \A p \in Seats : p \in Active(game) <=> game.standing[p] = NoRank
  /\ \A p, q \in Seats \ Active(game) : game.standing[p] = game.standing[q] => p = q
  /\ game.taken = {game.standing[p] : p \in Seats \ Active(game)}

\* Whoever's turn it is can move: still in the game, owing no skip, with cards
\* left, and the game is not decided.
TurnHolderCanMove ==
  game.phase = "awaitingPlay" =>
    /\ game.turn \in Active(game) /\ ~Decided(game)
    /\ game.skip[game.turn] = 0 /\ game.hand[game.turn] # {}

\* A field on the table is still contested: somebody other than its owner has
\* not passed on it, skips counted as passes.
FieldIsContested ==
  game.phase = "awaitingPlay" /\ OnField(game) =>
    \E p \in Active(game) \ {game.by} : p \notin game.passed

\* The loop of resolveNextTurn: the candidate pays a skip and passes, and the
\* next active player is the candidate.
Paying(t) ==
  LET paid == [t.state EXCEPT !.skip[t.candidate] = @ - 1, !.turnCount = @ + 1,
                 !.passed = IF OnField(t.state) THEN @ \cup {t.candidate} ELSE @]
  IN  [state |-> paid, candidate |-> NextActive(paid, t.candidate)]

\* Its first n turns.
Loop(s, first, n) ==
  LET at[k \in 0 .. n] ==
        IF k = 0 THEN [state |-> s, candidate |-> first] ELSE Paying(at[k - 1])
  IN  at

\* Resolved is what the loop ends with: it goes on while candidates owe skips and
\* not all have passed, and no turn longer.
ResolvedAsLoop(s, first) ==
  LET r == Resolved(s, first)
      n == r.state.turnCount - s.turnCount
      loop == Loop(s, first, n)
      over(k) == k > 0 /\ AllOthersPassed(loop[k].state, loop[k].state.passed)
      owes(k) == loop[k].state.skip[loop[k].candidate] > 0
  IN  /\ \A k \in 0 .. n - 1 : ~over(k) /\ owes(k)
      /\ r.fieldOver = over(n)
      /\ IF over(n) THEN r.state = loop[n].state
         ELSE ~owes(n) /\ r.state = [loop[n].state EXCEPT !.turn = loop[n].candidate]

\* The closed form of the resolution of skips agrees with the code's loop, from
\* whichever player the turn goes to, and with skips for everybody on top.
SkipsResolveAsLoop ==
  game.phase = "awaitingPlay" =>
    \A p \in Active(game), more \in 0 .. MaxSkip :
      ResolvedAsLoop([game EXCEPT !.skip = [q \in Seats |-> @[q] + more]], p)

\* Whoever is out of the game never gets the turn (E01 BR-10).
TurnIsInTheGame == game.phase = "awaitingPlay" => game.turn \in Active(game)

\* Whoever is asked and has not answered can answer, and the engine takes it:
\* answers to one request of several players are applied when all are there
\* (rules/README.md), whatever the rule makes of them.
AnswersAreTaken ==
  game.phase = "awaitingChoice" =>
    \A p \in IF game.choice.together THEN Range(game.choice.asked) \ game.choice.answered
                                     ELSE {Head(game.choice.asked)} : ENABLED Answer(p)

\* The seats a turn goes through, in the direction of play, from seat q until it
\* reaches seat p; all of them if it comes back to q.
Between(q, p) ==
  {r \in Seats : \E i \in 1 .. N - 1 :
     /\ r = 1 + ((q - 1 + i * game.direction) % N)
     /\ \A j \in 1 .. i : p # 1 + ((q - 1 + j * game.direction) % N)}

SatOut(p) == game'.status[p] # "active" \/ game'.skip[p] < game.skip[p]

\* Nobody is passed over: in a turn no rule meddles with, whoever sits between
\* the player who moved and the next one on the same field is out of the game
\* or has paid a skip.
NobodyIsPassedOver ==
  [][game.phase = "awaitingPlay" /\ game'.phase = "awaitingPlay"
       /\ game'.effects = game.effects /\ OnField(game')
     => \A p \in Between(game.turn, game'.turn) : SatOut(p)]_game

\* When everybody has passed, the lead is of the player whose field it was, or
\* of the next one in turn who is in the game and owes no skip.
LeadIsTheOwners ==
  [][game.phase = "awaitingPlay" /\ game'.phase = "awaitingPlay"
       /\ game'.effects = game.effects /\ OnField(game) /\ ~OnField(game')
     => game'.turn = game.by \/
          (SatOut(game.by) /\ \A p \in Between(game.by, game'.turn) : SatOut(p))]_game
=============================================================================
