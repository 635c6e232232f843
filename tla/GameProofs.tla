------------------------------ MODULE GameProofs ------------------------------
(***************************************************************************)
(* Safety of Game.tla, proved for every number of players, every deck and  *)
(* every bound.                                                            *)
(***************************************************************************)
EXTENDS Game, FiniteSetTheorems, WellFoundedInduction, TLAPS

-----------------------------------------------------------------------------
(* Numbers and finite sets.                                                *)

\* Among things counted by f one has the least count.
LEMMA LeastExists ==
  ASSUME NEW S, S # {}, NEW f, \A x \in S : f[x] \in Nat
  PROVE  \E x \in S : \A y \in S : f[x] <= f[y]
<1> DEFINE upTo(x) == 0 .. f[x]
           T == {upTo(x) : x \in S}
<1>1. T \subseteq FiniteSubsetsOf(Nat) /\ T # {}
  <2>1. \A x \in S : IsFiniteSet(0 .. f[x]) /\ 0 .. f[x] \subseteq Nat
    BY FS_Interval
  <2>2. QED
    BY <2>1 DEF FiniteSubsetsOf
<1>2. PICK t \in T : \A k \in T : <<k, t>> \notin StrictSubsetOrdering(Nat)
  BY <1>1, FS_StrictSubsetOrderingWellFounded, WFMin
<1>3. PICK x \in S : t = 0 .. f[x]
  BY <1>2
<1>4. \A y \in S : f[x] <= f[y]
  <2> SUFFICES ASSUME NEW y \in S, f[y] < f[x] PROVE FALSE
    OBVIOUS
  <2>1. 0 .. f[y] \in SUBSET Nat /\ 0 .. f[x] \in SUBSET Nat
    OBVIOUS
  <2>2. 0 .. f[y] \subseteq 0 .. f[x] /\ 0 .. f[y] # 0 .. f[x]
    OBVIOUS
  <2>3. <<0 .. f[y], 0 .. f[x]>> \in StrictSubsetOrdering(Nat)
    BY <2>1, <2>2 DEF StrictSubsetOrdering
  <2>4. QED
    BY <1>2, <1>3, <2>3
<1>5. QED
  BY <1>3, <1>4

LEMMA MinIs ==
  ASSUME NEW S \in SUBSET Nat, S # {}
  PROVE  Min(S) \in S /\ \A x \in S : Min(S) <= x
<1> DEFINE f == [x \in S |-> x]
<1>1. \E x \in S : \A y \in S : f[x] <= f[y]
  BY LeastExists
<1>2. QED
  BY <1>1 DEF Min

LEMMA MaxIs ==
  ASSUME NEW n \in Nat, NEW S \in SUBSET (1 .. n), S # {}
  PROVE  Max(S) \in S /\ \A x \in S : Max(S) >= x
<1> DEFINE f == [x \in S |-> n - x]
<1>1. \A x \in S : f[x] \in Nat
  OBVIOUS
<1>2. PICK x \in S : \A y \in S : f[x] <= f[y]
  BY <1>1, LeastExists
<1>3. \A y \in S : x >= y
  BY <1>2
<1>4. QED
  BY <1>3 DEF Max

\* In a strict order of a finite set nobody has as many before him as another.
LEMMA RanksDiffer ==
  ASSUME NEW S, IsFiniteSet(S), NEW before \in [S -> SUBSET S],
         \A p \in S : p \notin before[p],
         \A p, q \in S : q \in before[p] => before[q] \subseteq before[p],
         \A p, q \in S : p # q => p \in before[q] \/ q \in before[p]
  PROVE  /\ \A p \in S : Cardinality(before[p]) \in 0 .. Cardinality(S) - 1
         /\ \A p, q \in S : Cardinality(before[p]) = Cardinality(before[q]) => p = q
<1>1. \A A \in SUBSET S, B \in SUBSET S :
        A \subseteq B /\ A # B => /\ Cardinality(A) \in Nat /\ Cardinality(B) \in Nat
                                  /\ Cardinality(A) < Cardinality(B)
  <2> SUFFICES ASSUME NEW A \in SUBSET S, NEW B \in SUBSET S, A \subseteq B, A # B
               PROVE  /\ Cardinality(A) \in Nat /\ Cardinality(B) \in Nat
                      /\ Cardinality(A) < Cardinality(B)
    OBVIOUS
  <2>1. IsFiniteSet(B) /\ Cardinality(B) \in Nat
    BY FS_Subset, FS_CardinalityType
  <2>2. IsFiniteSet(A) /\ Cardinality(A) \in Nat /\ Cardinality(A) <= Cardinality(B)
    BY <2>1, FS_Subset, FS_CardinalityType
  <2>3. Cardinality(A) # Cardinality(B)
    BY <2>1, FS_Subset
  <2>4. QED
    BY <2>1, <2>2, <2>3
<1>2. \A p \in S : Cardinality(before[p]) \in 0 .. Cardinality(S) - 1
  BY <1>1
<1>3. ASSUME NEW p \in S, NEW q \in S, Cardinality(before[p]) = Cardinality(before[q]), p # q
      PROVE  FALSE
  <2>1. CASE p \in before[q]
    <3>1. before[p] \subseteq before[q] /\ before[p] # before[q]
      BY <2>1
    <3>2. QED
      BY <3>1, <1>1, <1>3
  <2>2. CASE q \in before[p]
    <3>1. before[q] \subseteq before[p] /\ before[p] # before[q]
      BY <2>2
    <3>2. QED
      BY <3>1, <1>1, <1>3
  <2>3. QED
    BY <2>1, <2>2, <1>3
<1>4. QED
  BY <1>2, <1>3

\* The elements of T below p.
Below(T, p) == {q \in T : q < p}

\* In a finite set of numbers, how many are smaller tells which one it is.
LEMMA SmallerRanks ==
  ASSUME NEW T \in SUBSET Nat, IsFiniteSet(T)
  PROVE  /\ \A p \in T : Cardinality(Below(T, p)) \in 0 .. Cardinality(T) - 1
         /\ \A p, q \in T : Cardinality(Below(T, p)) = Cardinality(Below(T, q)) => p = q
<1> DEFINE before == [p \in T |-> Below(T, p)]
<1>1. \A p, q \in T : q \in before[p] <=> q < p
  BY DEF Below
<1>2. before \in [T -> SUBSET T] /\ \A p \in T : p \notin before[p]
  BY <1>1 DEF Below
<1>3. ASSUME NEW p \in T, NEW q \in T, q < p
      PROVE  Below(T, q) \subseteq Below(T, p)
  <2> SUFFICES ASSUME NEW r \in T, r < q PROVE r < p
    BY DEF Below
  <2>1. r \in Nat /\ q \in Nat /\ p \in Nat
    OBVIOUS
  <2>2. QED
    BY <1>3, <2>1
<1>4. \A p, q \in T : p # q => p < q \/ q < p
  OBVIOUS
<1>5. /\ \A p, q \in T : q \in before[p] => before[q] \subseteq before[p]
      /\ \A p, q \in T : p # q => p \in before[q] \/ q \in before[p]
  BY <1>1, <1>3, <1>4
<1>6. /\ \A p \in T : Cardinality(before[p]) \in 0 .. Cardinality(T) - 1
      /\ \A p, q \in T : Cardinality(before[p]) = Cardinality(before[q]) => p = q
  <2> HIDE DEF before
  <2>1. QED
    BY <1>2, <1>5, RanksDiffer
<1>7. QED
  BY <1>6

\* A finite set of numbers has, for each k below its size, an element with k
\* elements below it.
LEMMA ElementAt ==
  ASSUME NEW T \in SUBSET Nat, IsFiniteSet(T), NEW k \in 0 .. Cardinality(T) - 1
  PROVE  \E r \in T : Cardinality(Below(T, r)) = k
<1> DEFINE n == Cardinality(T)
           at == [r \in T |-> Cardinality(Below(T, r))]
<1>1. n \in Nat
  BY FS_CardinalityType
<1>2. at \in Injection(T, 0 .. n - 1)
  <2>1. /\ \A p \in T : at[p] \in 0 .. n - 1
        /\ \A p, q \in T : at[p] = at[q] => p = q
    BY SmallerRanks
  <2>2. QED
    BY <2>1 DEF Injection, IsInjective
<1>3. IsFiniteSet(0 .. n - 1) /\ Cardinality(0 .. n - 1) = n
  BY <1>1, FS_Interval
<1>4. at \in Surjection(T, 0 .. n - 1)
  <2> HIDE DEF at
  <2>1. QED
    BY <1>2, <1>3, FS_Injection
<1>5. QED
  BY <1>4 DEF Surjection

-----------------------------------------------------------------------------
(* The inductive invariant.                                                *)

\* Where a card can be.
ExcludedZone == -2
Places       == Zones \cup {ExcludedZone}

\* Each card is in the one place that where gives for it.
LaidOut(s, where) ==
  /\ \A p \in Seats : s.hand[p] = {c \in Cards : where[c] = p}
  /\ s.field = {c \in Cards : where[c] = FieldZone}
  /\ s.discard = {c \in Cards : where[c] = DiscardZone}
  /\ s.excluded = {c \in Cards : where[c] = ExcludedZone}

CardsFit(s) ==
  /\ \E where \in [Cards -> Places] : LaidOut(s, where)
  /\ s.field = {} <=> ~OnField(s)

\* StandingsFit, of any state.
Ranked(s) ==
  /\ \A p \in Seats : p \in Active(s) <=> s.standing[p] = NoRank
  /\ \A p, q \in Seats \ Active(s) : s.standing[p] = s.standing[q] => p = q
  /\ s.taken = {s.standing[p] : p \in Seats \ Active(s)}

Sound(s) == s \in GameState /\ CardsFit(s) /\ Ranked(s)

\* Whoever is in the game has cards.
Held(s) == \A p \in Active(s) : s.hand[p] # {}

Contested(s) == OnField(s) => \E p \in Active(s) \ {s.by} : p \notin s.passed

\* Somebody is to move.
ToMove(s) ==
  /\ s.phase = "awaitingPlay" /\ ~Decided(s) /\ Held(s)
  /\ s.turn \in Active(s) /\ s.skip[s.turn] = 0 /\ Contested(s)

\* What the rest of a hook asking the choices c relies on.
Answerable(s, c) ==
  /\ s.passed = {} /\ Held(s)
  /\ c.hook \in {"afterPlay", "onGameStart"}
  /\ c.hook = "onGameStart" => ~OnField(s)
  /\ c.clear => OnField(s)

\* Somebody is asked.
ToAnswer(s) ==
  s.phase = "awaitingChoice" /\ s.choice.asked # <<>> /\ Answerable(s, s.choice)

\* The state between two inputs.
Settled(s) == Sound(s) /\ (s.phase = "finished" \/ ToMove(s) \/ ToAnswer(s))

-----------------------------------------------------------------------------
(* Players and seats.                                                      *)

LEMMA SeatsFinite ==
  /\ N \in Nat /\ N >= 2 /\ Seats \in SUBSET Nat
  /\ IsFiniteSet(Seats) /\ Cardinality(Seats) = N
BY PlayerAssumption, FS_Interval DEF Seats

LEMMA SeatsAreNumbers == \A p \in Seats \cup {NoPlayer} : p \in Int
BY PlayerAssumption DEF Seats, NoPlayer

LEMMA ActiveFinite ==
  ASSUME NEW s
  PROVE  /\ Active(s) \in SUBSET Seats /\ IsFiniteSet(Active(s))
         /\ Cardinality(Active(s)) \in Nat
         /\ Cardinality(Active(s)) = 0 <=> Active(s) = {}
         /\ ~Decided(s) => /\ Active(s) # {}
                           /\ \A p \in Active(s) : Active(s) \ {p} # {}
<1>1. Active(s) \in SUBSET Seats
  BY DEF Active
<1>2. IsFiniteSet(Active(s)) /\ Cardinality(Active(s)) \in Nat
  BY <1>1, SeatsFinite, FS_Subset, FS_CardinalityType
<1>3. Cardinality(Active(s)) = 0 <=> Active(s) = {}
  BY <1>2, FS_EmptySet
<1>4. ASSUME NEW p \in Active(s), Active(s) \ {p} = {}
      PROVE  Cardinality(Active(s)) = 1
  BY <1>4, FS_Singleton, Active(s) = {p}
<1>5. QED
  BY <1>1, <1>2, <1>3, <1>4 DEF Decided

\* As many standings are free as players are in the game.
LEMMA FreeStandings ==
  ASSUME NEW s, s \in GameState, Ranked(s)
  PROVE  /\ IsFiniteSet(Seats \ s.taken)
         /\ Cardinality(Seats \ s.taken) = Cardinality(Active(s))
<1> DEFINE Out == Seats \ Active(s)
           rank == [p \in Out |-> s.standing[p]]
<1>1. s.taken \in SUBSET Seats /\ s.taken = {rank[p] : p \in Out}
  BY DEF Ranked, GameState
<1>2. rank \in Bijection(Out, s.taken)
  BY DEF Ranked, Bijection, Injection, Surjection, IsInjective
<1>3. IsFiniteSet(Out) /\ Cardinality(Out) = N - Cardinality(Active(s))
  <2>1. Seats \cap Active(s) = Active(s)
    BY ActiveFinite
  <2>2. QED
    BY <2>1, SeatsFinite, FS_Difference
<1>4. Cardinality(s.taken) = Cardinality(Out)
  BY <1>2, <1>3, FS_Bijection DEF ExistsBijection
<1>5. IsFiniteSet(Seats \ s.taken) /\ Cardinality(Seats \ s.taken) = N - Cardinality(s.taken)
  <2>1. Seats \cap s.taken = s.taken
    BY <1>1
  <2>2. QED
    BY <2>1, SeatsFinite, FS_Difference
<1>6. QED
  BY <1>3, <1>4, <1>5, ActiveFinite, SeatsFinite

LEMMA FreeStandingIs ==
  ASSUME NEW taken \in SUBSET Seats, NEW k \in 0 .. Cardinality(Seats \ taken) - 1
  PROVE  /\ FreeStanding(taken, k) \in Seats \ taken
         /\ Cardinality(Below(Seats \ taken, FreeStanding(taken, k))) = k
<1>1. Seats \ taken \in SUBSET Nat /\ IsFiniteSet(Seats \ taken)
  BY SeatsFinite, FS_Difference
<1>2. \E r \in Seats \ taken : Cardinality(Below(Seats \ taken, r)) = k
  BY <1>1, ElementAt
<1>3. QED
  BY <1>2 DEF FreeStanding, Below

-----------------------------------------------------------------------------
(* Standings.                                                              *)

\* What finishing players leaves as it is.
SameTable(s, t) ==
  /\ t.phase = s.phase /\ t.turn = s.turn /\ t.direction = s.direction
  /\ t.hand = s.hand /\ t.field = s.field /\ t.by = s.by /\ t.passed = s.passed
  /\ t.discard = s.discard /\ t.excluded = s.excluded /\ t.skip = s.skip
  /\ t.turnCount = s.turnCount /\ t.choice = s.choice /\ t.effects = s.effects

LEMMA SameCardsFit ==
  ASSUME NEW s, CardsFit(s), NEW t,
         t.hand = s.hand, t.field = s.field, t.by = s.by, t.discard = s.discard,
         t.excluded = s.excluded
  PROVE  CardsFit(t)
BY DEF CardsFit, LaidOut, OnField

LEMMA SameRanked ==
  ASSUME NEW s, Ranked(s), NEW t,
         t.status = s.status, t.standing = s.standing, t.taken = s.taken
  PROVE  Ranked(t) /\ Active(t) = Active(s)
BY DEF Ranked, Active

\* Players finish with standings of their own, the others keep theirs.
LEMMA FinishedSound ==
  ASSUME NEW s, Sound(s), NEW S \in SUBSET Active(s),
         NEW ahead \in [S -> 0 .. Cardinality(Active(s)) - 1],
         \A p, q \in S : ahead[p] = ahead[q] => p = q
  PROVE  /\ Sound(Finished(s, ahead)) /\ SameTable(s, Finished(s, ahead))
         /\ Active(Finished(s, ahead)) = Active(s) \ S
<1> DEFINE t == Finished(s, ahead)
           got == [p \in S |-> FreeStanding(s.taken, ahead[p])]
<1>1. s.taken \in SUBSET Seats /\ S \in SUBSET Seats
  BY ActiveFinite DEF Sound, GameState
<1>2. /\ \A p \in S : got[p] \in Seats \ s.taken
      /\ \A p, q \in S : got[p] = got[q] => p = q
  <2>1. \A p \in S : ahead[p] \in 0 .. Cardinality(Seats \ s.taken) - 1
    BY FreeStandings DEF Sound
  <2>2. \A p \in S :
          /\ got[p] \in Seats \ s.taken
          /\ Cardinality(Below(Seats \ s.taken, got[p])) = ahead[p]
    BY <1>1, <2>1, FreeStandingIs
  <2>3. QED
    BY <2>2
<1>3. /\ t.status = [p \in Seats |-> IF p \in S THEN "finished" ELSE s.status[p]]
      /\ t.standing = [p \in Seats |-> IF p \in S THEN got[p] ELSE s.standing[p]]
      /\ t.taken = s.taken \cup {got[p] : p \in S}
      /\ SameTable(s, t)
  BY DEF Sound, GameState, Finished, SameTable
<1>4. t \in GameState
  <2>1. /\ t.status \in [Seats -> {"active", "finished", "retired"}]
        /\ t.standing \in [Seats -> Seats \cup {NoRank}]
        /\ t.taken \in SUBSET Seats
    BY <1>1, <1>2, <1>3 DEF Sound, GameState
  <2>2. t = [s EXCEPT !.status = t.status, !.standing = t.standing, !.taken = t.taken]
    BY <1>3 DEF Sound, GameState, Finished
  <2>3. QED
    BY <2>1, <2>2 DEF Sound, GameState
<1>5. Active(t) = Active(s) \ S
  BY <1>1, <1>3 DEF Active
<1>6. CardsFit(t)
  BY <1>3 DEF Sound, CardsFit, LaidOut, OnField, SameTable
<1>7. Ranked(t)
  <2> HIDE DEF t, got
  <2>1. /\ \A p \in S : t.standing[p] = got[p] /\ p \notin Active(t)
        /\ \A p \in Seats \ S : t.standing[p] = s.standing[p] /\ (p \in Active(t) <=> p \in Active(s))
    BY <1>1, <1>3, <1>5
  <2>2. \A p \in Seats \ Active(s) : s.standing[p] \in s.taken
    BY DEF Sound, Ranked
  <2>3. \A p \in Seats : p \in Active(t) <=> t.standing[p] = NoRank
    BY <1>2, <2>1, SeatsFinite DEF Sound, Ranked, NoRank, Seats
  <2>4. \A p, q \in Seats \ Active(t) : t.standing[p] = t.standing[q] => p = q
    BY <1>2, <2>1, <2>2 DEF Sound, Ranked
  <2>5. t.taken = {t.standing[p] : p \in Seats \ Active(t)}
    <3>1. Seats \ Active(t) = (Seats \ Active(s)) \cup S
      BY <1>1, <1>5
    <3>2. QED
      BY <1>1, <1>3, <2>1, <3>1 DEF Sound, Ranked
  <2>6. QED
    BY <2>3, <2>4, <2>5 DEF Ranked
<1>8. QED
  BY <1>3, <1>4, <1>5, <1>6, <1>7 DEF Sound

\* Whoever has no cards left is out, everybody else is as before.
LEMMA OutOfCardsSound ==
  ASSUME NEW s, Sound(s)
  PROVE  /\ Sound(OutOfCards(s)) /\ SameTable(s, OutOfCards(s)) /\ Held(OutOfCards(s))
         /\ Held(s) => Active(OutOfCards(s)) = Active(s)
<1> DEFINE out == {p \in Active(s) : s.hand[p] = {}}
           ahead == [p \in out |-> Cardinality(Below(out, p))]
<1>1. out \in SUBSET Active(s) /\ out \in SUBSET Nat
  BY ActiveFinite, SeatsFinite
<1>2. IsFiniteSet(out) /\ Cardinality(out) <= Cardinality(Active(s)) /\ Cardinality(out) \in Nat
  BY <1>1, ActiveFinite, FS_Subset, FS_CardinalityType
<1>3. /\ \A p \in out : ahead[p] \in 0 .. Cardinality(out) - 1
      /\ \A p, q \in out : ahead[p] = ahead[q] => p = q
  <2> HIDE DEF out
  <2>1. QED
    BY <1>1, <1>2, SmallerRanks
<1>4. ahead \in [out -> 0 .. Cardinality(Active(s)) - 1]
  <2>1. \A p \in out : ahead[p] \in 0 .. Cardinality(Active(s)) - 1
    <3> HIDE DEF out, ahead
    <3>1. QED
      BY <1>2, <1>3, ActiveFinite
  <2>2. ahead = [p \in out |-> ahead[p]]
    OBVIOUS
  <2>3. QED
    BY <2>1, <2>2, Zenon
<1>5. OutOfCards(s) = Finished(s, ahead)
  BY DEF OutOfCards, Below
<1>6. /\ Sound(OutOfCards(s)) /\ SameTable(s, OutOfCards(s))
      /\ Active(OutOfCards(s)) = Active(s) \ out
  <2> HIDE DEF out, ahead
  <2>1. QED
    BY <1>1, <1>3, <1>4, <1>5, FinishedSound
<1>7. QED
  BY <1>6 DEF Held, SameTable

\* The game is over with everybody ranked as before, and the last one too.
LEMMA GameOverSound ==
  ASSUME NEW s, Sound(s)
  PROVE  Settled(GameOver(s)) /\ GameOver(s).phase = "finished"
<1> DEFINE last == IF Cardinality(Active(s)) = 1 THEN Active(s) ELSE {}
           ahead == [p \in last |-> 0]
           t == Finished(s, ahead)
<1>1. last \in SUBSET Active(s) /\ \A p, q \in last : p = q
  BY ActiveFinite, FS_Singleton
<1>2. ahead \in [last -> 0 .. Cardinality(Active(s)) - 1]
  BY ActiveFinite
<1>3. Sound(t)
  <2> HIDE DEF last, ahead
  <2>1. QED
    BY <1>1, <1>2, FinishedSound
<1>4. GameOver(s) = [t EXCEPT !.phase = "finished", !.turn = NoPlayer]
  BY DEF GameOver
<1>5. Sound(GameOver(s)) /\ GameOver(s).phase = "finished"
  <2> HIDE DEF t
  <2> DEFINE g == GameOver(s)
  <2>1. /\ g \in GameState /\ g.phase = "finished"
        /\ g.hand = t.hand /\ g.field = t.field /\ g.by = t.by /\ g.discard = t.discard
        /\ g.excluded = t.excluded /\ g.status = t.status /\ g.standing = t.standing
        /\ g.taken = t.taken
    BY <1>3, <1>4 DEF Sound, GameState
  <2>2. CardsFit(g) /\ Ranked(g)
    BY <1>3, <2>1, SameCardsFit, SameRanked DEF Sound
  <2>3. QED
    BY <2>1, <2>2 DEF Sound
<1>6. QED
  BY <1>5 DEF Settled

\* At the turn limit whoever has fewer cards ranks higher.
LEMMA RankedByHandSound ==
  ASSUME NEW s, Sound(s)
  PROVE  Sound(RankedByHand(s)) /\ Decided(RankedByHand(s))
<1> DEFINE A == Active(s)
           cards == [p \in A |-> Cardinality(s.hand[p])]
           before == [p \in A |-> {q \in A : cards[q] < cards[p] \/ (cards[q] = cards[p] /\ q < p)}]
           ahead == [p \in A |-> Cardinality(before[p])]
<1>1. A \in SUBSET Nat /\ A \in SUBSET Seats /\ IsFiniteSet(A)
  BY ActiveFinite, SeatsFinite
<1>2. \A p \in A : cards[p] \in Nat
  <2>1. \A p \in Seats : s.hand[p] \in SUBSET Cards
    BY DEF Sound, GameState
  <2>2. QED
    BY <1>1, <2>1, DeckAssumption, FS_Subset, FS_CardinalityType
<1>3. /\ \A p \in A : ahead[p] \in 0 .. Cardinality(A) - 1
      /\ \A p, q \in A : ahead[p] = ahead[q] => p = q
  <2> HIDE DEF A, cards
  <2>1. \A p, q \in A :
          q \in before[p] <=> cards[q] < cards[p] \/ (cards[q] = cards[p] /\ q < p)
    OBVIOUS
  <2>2. before \in [A -> SUBSET A]
    OBVIOUS
  <2>3. \A p \in A : p \in Nat
    BY <1>1
  <2> HIDE DEF before
  <2>4. \A p \in A : p \notin before[p]
    BY <1>2, <2>1, <2>3
  <2>5. \A p, q, r \in A : q \in before[p] /\ r \in before[q] => r \in before[p]
    BY <1>2, <2>1, <2>3
  <2>6. \A p, q \in A : q \in before[p] => before[q] \subseteq before[p]
    BY <2>2, <2>5
  <2>7. \A p, q \in A : p # q => p \in before[q] \/ q \in before[p]
    BY <1>2, <2>1, <2>3
  <2>8. QED
    BY <1>1, <2>2, <2>4, <2>6, <2>7, RanksDiffer
<1>4. ahead \in [A -> 0 .. Cardinality(Active(s)) - 1]
  <2>1. ahead = [p \in A |-> ahead[p]]
    OBVIOUS
  <2>2. QED
    BY <1>3, <2>1, Zenon
<1>5. RankedByHand(s) = Finished(s, ahead)
  BY DEF RankedByHand
<1>6. Sound(RankedByHand(s)) /\ Active(RankedByHand(s)) = Active(s) \ A
  <2>1. A \in SUBSET Active(s)
    OBVIOUS
  <2> HIDE DEF A, ahead
  <2>2. QED
    BY <1>3, <1>4, <1>5, <2>1, FinishedSound
<1>7. QED
  BY <1>6, FS_EmptySet DEF Decided

LEMMA EndIfDecidedSettles ==
  ASSUME NEW s, Sound(s), Decided(s) \/ ToMove(s)
  PROVE  Settled(EndIfDecided(s))
BY GameOverSound DEF EndIfDecided, Settled

LEMMA EndIfDueSettles ==
  ASSUME NEW s, Sound(s), s.turnCount > TurnLimit \/ Decided(s) \/ ToMove(s)
  PROVE  Settled(EndIfDue(s))
<1>1. CASE s.turnCount > TurnLimit
  BY <1>1, RankedByHandSound, GameOverSound DEF EndIfDue
<1>2. CASE ~(s.turnCount > TurnLimit)
  BY <1>2, EndIfDecidedSettles DEF EndIfDue
<1>3. QED
  BY <1>1, <1>2

\* A game that goes on has not been touched.
LEMMA OnlyTheEnd ==
  ASSUME NEW s, Sound(s)
  PROVE  /\ EndIfDecided(s).phase = "finished" \/ EndIfDecided(s) = s
         /\ EndIfDue(s).phase = "finished" \/ EndIfDue(s) = s
         /\ s.turnCount > TurnLimit \/ Decided(s) => EndIfDue(s).phase = "finished"
<1>1. Decided(s) => EndIfDecided(s).phase = "finished"
  BY GameOverSound DEF EndIfDecided
<1>2. s.turnCount > TurnLimit => EndIfDue(s).phase = "finished"
  BY RankedByHandSound, GameOverSound DEF EndIfDue
<1>3. QED
  BY <1>1, <1>2 DEF EndIfDecided, EndIfDue

-----------------------------------------------------------------------------
(* Effects of rules.                                                       *)

\* What effects leave as it is; they can take the field away, never bring one.
Untouched(s, t) ==
  /\ t.phase = s.phase /\ t.turn = s.turn /\ t.passed = s.passed
  /\ t.turnCount = s.turnCount /\ t.choice = s.choice
  /\ OnField(t) => OnField(s) /\ t.by = s.by

LEMMA ZonesDiffer ==
  /\ FieldZone \notin Seats /\ DiscardZone \notin Seats /\ ExcludedZone \notin Seats
  /\ NoPlayer \notin Seats /\ NoRank \notin Seats
  /\ FieldZone # DiscardZone /\ FieldZone # ExcludedZone /\ DiscardZone # ExcludedZone
  /\ Zones = Seats \cup {FieldZone, DiscardZone} /\ Places = Zones \cup {ExcludedZone}
BY SeatsFinite DEF Seats, FieldZone, DiscardZone, ExcludedZone, NoPlayer, NoRank, Zones, Places

\* There is a standing none of the others has.
LEMMA NearestStandingIs ==
  ASSUME NEW s \in GameState, NEW p \in Seats, NEW desired \in Seats
  PROVE  LET used == {s.standing[q] : q \in Seats \ {p}} \ {NoRank}
         IN  NearestStanding(desired, used) \in Seats \ used
<1> DEFINE used == {s.standing[q] : q \in Seats \ {p}} \ {NoRank}
           below == {r \in Seats \ used : r >= desired}
<1>1. Seats \ used # {}
  <2> SUFFICES ASSUME \A r \in Seats : r \in used PROVE FALSE
    OBVIOUS
  <2> DEFINE f == [r \in Seats |-> CHOOSE q \in Seats \ {p} : s.standing[q] = r]
  <2>1. \A r \in Seats : f[r] \in Seats \ {p} /\ s.standing[f[r]] = r
    OBVIOUS
  <2>2. f \in Injection(Seats, Seats \ {p})
    <3> HIDE DEF used
    <3>1. f \in [Seats -> Seats \ {p}]
      BY <2>1
    <3>2. \A q, r \in Seats : f[q] = f[r] => q = r
      BY <2>1
    <3> HIDE DEF f
    <3>3. QED
      BY <3>1, <3>2 DEF Injection, IsInjective
  <2>3. IsFiniteSet(Seats \ {p}) /\ Cardinality(Seats \ {p}) = N - 1
    BY SeatsFinite, FS_RemoveElement
  <2>4. N <= N - 1
    <3> HIDE DEF f
    <3>1. QED
      BY <2>2, <2>3, SeatsFinite, FS_Injection
  <2>5. QED
    BY <2>4, SeatsFinite
<1>2. Seats \ used \in SUBSET Nat /\ below \in SUBSET Nat /\ Seats \ used \in SUBSET (1 .. N)
  BY SeatsFinite DEF Seats
<1>3. NearestStanding(desired, used) = IF below # {} THEN Min(below) ELSE Max(Seats \ used)
  BY DEF NearestStanding
<1>4. NearestStanding(desired, used) \in Seats \ used
  <2> HIDE DEF used
  <2>1. CASE below # {}
    <3>1. Min(below) \in below
      <4> HIDE DEF below
      <4>1. QED
        BY <1>2, <2>1, MinIs
    <3>2. QED
      BY <1>3, <2>1, <3>1
  <2>2. CASE below = {}
    BY <1>1, <1>2, <1>3, <2>2, MaxIs, SeatsFinite
  <2>3. QED
    BY <2>1, <2>2
<1>5. QED
  BY <1>4

\* A rank forced on a player keeps the ranks apart, and the cards of whoever is
\* out are put aside.
LEMMA ForcedSound ==
  ASSUME NEW s, Sound(s), NEW p \in Seats, NEW desired \in Seats
  PROVE  /\ Sound(Forced(s, p, desired)) /\ Untouched(s, Forced(s, p, desired))
         /\ Forced(s, p, desired).effects = s.effects
<1> DEFINE used == {s.standing[q] : q \in Seats \ {p}} \ {NoRank}
           t == Forced(s, p, desired)
           out == p \in Active(s)
<1>1. PICK got : got = NearestStanding(desired, used)
  OBVIOUS
<1>2. got \in Seats \ used
  BY <1>1, NearestStandingIs DEF Sound
<1>3. s \in GameState /\ Active(s) \in SUBSET Seats
  BY ActiveFinite DEF Sound
<1>4. t = [s EXCEPT !.standing = [@ EXCEPT ![p] = got],
                    !.taken = (s.taken \ {s.standing[p]}) \cup {got},
                    !.status = IF out THEN [@ EXCEPT ![p] = "retired"] ELSE @,
                    !.hand = IF out THEN [@ EXCEPT ![p] = {}] ELSE @,
                    !.excluded = IF out THEN @ \cup s.hand[p] ELSE @]
  BY <1>1, <1>3 DEF Forced, GameState
<1>5. t \in GameState
  <2> DEFINE standing == [s.standing EXCEPT ![p] = got]
             taken == (s.taken \ {s.standing[p]}) \cup {got}
             status == IF out THEN [s.status EXCEPT ![p] = "retired"] ELSE s.status
             hand == IF out THEN [s.hand EXCEPT ![p] = {}] ELSE s.hand
             excluded == IF out THEN s.excluded \cup s.hand[p] ELSE s.excluded
  <2>1. /\ standing \in [Seats -> Seats \cup {NoRank}] /\ taken \in SUBSET Seats
        /\ status \in [Seats -> {"active", "finished", "retired"}]
        /\ hand \in [Seats -> SUBSET Cards] /\ excluded \in SUBSET Cards
    BY <1>2, <1>3 DEF GameState
  <2>2. t = [s EXCEPT !.standing = standing, !.taken = taken, !.status = status,
                      !.hand = hand, !.excluded = excluded]
    BY <1>3, <1>4 DEF GameState
  <2> HIDE DEF standing, taken, status, hand, excluded, t
  <2>3. QED
    BY <1>3, <2>1, <2>2 DEF GameState
<1>6. /\ t.standing = [s.standing EXCEPT ![p] = got]
      /\ t.taken = (s.taken \ {s.standing[p]}) \cup {got}
      /\ Active(t) = Active(s) \ {p}
  BY <1>3, <1>4 DEF GameState, Active
<1>7. /\ Untouched(s, t) /\ t.effects = s.effects
      /\ t.field = s.field /\ t.discard = s.discard /\ t.by = s.by
  BY <1>3, <1>4 DEF GameState, Untouched, OnField
<1>8. Ranked(t)
  <2>1. /\ t.standing[p] = got
        /\ \A q \in Seats \ {p} : t.standing[q] = s.standing[q] /\ s.standing[q] # got
    BY <1>2, <1>3, <1>6, ZonesDiffer DEF GameState
  <2>2. \A q \in Seats : q \in Active(t) <=> t.standing[q] = NoRank
    BY <1>2, <1>6, <2>1, ZonesDiffer DEF Sound, Ranked
  <2>3. \A q, r \in Seats \ Active(t) : t.standing[q] = t.standing[r] => q = r
    BY <1>6, <2>1 DEF Sound, Ranked
  <2>4. t.taken = {t.standing[q] : q \in Seats \ Active(t)}
    <3>1. s.taken \ {s.standing[p]} = {s.standing[q] : q \in (Seats \ Active(s)) \ {p}}
      BY DEF Sound, Ranked
    <3>2. Seats \ Active(t) = ((Seats \ Active(s)) \ {p}) \cup {p}
      BY <1>6
    <3>3. \A q \in (Seats \ Active(s)) \ {p} : t.standing[q] = s.standing[q]
      BY <2>1
    <3> HIDE DEF t, used
    <3>4. t.taken = {t.standing[q] : q \in (Seats \ Active(s)) \ {p}} \cup {got}
      BY <1>6, <3>1, <3>3
    <3>5. QED
      BY <2>1, <3>2, <3>4
  <2>5. QED
    BY <2>2, <2>3, <2>4 DEF Ranked
<1>9. CardsFit(t)
  <2>1. CASE ~out
    <3>1. t.hand = s.hand /\ t.excluded = s.excluded
      BY <1>3, <1>4, <2>1 DEF GameState
    <3>2. QED
      BY <1>7, <3>1, SameCardsFit DEF Sound
  <2>2. CASE out
    <3>1. /\ t.hand = [s.hand EXCEPT ![p] = {}] /\ t.excluded = s.excluded \cup s.hand[p]
          /\ DOMAIN s.hand = Seats
      BY <1>3, <1>4, <2>2 DEF GameState
    <3>2. PICK where \in [Cards -> Places] : LaidOut(s, where)
      BY DEF Sound, CardsFit
    <3> DEFINE now == [c \in Cards |-> IF where[c] = p THEN ExcludedZone ELSE where[c]]
    <3>3. now \in [Cards -> Places]
      BY ZonesDiffer
    <3> HIDE DEF t
    <3>4. LaidOut(t, now)
      BY <1>7, <3>1, <3>2, ZonesDiffer DEF LaidOut
    <3>5. QED
      BY <1>7, <3>3, <3>4 DEF Sound, CardsFit, OnField
  <2>3. QED
    BY <2>1, <2>2
<1>10. QED
  BY <1>5, <1>7, <1>8, <1>9 DEF Sound

\* Cards moved are where they were moved to and nowhere else.
LEMMA MovedSound ==
  ASSUME NEW s, Sound(s), NEW e, e.from \in Zones, e.to \in Zones, e.from # e.to
  PROVE  /\ Sound(Moved(s, e)) /\ Untouched(s, Moved(s, e))
         /\ Moved(s, e).effects = s.effects
<1>1. PICK cs : cs = e.cards \cap CardsIn(s, e.from)
  OBVIOUS
<1>2. CASE cs = {} \/ (e.to = FieldZone /\ ~OnField(s))
  BY <1>1, <1>2 DEF Moved, Untouched
<1>3. CASE cs # {} /\ (e.to = FieldZone => OnField(s))
  <2> DEFINE t == Moved(s, e)
  <2>1. t = GivenTo(TakenFrom(s, e.from, cs), e.to, cs)
    BY <1>1, <1>3 DEF Moved
  <2>2. s \in GameState
    BY DEF Sound
  <2>3. cs \in SUBSET Cards /\ cs \subseteq CardsIn(s, e.from)
    BY <1>1, <2>2, ZonesDiffer DEF CardsIn, GameState
  <2>4. PICK taken : taken = TakenFrom(s, e.from, cs)
    OBVIOUS
  <2>5. /\ taken \in GameState /\ Untouched(s, taken)
        /\ taken.status = s.status /\ taken.standing = s.standing /\ taken.taken = s.taken
        /\ taken.excluded = s.excluded /\ taken.effects = s.effects
        /\ taken.hand = [p \in Seats |-> IF p = e.from THEN s.hand[p] \ cs ELSE s.hand[p]]
        /\ taken.field = IF e.from = FieldZone THEN s.field \ cs ELSE s.field
        /\ taken.discard = IF e.from = DiscardZone THEN s.discard \ cs ELSE s.discard
        /\ taken.by = IF e.from = FieldZone /\ s.field \subseteq cs THEN NoPlayer ELSE s.by
    <3>1. CASE e.from = FieldZone
      <4>1. PICK by : by = IF s.field \subseteq cs THEN NoPlayer ELSE s.by
        OBVIOUS
      <4>2. taken = [s EXCEPT !.field = s.field \ cs, !.by = by]
        <5>1. taken = [s EXCEPT !.field = s.field \ cs,
                                !.by = IF s.field \subseteq cs THEN NoPlayer ELSE s.by]
          <6>1. e.from # DiscardZone
            BY <3>1, ZonesDiffer
          <6>2. QED
            BY <2>4, <3>1, <6>1, Zenon DEF TakenFrom
        <5>2. QED
          BY <4>1, <5>1, Zenon
      <4>3. by \in Seats \cup {NoPlayer} /\ s.field \ cs \in SUBSET Cards
        BY <2>2, <4>1 DEF GameState
      <4>4. taken \in GameState
        BY <2>2, <4>2, <4>3 DEF GameState
      <4>5. /\ taken.phase = s.phase /\ taken.turn = s.turn /\ taken.passed = s.passed
            /\ taken.turnCount = s.turnCount /\ taken.choice = s.choice
            /\ taken.effects = s.effects
            /\ taken.status = s.status /\ taken.standing = s.standing /\ taken.taken = s.taken
            /\ taken.excluded = s.excluded /\ taken.discard = s.discard
            /\ taken.hand = s.hand /\ taken.field = s.field \ cs /\ taken.by = by
        BY <2>2, <4>2 DEF GameState
      <4>6. taken.hand = [p \in Seats |-> IF p = e.from THEN s.hand[p] \ cs ELSE s.hand[p]]
        BY <2>2, <3>1, <4>5, ZonesDiffer DEF GameState
      <4>7. Untouched(s, taken)
        BY <4>1, <4>5 DEF Untouched, OnField
      <4>8. QED
        BY <3>1, <4>1, <4>4, <4>5, <4>6, <4>7, ZonesDiffer
    <3>2. CASE e.from = DiscardZone
      BY <2>2, <2>4, <3>2, ZonesDiffer DEF TakenFrom, GameState, Untouched, OnField
    <3>3. CASE e.from \in Seats
      BY <2>2, <2>4, <3>3, ZonesDiffer DEF TakenFrom, GameState, Untouched, OnField
    <3>4. QED
      BY <3>1, <3>2, <3>3, ZonesDiffer
  <2>6. /\ t \in GameState /\ Untouched(taken, t)
        /\ t.status = taken.status /\ t.standing = taken.standing /\ t.taken = taken.taken
        /\ t.excluded = taken.excluded /\ t.effects = taken.effects
        /\ t.hand = [p \in Seats |-> IF p = e.to THEN taken.hand[p] \cup cs ELSE taken.hand[p]]
        /\ t.field = IF e.to = FieldZone THEN taken.field \cup cs ELSE taken.field
        /\ t.discard = IF e.to = DiscardZone THEN taken.discard \cup cs ELSE taken.discard
        /\ t.by = taken.by
    <3>1. t = GivenTo(taken, e.to, cs) /\ taken \in GameState
      BY <2>1, <2>4, <2>5
    <3> HIDE DEF t
    <3>2. CASE e.to = FieldZone
      BY <2>3, <3>1, <3>2, ZonesDiffer DEF GivenTo, GameState, Untouched, OnField
    <3>3. CASE e.to = DiscardZone
      BY <2>3, <3>1, <3>3, ZonesDiffer DEF GivenTo, GameState, Untouched, OnField
    <3>4. CASE e.to \in Seats
      BY <2>3, <3>1, <3>4, ZonesDiffer DEF GivenTo, GameState, Untouched, OnField
    <3>5. QED
      BY <3>2, <3>3, <3>4, ZonesDiffer
  <2> HIDE DEF t
  <2>7. Ranked(t)
    BY <2>5, <2>6, SameRanked DEF Sound
  <2>8. CardsFit(t)
    <3>1. PICK where \in [Cards -> Places] : LaidOut(s, where)
      BY DEF Sound, CardsFit
    <3> DEFINE now == [c \in Cards |-> IF c \in cs THEN e.to ELSE where[c]]
    <3>2. now \in [Cards -> Places]
      BY ZonesDiffer
    <3>3. CardsIn(s, e.from) = {c \in Cards : where[c] = e.from}
      BY <3>1, ZonesDiffer DEF CardsIn, LaidOut
    <3>4. \A c \in cs : where[c] = e.from
      BY <2>3, <3>3
    <3>5. \A c \in Cards : now[c] = IF c \in cs THEN e.to ELSE where[c]
      OBVIOUS
    <3> HIDE DEF now
    <3>6. \A p \in Seats : t.hand[p] = {c \in Cards : now[c] = p}
      BY <2>3, <2>5, <2>6, <3>1, <3>4, <3>5 DEF LaidOut
    <3>7. t.field = {c \in Cards : now[c] = FieldZone}
      BY <2>3, <2>5, <2>6, <3>1, <3>4, <3>5 DEF LaidOut
    <3>8. t.discard = {c \in Cards : now[c] = DiscardZone}
      BY <2>3, <2>5, <2>6, <3>1, <3>4, <3>5 DEF LaidOut
    <3>9. t.excluded = {c \in Cards : now[c] = ExcludedZone}
      BY <2>5, <2>6, <3>1, <3>4, <3>5, ZonesDiffer DEF LaidOut
    <3>10. t.field = {} <=> ~OnField(t)
      <4>1. s.field = {} <=> ~OnField(s)
        BY DEF Sound, CardsFit
      <4>2. QED
        BY <1>3, <2>5, <2>6, <4>1 DEF OnField
    <3>11. QED
      BY <3>2, <3>6, <3>7, <3>8, <3>9, <3>10 DEF CardsFit, LaidOut
  <2>9. Untouched(s, t)
    BY <2>5, <2>6 DEF Untouched, OnField
  <2>10. QED
    BY <2>5, <2>6, <2>7, <2>8, <2>9 DEF Sound, t
<1>4. QED
  BY <1>2, <1>3

\* What an effect consists of.
EffectTyped(e) ==
  \/ e.type = "skipTurns" /\ e.player \in Seats /\ e.count \in Nat
  \/ e.type = "reverseTurnOrder"
  \/ e.type = "forceRank" /\ e.player \in Seats /\ e.rank \in Seats
  \/ e.type = "moveCards" /\ e.from \in Zones /\ e.to \in Zones /\ e.from # e.to

LEMMA EffectsTyped ==
  ASSUME NEW s, NEW e \in Effects(s)
  PROVE  EffectTyped(e)
<1>1. CASE e \in [type : {"skipTurns"}, player : Seats, count : 1 .. MaxSkip]
  BY <1>1, BoundAssumption DEF EffectTyped
<1>2. CASE e \in [type : {"reverseTurnOrder"}] \cup [type : {"forceRank"}, player : Seats, rank : Seats]
  BY <1>2 DEF EffectTyped
<1>3. CASE \E z \in Zones : e \in [type : {"moveCards"}, from : {z}, to : Zones \ {z},
                                   cards : SUBSET CardsIn(s, z) \ {{}}]
  BY <1>3 DEF EffectTyped
<1>4. QED
  BY <1>1, <1>2, <1>3 DEF Effects

LEMMA AppliedSound ==
  ASSUME NEW s, Sound(s), NEW e, EffectTyped(e)
  PROVE  /\ Sound(Applied(s, e)) /\ Untouched(s, Applied(s, e))
         /\ Applied(s, e).effects = s.effects
<1>1. CASE e.type = "skipTurns" /\ e.player \in Seats /\ e.count \in Nat
  <2>1. Applied(s, e) = [s EXCEPT !.skip[e.player] = @ + e.count]
    BY <1>1 DEF Applied
  <2>2. PICK t : t = Applied(s, e)
    OBVIOUS
  <2>3. PICK skip : skip = [s.skip EXCEPT ![e.player] = @ + e.count]
    OBVIOUS
  <2>4. t = [s EXCEPT !.skip = skip] /\ skip \in [Seats -> Nat] /\ s \in GameState
    BY <1>1, <2>1, <2>2, <2>3 DEF Sound, GameState
  <2>5. /\ t \in GameState /\ Untouched(s, t) /\ t.effects = s.effects
        /\ t.hand = s.hand /\ t.field = s.field /\ t.by = s.by /\ t.discard = s.discard
        /\ t.excluded = s.excluded /\ t.status = s.status /\ t.standing = s.standing
        /\ t.taken = s.taken
    BY <2>4 DEF GameState, Untouched, OnField
  <2>6. QED
    BY <2>2, <2>5, SameCardsFit, SameRanked DEF Sound
<1>2. CASE e.type = "reverseTurnOrder"
  <2>1. Applied(s, e) = [s EXCEPT !.direction = -@]
    BY <1>2 DEF Applied
  <2>2. PICK t : t = Applied(s, e)
    OBVIOUS
  <2>3. -s.direction \in {-1, 1} /\ s \in GameState
    BY DEF Sound, GameState
  <2>4. /\ t \in GameState /\ Untouched(s, t) /\ t.effects = s.effects
        /\ t.hand = s.hand /\ t.field = s.field /\ t.by = s.by /\ t.discard = s.discard
        /\ t.excluded = s.excluded /\ t.status = s.status /\ t.standing = s.standing
        /\ t.taken = s.taken
    BY <2>1, <2>2, <2>3 DEF GameState, Untouched, OnField
  <2>5. QED
    BY <2>2, <2>4, SameCardsFit, SameRanked DEF Sound
<1>3. CASE e.type = "forceRank" /\ e.player \in Seats /\ e.rank \in Seats
  BY <1>3, ForcedSound DEF Applied
<1>4. CASE e.type = "moveCards" /\ e.from \in Zones /\ e.to \in Zones /\ e.from # e.to
  BY <1>4, MovedSound DEF Applied
<1>5. QED
  BY <1>1, <1>2, <1>3, <1>4 DEF EffectTyped

\* What a batch without effects leaves as it is, besides.
Quiet(s, t) ==
  /\ t.skip = s.skip /\ t.direction = s.direction /\ t.by = s.by
  /\ Active(t) = Active(s)

\* No more effects than before means that there were none.
QuietOrMore(s, t) ==
  t.effects >= s.effects /\ (t.effects = s.effects => Quiet(s, t))

\* Rules have had their effects: those without cards are out.
LEMMA AfterEffectsSound ==
  ASSUME NEW s, Sound(s), NEW batch \in Batches(s)
  PROVE  LET t == AfterEffects(s, batch)
         IN  /\ Sound(t) /\ Held(t) /\ Untouched(s, t)
             /\ Held(s) => QuietOrMore(s, t)
<1> DEFINE n == Len(batch)
           one == IF n >= 1 THEN Applied(s, batch[1]) ELSE s
           both == IF n = 2 THEN Applied(one, batch[2]) ELSE one
           counted == [both EXCEPT !.effects = @ + n]
<1>1. /\ n \in {0, 1, 2} /\ s.effects + n \in 0 .. MaxEffects
      /\ n >= 1 => batch[1] \in Effects(s)
      /\ n = 2 => batch[2] \in Effects(s)
  <2>1. s.effects \in 0 .. MaxEffects
    BY DEF Sound, GameState
  <2>2. CASE batch = <<>>
    BY <2>1, <2>2
  <2>3. CASE \E e \in Effects(s) : Affordable(s, 1) /\ batch = <<e>>
    BY <2>1, <2>3, BoundAssumption DEF Affordable
  <2>4. CASE \E e \in Effects(s), f \in Effects(s) : Affordable(s, 2) /\ batch = <<e, f>>
    BY <2>1, <2>4, BoundAssumption DEF Affordable
  <2>5. QED
    BY <2>2, <2>3, <2>4 DEF Batches
<1>2. Sound(one) /\ Untouched(s, one) /\ one.effects = s.effects
  <2>1. CASE n >= 1
    BY <1>1, <2>1, EffectsTyped, AppliedSound
  <2>2. CASE ~(n >= 1)
    BY <2>2 DEF Untouched
  <2>3. QED
    BY <2>1, <2>2
<1>3. Sound(both) /\ Untouched(one, both) /\ both.effects = s.effects
  <2> HIDE DEF one
  <2>1. CASE n = 2
    BY <1>1, <1>2, <2>1, EffectsTyped, AppliedSound
  <2>2. CASE n # 2
    BY <1>2, <2>2 DEF Untouched
  <2>3. QED
    BY <2>1, <2>2
<1>4. Sound(counted) /\ Untouched(both, counted)
  <2> HIDE DEF both, n
  <2>1. /\ counted \in GameState /\ Untouched(both, counted)
        /\ counted.hand = both.hand /\ counted.field = both.field /\ counted.by = both.by
        /\ counted.discard = both.discard /\ counted.excluded = both.excluded
        /\ counted.status = both.status /\ counted.standing = both.standing
        /\ counted.taken = both.taken
    BY <1>1, <1>3 DEF Sound, GameState, Untouched, OnField
  <2> HIDE DEF counted
  <2>2. QED
    BY <1>3, <2>1, SameCardsFit, SameRanked DEF Sound
<1>5. AfterEffects(s, batch) = OutOfCards(counted)
  BY DEF AfterEffects
<1>6. Untouched(s, counted)
  <2> HIDE DEF one, both, counted
  <2>1. QED
    BY <1>2, <1>3, <1>4 DEF Untouched
<1>7. counted.effects = s.effects + n /\ (n = 0 => counted = s)
  <2>1. counted.effects = s.effects + n
    <3> HIDE DEF both, n
    <3>1. both.effects \in 0 .. MaxEffects
      BY <1>3 DEF Sound, GameState
    <3>2. QED
      BY <1>3, <3>1
  <2>2. ASSUME n = 0 PROVE counted = s
    <3>1. both = s
      BY <2>2
    <3> HIDE DEF both, n
    <3>2. s \in GameState /\ s.effects \in 0 .. MaxEffects
      BY DEF Sound, GameState
    <3>3. s.effects + n = s.effects
      BY <2>2, <3>2, BoundAssumption
    <3>4. QED
      BY <3>1, <3>2, <3>3 DEF GameState
  <2>3. QED
    BY <2>1, <2>2
<1>8. QED
  <2> HIDE DEF counted, n
  <2>1. PICK t : t = OutOfCards(counted)
    OBVIOUS
  <2>2. /\ Sound(t) /\ Held(t) /\ SameTable(counted, t)
        /\ Held(counted) => Active(t) = Active(counted)
    BY <1>4, <2>1, OutOfCardsSound
  <2>3. Untouched(s, t)
    BY <1>6, <2>2 DEF Untouched, SameTable, OnField
  <2>4. ASSUME Held(s) PROVE QuietOrMore(s, t)
    <3>1. t.effects = s.effects + n /\ s.effects \in Int /\ n \in {0, 1, 2}
      BY <1>1, <1>7, <2>2, BoundAssumption DEF SameTable, Sound, GameState
    <3>2. ASSUME t.effects = s.effects PROVE Quiet(s, t)
      <4>1. counted = s
        BY <1>7, <3>1, <3>2
      <4>2. QED
        BY <2>2, <2>4, <4>1 DEF SameTable, Quiet
    <3>3. QED
      BY <3>1, <3>2 DEF QuietOrMore
  <2>5. QED
    BY <1>5, <2>1, <2>2, <2>3, <2>4

LEMMA HookedSound ==
  ASSUME NEW s, Sound(s), NEW h \in Hooked(s)
  PROVE  /\ Sound(h) /\ Held(h) /\ Untouched(s, h)
         /\ Held(s) => QuietOrMore(s, h)
BY AfterEffectsSound DEF Hooked

\* A rule clears the field only if there is one.
LEMMA HookedAfterPlaySound ==
  ASSUME NEW s, Sound(s), NEW clear \in BOOLEAN, NEW r \in HookedAfterPlay(s, clear),
         ~FieldMayVanish
  PROVE  /\ Sound(r.state) /\ Held(r.state) /\ Untouched(s, r.state)
         /\ r.clear \in BOOLEAN
         /\ r.clear => OnField(r.state)
         /\ Held(s) => /\ QuietOrMore(s, r.state)
                       /\ r.state.effects = s.effects => r.clear = clear
<1>1. /\ r.clear => OnField(r.state)
      /\ Affordable(r.state, 0)
  BY DEF HookedAfterPlay
<1>2. PICK batch \in Batches(s) :
        \/ r = [state |-> AfterEffects(s, batch), clear |-> clear]
        \/ r = [state |-> [AfterEffects(s, batch) EXCEPT !.effects = @ + 1], clear |-> TRUE]
  BY DEF HookedAfterPlay
<1>3. PICK t : t = AfterEffects(s, batch)
  OBVIOUS
<1>4. /\ Sound(t) /\ Held(t) /\ Untouched(s, t)
      /\ Held(s) => QuietOrMore(s, t)
  BY <1>3, AfterEffectsSound
<1>5. CASE r = [state |-> t, clear |-> clear]
  BY <1>1, <1>4, <1>5
<1>6. CASE r = [state |-> [t EXCEPT !.effects = @ + 1], clear |-> TRUE]
  <2>1. PICK u : u = r.state
    OBVIOUS
  <2>2. u = [t EXCEPT !.effects = @ + 1] /\ r.clear = TRUE
    BY <1>6, <2>1
  <2>3. t \in GameState /\ t.effects + 1 \in 0 .. MaxEffects
    BY <1>1, <1>4, <2>1, <2>2, BoundAssumption DEF Sound, GameState, Affordable
  <2>4. /\ u \in GameState /\ Untouched(t, u)
        /\ u.hand = t.hand /\ u.field = t.field /\ u.by = t.by /\ u.discard = t.discard
        /\ u.excluded = t.excluded /\ u.status = t.status /\ u.standing = t.standing
        /\ u.taken = t.taken
    BY <2>2, <2>3 DEF GameState, Untouched, OnField
  <2>5. Sound(u) /\ Held(u) /\ Untouched(s, u)
    BY <1>4, <2>4, SameCardsFit, SameRanked DEF Sound, Held, Untouched
  <2>6. u.effects = t.effects + 1 /\ t.effects \in Int /\ s.effects \in Int
    BY <1>4, <2>2, <2>3, BoundAssumption DEF Sound, GameState
  <2>7. ASSUME Held(s) PROVE QuietOrMore(s, u) /\ u.effects # s.effects
    <3>1. t.effects >= s.effects
      BY <1>4, <2>7 DEF QuietOrMore
    <3>2. u.effects >= s.effects /\ u.effects # s.effects
      BY <2>6, <3>1
    <3>3. QED
      BY <3>2 DEF QuietOrMore
  <2>8. QED
    BY <1>1, <2>1, <2>2, <2>5, <2>7
<1>7. QED
  BY <1>2, <1>3, <1>5, <1>6

-----------------------------------------------------------------------------
(* Whose turn it is.                                                       *)

LEMMA NextActiveIs ==
  ASSUME NEW s \in GameState, Active(s) # {}, NEW q \in Int
  PROVE  NextActive(s, q) \in Active(s)
<1> DEFINE far == [p \in Active(s) |-> IF p = q THEN N ELSE Distance(s, q, p)]
<1>0. \A p \in Active(s) : p \in Int
  <2> HIDE DEF far
  <2>1. Active(s) \subseteq Seats /\ Seats \subseteq Int
    BY ActiveFinite, SeatsFinite
  <2>2. QED
    BY <2>1
<1>1. \A p \in Active(s) : far[p] \in Nat
  <2> SUFFICES ASSUME NEW p \in Active(s) PROVE far[p] \in Nat
    OBVIOUS
  <2>1. p \in Int /\ s.direction \in Int
    <3>1. p \in Int
      BY <1>0
    <3>2. s.direction \in {-1, 1}
      BY DEF GameState
    <3>3. QED
      BY <3>1, <3>2
  <2>2. (p - q) * s.direction \in Int
    BY <2>1
  <2>3. Distance(s, q, p) \in Nat
    BY <2>2, SeatsFinite DEF Distance
  <2>4. QED
    BY <2>3, SeatsFinite
<1>2. \E p \in Active(s) : \A r \in Active(s) : far[p] <= far[r]
  <2> HIDE DEF far
  <2>1. QED
    BY <1>1, LeastExists
<1>3. QED
  BY <1>2 DEF NextActive

LEMMA FirstActiveIs ==
  ASSUME NEW s \in GameState, Active(s) # {}, NEW q \in Int
  PROVE  FirstActive(s, q) \in Active(s)
BY NextActiveIs DEF FirstActive

LEMMA PlaceIs ==
  ASSUME NEW s, NEW first, NEW p
  PROVE  Place(s, first, p) \in Nat
<1> DEFINE before == {q \in Active(s) : Distance(s, first, q) < Distance(s, first, p)}
<1>1. IsFiniteSet(before)
  BY ActiveFinite, FS_Subset
<1>2. QED
  BY <1>1, FS_CardinalityType DEF Place

LEMMA LessTimes ==
  ASSUME NEW j \in Nat, NEW k \in Nat, NEW a \in Nat, a >= 1
  PROVE  /\ j * a < k * a <=> j < k
         /\ j <= j * a
<1>1. ASSUME j < k PROVE j * a < k * a
  <2>1. PICK d \in Nat : k = j + d /\ d >= 1
    <3>1. k - j \in Nat /\ k = j + (k - j) /\ k - j >= 1
      BY <1>1
    <3>2. QED
      BY <3>1
  <2>2. k * a = j * a + d * a /\ d * a >= 1
    BY <2>1
  <2>3. QED
    BY <2>2
<1>2. ASSUME j >= k PROVE j * a >= k * a
  <2>1. PICK d \in Nat : j = k + d
    <3>1. j - k \in Nat /\ j = k + (j - k)
      BY <1>2
    <3>2. QED
      BY <3>1
  <2>2. j * a = k * a + d * a /\ d * a >= 0
    BY <2>1
  <2>3. QED
    BY <2>2
<1>3. j <= j * a
  <2>1. PICK b \in Nat : a = 1 + b
    <3>1. a - 1 \in Nat /\ a = 1 + (a - 1)
      OBVIOUS
    <3>2. QED
      BY <3>1
  <2>2. j * a = j + j * b /\ j * b >= 0
    BY <2>1
  <2>3. QED
    BY <2>2
<1>4. j * a \in Nat /\ k * a \in Nat
  OBVIOUS
<1>5. QED
  BY <1>1, <1>2, <1>3, <1>4

\* Before the turn number Stop(p) player p has paid no more skips than owed, by
\* then all of them, and the first of them in the turn number Place(p).
LEMMA PaidIs ==
  ASSUME NEW s \in GameState, NEW first, NEW p \in Active(s), NEW k \in Nat,
         k <= Place(s, first, p) + s.skip[p] * Cardinality(Active(s))
  PROVE  /\ Paid(s, first, k, p) \in 0 .. s.skip[p]
         /\ k = Place(s, first, p) + s.skip[p] * Cardinality(Active(s))
              => Paid(s, first, k, p) = s.skip[p]
         /\ Place(s, first, p) < k => Paid(s, first, k, p) # 0
<1>1. PICK a : a = Cardinality(Active(s))
  OBVIOUS
<1>2. PICK n : n = s.skip[p]
  OBVIOUS
<1>3. PICK place : place = Place(s, first, p)
  OBVIOUS
<1>4. a \in Nat /\ a >= 1 /\ n \in Nat /\ place \in Nat
  BY <1>1, <1>2, <1>3, ActiveFinite, PlaceIs DEF GameState
<1> DEFINE T == {j \in 0 .. k : place + j * a < k}
<1>5. Paid(s, first, k, p) = Cardinality(T)
  BY <1>1, <1>3 DEF Paid
<1>6. k <= place + n * a /\ n * a \in Nat
  BY <1>1, <1>2, <1>3, <1>4
<1>7. T \in SUBSET (0 .. n - 1)
  <2> SUFFICES ASSUME NEW j \in 0 .. k, place + j * a < k
               PROVE  j \in 0 .. n - 1
    OBVIOUS
  <2>1. j * a \in Nat
    BY <1>4
  <2>2. j * a < n * a
    BY <1>4, <1>6, <2>1
  <2>3. QED
    BY <1>4, <2>2, LessTimes
<1>8. IsFiniteSet(0 .. n - 1) /\ Cardinality(0 .. n - 1) = n
  BY <1>4, FS_Interval
<1>9. Cardinality(T) \in 0 .. n
  <2> HIDE DEF T
  <2>1. IsFiniteSet(T) /\ Cardinality(T) <= n
    BY <1>7, <1>8, FS_Subset
  <2>2. QED
    BY <1>4, <2>1, FS_CardinalityType
<1>10. ASSUME k = place + n * a
       PROVE  Cardinality(T) = n
  <2>1. ASSUME NEW j \in 0 .. n - 1
        PROVE  j \in 0 .. k /\ place + j * a < k
    <3>1. j \in Nat /\ j < n
      BY <1>4
    <3>2. j * a < n * a /\ j <= j * a /\ j * a \in Nat
      BY <1>4, <3>1, LessTimes
    <3>3. QED
      BY <1>4, <1>6, <1>10, <3>1, <3>2
  <2>2. T = 0 .. n - 1
    BY <1>7, <2>1
  <2>3. QED
    BY <1>8, <2>2
<1>11. ASSUME place < k
       PROVE  Cardinality(T) # 0
  <2>1. 0 \in T
    BY <1>4, <1>11
  <2> HIDE DEF T
  <2>2. IsFiniteSet(T)
    BY <1>7, <1>8, FS_Subset
  <2>3. QED
    BY <2>1, <2>2, FS_EmptySet
<1>12. QED
  BY <1>1, <1>2, <1>3, <1>5, <1>9, <1>10, <1>11

\* The state once k turns have been skipped.
SkippedTo(s, first, k) ==
  [s EXCEPT !.passed = PassedAfter(s, first, k), !.turnCount = @ + k,
            !.skip = [p \in Seats |-> @[p] - IF p \in Active(s)
                                             THEN Paid(s, first, k, p) ELSE 0]]

\* The turns skipped end before anybody who owes no more, with the first of them
\* that leaves nobody who has not passed.
LEMMA ResolvedIs ==
  ASSUME NEW s \in GameState, Active(s) # {}, NEW first
  PROVE  \E turns \in Nat :
           /\ \A p \in Active(s) :
                turns <= Place(s, first, p) + s.skip[p] * Cardinality(Active(s))
           /\ \A k \in 1 .. turns - 1 : ~AllOthersPassed(s, PassedAfter(s, first, k))
           /\ \/ /\ turns >= 1 /\ AllOthersPassed(s, PassedAfter(s, first, turns))
                 /\ Resolved(s, first) = [state |-> SkippedTo(s, first, turns), fieldOver |-> TRUE]
              \/ /\ ~(turns >= 1 /\ AllOthersPassed(s, PassedAfter(s, first, turns)))
                 /\ \E p \in Active(s) :
                      /\ turns = Place(s, first, p) + s.skip[p] * Cardinality(Active(s))
                      /\ Resolved(s, first) = [state |-> [SkippedTo(s, first, turns) EXCEPT !.turn = p],
                                               fieldOver |-> FALSE]
<1> DEFINE A == Cardinality(Active(s))
           Stop(p) == Place(s, first, p) + s.skip[p] * A
           stops == {Stop(p) : p \in Active(s)}
           lands == Min(stops)
           over == {k \in 1 .. lands : AllOthersPassed(s, PassedAfter(s, first, k))}
           turns == Min(over \cup {lands})
           turn == CHOOSE p \in Active(s) : Stop(p) = lands
           t == [s EXCEPT !.passed = PassedAfter(s, first, turns),
                          !.turnCount = @ + turns,
                          !.skip = [p \in Seats |-> @[p] - IF p \in Active(s)
                                                    THEN Paid(s, first, turns, p) ELSE 0],
                          !.turn = IF over = {} THEN turn ELSE @]
<1>1. Active(s) \in SUBSET Seats /\ A \in Nat
  BY ActiveFinite
<1>2. \A p \in Active(s) : Stop(p) \in Nat
  <2> SUFFICES ASSUME NEW p \in Active(s) PROVE Stop(p) \in Nat
    OBVIOUS
  <2>1. s.skip[p] \in Nat /\ Place(s, first, p) \in Nat
    BY <1>1, PlaceIs DEF GameState
  <2> HIDE DEF A
  <2>2. QED
    BY <1>1, <2>1
<1>3. lands \in Nat /\ lands \in stops /\ \A p \in Active(s) : lands <= Stop(p)
  <2>1. stops \in SUBSET Nat /\ stops # {} /\ \A p \in Active(s) : Stop(p) \in stops
    BY <1>2
  <2> HIDE DEF stops, Stop
  <2>2. QED
    BY <2>1, MinIs
<1>4. turn \in Active(s) /\ Stop(turn) = lands
  <2>1. \E p \in Active(s) : Stop(p) = lands
    <3> HIDE DEF lands
    <3>1. QED
      BY <1>3
  <2> HIDE DEF lands, Stop
  <2>2. QED
    BY <2>1
<1>5. over \in SUBSET (1 .. lands) /\ over \cup {lands} \in SUBSET Nat
  <2> HIDE DEF lands
  <2>1. QED
    BY <1>3
<1>6. /\ turns \in over \cup {lands} /\ \A k \in over \cup {lands} : turns <= k
      /\ turns \in Nat /\ turns <= lands
  <2> HIDE DEF lands, over
  <2>1. turns \in over \cup {lands} /\ \A k \in over \cup {lands} : turns <= k
    BY <1>5, MinIs
  <2> HIDE DEF turns
  <2>2. QED
    BY <1>5, <2>1
<1>7. ASSUME NEW k \in 1 .. turns
      PROVE  /\ AllOthersPassed(s, PassedAfter(s, first, k)) <=> k \in over
             /\ k # turns => k \notin over
  <2>1. k \in 1 .. lands /\ k <= turns
    <3> HIDE DEF lands, turns
    <3>1. QED
      BY <1>3, <1>6
  <2>2. k # turns => k \notin over
    <3> HIDE DEF lands, turns, over
    <3>1. QED
      BY <1>6, <2>1
  <2>3. QED
    <3> HIDE DEF lands, turns
    <3>1. QED
      BY <2>1, <2>2
<1>8. \A p \in Active(s) : turns <= Stop(p)
  <2> HIDE DEF lands, turns, Stop
  <2>1. QED
    BY <1>2, <1>3, <1>6
<1>9. \A k \in 1 .. turns - 1 : ~AllOthersPassed(s, PassedAfter(s, first, k))
  <2> HIDE DEF over, turns
  <2>1. QED
    BY <1>6, <1>7
<1>10. Resolved(s, first) = [state |-> t, fieldOver |-> over # {}]
  BY Zenon DEF Resolved
<1>11. CASE over = {}
  <2>1. turns = lands
    <3> HIDE DEF lands, turns, over
    <3>1. QED
      BY <1>6, <1>11
  <2>2. ~(turns >= 1 /\ AllOthersPassed(s, PassedAfter(s, first, turns)))
    <3> HIDE DEF lands, turns, over
    <3>1. QED
      BY <1>6, <1>7, <1>11
  <2>3. t = [SkippedTo(s, first, turns) EXCEPT !.turn = turn]
    <3> HIDE DEF turns, turn, over
    <3>1. QED
      BY <1>11 DEF SkippedTo, GameState
  <2>4. Stop(turn) = turns
    <3> HIDE DEF turns, turn, lands, Stop
    <3>1. QED
      BY <1>4, <2>1
  <2>5. Resolved(s, first) = [state |-> [SkippedTo(s, first, turns) EXCEPT !.turn = turn],
                              fieldOver |-> FALSE]
    <3> HIDE DEF t, turns, turn, over
    <3>1. QED
      BY <1>10, <1>11, <2>3
  <2>6. QED
    <3> HIDE DEF turns, turn
    <3>1. QED
      BY <1>4, <1>6, <1>8, <1>9, <2>2, <2>4, <2>5
<1>12. CASE over # {}
  <2>1. turns \in over
    <3>1. PICK k \in over : TRUE
      BY <1>12
    <3> HIDE DEF lands, turns, over
    <3>2. turns # lands => turns \in over
      BY <1>6
    <3>3. ASSUME turns = lands PROVE k = lands
      BY <1>3, <1>5, <1>6, <3>1, <3>3
    <3>4. QED
      BY <3>1, <3>2, <3>3
  <2>2. turns >= 1 /\ AllOthersPassed(s, PassedAfter(s, first, turns))
    <3>1. turns \in 1 .. turns
      <4> HIDE DEF lands, turns, over
      <4>1. QED
        BY <1>3, <1>5, <1>6, <2>1
    <3>2. QED
      <4> HIDE DEF turns, over
      <4>1. QED
        BY <1>7, <1>6, <2>1, <3>1
  <2>3. t = SkippedTo(s, first, turns)
    <3> HIDE DEF turns, turn, over
    <3>1. QED
      BY <1>12 DEF SkippedTo, GameState
  <2>4. Resolved(s, first) = [state |-> SkippedTo(s, first, turns), fieldOver |-> TRUE]
    <3> HIDE DEF t, turns, over
    <3>1. QED
      BY <1>10, <1>12, <2>3
  <2>5. QED
    <3> HIDE DEF turns
    <3>1. QED
      BY <1>6, <1>8, <1>9, <2>2, <2>4
<1>13. QED
  BY <1>11, <1>12

\* The turn goes to somebody who owes no skip, unless all have passed the field.
LEMMA ResolvedSound ==
  ASSUME NEW s, Sound(s), Active(s) # {}, NEW first
  PROVE  LET r == Resolved(s, first)
             t == r.state
         IN  /\ Sound(t) /\ Active(t) = Active(s)
             /\ t.phase = s.phase /\ t.hand = s.hand /\ t.by = s.by /\ t.choice = s.choice
             /\ t.direction = s.direction /\ t.effects = s.effects
             /\ \A p \in Seats : t.skip[p] <= s.skip[p]
             /\ r.fieldOver =>
                  /\ OnField(t)
                  /\ \A p \in Active(s) \ {s.by} : p \in s.passed \/ t.skip[p] < s.skip[p]
             /\ ~r.fieldOver => \A p \in Active(s) :
                  Place(s, first, p) < Place(s, first, t.turn) => t.skip[p] < s.skip[p]
             /\ ~r.fieldOver =>
                  /\ t.turn \in Active(t) /\ t.skip[t.turn] = 0
                  /\ Contested(s) => Contested(t)
<1>1. s \in GameState /\ Active(s) \in SUBSET Seats /\ Cardinality(Active(s)) \in Nat
  BY ActiveFinite DEF Sound
<1> DEFINE Stop(p) == Place(s, first, p) + s.skip[p] * Cardinality(Active(s))
<1>2. PICK turns \in Nat :
        /\ \A p \in Active(s) : turns <= Stop(p)
        /\ \A k \in 1 .. turns - 1 : ~AllOthersPassed(s, PassedAfter(s, first, k))
        /\ \/ /\ turns >= 1 /\ AllOthersPassed(s, PassedAfter(s, first, turns))
              /\ Resolved(s, first) = [state |-> SkippedTo(s, first, turns), fieldOver |-> TRUE]
           \/ /\ ~(turns >= 1 /\ AllOthersPassed(s, PassedAfter(s, first, turns)))
              /\ \E p \in Active(s) :
                   /\ turns = Stop(p)
                   /\ Resolved(s, first) = [state |-> [SkippedTo(s, first, turns) EXCEPT !.turn = p],
                                            fieldOver |-> FALSE]
  BY <1>1, ResolvedIs
<1> HIDE DEF Stop
<1>3. PICK passed : passed = PassedAfter(s, first, turns)
  OBVIOUS
<1>4. PICK skip : skip = [p \in Seats |-> s.skip[p] - IF p \in Active(s)
                                                     THEN Paid(s, first, turns, p) ELSE 0]
  OBVIOUS
<1>5. PICK r : r = Resolved(s, first)
  OBVIOUS
<1>6. PICK t : t = r.state
  OBVIOUS
<1>7. \E turn \in Seats \cup {NoPlayer} :
        /\ t = [s EXCEPT !.passed = passed, !.turnCount = @ + turns, !.skip = skip, !.turn = turn]
        /\ r.fieldOver => AllOthersPassed(s, passed)
        /\ ~r.fieldOver => /\ turn \in Active(s) /\ turns = Stop(turn)
                           /\ ~(turns >= 1 /\ AllOthersPassed(s, passed))
  <2>1. CASE AllOthersPassed(s, passed) /\ r = [state |-> SkippedTo(s, first, turns), fieldOver |-> TRUE]
    <3>1. s.turn \in Seats \cup {NoPlayer} /\ r.fieldOver
      BY <1>1, <2>1 DEF GameState
    <3>2. t = [s EXCEPT !.passed = passed, !.turnCount = @ + turns, !.skip = skip, !.turn = s.turn]
      BY <1>1, <1>3, <1>4, <1>6, <2>1 DEF SkippedTo, GameState
    <3>3. QED
      BY <2>1, <3>1, <3>2
  <2>2. ASSUME NEW p \in Active(s), turns = Stop(p),
               ~(turns >= 1 /\ AllOthersPassed(s, passed)),
               r = [state |-> [SkippedTo(s, first, turns) EXCEPT !.turn = p], fieldOver |-> FALSE]
        PROVE  /\ p \in Seats \cup {NoPlayer} /\ ~r.fieldOver
               /\ t = [s EXCEPT !.passed = passed, !.turnCount = @ + turns, !.skip = skip, !.turn = p]
    BY <1>1, <1>3, <1>4, <1>6, <2>2 DEF SkippedTo
  <2>3. QED
    BY <1>2, <1>3, <1>5, <2>1, <2>2
<1>8. PICK turn \in Seats \cup {NoPlayer} :
        /\ t = [s EXCEPT !.passed = passed, !.turnCount = @ + turns, !.skip = skip, !.turn = turn]
        /\ r.fieldOver => AllOthersPassed(s, passed)
        /\ ~r.fieldOver => /\ turn \in Active(s) /\ turns = Stop(turn)
                           /\ ~(turns >= 1 /\ AllOthersPassed(s, passed))
  BY <1>7
<1>9. ASSUME NEW p \in Seats
      PROVE  /\ s.skip[p] \in Nat /\ skip[p] \in Nat /\ skip[p] <= s.skip[p]
             /\ p \in Active(s) /\ turns = Stop(p) => skip[p] = 0
             /\ p \in Active(s) /\ Place(s, first, p) < turns => skip[p] < s.skip[p]
  <2>1. s.skip[p] \in Nat
    BY <1>1 DEF GameState
  <2>2. skip[p] = s.skip[p] - IF p \in Active(s) THEN Paid(s, first, turns, p) ELSE 0
    BY <1>4
  <2>3. CASE p \in Active(s)
    <3>1. /\ Paid(s, first, turns, p) \in 0 .. s.skip[p]
          /\ turns = Stop(p) => Paid(s, first, turns, p) = s.skip[p]
          /\ Place(s, first, p) < turns => Paid(s, first, turns, p) # 0
      BY <1>1, <1>2, <2>3, PaidIs DEF Stop
    <3>2. QED
      BY <2>1, <2>2, <2>3, <3>1
  <2>4. CASE p \notin Active(s)
    BY <2>1, <2>2, <2>4
  <2>5. QED
    BY <2>3, <2>4
<1>10. skip \in [Seats -> Nat] /\ passed \in SUBSET Seats
  <2>1. passed \in SUBSET Seats
    BY <1>1, <1>3 DEF PassedAfter, GameState
  <2>2. skip = [p \in Seats |-> skip[p]]
    BY <1>4
  <2>3. QED
    BY <1>9, <2>1, <2>2
<1>11. /\ t \in GameState
       /\ t.passed = passed /\ t.skip = skip /\ t.turn = turn
       /\ t.phase = s.phase /\ t.hand = s.hand /\ t.by = s.by /\ t.choice = s.choice
       /\ t.field = s.field /\ t.discard = s.discard /\ t.excluded = s.excluded
       /\ t.status = s.status /\ t.standing = s.standing /\ t.taken = s.taken
       /\ t.direction = s.direction /\ t.effects = s.effects
  <2>1. PICK count : count = s.turnCount + turns
    OBVIOUS
  <2>2. t = [s EXCEPT !.passed = passed, !.turnCount = count, !.skip = skip, !.turn = turn]
    BY <1>8, <2>1
  <2>3. count \in Nat
    BY <1>1, <2>1 DEF GameState
  <2>4. t \in GameState
    BY <1>1, <1>10, <2>2, <2>3 DEF GameState
  <2>5. QED
    BY <1>1, <2>2, <2>4 DEF GameState
<1>12. Sound(t) /\ Active(t) = Active(s)
  BY <1>11, SameCardsFit, SameRanked DEF Sound
<1>13. r.fieldOver => OnField(t)
  BY <1>8, <1>11 DEF AllOthersPassed, OnField
<1>14. ASSUME ~r.fieldOver, Contested(s), OnField(s)
       PROVE  \E p \in Active(s) \ {s.by} : p \notin passed
  <2>1. CASE turns = 0
    <3>1. {p \in Active(s) : Place(s, first, p) < 0} = {}
      BY PlaceIs
    <3>2. passed = s.passed
      BY <1>3, <2>1, <3>1 DEF PassedAfter
    <3>3. QED
      BY <1>14, <3>2 DEF Contested
  <2>2. CASE turns # 0
    BY <1>8, <1>14, <2>2 DEF AllOthersPassed
  <2>3. QED
    BY <2>1, <2>2
<1>15. ASSUME r.fieldOver, NEW p \in Active(s) \ {s.by}
       PROVE  p \in s.passed \/ skip[p] < s.skip[p]
  <2>1. p \in s.passed \/ Place(s, first, p) < turns
    BY <1>3, <1>8, <1>15 DEF AllOthersPassed, PassedAfter
  <2>2. QED
    BY <1>1, <1>9, <2>1
<1>16. ASSUME ~r.fieldOver, NEW p \in Active(s), Place(s, first, p) < Place(s, first, turn)
       PROVE  skip[p] < s.skip[p]
  <2>1. turn \in Active(s) /\ turns = Place(s, first, turn) + s.skip[turn] * Cardinality(Active(s))
    BY <1>8, <1>16 DEF Stop
  <2>2. s.skip[turn] \in Nat /\ Place(s, first, turn) \in Nat /\ Place(s, first, p) \in Nat
    BY <1>1, <2>1, PlaceIs DEF GameState
  <2>3. s.skip[turn] * Cardinality(Active(s)) \in Nat
    BY <1>1, <2>2
  <2>4. Place(s, first, p) < turns
    BY <1>16, <2>1, <2>2, <2>3
  <2>5. QED
    BY <1>1, <1>9, <2>4
<1>17. ~r.fieldOver => turn \in Active(t) /\ skip[turn] = 0
  BY <1>1, <1>8, <1>9, <1>12
<1>18. Contested(s) /\ ~r.fieldOver => Contested(t)
  BY <1>11, <1>12, <1>14 DEF Contested, OnField
<1>19. QED
  BY <1>1, <1>5, <1>6, <1>9, <1>11, <1>12, <1>13, <1>15, <1>16, <1>17, <1>18

-----------------------------------------------------------------------------
(* The rest of a turn.                                                     *)

\* A state in which somebody moves next or the game is decided.
Going(s) == Sound(s) /\ (Decided(s) \/ ToMove(s))

LEMMA ClearedSound ==
  ASSUME NEW s, Sound(s), Active(s) # {}
  PROVE  LET t == Cleared(s)
         IN  /\ Sound(t) /\ ~OnField(t) /\ t.phase = s.phase
             /\ t.turn = FirstActive(s, s.by) /\ Active(t) = Active(s) /\ t.hand = s.hand
             /\ t.skip = s.skip /\ t.direction = s.direction /\ t.effects = s.effects
<1>1. PICK turn : turn = FirstActive(s, s.by)
  OBVIOUS
<1>2. PICK t : t = Cleared(s)
  OBVIOUS
<1>3. s \in GameState /\ s.by \in Int
  <2>1. s.by \in Seats \cup {NoPlayer}
    BY DEF Sound, GameState
  <2>2. s.by \in Int
    BY <2>1, SeatsAreNumbers
  <2>3. QED
    BY <2>2 DEF Sound
<1>4. turn \in Seats
  BY <1>1, <1>3, FirstActiveIs, ActiveFinite
<1>5. t = [s EXCEPT !.turn = turn, !.field = {}, !.by = NoPlayer, !.passed = {},
                    !.discard = @ \cup s.field]
  BY <1>1, <1>2 DEF Cleared
<1>6. /\ t \in GameState /\ t.by = NoPlayer /\ t.field = {} /\ t.phase = s.phase
      /\ t.turn = turn /\ t.skip = s.skip /\ t.direction = s.direction /\ t.effects = s.effects
      /\ t.hand = s.hand /\ t.discard = s.discard \cup s.field /\ t.excluded = s.excluded
      /\ t.status = s.status /\ t.standing = s.standing /\ t.taken = s.taken
  <2>1. s.discard \cup s.field \in SUBSET Cards
    BY <1>3 DEF GameState
  <2>2. QED
    BY <1>3, <1>4, <1>5, <2>1 DEF GameState
<1>7. CardsFit(t)
  <2>1. PICK where \in [Cards -> Places] : LaidOut(s, where)
    BY DEF Sound, CardsFit
  <2> DEFINE now == [c \in Cards |-> IF where[c] = FieldZone THEN DiscardZone ELSE where[c]]
  <2>2. now \in [Cards -> Places]
    BY ZonesDiffer
  <2>3. LaidOut(t, now)
    BY <1>6, <2>1, ZonesDiffer DEF LaidOut
  <2> HIDE DEF now
  <2>4. QED
    BY <1>6, <2>2, <2>3 DEF CardsFit, OnField
<1>8. Ranked(t) /\ Active(t) = Active(s)
  BY <1>6, SameRanked DEF Sound
<1>9. QED
  BY <1>1, <1>2, <1>6, <1>7, <1>8 DEF Sound, OnField

LEMMA LedGoes ==
  ASSUME NEW s, Sound(s), Held(s), s.phase = "awaitingPlay", ~OnField(s)
  PROVE  Going(Led(s))
<1>1. CASE Decided(s)
  BY <1>1 DEF Led, Going
<1>2. CASE ~Decided(s)
  <2>1. PICK r : r = Resolved(s, FirstActive(s, s.turn))
    OBVIOUS
  <2>2. /\ Sound(r.state) /\ Active(r.state) = Active(s)
        /\ r.state.phase = s.phase /\ r.state.hand = s.hand /\ r.state.by = s.by
        /\ r.fieldOver => OnField(r.state)
        /\ ~r.fieldOver => r.state.turn \in Active(s) /\ r.state.skip[r.state.turn] = 0
    BY <1>2, <2>1, ActiveFinite, ResolvedSound
  <2>3. ToMove(r.state)
    BY <1>2, <2>2 DEF ToMove, Decided, Held, Contested, OnField
  <2>4. QED
    BY <1>2, <2>1, <2>2, <2>3 DEF Led, Going
<1>3. QED
  BY <1>1, <1>2

LEMMA ClearFieldGoes ==
  ASSUME NEW s, Sound(s), s.phase = "awaitingPlay", Active(s) # {}, OnField(s),
         NEW t \in ClearField(s)
  PROVE  Going(t)
<1>1. PICK h \in Hooked(Cleared(s)) : t = Led(h)
  BY DEF ClearField
<1>2. Sound(Cleared(s)) /\ ~OnField(Cleared(s)) /\ Cleared(s).phase = "awaitingPlay"
  BY ClearedSound
<1>3. Sound(h) /\ Held(h) /\ Untouched(Cleared(s), h)
  BY <1>2, HookedSound
<1>4. QED
  BY <1>1, <1>2, <1>3, LedGoes DEF Untouched

LEMMA AdvanceTurnGoes ==
  ASSUME NEW s, Sound(s), Held(s), s.phase = "awaitingPlay", ~Decided(s), Contested(s),
         NEW p, NEW t \in AdvanceTurn(s, p)
  PROVE  Going(t)
<1>1. PICK r : r = Resolved(s, NextActive(s, p))
  OBVIOUS
<1>2. /\ Sound(r.state) /\ Active(r.state) = Active(s) /\ Active(s) # {}
      /\ r.state.phase = s.phase /\ r.state.hand = s.hand
      /\ r.fieldOver => OnField(r.state)
      /\ ~r.fieldOver => /\ r.state.turn \in Active(r.state)
                         /\ r.state.skip[r.state.turn] = 0 /\ Contested(r.state)
  BY <1>1, ActiveFinite, ResolvedSound
<1>3. CASE r.fieldOver
  BY <1>1, <1>2, <1>3, ClearFieldGoes DEF AdvanceTurn
<1>4. CASE ~r.fieldOver
  <2>1. t = r.state
    BY <1>1, <1>4 DEF AdvanceTurn
  <2>2. ToMove(t)
    BY <1>2, <1>4, <2>1 DEF ToMove, Decided, Held
  <2>3. QED
    BY <1>2, <2>1, <2>2 DEF Going
<1>5. QED
  BY <1>3, <1>4

\* A play is complete: the field goes, or the turn goes on.
LEMMA CompletePlaySettles ==
  ASSUME NEW s, Sound(s), Held(s), s.phase = "awaitingPlay", s.passed = {},
         NEW clear, clear => OnField(s), NEW p, NEW t \in CompletePlay(s, p, clear)
  PROVE  Settled(t)
<1>1. CASE s.turnCount > TurnLimit \/ Decided(s)
  BY <1>1, EndIfDueSettles DEF CompletePlay
<1>2. CASE ~(s.turnCount > TurnLimit \/ Decided(s))
  <2>1. Active(s) # {} /\ Contested(s)
    <3>1. /\ Active(s) # {}
          /\ \A q \in Active(s) : Active(s) \ {q} # {}
      BY <1>2, ActiveFinite
    <3>2. Active(s) \ {s.by} # {}
      BY <3>1
    <3>3. QED
      BY <3>1, <3>2 DEF Contested
  <2>2. CASE clear
    <3>1. PICK u \in ClearField(s) : t = EndIfDecided(u)
      BY <1>2, <2>2 DEF CompletePlay
    <3>2. Going(u)
      BY <2>1, <2>2, ClearFieldGoes
    <3>3. QED
      BY <3>1, <3>2, EndIfDecidedSettles DEF Going
  <2>3. CASE ~clear
    <3>1. PICK u \in AdvanceTurn(s, p) : t = EndIfDue(u)
      BY <1>2, <2>3 DEF CompletePlay
    <3>2. Going(u)
      BY <1>2, <2>1, AdvanceTurnGoes
    <3>3. QED
      BY <3>1, <3>2, EndIfDueSettles DEF Going
  <2>4. QED
    BY <2>2, <2>3
<1>3. QED
  BY <1>1, <1>2

LEMMA CompleteStartSettles ==
  ASSUME NEW s, Sound(s), Held(s), s.phase = "awaitingPlay", ~OnField(s)
  PROVE  Settled(CompleteStart(s))
<1>1. CASE Decided(s)
  BY <1>1, GameOverSound DEF CompleteStart
<1>2. CASE ~Decided(s)
  <2>1. CompleteStart(s) = Led(s) /\ Going(Led(s))
    BY <1>2, LedGoes DEF CompleteStart
  <2>2. PICK r : r = Resolved(s, FirstActive(s, s.turn))
    OBVIOUS
  <2>3. Led(s) = r.state /\ Active(r.state) = Active(s)
    BY <1>2, <2>2, ActiveFinite, ResolvedSound DEF Led
  <2>4. QED
    BY <1>2, <2>1, <2>3 DEF Going, Settled, Decided
<1>3. QED
  BY <1>1, <1>2

LEMMA AfterPassSettles ==
  ASSUME NEW s, Sound(s), Held(s), s.phase = "awaitingPlay", NEW p, NEW t \in AfterPass(s, p)
  PROVE  Settled(t)
<1>1. CASE Decided(s)
  BY <1>1, GameOverSound DEF AfterPass
<1>2. CASE ~Decided(s)
  <2>1. Active(s) # {}
    BY <1>2, ActiveFinite
  <2>2. PICK u : /\ t = EndIfDue(u)
                 /\ u \in IF AllOthersPassed(s, s.passed) THEN ClearField(s)
                                                          ELSE AdvanceTurn(s, p)
    BY <1>2 DEF AfterPass
  <2>3. CASE AllOthersPassed(s, s.passed)
    <3>1. OnField(s) /\ u \in ClearField(s)
      BY <2>2, <2>3 DEF AllOthersPassed
    <3>2. QED
      BY <2>1, <2>2, <3>1, ClearFieldGoes, EndIfDueSettles DEF Going
  <2>4. CASE ~AllOthersPassed(s, s.passed)
    <3>1. Contested(s) /\ u \in AdvanceTurn(s, p)
      BY <2>2, <2>4 DEF AllOthersPassed, Contested
    <3>2. QED
      BY <1>2, <2>2, <3>1, AdvanceTurnGoes, EndIfDueSettles DEF Going
  <2>5. QED
    BY <2>3, <2>4
<1>3. QED
  BY <1>1, <1>2

-----------------------------------------------------------------------------
(* Choices of players.                                                     *)

LEMMA NoChoiceTyped == NoChoice \in Choice
<1>1. <<>> \in Seq(Seats) /\ {} \in SUBSET Seats
  OBVIOUS
<1>2. QED
  BY <1>1 DEF NoChoice, Choice

LEMMA AwaitingSettles ==
  ASSUME NEW s, Sound(s), NEW c \in Choice, c.asked # <<>>, Answerable(s, c)
  PROVE  /\ Sound(Awaiting(s, c)) /\ ToAnswer(Awaiting(s, c)) /\ Settled(Awaiting(s, c))
         /\ Awaiting(s, c).choice = c
<1>1. PICK t : t = Awaiting(s, c)
  OBVIOUS
<1>2. s \in GameState /\ t = [s EXCEPT !.phase = "awaitingChoice", !.choice = c]
  BY <1>1 DEF Awaiting, Sound
<1>3. /\ t \in GameState /\ t.phase = "awaitingChoice" /\ t.choice = c
      /\ t.hand = s.hand /\ t.field = s.field /\ t.by = s.by /\ t.discard = s.discard
      /\ t.excluded = s.excluded /\ t.status = s.status /\ t.standing = s.standing
      /\ t.taken = s.taken /\ t.passed = s.passed
  BY <1>2 DEF GameState
<1>4. Sound(t) /\ Active(t) = Active(s)
  BY <1>3, SameCardsFit, SameRanked DEF Sound
<1>5. ToAnswer(t)
  BY <1>3, <1>4 DEF ToAnswer, Answerable, Held, OnField
<1>6. QED
  BY <1>1, <1>3, <1>4, <1>5 DEF Settled

LEMMA OneByOneSettles ==
  ASSUME NEW s, Sound(s), NEW c \in Choice, Answerable(s, c), NEW t \in OneByOne(s, c)
  PROVE  Sound(t) /\ ToAnswer(t) /\ Settled(t)
<1>1. Affordable(s, 1)
  BY DEF OneByOne
<1>2. PICK q \in Requests :
        t = Awaiting([s EXCEPT !.effects = @ + 1], [c EXCEPT !.asked = q \o c.asked])
  BY <1>1 DEF OneByOne
<1>3. PICK u : u = [s EXCEPT !.effects = @ + 1]
  OBVIOUS
<1>4. PICK d : d = [c EXCEPT !.asked = q \o c.asked]
  OBVIOUS
<1>5. q \in Seq(Seats) /\ Len(q) >= 1
  <2>1. PICK k \in 1 .. MaxAsked : q \in [1 .. k -> Seats]
    BY <1>2 DEF Requests
  <2>2. k \in Nat /\ k >= 1
    BY <2>1, BoundAssumption
  <2>3. QED
    BY <2>1, <2>2
<1>6. d \in Choice /\ d.asked # <<>> /\ d.hook = c.hook /\ d.clear = c.clear
  <2>1. c.asked \in Seq(Seats)
    BY DEF Choice
  <2>2. PICK asked : asked = q \o c.asked
    OBVIOUS
  <2>3. asked \in Seq(Seats) /\ Len(asked) = Len(q) + Len(c.asked)
    BY <1>5, <2>1, <2>2
  <2>4. asked # <<>>
    BY <1>5, <2>1, <2>3
  <2>5. QED
    BY <1>4, <2>2, <2>3, <2>4 DEF Choice
<1>7. s.effects + 1 \in 0 .. MaxEffects /\ s \in GameState
  BY <1>1, BoundAssumption DEF Sound, GameState, Affordable
<1>8. /\ u \in GameState
      /\ u.hand = s.hand /\ u.field = s.field /\ u.by = s.by /\ u.discard = s.discard
      /\ u.excluded = s.excluded /\ u.status = s.status /\ u.standing = s.standing
      /\ u.taken = s.taken /\ u.passed = s.passed
  BY <1>3, <1>7 DEF GameState
<1>9. Sound(u) /\ Active(u) = Active(s)
  BY <1>8, SameCardsFit, SameRanked DEF Sound
<1>10. Answerable(u, d)
  BY <1>6, <1>8, <1>9 DEF Answerable, Held, OnField
<1>11. QED
  BY <1>2, <1>3, <1>4, <1>6, <1>9, <1>10, AwaitingSettles

LEMMA AtOnceSettles ==
  ASSUME NEW s, Sound(s), NEW c \in Choice, Answerable(s, c), NEW t \in AtOnce(s, c)
  PROVE  ToAnswer(t) /\ Settled(t)
<1>1. PICK g \in OneByOne(s, c), on \in BOOLEAN :
        t = Awaiting(g, [g.choice EXCEPT !.together = TRUE, !.asksOn = on])
  BY DEF AtOnce
<1>2. Sound(g) /\ ToAnswer(g)
  BY OneByOneSettles
<1>3. PICK d : d = [g.choice EXCEPT !.together = TRUE, !.asksOn = on]
  OBVIOUS
<1>4. g.choice \in Choice
  BY <1>2 DEF Sound, GameState
<1>5. d \in Choice /\ d.asked = g.choice.asked /\ d.hook = g.choice.hook /\ d.clear = g.choice.clear
  BY <1>3, <1>4 DEF Choice
<1>6. d.asked # <<>> /\ Answerable(g, d)
  BY <1>2, <1>5 DEF ToAnswer, Answerable
<1>7. QED
  BY <1>1, <1>2, <1>3, <1>5, <1>6, AwaitingSettles

LEMMA AskingSettles ==
  ASSUME NEW s, Sound(s), Held(s), s.passed = {}, NEW hook \in {"afterPlay", "onGameStart"},
         hook = "onGameStart" => ~OnField(s), NEW p \in Seats \cup {NoPlayer},
         NEW t \in Asking(s, hook, p)
  PROVE  ToAnswer(t) /\ Settled(t)
<1>1. PICK c : c = [NoChoice EXCEPT !.hook = hook, !.playedBy = p, !.rules = Rules - 1]
  OBVIOUS
<1>2. Rules # 0 /\ t \in OneByOne(s, c) \cup AtOnce(s, c)
  BY <1>1 DEF Asking
<1>3. Rules - 1 \in Nat
  BY <1>2, LimitAssumption
<1>4. PICK none : none = NoChoice
  OBVIOUS
<1>5. none \in Choice /\ none.clear = FALSE
  BY <1>4, NoChoiceTyped DEF NoChoice
<1>6. c \in Choice /\ c.hook = hook /\ c.clear = FALSE
  BY <1>1, <1>3, <1>4, <1>5 DEF Choice
<1>7. Answerable(s, c)
  BY <1>6 DEF Answerable
<1>8. QED
  BY <1>2, <1>6, <1>7, OneByOneSettles, AtOnceSettles

\* The effects of a hook leave its choices answerable.
LEMMA HookedForSound ==
  ASSUME NEW s, Sound(s), NEW c \in Choice, Answerable(s, c), NEW r \in HookedFor(s, c),
         ~FieldMayVanish
  PROVE  /\ Sound(r.state) /\ Untouched(s, r.state)
         /\ [c EXCEPT !.clear = r.clear] \in Choice
         /\ Answerable(r.state, [c EXCEPT !.clear = r.clear])
<1>1. /\ Sound(r.state) /\ Held(r.state) /\ Untouched(s, r.state)
      /\ r.clear \in BOOLEAN
      /\ r.clear => OnField(r.state)
  <2>1. CASE c.hook = "afterPlay"
    <3>1. c.clear \in BOOLEAN
      BY DEF Choice
    <3>2. QED
      BY <2>1, <3>1, HookedAfterPlaySound DEF HookedFor
  <2>2. CASE c.hook # "afterPlay"
    <3>1. PICK h \in Hooked(s) : r = [state |-> h, clear |-> FALSE]
      BY <2>2 DEF HookedFor
    <3>2. QED
      BY <3>1, HookedSound
  <2>3. QED
    BY <2>1, <2>2
<1>2. PICK d : d = [c EXCEPT !.clear = r.clear]
  OBVIOUS
<1>3. d \in Choice /\ d.hook = c.hook /\ d.clear = r.clear
  <2>1. PICK b : b = r.clear
    OBVIOUS
  <2>2. b \in BOOLEAN
    BY <1>1, <2>1, Zenon
  <2>3. d = [c EXCEPT !.clear = b]
    BY <1>2, <2>1, Zenon
  <2>4. d \in Choice /\ d.hook = c.hook /\ d.clear = b
    BY <2>2, <2>3 DEF Choice
  <2>5. QED
    BY <2>1, <2>4, Zenon
<1>4. Answerable(r.state, d)
  BY <1>1, <1>3 DEF Answerable, Untouched
<1>5. QED
  BY <1>1, <1>2, <1>3, <1>4

LEMMA CompletedSettles ==
  ASSUME NEW s, Sound(s), s.phase = "awaitingPlay", NEW c, Answerable(s, c),
         NEW t \in Completed(s, c)
  PROVE  Settled(t)
<1>1. CASE c.hook = "afterPlay"
  BY <1>1, CompletePlaySettles DEF Completed, Answerable
<1>2. CASE c.hook # "afterPlay"
  BY <1>2, CompleteStartSettles DEF Completed, Answerable
<1>3. QED
  BY <1>1, <1>2

LEMMA ContinuedSettles ==
  ASSUME NEW s, Sound(s), s.phase = "awaitingPlay", NEW c \in Choice, Answerable(s, c),
         NEW t \in Continued(s, c), ~FieldMayVanish
  PROVE  Settled(t)
<1>1. CASE c.asked # <<>>
  BY <1>1, AwaitingSettles DEF Continued
<1>2. CASE c.asked = <<>> /\ c.rules = 0
  BY <1>2, CompletedSettles DEF Continued
<1>3. CASE c.asked = <<>> /\ c.rules # 0 /\ t \in OneByOne(s, [c EXCEPT !.rules = @ - 1])
  <2>1. PICK d : d = [c EXCEPT !.rules = @ - 1]
    OBVIOUS
  <2>2. c.rules - 1 \in Nat
    BY <1>3 DEF Choice
  <2>3. d \in Choice /\ d.hook = c.hook /\ d.clear = c.clear
    BY <2>1, <2>2 DEF Choice
  <2>4. QED
    BY <1>3, <2>1, <2>3, OneByOneSettles DEF Answerable
<1>4. CASE \E r \in HookedFor(s, c) : t \in Completed(r.state, [c EXCEPT !.clear = r.clear])
  <2>1. PICK r \in HookedFor(s, c) : t \in Completed(r.state, [c EXCEPT !.clear = r.clear])
    BY <1>4
  <2>2. /\ Sound(r.state) /\ Untouched(s, r.state)
        /\ Answerable(r.state, [c EXCEPT !.clear = r.clear])
    BY HookedForSound
  <2>3. QED
    BY <2>1, <2>2, CompletedSettles DEF Untouched
<1>5. QED
  BY <1>1, <1>2, <1>3, <1>4 DEF Continued

LEMMA ServedSettles ==
  ASSUME NEW s, Sound(s), s.phase = "awaitingPlay", NEW c \in Choice, c.asked # <<>>,
         Answerable(s, c), NEW t \in Served(s, c), ~FieldMayVanish
  PROVE  Settled(t)
<1>1. PICK rest : rest = [c EXCEPT !.asked = Tail(@)]
  OBVIOUS
<1>2. rest \in Choice /\ Answerable(s, rest)
  <2>1. c.asked \in Seq(Seats)
    BY DEF Choice
  <2>2. Tail(c.asked) \in Seq(Seats)
    BY <2>1
  <2>3. rest \in Choice /\ rest.hook = c.hook /\ rest.clear = c.clear
    BY <1>1, <2>2 DEF Choice
  <2>4. QED
    BY <2>3 DEF Answerable
<1>3. CASE t \in OneByOne(s, rest)
  BY <1>2, <1>3, OneByOneSettles
<1>4. CASE \E r \in HookedFor(s, rest) : t \in Continued(r.state, [rest EXCEPT !.clear = r.clear])
  <2>1. PICK r \in HookedFor(s, rest) : t \in Continued(r.state, [rest EXCEPT !.clear = r.clear])
    BY <1>4
  <2>2. /\ Sound(r.state) /\ Untouched(s, r.state)
        /\ [rest EXCEPT !.clear = r.clear] \in Choice
        /\ Answerable(r.state, [rest EXCEPT !.clear = r.clear])
    BY <1>2, HookedForSound
  <2>3. QED
    BY <2>1, <2>2, ContinuedSettles DEF Untouched
<1>5. QED
  BY <1>1, <1>3, <1>4 DEF Served

\* Several answers at once: the effects of all but the last, then the last.
LEMMA ServedAtOnceSettles ==
  ASSUME NEW s, Sound(s), s.phase = "awaitingPlay", NEW c \in Choice, c.asked # <<>>,
         Answerable(s, c), NEW t \in ServedAtOnce(s, c), ~FieldMayVanish
  PROVE  Settled(t)
<1> DEFINE last == Len(c.asked)
           one == [c EXCEPT !.asked = <<c.asked[last]>>, !.together = FALSE, !.answered = {}]
           first == {[state |-> s, clear |-> FALSE]}
           step(R) == UNION {HookedFor(r.state, [one EXCEPT !.clear = r.clear]) : r \in R}
           goesOn(f, n) == /\ f = [k \in 0 .. n |-> f[k]] /\ f[0] = first
                           /\ \A k \in 1 .. n : f[k] = step(f[k - 1])
           after[k \in 0 .. last - 1] ==
             IF k = 0 THEN {[state |-> s, clear |-> FALSE]}
             ELSE UNION {HookedFor(r.state, [one EXCEPT !.clear = r.clear]) : r \in after[k - 1]}
           Fits(r) == /\ Sound(r.state) /\ r.state.phase = "awaitingPlay"
                      /\ [one EXCEPT !.clear = r.clear] \in Choice
                      /\ Answerable(r.state, [one EXCEPT !.clear = r.clear])
<1>1. last \in Nat /\ last >= 1 /\ c.asked[last] \in Seats
  <2>1. c.asked \in Seq(Seats)
    BY DEF Choice
  <2>2. QED
    BY <2>1
<1>2. one \in Choice /\ one.hook = c.hook /\ one.asked # <<>>
  <2>1. PICK asked : asked = <<c.asked[last]>>
    OBVIOUS
  <2>2. asked \in Seq(Seats) /\ asked # <<>>
    BY <1>1, <2>1
  <2>3. one = [c EXCEPT !.asked = asked, !.together = FALSE, !.answered = {}]
    BY <2>1
  <2> HIDE DEF one
  <2>4. QED
    BY <2>2, <2>3 DEF Choice
<1>3. \E f : goesOn(f, last - 1)
  <2> HIDE DEF first, step
  <2> DEFINE bad == {n \in 0 .. last - 1 : ~ \E f : goesOn(f, n)}
             id == [n \in bad |-> n]
  <2>1. SUFFICES ASSUME bad # {} PROVE FALSE
    BY <1>1
  <2>2. PICK n \in bad : \A m \in bad : n <= m
    <3>1. \A m \in bad : id[m] \in Nat
      OBVIOUS
    <3>2. \E m \in bad : \A k \in bad : id[m] <= id[k]
      <4> HIDE DEF bad, id
      <4>1. QED
        BY <2>1, <3>1, LeastExists
    <3>3. QED
      BY <3>2
  <2>3. n \in 0 .. last - 1 /\ ~ \E f : goesOn(f, n)
    OBVIOUS
  <2>4. CASE n = 0
    <3> DEFINE f == [k \in 0 .. 0 |-> first]
    <3>1. goesOn(f, 0)
      OBVIOUS
    <3>2. QED
      BY <2>3, <2>4, <3>1
  <2>5. CASE n # 0
    <3>1. n - 1 \in 0 .. last - 1 /\ n - 1 \notin bad
      BY <1>1, <2>2, <2>3, <2>5
    <3>2. PICK f : goesOn(f, n - 1)
      BY <3>1
    <3> DEFINE g == [k \in 0 .. n |-> IF k = n THEN step(f[n - 1]) ELSE f[k]]
    <3>3. goesOn(g, n)
      <4>1. g = [k \in 0 .. n |-> g[k]] /\ g[0] = first
        BY <1>1, <2>3, <2>5, <3>2
      <4>2. ASSUME NEW k \in 1 .. n PROVE g[k] = step(g[k - 1])
        <5>1. k \in 0 .. n /\ k - 1 \in 0 .. n /\ k - 1 # n
          BY <1>1, <2>3
        <5>2. g[k - 1] = f[k - 1]
          BY <5>1
        <5>3. CASE k = n
          BY <5>1, <5>2, <5>3
        <5>4. CASE k # n
          <6>1. k \in 1 .. n - 1
            BY <1>1, <2>3, <5>4
          <6>2. QED
            BY <3>2, <5>1, <5>2, <5>4, <6>1
        <5>5. QED
          BY <5>3, <5>4
      <4>3. QED
        BY <4>1, <4>2
    <3>4. QED
      BY <2>3, <3>3
  <2>6. QED
    BY <2>4, <2>5
<1>4. after = [k \in 0 .. last - 1 |->
                 IF k = 0 THEN {[state |-> s, clear |-> FALSE]}
                 ELSE UNION {HookedFor(r.state, [one EXCEPT !.clear = r.clear]) : r \in after[k - 1]}]
  <2>1. PICK f : goesOn(f, last - 1)
    BY <1>3
  <2>2. f = [k \in 0 .. last - 1 |-> IF k = 0 THEN first ELSE step(f[k - 1])]
    <3> HIDE DEF first, step, last
    <3>1. \A k \in 0 .. last - 1 : f[k] = IF k = 0 THEN first ELSE step(f[k - 1])
      <4>1. f[0] = first
        BY <2>1
      <4>2. \A k \in 1 .. last - 1 : f[k] = step(f[k - 1])
        BY <2>1
      <4>3. \A k \in 0 .. last - 1 : k = 0 \/ (k \in 1 .. last - 1 /\ k # 0)
        BY <1>1
      <4>4. QED
        BY <4>1, <4>2, <4>3
    <3>2. f = [k \in 0 .. last - 1 |-> f[k]]
      BY <2>1
    <3>3. QED
      BY <3>1, <3>2
  <2>3. \E g : g = [k \in 0 .. last - 1 |->
                      IF k = 0 THEN {[state |-> s, clear |-> FALSE]}
                      ELSE UNION {HookedFor(r.state, [one EXCEPT !.clear = r.clear]) : r \in g[k - 1]}]
    BY <2>2, Zenon
  <2> HIDE DEF one, last
  <2>4. QED
    BY <2>3, Zenon
<1>5. /\ \A r \in after[0] : r = [state |-> s, clear |-> FALSE]
      /\ \A k \in 1 .. last - 1 : \A r \in after[k] :
           \E o \in after[k - 1] : r \in HookedFor(o.state, [one EXCEPT !.clear = o.clear])
  <2> HIDE DEF one, last, after
  <2>1. \A k \in 0 .. last - 1 :
          after[k] = IF k = 0 THEN {[state |-> s, clear |-> FALSE]}
                     ELSE UNION {HookedFor(r.state, [one EXCEPT !.clear = r.clear]) : r \in after[k - 1]}
    BY <1>4, Zenon
  <2>2. 0 \in 0 .. last - 1 /\ \A k \in 1 .. last - 1 : k \in 0 .. last - 1 /\ k # 0
    BY <1>1
  <2>3. after[0] = {[state |-> s, clear |-> FALSE]}
    BY <2>1, <2>2
  <2>4. \A k \in 1 .. last - 1 :
          after[k] = UNION {HookedFor(r.state, [one EXCEPT !.clear = r.clear]) : r \in after[k - 1]}
    BY <2>1, <2>2, Zenon
  <2>5. QED
    BY <2>3, <2>4
<1>6. \A r : r = [state |-> s, clear |-> FALSE] => Fits(r)
  <2> SUFFICES ASSUME NEW r, r = [state |-> s, clear |-> FALSE] PROVE Fits(r)
    OBVIOUS
  <2>1. PICK d : d = [one EXCEPT !.clear = FALSE]
    OBVIOUS
  <2>2. r.state = s /\ [one EXCEPT !.clear = r.clear] = d
    BY <2>1
  <2>3. d \in Choice /\ d.hook = c.hook /\ d.clear = FALSE
    <3> HIDE DEF one
    <3>1. QED
      BY <1>2, <2>1 DEF Choice
  <2>4. Answerable(s, d)
    BY <2>3 DEF Answerable
  <2> HIDE DEF one
  <2>5. QED
    BY <2>2, <2>3, <2>4
<1>7. ASSUME NEW o, Fits(o), NEW r \in HookedFor(o.state, [one EXCEPT !.clear = o.clear])
      PROVE  Fits(r)
  <2>1. PICK d : d = [one EXCEPT !.clear = o.clear]
    OBVIOUS
  <2> HIDE DEF one
  <2>2. /\ Sound(r.state) /\ Untouched(o.state, r.state)
        /\ [d EXCEPT !.clear = r.clear] \in Choice
        /\ Answerable(r.state, [d EXCEPT !.clear = r.clear])
    BY <1>7, <2>1, HookedForSound
  <2>3. [d EXCEPT !.clear = r.clear] = [one EXCEPT !.clear = r.clear]
    BY <1>2, <2>1 DEF Choice
  <2>4. QED
    BY <1>7, <2>2, <2>3 DEF Untouched
<1>8. \A k \in 0 .. last - 1 : \A r \in after[k] : Fits(r)
  <2> HIDE DEF one, last, after, Fits
  <2> DEFINE bad == {k \in 0 .. last - 1 : \E r \in after[k] : ~Fits(r)}
             id == [n \in bad |-> n]
  <2>1. SUFFICES ASSUME bad # {} PROVE FALSE
    OBVIOUS
  <2>2. PICK n \in bad : \A m \in bad : n <= m
    <3>1. \A m \in bad : id[m] \in Nat
      OBVIOUS
    <3>2. \E m \in bad : \A k \in bad : id[m] <= id[k]
      <4> HIDE DEF bad, id
      <4>1. QED
        BY <2>1, <3>1, LeastExists
    <3>3. QED
      BY <3>2
  <2>3. n \in 0 .. last - 1 /\ \E r \in after[n] : ~Fits(r)
    OBVIOUS
  <2>4. CASE n = 0
    BY <1>5, <1>6, <2>3, <2>4
  <2>5. CASE n # 0
    <3>1. n \in 1 .. last - 1 /\ n - 1 \in 0 .. last - 1 /\ n - 1 \notin bad
      BY <1>1, <2>2, <2>3, <2>5
    <3>2. \A o \in after[n - 1] : Fits(o)
      BY <3>1
    <3>3. \A r \in after[n] :
            \E o \in after[n - 1] : r \in HookedFor(o.state, [one EXCEPT !.clear = o.clear])
      BY <1>5, <3>1
    <3>4. QED
      BY <1>7, <2>3, <3>2, <3>3
  <2>6. QED
    BY <2>4, <2>5
<1>9. PICK r \in after[last - 1] : t \in Served(r.state, [one EXCEPT !.clear = r.clear])
  <2> HIDE DEF Fits
  <2>1. t \in UNION {Served(r.state, [one EXCEPT !.clear = r.clear]) : r \in after[last - 1]}
    BY Zenon DEF ServedAtOnce
  <2> HIDE DEF one, last, after
  <2>2. QED
    BY <2>1
<1>10. Fits(r)
  <2> HIDE DEF one, last, after, Fits
  <2>1. last - 1 \in 0 .. last - 1
    BY <1>1
  <2>2. QED
    BY <1>8, <1>9, <2>1
<1>11. QED
  <2>1. PICK d : d = [one EXCEPT !.clear = r.clear]
    OBVIOUS
  <2> HIDE DEF one, last, after
  <2>2. d.asked = one.asked
    BY <1>2, <2>1 DEF Choice
  <2>3. QED
    BY <1>2, <1>9, <1>10, <2>1, <2>2, ServedSettles

-----------------------------------------------------------------------------
(* The invariant of the game.                                              *)

\* A start without players asked.
LEMMA FreshSound ==
  ASSUME NEW hand \in Deals
  PROVE  /\ Sound(Fresh(hand)) /\ Held(Fresh(hand)) /\ ~OnField(Fresh(hand))
         /\ Fresh(hand).phase = "awaitingPlay" /\ Fresh(hand).passed = {}
<1>1. PICK to \in [Cards -> Seats] : hand = [p \in Seats |-> {c \in Cards : to[c] = p}]
  BY DEF Deals
<1>2. PICK turn : turn = CHOOSE p \in Seats : FirstCard \in hand[p]
  OBVIOUS
<1>3. turn \in Seats
  <2>1. FirstCard \in hand[to[FirstCard]] /\ to[FirstCard] \in Seats
    BY <1>1, DeckAssumption
  <2>2. QED
    BY <1>2, <2>1
<1>4. hand \in [Seats -> SUBSET Cards]
  BY <1>1
<1>5. PICK s : s = Fresh(hand)
  OBVIOUS
<1>6. PICK none : none = NoChoice
  OBVIOUS
<1>7. none \in Choice /\ 0 \in 0 .. MaxEffects
  BY <1>6, NoChoiceTyped, BoundAssumption
<1>8. s = [ phase |-> "awaitingPlay", turn |-> turn,
            direction |-> 1, hand |-> hand, field |-> {}, by |-> NoPlayer, passed |-> {},
            discard |-> {}, excluded |-> {}, status |-> [p \in Seats |-> "active"],
            standing |-> [p \in Seats |-> NoRank], taken |-> {}, skip |-> [p \in Seats |-> 0],
            turnCount |-> 0, choice |-> none, effects |-> 0 ]
  BY <1>2, <1>5, <1>6 DEF Fresh
<1>9. s \in GameState
  BY <1>3, <1>4, <1>7, <1>8 DEF GameState
<1>10. /\ s.phase = "awaitingPlay" /\ s.passed = {} /\ s.by = NoPlayer /\ s.hand = hand
       /\ s.field = {} /\ s.discard = {} /\ s.excluded = {} /\ s.taken = {}
       /\ \A p \in Seats : s.status[p] = "active" /\ s.standing[p] = NoRank
  BY <1>8
<1>11. Active(s) = Seats
  BY <1>10 DEF Active
<1>12. CardsFit(s)
  <2>1. to \in [Cards -> Places]
    BY ZonesDiffer
  <2>2. LaidOut(s, to)
    BY <1>1, <1>10, ZonesDiffer DEF LaidOut
  <2>3. QED
    BY <1>10, <2>1, <2>2 DEF CardsFit, OnField
<1>13. Ranked(s)
  BY <1>10, <1>11 DEF Ranked
<1>14. Held(s)
  <2> SUFFICES ASSUME NEW p \in Seats, hand[p] = {} PROVE FALSE
    BY <1>10, <1>11 DEF Held
  <2>1. PICK start \in Seats :
          Cardinality(hand[p]) = (Cardinality(Cards) + N - 1 - ((p - start) % N)) \div N
    BY DEF Deals
  <2>2. PICK n : n = Cardinality(Cards)
    OBVIOUS
  <2>3. PICK m : m = (p - start) % N
    OBVIOUS
  <2>4. N \in Nat /\ N >= 2 /\ n \in Nat /\ n >= N
    BY <2>2, PlayerAssumption, DeckAssumption, FS_CardinalityType
  <2>5. m \in 0 .. N - 1
    <3>1. p - start \in Int
      BY SeatsAreNumbers
    <3>2. QED
      BY <2>3, <2>4, <3>1
  <2>6. PICK x : x = n + N - 1 - m
    OBVIOUS
  <2>7. x \in Nat /\ x >= N
    BY <2>4, <2>5, <2>6
  <2>8. x \div N = 0
    BY <2>1, <2>2, <2>3, <2>6, FS_EmptySet
  <2>9. x = N * (x \div N) + (x % N) /\ x % N < N /\ x % N \in Nat
    BY <2>4, <2>7
  <2>10. QED
    BY <2>4, <2>7, <2>8, <2>9
<1>15. QED
  BY <1>5, <1>9, <1>10, <1>12, <1>13, <1>14 DEF Sound, OnField

LEMMA InitSettled ==
  ASSUME Init, ~FieldMayVanish
  PROVE  Settled(game)
<1>1. PICK hand \in Deals :
        game \in Asking(Fresh(hand), "onGameStart", NoPlayer)
                   \cup {CompleteStart(h) : h \in Hooked(Fresh(hand))}
  BY DEF Init
<1>2. /\ Sound(Fresh(hand)) /\ Held(Fresh(hand)) /\ ~OnField(Fresh(hand))
      /\ Fresh(hand).phase = "awaitingPlay" /\ Fresh(hand).passed = {}
  BY FreshSound
<1>3. CASE game \in Asking(Fresh(hand), "onGameStart", NoPlayer)
  BY <1>2, <1>3, AskingSettles
<1>4. CASE \E h \in Hooked(Fresh(hand)) : game = CompleteStart(h)
  <2>1. PICK h \in Hooked(Fresh(hand)) : game = CompleteStart(h)
    BY <1>4
  <2>2. Sound(h) /\ Held(h) /\ Untouched(Fresh(hand), h)
    BY <1>2, HookedSound
  <2>3. QED
    BY <1>2, <2>1, <2>2, CompleteStartSettles DEF Untouched
<1>5. QED
  BY <1>1, <1>3, <1>4

\* The cards played lie on the table, whoever is rid of all cards is out.
LEMMA PlayedSound ==
  ASSUME NEW s, Sound(s), ToMove(s), NEW p \in Active(s), NEW cs \in SUBSET s.hand[p], cs # {}
  PROVE  /\ Sound(Played(s, p, cs)) /\ Held(Played(s, p, cs))
         /\ Played(s, p, cs).phase = "awaitingPlay" /\ Played(s, p, cs).passed = {}
         /\ Played(s, p, cs).by = p /\ Played(s, p, cs).skip = s.skip
         /\ Played(s, p, cs).direction = s.direction /\ Played(s, p, cs).effects = s.effects
<1>1. PICK t : t = [s EXCEPT !.hand[p] = @ \ cs, !.field = cs, !.by = p, !.passed = {},
                             !.discard = @ \cup s.field, !.turnCount = @ + 1]
  OBVIOUS
<1>2. p \in Seats /\ s \in GameState /\ s.phase = "awaitingPlay" /\ Held(s)
  BY ActiveFinite DEF Sound, ToMove
<1>3. PICK hand : hand = [s.hand EXCEPT ![p] = @ \ cs]
  OBVIOUS
<1>4. PICK discard : discard = s.discard \cup s.field
  OBVIOUS
<1>5. /\ t = [s EXCEPT !.hand = hand, !.field = cs, !.by = p, !.passed = {},
                       !.discard = discard, !.turnCount = @ + 1]
      /\ hand \in [Seats -> SUBSET Cards] /\ discard \in SUBSET Cards /\ cs \in SUBSET Cards
  BY <1>1, <1>2, <1>3, <1>4 DEF GameState
<1>6. t \in GameState
  <2>1. PICK count : count = s.turnCount + 1
    OBVIOUS
  <2>2. count \in Nat /\ {} \in SUBSET Seats
    BY <1>2, <2>1 DEF GameState
  <2>3. t = [s EXCEPT !.hand = hand, !.field = cs, !.by = p, !.passed = {},
                      !.discard = discard, !.turnCount = count]
    BY <1>5, <2>1
  <2>4. QED
    BY <1>2, <1>5, <2>2, <2>3 DEF GameState
<1>7. /\ t.hand = hand /\ t.field = cs /\ t.by = p /\ t.passed = {} /\ t.discard = discard
      /\ t.excluded = s.excluded /\ t.status = s.status /\ t.standing = s.standing
      /\ t.taken = s.taken /\ t.phase = s.phase
      /\ t.skip = s.skip /\ t.direction = s.direction /\ t.effects = s.effects
  BY <1>2, <1>5 DEF GameState
<1>8. CardsFit(t)
  <2>1. PICK where \in [Cards -> Places] : LaidOut(s, where)
    BY DEF Sound, CardsFit
  <2> DEFINE now == [c \in Cards |-> IF c \in cs THEN FieldZone
                                     ELSE IF where[c] = FieldZone THEN DiscardZone
                                     ELSE where[c]]
  <2>2. now \in [Cards -> Places]
    BY ZonesDiffer
  <2>3. \A c \in Cards : now[c] = IF c \in cs THEN FieldZone
                                  ELSE IF where[c] = FieldZone THEN DiscardZone
                                  ELSE where[c]
    OBVIOUS
  <2> HIDE DEF now
  <2>4. \A c \in cs : where[c] = p
    BY <1>2, <2>1 DEF LaidOut
  <2>5. \A q \in Seats : t.hand[q] = IF q = p THEN s.hand[q] \ cs ELSE s.hand[q]
    <3>1. s.hand \in [Seats -> SUBSET Cards]
      BY <1>2 DEF GameState
    <3>2. QED
      BY <1>2, <1>3, <1>7, <3>1
  <2>6. \A q \in Seats : t.hand[q] = {c \in Cards : now[c] = q}
    <3>1. ASSUME NEW q \in Seats PROVE s.hand[q] = {c \in Cards : where[c] = q}
      BY <2>1 DEF LaidOut
    <3>2. ASSUME NEW q \in Seats, NEW c \in Cards
          PROVE  c \in t.hand[q] <=> now[c] = q
      <4>1. q # FieldZone /\ q # DiscardZone
        BY ZonesDiffer
      <4>2. CASE c \in cs
        <5>1. c \notin t.hand[q]
          <6>1. CASE q = p
            BY <2>5, <4>2, <6>1
          <6>2. CASE q # p
            <7>1. c \notin s.hand[q]
              BY <2>4, <3>1, <4>2, <6>2
            <7>2. QED
              BY <2>5, <6>2, <7>1
          <6>3. QED
            BY <6>1, <6>2
        <5>2. now[c] = FieldZone
          BY <2>3, <4>2
        <5>3. QED
          BY <4>1, <5>1, <5>2
      <4>3. CASE c \notin cs
        <5>1. c \in t.hand[q] <=> where[c] = q
          BY <2>5, <3>1, <4>3
        <5>2. now[c] = q <=> where[c] = q
          BY <2>3, <4>1, <4>3
        <5>3. QED
          BY <5>1, <5>2
      <4>4. QED
        BY <4>2, <4>3
    <3>3. \A q \in Seats : t.hand[q] \subseteq Cards
      BY <1>5, <1>7
    <3>4. QED
      BY <3>2, <3>3
  <2>7. t.field = {c \in Cards : now[c] = FieldZone}
    BY <1>5, <1>7, <2>3, ZonesDiffer
  <2>8. t.discard = {c \in Cards : now[c] = DiscardZone}
    BY <1>2, <1>4, <1>7, <2>1, <2>3, <2>4, ZonesDiffer DEF LaidOut
  <2>9. t.excluded = {c \in Cards : now[c] = ExcludedZone}
    BY <1>2, <1>7, <2>1, <2>3, <2>4, ZonesDiffer DEF LaidOut
  <2>10. t.field # {} /\ OnField(t)
    BY <1>2, <1>7, ZonesDiffer DEF OnField
  <2>11. QED
    BY <2>2, <2>6, <2>7, <2>8, <2>9, <2>10 DEF CardsFit, LaidOut
<1>9. Sound(t) /\ Active(t) = Active(s)
  BY <1>6, <1>7, <1>8, SameRanked DEF Sound
<1>10. \A q \in Active(s) \ {p} : t.hand[q] # {}
  BY <1>2, <1>3, <1>7, ActiveFinite DEF Held, GameState
<1>11. Played(s, p, cs) = IF t.hand[p] = {} THEN Finished(t, [q \in {p} |-> 0]) ELSE t
  BY <1>1 DEF Played
<1>12. CASE t.hand[p] # {}
  BY <1>2, <1>7, <1>9, <1>10, <1>11, <1>12 DEF Held
<1>13. CASE t.hand[p] = {}
  <2> DEFINE ahead == [q \in {p} |-> 0]
  <2>1. {p} \in SUBSET Active(t) /\ \A q, r \in {p} : ahead[q] = ahead[r] => q = r
    BY <1>9
  <2>2. ahead \in [{p} -> 0 .. Cardinality(Active(t)) - 1]
    <3>1. Cardinality(Active(t)) \in Nat /\ Cardinality(Active(t)) # 0
      BY <2>1, ActiveFinite
    <3>2. 0 \in 0 .. Cardinality(Active(t)) - 1
      BY <3>1
    <3>3. QED
      BY <3>2
  <2> HIDE DEF ahead
  <2>3. /\ Sound(Finished(t, ahead)) /\ SameTable(t, Finished(t, ahead))
        /\ Active(Finished(t, ahead)) = Active(t) \ {p}
    BY <1>9, <2>1, <2>2, FinishedSound
  <2>4. Played(s, p, cs) = Finished(t, ahead)
    BY <1>11, <1>13 DEF ahead
  <2>5. QED
    BY <1>2, <1>7, <1>9, <1>10, <2>3, <2>4 DEF SameTable, Held
<1>14. QED
  BY <1>12, <1>13

LEMMA PlaySettles ==
  ASSUME Settled(game), NEW p \in Seats, NEW cs \in SUBSET game.hand[p], Play(p, cs),
         ~FieldMayVanish
  PROVE  Settled(game')
<1>1. PICK s : s = Played(game, p, cs)
  OBVIOUS
<1>2. ToMove(game) /\ Sound(game) /\ game.turn = p /\ cs # {}
  BY DEF Play, Settled, ToAnswer
<1>3. Sound(s) /\ Held(s) /\ s.phase = "awaitingPlay" /\ s.passed = {}
  BY <1>1, <1>2, PlayedSound DEF ToMove
<1>4. game' \in Asking(s, "afterPlay", p)
                  \cup UNION {CompletePlay(r.state, p, r.clear) : r \in HookedAfterPlay(s, FALSE)}
  BY <1>1 DEF Play
<1>5. CASE game' \in Asking(s, "afterPlay", p)
  BY <1>3, <1>5, AskingSettles
<1>6. CASE \E r \in HookedAfterPlay(s, FALSE) : game' \in CompletePlay(r.state, p, r.clear)
  <2>1. PICK r \in HookedAfterPlay(s, FALSE) : game' \in CompletePlay(r.state, p, r.clear)
    BY <1>6
  <2>2. /\ Sound(r.state) /\ Held(r.state) /\ Untouched(s, r.state)
        /\ r.clear => OnField(r.state)
    BY <1>3, HookedAfterPlaySound
  <2>3. QED
    BY <1>3, <2>1, <2>2, CompletePlaySettles DEF Untouched
<1>7. QED
  BY <1>4, <1>5, <1>6

\* A pass is on record.
LEMMA PassedSound ==
  ASSUME NEW s, Sound(s), Held(s), NEW p \in Seats
  PROVE  LET t == [s EXCEPT !.passed = @ \cup {p}, !.turnCount = @ + 1]
         IN  /\ Sound(t) /\ Held(t) /\ t.phase = s.phase /\ t.by = s.by /\ t.skip = s.skip
             /\ t.direction = s.direction /\ t.effects = s.effects
<1>1. PICK t : t = [s EXCEPT !.passed = @ \cup {p}, !.turnCount = @ + 1]
  OBVIOUS
<1>2. PICK passed : passed = s.passed \cup {p}
  OBVIOUS
<1>3. PICK count : count = s.turnCount + 1
  OBVIOUS
<1>4. s \in GameState /\ passed \in SUBSET Seats /\ count \in Nat
  BY <1>2, <1>3 DEF Sound, GameState
<1>5. t = [s EXCEPT !.passed = passed, !.turnCount = count]
  BY <1>1, <1>2, <1>3
<1>6. /\ t \in GameState /\ t.phase = s.phase
      /\ t.hand = s.hand /\ t.field = s.field /\ t.by = s.by
      /\ t.discard = s.discard /\ t.excluded = s.excluded /\ t.status = s.status
      /\ t.standing = s.standing /\ t.taken = s.taken /\ t.skip = s.skip
      /\ t.direction = s.direction /\ t.effects = s.effects
  BY <1>4, <1>5 DEF GameState
<1>7. Sound(t) /\ Active(t) = Active(s)
  BY <1>6, SameCardsFit, SameRanked DEF Sound
<1>8. QED
  BY <1>1, <1>6, <1>7 DEF Held

LEMMA PassSettles ==
  ASSUME Settled(game), NEW p \in Seats, Pass(p)
  PROVE  Settled(game')
<1>1. PICK s : s = [game EXCEPT !.passed = @ \cup {p}, !.turnCount = @ + 1]
  OBVIOUS
<1>2. Sound(game) /\ ToMove(game)
  BY DEF Pass, Settled, ToAnswer
<1>3. Sound(s) /\ s.phase = "awaitingPlay"
  BY <1>1, <1>2, PassedSound DEF ToMove
<1>4. PICK h \in Hooked(s) : game' \in AfterPass(h, p)
  BY <1>1 DEF Pass
<1>5. Sound(h) /\ Held(h) /\ Untouched(s, h)
  BY <1>3, HookedSound
<1>6. QED
  BY <1>3, <1>4, <1>5, AfterPassSettles DEF Untouched

LEMMA AnswerSettles ==
  ASSUME Settled(game), NEW p \in Seats, Answer(p), ~FieldMayVanish
  PROVE  Settled(game')
<1>1. PICK c : c = game.choice
  OBVIOUS
<1>2. PICK s : s = [game EXCEPT !.phase = "awaitingPlay", !.choice = NoChoice]
  OBVIOUS
<1>3. PICK none : none = NoChoice
  OBVIOUS
<1>4. Sound(game) /\ ToAnswer(game) /\ game \in GameState /\ c \in Choice
  BY <1>1 DEF Answer, Settled, ToMove, Sound, GameState
<1>5. /\ s \in GameState /\ s.phase = "awaitingPlay"
      /\ s.hand = game.hand /\ s.field = game.field /\ s.by = game.by
      /\ s.discard = game.discard /\ s.excluded = game.excluded /\ s.status = game.status
      /\ s.standing = game.standing /\ s.taken = game.taken /\ s.passed = game.passed
  <2>1. s = [game EXCEPT !.phase = "awaitingPlay", !.choice = none] /\ none \in Choice
    BY <1>2, <1>3, NoChoiceTyped
  <2>2. QED
    BY <1>4, <2>1 DEF GameState
<1>6. Sound(s) /\ Active(s) = Active(game)
  BY <1>4, <1>5, SameCardsFit, SameRanked DEF Sound
<1>7. Answerable(s, c) /\ c.asked # <<>>
  BY <1>1, <1>4, <1>5, <1>6 DEF ToAnswer, Answerable, Held, OnField
<1>8. CASE game' \in Served(s, c)
  BY <1>4, <1>5, <1>6, <1>7, <1>8, ServedSettles
<1>9. CASE game' \in ServedAtOnce(s, c)
  BY <1>4, <1>5, <1>6, <1>7, <1>9, ServedAtOnceSettles
<1>10. CASE game' = [game EXCEPT !.choice.answered = @ \cup {p}]
  <2>1. PICK d : d = [c EXCEPT !.answered = @ \cup {p}]
    OBVIOUS
  <2>2. PICK t : t = game'
    OBVIOUS
  <2>3. d \in Choice /\ d.asked = c.asked /\ d.hook = c.hook /\ d.clear = c.clear
    BY <1>4, <2>1 DEF Choice
  <2>4. t = [game EXCEPT !.choice = d]
    BY <1>1, <1>4, <1>10, <2>1, <2>2 DEF GameState
  <2>5. /\ t \in GameState /\ t.phase = game.phase /\ t.choice = d
        /\ t.hand = game.hand /\ t.field = game.field /\ t.by = game.by
        /\ t.discard = game.discard /\ t.excluded = game.excluded /\ t.status = game.status
        /\ t.standing = game.standing /\ t.taken = game.taken /\ t.passed = game.passed
    BY <1>4, <2>3, <2>4 DEF GameState
  <2>6. Sound(t) /\ Active(t) = Active(game)
    BY <1>4, <2>5, SameCardsFit, SameRanked DEF Sound
  <2>7. ToAnswer(t)
    BY <1>1, <1>4, <2>3, <2>5, <2>6 DEF ToAnswer, Answerable, Held, OnField
  <2>8. QED
    BY <2>2, <2>6, <2>7 DEF Settled
<1>11. QED
  BY <1>1, <1>2, <1>8, <1>9, <1>10 DEF Answer

\* Settled is inductive.
LEMMA GameInvariant ==
  ASSUME ~FieldMayVanish
  PROVE  Spec => []Settled(game)
<1>1. Init => Settled(game)
  BY InitSettled
<1>2. Settled(game) /\ [Next]_game => Settled(game)'
  <2> SUFFICES ASSUME Settled(game), [Next]_game PROVE Settled(game')
    OBVIOUS
  <2>1. CASE UNCHANGED game
    BY <2>1
  <2>2. ASSUME NEW p \in Seats, NEW cs \in SUBSET game.hand[p], Play(p, cs)
        PROVE  Settled(game')
    BY <2>2, PlaySettles
  <2>3. ASSUME NEW p \in Seats, Pass(p) PROVE Settled(game')
    BY <2>3, PassSettles
  <2>4. ASSUME NEW p \in Seats, Answer(p) PROVE Settled(game')
    BY <2>4, AnswerSettles
  <2>5. CASE Over
    BY <2>5 DEF Over
  <2>6. QED
    BY <2>1, <2>2, <2>3, <2>4, <2>5 DEF Next
<1>3. QED
  BY <1>1, <1>2, PTL DEF Spec

-----------------------------------------------------------------------------
(* The order of the turns.                                                 *)

\* A remainder is known by what it leaves.
LEMMA RemainderIs ==
  ASSUME NEW k \in Int, NEW m \in 0 .. N - 1, NEW a \in Int, a = N * k + m
  PROVE  a % N = m
<1>1. N \in Nat /\ N >= 2 /\ N \in Int
  BY PlayerAssumption
<1>2. PICK q : q = a \div N
  OBVIOUS
<1>3. PICK r : r = a % N
  OBVIOUS
<1>4. q \in Int /\ r \in Int /\ 0 <= r /\ r < N /\ a = N * q + r
  BY <1>1, <1>2, <1>3
<1>5. PICK d : d = k - q
  OBVIOUS
<1>6. d \in Int /\ r - m = N * d
  BY <1>1, <1>4, <1>5
<1>7. d < 1
  <2> SUFFICES ASSUME d >= 1 PROVE FALSE
    BY <1>6
  <2>1. PICK e \in Nat : d = 1 + e
    <3>1. d - 1 \in Nat /\ d = 1 + (d - 1)
      BY <1>6
    <3>2. QED
      BY <3>1
  <2>2. N * d = N + N * e /\ N * e >= 0
    BY <1>1, <2>1
  <2>3. QED
    BY <1>1, <1>4, <1>6, <2>2
<1>8. d > -1
  <2> SUFFICES ASSUME d <= -1 PROVE FALSE
    BY <1>6
  <2>1. PICK e \in Nat : d = -1 - e
    <3>1. -1 - d \in Nat /\ d = -1 - (-1 - d)
      BY <1>6
    <3>2. QED
      BY <3>1
  <2>2. N * d = -N - N * e /\ N * e >= 0
    BY <1>1, <2>1
  <2>3. QED
    BY <1>1, <1>4, <1>6, <2>2
<1>9. d = 0
  BY <1>6, <1>7, <1>8
<1>10. QED
  BY <1>1, <1>3, <1>4, <1>6, <1>9

\* How far p sits from q, a round the table away from itself.
Far(s, q, p) == IF p = q THEN N ELSE Distance(s, q, p)

\* The seat i steps after q.
SeatAfter(s, q, i) == 1 + ((q - 1 + i * s.direction) % N)

\* A round and a remainder.
LEMMA FarIs ==
  ASSUME NEW s \in GameState, NEW q \in Seats, NEW p \in Seats
  PROVE  /\ Distance(s, q, p) \in 0 .. N - 1 /\ Far(s, q, p) \in 1 .. N
         /\ \E k \in Int : (p - q) * s.direction = N * k + Far(s, q, p)
         /\ p # q => SeatAfter(s, q, Far(s, q, p)) = p
<1>1. N \in Nat /\ N >= 2 /\ q \in 1 .. N /\ p \in 1 .. N
  BY PlayerAssumption DEF Seats
<1>2. PICK d : d = s.direction
  OBVIOUS
<1>3. d \in {-1, 1}
  BY <1>2 DEF GameState
<1>4. PICK a : a = (p - q) * d
  OBVIOUS
<1>5. a \in Int /\ Distance(s, q, p) = a % N
  BY <1>1, <1>2, <1>3, <1>4 DEF Distance
<1>6. PICK m : m = a % N
  OBVIOUS
<1>7. PICK k : k = a \div N
  OBVIOUS
<1>8. m \in 0 .. N - 1 /\ k \in Int /\ a = N * k + m
  BY <1>1, <1>5, <1>6, <1>7
<1>9. CASE p = q
  <2>1. a = 0
    BY <1>1, <1>3, <1>4, <1>9
  <2>2. N * (-1) + N = 0
    BY <1>1
  <2>3. Far(s, q, p) = N /\ -1 \in Int
    BY <1>9 DEF Far
  <2>4. QED
    BY <1>1, <1>2, <1>4, <1>5, <1>6, <1>8, <1>9, <2>1, <2>2, <2>3
<1>10. CASE p # q
  <2>1. Far(s, q, p) = m
    BY <1>5, <1>6, <1>10 DEF Far
  <2>2. m # 0
    <3> SUFFICES ASSUME m = 0 PROVE FALSE
      OBVIOUS
    <3>1. a = N * k + 0 /\ a # 0 /\ a < N /\ a > -N
      BY <1>1, <1>3, <1>4, <1>8, <1>10
    <3>2. CASE a > 0
      <4>1. a \in 0 .. N - 1 /\ a = N * 0 + a
        BY <1>1, <3>1, <3>2
      <4>2. a % N = a
        BY <1>5, <4>1, RemainderIs
      <4>3. QED
        BY <1>6, <3>1, <4>2
    <3>3. CASE a < 0
      <4>1. a + N \in 0 .. N - 1 /\ a = N * (-1) + (a + N) /\ -1 \in Int
        BY <1>1, <1>5, <3>1, <3>3
      <4>2. a % N = a + N
        BY <1>5, <4>1, RemainderIs
      <4>3. QED
        BY <1>1, <1>5, <1>6, <3>1, <4>2
    <3>4. QED
      BY <1>5, <3>1, <3>2, <3>3
  <2>3. (q - 1 + m * d) % N = p - 1
    <3>1. p - 1 \in 0 .. N - 1 /\ q - 1 + m * d \in Int
      BY <1>1, <1>3, <1>8
    <3>2. CASE d = 1
      <4>1. q - 1 + m * d = N * (-k) + (p - 1) /\ -k \in Int
        BY <1>1, <1>4, <1>8, <3>2
      <4>2. QED
        BY <3>1, <4>1, RemainderIs
    <3>3. CASE d = -1
      <4>1. q - 1 + m * d = N * k + (p - 1)
        BY <1>1, <1>4, <1>8, <3>3
      <4>2. QED
        BY <1>8, <3>1, <4>1, RemainderIs
    <3>4. QED
      BY <1>3, <3>2, <3>3
  <2>4. SeatAfter(s, q, m) = p
    BY <1>1, <1>2, <2>3 DEF SeatAfter
  <2>5. m \in 1 .. N /\ Distance(s, q, p) = m
    BY <1>1, <1>5, <1>6, <1>8, <2>2
  <2>6. (p - q) * s.direction = N * k + m
    BY <1>2, <1>4, <1>8
  <2>7. QED
    BY <1>8, <2>1, <2>4, <2>5, <2>6
<1>11. QED
  BY <1>9, <1>10

\* A seat fewer than N steps away is as far as the steps.
LEMMA FarAfter ==
  ASSUME NEW s \in GameState, NEW q \in Seats, NEW p \in Seats, NEW i \in 1 .. N - 1,
         p = SeatAfter(s, q, i)
  PROVE  Far(s, q, p) = i
<1>1. N \in Nat /\ N >= 2 /\ q \in 1 .. N /\ p \in 1 .. N /\ i \in 0 .. N - 1
  BY PlayerAssumption DEF Seats
<1>2. PICK d : d = s.direction
  OBVIOUS
<1>3. d \in {-1, 1}
  BY <1>2 DEF GameState
<1>4. PICK b : b = q - 1 + i * d
  OBVIOUS
<1>5. PICK k : k = b \div N
  OBVIOUS
<1>6. b \in Int /\ p - 1 = b % N
  BY <1>1, <1>2, <1>3, <1>4 DEF SeatAfter
<1>7. k \in Int /\ b = N * k + (p - 1)
  BY <1>1, <1>5, <1>6
<1>8. ((p - q) * d) % N = i
  <2>1. (p - q) * d \in Int
    BY <1>1, <1>3
  <2>2. CASE d = 1
    <3>1. (p - q) * d = N * (-k) + i /\ -k \in Int
      BY <1>1, <1>4, <1>7, <2>2
    <3>2. QED
      BY <1>1, <2>1, <3>1, RemainderIs
  <2>3. CASE d = -1
    <3>1. (p - q) * d = N * k + i
      <4>1. b = q - 1 - i /\ (p - q) * d = q - p
        BY <1>1, <1>4, <2>3
      <4>2. PICK n : n = N * k
        OBVIOUS
      <4>3. n \in Int /\ b = n + (p - 1)
        BY <1>1, <1>7, <4>2
      <4>4. QED
        BY <1>1, <4>1, <4>2, <4>3
    <3>2. QED
      BY <1>1, <1>7, <2>1, <3>1, RemainderIs
  <2>4. QED
    BY <1>3, <2>2, <2>3
<1>9. Distance(s, q, p) = i
  BY <1>2, <1>8 DEF Distance
<1>10. p # q
  <2> SUFFICES ASSUME p = q PROVE FALSE
    OBVIOUS
  <2>1. (p - q) * d = 0 /\ 0 = N * 0 + 0 /\ 0 \in 0 .. N - 1
    BY <1>1, <1>3
  <2>2. ((p - q) * d) % N = 0
    BY <2>1, RemainderIs
  <2>3. QED
    BY <1>1, <1>8, <2>2
<1>11. QED
  BY <1>9, <1>10 DEF Far

\* r sits between q and t, in the direction of play.
Before(s, q, r, t) ==
  \E i \in 1 .. N - 1 : r = SeatAfter(s, q, i) /\ \A j \in 1 .. i : t # SeatAfter(s, q, j)

LEMMA BeforeIsNearer ==
  ASSUME NEW s \in GameState, NEW q \in Seats, NEW r \in Seats, NEW t \in Seats,
         Before(s, q, r, t)
  PROVE  Far(s, q, r) < Far(s, q, t) /\ r # q
<1>1. PICK i \in 1 .. N - 1 : r = SeatAfter(s, q, i) /\ \A j \in 1 .. i : t # SeatAfter(s, q, j)
  BY DEF Before
<1>2. Far(s, q, r) = i
  BY <1>1, FarAfter
<1>3. N \in Nat /\ i \in 1 .. N - 1
  BY PlayerAssumption
<1>4. r # q
  BY <1>2, <1>3 DEF Far
<1>5. CASE t = q
  BY <1>2, <1>3, <1>4, <1>5 DEF Far
<1>6. CASE t # q
  <2>1. Far(s, q, t) \in 1 .. N /\ t = SeatAfter(s, q, Far(s, q, t))
    BY <1>6, FarIs
  <2>2. Far(s, q, t) \notin 1 .. i
    BY <1>1, <2>1
  <2>3. QED
    BY <1>2, <1>3, <1>4, <2>1, <2>2
<1>7. QED
  BY <1>5, <1>6

LEMMA NearerIsFirst ==
  ASSUME NEW s \in GameState, NEW first \in Seats, NEW r \in Active(s), NEW t \in Active(s),
         Distance(s, first, r) < Distance(s, first, t)
  PROVE  Place(s, first, r) < Place(s, first, t)
<1> DEFINE low == {p \in Active(s) : Distance(s, first, p) < Distance(s, first, r)}
           high == {p \in Active(s) : Distance(s, first, p) < Distance(s, first, t)}
<1>1. \A p \in Active(s) : Distance(s, first, p) \in Nat
  <2> SUFFICES ASSUME NEW p \in Active(s) PROVE Distance(s, first, p) \in Nat
    OBVIOUS
  <2>1. p \in Seats
    BY ActiveFinite
  <2>2. Distance(s, first, p) \in 0 .. N - 1
    BY <2>1, FarIs
  <2>3. QED
    BY <2>2
<1>2. low \in SUBSET high /\ r \in high /\ r \notin low
  BY <1>1
<1>3. IsFiniteSet(high)
  BY ActiveFinite, FS_Subset
<1>4. Cardinality(low) < Cardinality(high)
  <2> HIDE DEF low, high
  <2>1. IsFiniteSet(low) /\ Cardinality(low) <= Cardinality(high) /\ Cardinality(low) # Cardinality(high)
    BY <1>2, <1>3, FS_Subset
  <2>2. Cardinality(low) \in Nat /\ Cardinality(high) \in Nat
    BY <1>3, <2>1, FS_CardinalityType
  <2>3. QED
    BY <2>1, <2>2
<1>5. QED
  BY <1>4 DEF Place

\* The next active player is the nearest one.
LEMMA NextActiveNearest ==
  ASSUME NEW s \in GameState, Active(s) # {}, NEW q \in Seats
  PROVE  /\ NextActive(s, q) \in Active(s)
         /\ \A p \in Active(s) : Far(s, q, NextActive(s, q)) <= Far(s, q, p)
<1> DEFINE far == [p \in Active(s) |-> Far(s, q, p)]
<1>1. \A p \in Active(s) : far[p] \in Nat
  <2> SUFFICES ASSUME NEW p \in Active(s) PROVE Far(s, q, p) \in Nat
    OBVIOUS
  <2>1. p \in Seats
    BY ActiveFinite
  <2>2. Far(s, q, p) \in 1 .. N
    BY <2>1, FarIs
  <2>3. QED
    BY <2>2
<1>2. \E p \in Active(s) : \A r \in Active(s) : far[p] <= far[r]
  <2> HIDE DEF far
  <2>1. QED
    BY <1>1, LeastExists
<1>3. \E p \in Active(s) : \A r \in Active(s) : Far(s, q, p) <= Far(s, q, r)
  BY <1>2
<1>4. QED
  BY <1>3 DEF NextActive, Far

\* Seen from the next active player the order is the same.
LEMMA OrderFromNext ==
  ASSUME NEW s \in GameState, NEW q \in Seats, NEW r \in Active(s), NEW t \in Active(s),
         Far(s, q, r) < Far(s, q, t)
  PROVE  Place(s, NextActive(s, q), r) < Place(s, NextActive(s, q), t)
<1>1. PICK first : first = NextActive(s, q)
  OBVIOUS
<1>2. first \in Active(s) /\ \A p \in Active(s) : Far(s, q, first) <= Far(s, q, p)
  BY <1>1, NextActiveNearest
<1>3. first \in Seats /\ Active(s) \subseteq Seats
  BY <1>2, ActiveFinite
<1>4. ASSUME NEW p \in Active(s)
      PROVE  Distance(s, first, p) = Far(s, q, p) - Far(s, q, first)
  <2>1. N \in Nat /\ N >= 2 /\ p \in 1 .. N /\ q \in 1 .. N /\ first \in 1 .. N
    BY <1>3, PlayerAssumption DEF Seats
  <2>2. PICK d : d = s.direction
    OBVIOUS
  <2>3. d \in {-1, 1}
    BY <2>2 DEF GameState
  <2>4. PICK m : m = Far(s, q, p)
    OBVIOUS
  <2>5. PICK n : n = Far(s, q, first)
    OBVIOUS
  <2>6. PICK k \in Int : (p - q) * d = N * k + m
    BY <1>3, <2>2, <2>4, FarIs
  <2>7. PICK l \in Int : (first - q) * d = N * l + n
    BY <1>3, <2>2, <2>5, FarIs
  <2>8. m \in 1 .. N /\ n \in 1 .. N /\ n <= m
    BY <1>2, <1>3, <2>4, <2>5, FarIs
  <2>9. (p - first) * d = (p - q) * d - (first - q) * d /\ (p - first) * d \in Int
    BY <2>1, <2>3
  <2>10. (p - first) * d = N * (k - l) + (m - n)
    BY <2>1, <2>6, <2>7, <2>8, <2>9
  <2>11. k - l \in Int /\ m - n \in 0 .. N - 1
    BY <2>1, <2>8
  <2>12. ((p - first) * d) % N = m - n
    BY <2>9, <2>10, <2>11, RemainderIs
  <2>13. QED
    BY <2>2, <2>4, <2>5, <2>12 DEF Distance
<1>5. Far(s, q, r) \in Int /\ Far(s, q, t) \in Int /\ Far(s, q, first) \in Int
  <2>1. Far(s, q, r) \in 1 .. N /\ Far(s, q, t) \in 1 .. N /\ Far(s, q, first) \in 1 .. N
    BY <1>3, FarIs
  <2>2. N \in Nat
    BY PlayerAssumption
  <2>3. QED
    BY <2>1, <2>2
<1>6. Distance(s, first, r) < Distance(s, first, t)
  BY <1>4, <1>5
<1>7. QED
  BY <1>1, <1>3, <1>6, NearerIsFirst

-----------------------------------------------------------------------------
(* The loop.                                                               *)

\* Places number the active players, the first one's is 0.
LEMMA PlacesNumber ==
  ASSUME NEW s \in GameState, NEW first \in Active(s)
  PROVE  /\ \A p \in Active(s) : Place(s, first, p) \in 0 .. Cardinality(Active(s)) - 1
         /\ \A p, q \in Active(s) : Place(s, first, p) = Place(s, first, q) => p = q
         /\ \A p, q \in Active(s) :
              Distance(s, first, p) = Distance(s, first, q) => p = q
         /\ \A p \in Active(s) : Distance(s, first, p) \in 0 .. N - 1
         /\ Distance(s, first, first) = 0 /\ Place(s, first, first) = 0
<1> DEFINE far == [p \in Active(s) |-> Distance(s, first, p)]
           before == [p \in Active(s) |-> {q \in Active(s) : far[q] < far[p]}]
<1>1. IsFiniteSet(Active(s)) /\ Active(s) \in SUBSET Seats /\ first \in Seats
  BY ActiveFinite
<1>2. N \in Nat /\ N >= 2 /\ first \in Int /\ s.direction \in {-1, 1}
  BY <1>1, PlayerAssumption, SeatsAreNumbers DEF GameState
<1>3. Distance(s, first, first) = 0
  <2>1. (first - first) * s.direction = 0 /\ 0 % N = 0
    BY <1>2
  <2>2. QED
    BY <2>1 DEF Distance
<1>4. \A p \in Active(s) : far[p] \in 0 .. N - 1
  <2> SUFFICES ASSUME NEW p \in Active(s) PROVE Distance(s, first, p) \in 0 .. N - 1
    OBVIOUS
  <2>1. p \in Seats
    BY <1>1
  <2>2. QED
    BY <1>1, <2>1, FarIs
<1>5. ASSUME NEW p \in Active(s), p # first
      PROVE  Distance(s, first, p) # 0 /\ SeatAfter(s, first, Distance(s, first, p)) = p
  <2>1. p \in Seats
    BY <1>1
  <2>2. Far(s, first, p) \in 1 .. N /\ SeatAfter(s, first, Far(s, first, p)) = p
    BY <1>1, <1>5, <2>1, FarIs
  <2>3. Far(s, first, p) = Distance(s, first, p)
    BY <1>5 DEF Far
  <2>4. QED
    BY <1>2, <2>2, <2>3
<1>6. \A p, q \in Active(s) : far[p] = far[q] => p = q
  <2> SUFFICES ASSUME NEW p \in Active(s), NEW q \in Active(s),
                      Distance(s, first, p) = Distance(s, first, q)
               PROVE  p = q
    OBVIOUS
  <2>1. CASE p = first \/ q = first
    BY <1>3, <1>5, <2>1
  <2>2. CASE p # first /\ q # first
    BY <1>5, <2>2
  <2>3. QED
    BY <2>1, <2>2
<1>7. \A p \in Active(s) : Place(s, first, p) = Cardinality(before[p])
  BY DEF Place
<1>8. \A p, q \in Active(s) : q \in before[p] <=> far[q] < far[p]
  OBVIOUS
<1>9. before \in [Active(s) -> SUBSET Active(s)]
  OBVIOUS
<1>10. /\ \A p \in Active(s) : Cardinality(before[p]) \in 0 .. Cardinality(Active(s)) - 1
       /\ \A p, q \in Active(s) : Cardinality(before[p]) = Cardinality(before[q]) => p = q
  <2> HIDE DEF far
  <2>1. \A p \in Active(s) : far[p] \in Nat
    BY <1>2, <1>4
  <2> HIDE DEF before
  <2>2. \A p \in Active(s) : p \notin before[p]
    BY <1>8, <2>1
  <2>3. \A p, q, r \in Active(s) : q \in before[p] /\ r \in before[q] => r \in before[p]
    BY <1>8, <2>1
  <2>4. \A p, q \in Active(s) : q \in before[p] => before[q] \subseteq before[p]
    BY <1>9, <2>3
  <2>5. \A p, q \in Active(s) : p # q => p \in before[q] \/ q \in before[p]
    BY <1>6, <1>8, <2>1
  <2>6. QED
    BY <1>1, <1>9, <2>2, <2>4, <2>5, RanksDiffer
<1>11. Place(s, first, first) = 0
  <2>1. before[first] = {}
    <3>1. \A q \in Active(s) : ~(far[q] < 0)
      <4> HIDE DEF far
      <4>1. QED
        BY <1>2, <1>4
    <3>2. far[first] = 0
      BY <1>3
    <3> HIDE DEF far
    <3>3. QED
      BY <3>1, <3>2
  <2> HIDE DEF before
  <2>2. QED
    BY <1>7, <2>1, FS_EmptySet
<1>12. QED
  <2> HIDE DEF before
  <2>1. QED
    BY <1>3, <1>4, <1>6, <1>7, <1>10, <1>11

LEMMA SomebodyAt ==
  ASSUME NEW s \in GameState, NEW first \in Active(s),
         NEW k \in 0 .. Cardinality(Active(s)) - 1
  PROVE  \E p \in Active(s) : Place(s, first, p) = k
<1> DEFINE n == Cardinality(Active(s))
           at == [p \in Active(s) |-> Place(s, first, p)]
<1>1. IsFiniteSet(Active(s)) /\ n \in Nat
  BY ActiveFinite
<1>2. at \in Injection(Active(s), 0 .. n - 1)
  BY PlacesNumber DEF Injection, IsInjective
<1>3. IsFiniteSet(0 .. n - 1) /\ Cardinality(0 .. n - 1) = n
  BY <1>1, FS_Interval
<1>4. at \in Surjection(Active(s), 0 .. n - 1)
  <2> HIDE DEF at
  <2>1. QED
    BY <1>1, <1>2, <1>3, FS_Injection
<1>5. QED
  BY <1>4 DEF Surjection

\* How far p sits from q, seen from the first one.
LEMMA FarFrom ==
  ASSUME NEW s \in GameState, NEW first \in Active(s), NEW q \in Active(s), NEW p \in Active(s)
  PROVE  Far(s, q, p) = IF Distance(s, first, p) > Distance(s, first, q)
                        THEN Distance(s, first, p) - Distance(s, first, q)
                        ELSE N + Distance(s, first, p) - Distance(s, first, q)
<1>1. N \in Nat /\ N >= 2 /\ p \in 1 .. N /\ q \in 1 .. N /\ first \in 1 .. N
  BY ActiveFinite, PlayerAssumption DEF Seats
<1>2. PICK d : d = s.direction
  OBVIOUS
<1>3. d \in {-1, 1}
  BY <1>2 DEF GameState
<1>4. ASSUME NEW r \in Active(s)
      PROVE  \E k \in Int : (r - first) * d = N * k + Distance(s, first, r)
  <2>1. r \in Seats /\ first \in Seats
    BY ActiveFinite
  <2>2. CASE r = first
    <3>1. (r - first) * d = N * 0 + 0
      BY <1>1, <1>3, <2>2
    <3>2. QED
      BY <2>2, <3>1, PlacesNumber
  <2>3. CASE r # first
    BY <1>2, <2>1, <2>3, FarIs DEF Far
  <2>4. QED
    BY <2>2, <2>3
<1>5. PICK m : m = Distance(s, first, p)
  OBVIOUS
<1>6. PICK n : n = Distance(s, first, q)
  OBVIOUS
<1>7. m \in 0 .. N - 1 /\ n \in 0 .. N - 1 /\ (m = n => p = q)
  BY <1>5, <1>6, PlacesNumber
<1>8. PICK k \in Int : (p - first) * d = N * k + m
  BY <1>4, <1>5
<1>9. PICK l \in Int : (q - first) * d = N * l + n
  BY <1>4, <1>6
<1>10. (p - q) * d = (p - first) * d - (q - first) * d /\ (p - q) * d \in Int
  BY <1>1, <1>3
<1>11. (p - q) * d = N * (k - l) + (m - n)
  BY <1>1, <1>7, <1>8, <1>9, <1>10
<1>12. CASE p = q
  BY <1>1, <1>5, <1>6, <1>7, <1>12 DEF Far
<1>13. CASE p # q /\ m > n
  <2>1. m - n \in 0 .. N - 1 /\ k - l \in Int
    BY <1>1, <1>7, <1>13
  <2>2. ((p - q) * d) % N = m - n
    BY <1>10, <1>11, <2>1, RemainderIs
  <2>3. QED
    BY <1>2, <1>5, <1>6, <1>13, <2>2 DEF Far, Distance
<1>14. CASE p # q /\ ~(m > n)
  <2>1. N + m - n \in 0 .. N - 1 /\ k - l - 1 \in Int
    BY <1>1, <1>7, <1>14
  <2>2. (p - q) * d = N * (k - l - 1) + (N + m - n)
    BY <1>1, <1>7, <1>11
  <2>3. ((p - q) * d) % N = N + m - n
    BY <1>10, <2>1, <2>2, RemainderIs
  <2>4. QED
    BY <1>2, <1>5, <1>6, <1>14, <2>3 DEF Far, Distance
<1>15. QED
  BY <1>12, <1>13, <1>14

\* The next active player has the next place, or the first one's again.
LEMMA NextPlace ==
  ASSUME NEW s \in GameState, NEW first \in Active(s), NEW q \in Active(s)
  PROVE  LET u == NextActive(s, q)
         IN  /\ u \in Active(s)
             /\ \/ Place(s, first, u) = Place(s, first, q) + 1
                \/ Place(s, first, q) = Cardinality(Active(s)) - 1 /\ Place(s, first, u) = 0
<1> DEFINE A == Cardinality(Active(s))
           D(p) == Distance(s, first, p)
           P(p) == Place(s, first, p)
<1>1. PICK u : u = NextActive(s, q)
  OBVIOUS
<1>2. q \in Seats /\ Active(s) # {} /\ A \in Nat /\ N \in Nat /\ N >= 2
  BY ActiveFinite, PlayerAssumption
<1>3. u \in Active(s) /\ \A p \in Active(s) : Far(s, q, u) <= Far(s, q, p)
  BY <1>1, <1>2, NextActiveNearest
<1>4. \A p \in Active(s) : D(p) \in 0 .. N - 1 /\ P(p) \in 0 .. A - 1
  BY PlacesNumber
<1>5. \A p, r \in Active(s) : (P(p) = P(r) => p = r) /\ (D(p) = D(r) => p = r)
  BY PlacesNumber
<1>6. \A p, r \in Active(s) : D(p) < D(r) => P(p) < P(r)
  BY NearerIsFirst, ActiveFinite
<1>7. D(first) = 0 /\ P(first) = 0
  BY PlacesNumber
<1>8. \A p \in Active(s) : Far(s, q, p) = IF D(p) > D(q) THEN D(p) - D(q) ELSE N + D(p) - D(q)
  BY FarFrom
<1> HIDE DEF A, D, P
<1>9. \A p, r \in Active(s) : P(p) < P(r) => D(p) < D(r)
  BY <1>2, <1>4, <1>5, <1>6
<1>10. CASE P(q) = A - 1
  <2>1. \A p \in Active(s) : ~(D(p) > D(q))
    BY <1>2, <1>4, <1>6, <1>10
  <2>2. N + D(u) - D(q) <= N + D(first) - D(q)
    BY <1>3, <1>8, <2>1
  <2>3. D(u) = D(first)
    BY <1>2, <1>3, <1>4, <1>7, <2>2
  <2>4. QED
    BY <1>1, <1>3, <1>5, <1>7, <1>10, <2>3 DEF A, P
<1>11. CASE P(q) # A - 1
  <2>1. P(q) + 1 \in 0 .. A - 1
    BY <1>2, <1>4, <1>11
  <2>2. PICK p \in Active(s) : P(p) = P(q) + 1
    BY <2>1, SomebodyAt DEF P, A
  <2>3. D(p) > D(q)
    BY <1>2, <1>4, <1>9, <2>2
  <2>4. Far(s, q, u) <= D(p) - D(q)
    BY <1>3, <1>8, <2>3
  <2>5. D(u) > D(q) /\ D(u) <= D(p)
    BY <1>2, <1>3, <1>4, <1>8, <2>4
  <2>6. P(q) < P(u) /\ P(u) <= P(p)
    <3>1. CASE D(u) = D(p)
      BY <1>2, <1>3, <1>4, <1>5, <1>6, <2>5, <3>1
    <3>2. CASE D(u) < D(p)
      BY <1>2, <1>3, <1>4, <1>6, <2>5, <3>2
    <3>3. QED
      BY <1>2, <1>3, <1>4, <2>5, <3>1, <3>2
  <2>7. P(u) = P(q) + 1
    BY <1>2, <1>3, <1>4, <2>2, <2>6
  <2>8. QED
    BY <1>1, <1>3, <2>7 DEF P
<1>12. QED
  BY <1>10, <1>11

\* The turn number k is p's.
TurnIs(s, first, k, p) ==
  \E j \in Nat : k = Place(s, first, p) + j * Cardinality(Active(s))

LEMMA TurnsGoRound ==
  ASSUME NEW s \in GameState, NEW first \in Active(s), NEW k \in Nat, NEW p \in Active(s),
         TurnIs(s, first, k, p)
  PROVE  /\ \A q \in Active(s) : TurnIs(s, first, k, q) => q = p
         /\ NextActive(s, p) \in Active(s) /\ TurnIs(s, first, k + 1, NextActive(s, p))
         /\ Place(s, first, p) <= k
<1>1. PICK a : a = Cardinality(Active(s))
  OBVIOUS
<1>2. a \in Nat /\ a >= 1
  BY <1>1, ActiveFinite
<1>3. PICK m : m = Place(s, first, p)
  OBVIOUS
<1>4. m \in 0 .. a - 1
  BY <1>1, <1>3, PlacesNumber
<1>5. PICK j \in Nat : k = m + j * a
  BY <1>1, <1>3 DEF TurnIs
<1>6. j * a \in Nat
  BY <1>2
<1>7. ASSUME NEW q \in Active(s), TurnIs(s, first, k, q) PROVE q = p
  <2>1. PICK n : n = Place(s, first, q)
    OBVIOUS
  <2>2. n \in 0 .. a - 1
    BY <1>1, <2>1, PlacesNumber
  <2>3. PICK i \in Nat : k = n + i * a
    BY <1>1, <1>7, <2>1 DEF TurnIs
  <2>4. i * a \in Nat
    BY <1>2, <2>3
  <2>5. ASSUME i < j PROVE FALSE
    <3>1. (i + 1) * a <= j * a
      <4>1. i + 1 \in Nat /\ ~(j < i + 1)
        BY <2>3, <2>5
      <4>2. (i + 1) * a \in Nat /\ ~(j * a < (i + 1) * a)
        BY <1>2, <4>1, LessTimes
      <4>3. QED
        BY <1>6, <4>2
    <3>2. (i + 1) * a = i * a + a
      BY <1>2, <2>3
    <3>3. QED
      BY <1>2, <1>4, <1>5, <1>6, <2>2, <2>3, <2>4, <3>1, <3>2
  <2>6. ASSUME j < i PROVE FALSE
    <3>1. (j + 1) * a <= i * a
      <4>1. j + 1 \in Nat /\ ~(i < j + 1)
        BY <2>3, <2>6
      <4>2. (j + 1) * a \in Nat /\ ~(i * a < (j + 1) * a)
        BY <1>2, <2>3, <4>1, LessTimes
      <4>3. QED
        BY <2>4, <4>2
    <3>2. (j + 1) * a = j * a + a
      BY <1>2
    <3>3. QED
      BY <1>2, <1>4, <1>5, <1>6, <2>2, <2>3, <2>4, <3>1, <3>2
  <2>7. i = j
    BY <2>3, <2>5, <2>6
  <2>8. n = m
    BY <1>4, <1>5, <1>6, <2>2, <2>3, <2>7
  <2>9. QED
    BY <1>3, <2>1, <2>8, PlacesNumber
<1>8. PICK u : u = NextActive(s, p)
  OBVIOUS
<1>9. /\ u \in Active(s)
      /\ Place(s, first, u) = m + 1 \/ (m = a - 1 /\ Place(s, first, u) = 0)
  BY <1>1, <1>3, <1>8, NextPlace
<1>10. TurnIs(s, first, k + 1, u)
  <2>1. CASE Place(s, first, u) = m + 1
    <3>1. k + 1 = (m + 1) + j * a
      BY <1>4, <1>5, <1>6
    <3>2. QED
      BY <1>1, <2>1, <3>1 DEF TurnIs
  <2>2. CASE m = a - 1 /\ Place(s, first, u) = 0
    <3>1. (j + 1) * a = j * a + a
      BY <1>2
    <3>2. k + 1 = 0 + (j + 1) * a /\ j + 1 \in Nat
      BY <1>2, <1>5, <1>6, <2>2, <3>1
    <3>3. QED
      BY <1>1, <2>2, <3>2 DEF TurnIs
  <2>3. QED
    BY <1>9, <2>1, <2>2
<1>11. m <= k
  BY <1>4, <1>5, <1>6
<1>12. QED
  BY <1>3, <1>7, <1>8, <1>9, <1>10, <1>11

LEMMA EachTurnIs ==
  ASSUME NEW s \in GameState, NEW first \in Active(s), NEW k \in Nat
  PROVE  \E p \in Active(s) : TurnIs(s, first, k, p)
<1>1. PICK a : a = Cardinality(Active(s))
  OBVIOUS
<1>2. a \in Nat /\ a >= 1
  BY <1>1, ActiveFinite
<1>3. PICK m : m = k % a
  OBVIOUS
<1>4. PICK j : j = k \div a
  OBVIOUS
<1>5. m \in 0 .. a - 1 /\ j \in Nat /\ k = a * j + m
  BY <1>2, <1>3, <1>4
<1>6. PICK p \in Active(s) : Place(s, first, p) = m
  BY <1>1, <1>5, SomebodyAt
<1>7. k = m + j * a
  BY <1>2, <1>5
<1>8. QED
  BY <1>1, <1>5, <1>6, <1>7 DEF TurnIs

\* Whose turn is skipped pays, nobody else does.
LEMMA PaidNext ==
  ASSUME NEW s \in GameState, NEW first \in Active(s), NEW k \in Nat, NEW p \in Active(s)
  PROVE  /\ Paid(s, first, k, p) \in Nat /\ Paid(s, first, 0, p) = 0
         /\ Paid(s, first, k + 1, p) =
              Paid(s, first, k, p) + IF TurnIs(s, first, k, p) THEN 1 ELSE 0
<1>1. PICK a : a = Cardinality(Active(s))
  OBVIOUS
<1>2. PICK m : m = Place(s, first, p)
  OBVIOUS
<1>3. a \in Nat /\ a >= 1 /\ m \in Nat
  BY <1>1, <1>2, ActiveFinite, PlaceIs
<1>4. \A j \in Nat : j * a \in Nat /\ j <= j * a
  BY <1>3, LessTimes
<1> DEFINE T(n) == {j \in 0 .. n : m + j * a < n}
<1>5. \A n : Paid(s, first, n, p) = Cardinality(T(n))
  BY <1>1, <1>2 DEF Paid
<1>6. IsFiniteSet(T(k)) /\ Cardinality(T(k)) \in Nat
  <2>1. IsFiniteSet(0 .. k)
    BY FS_Interval
  <2>2. T(k) \in SUBSET (0 .. k)
    OBVIOUS
  <2> HIDE DEF T
  <2>3. QED
    BY <2>1, <2>2, FS_Subset, FS_CardinalityType
<1>7. T(0) = {}
  BY <1>3, <1>4
<1>8. CASE TurnIs(s, first, k, p)
  <2>1. PICK i \in Nat : k = m + i * a
    BY <1>1, <1>2, <1>8 DEF TurnIs
  <2>2. i \notin T(k)
    BY <2>1
  <2>3. ASSUME NEW j \in Nat
        PROVE  j \in T(k + 1) <=> j \in T(k) \/ j = i
    <3>1. j * a \in Nat /\ j <= j * a /\ i * a \in Nat /\ i <= i * a
      BY <1>4, <2>1
    <3>2. j # i => j * a # i * a
      BY <1>3, <2>1, LessTimes
    <3>3. CASE j = i
      BY <1>3, <2>1, <3>1, <3>3
    <3>4. CASE j # i
      BY <1>3, <2>1, <3>1, <3>2, <3>4
    <3>5. QED
      BY <3>3, <3>4
  <2>4. T(k) \subseteq Nat /\ T(k + 1) \subseteq Nat
    OBVIOUS
  <2> HIDE DEF T
  <2>5. T(k + 1) = T(k) \cup {i}
    BY <2>1, <2>3, <2>4
  <2>6. Cardinality(T(k + 1)) = Cardinality(T(k)) + 1
    BY <1>6, <2>2, <2>5, FS_AddElement
  <2>7. QED
    BY <1>5, <1>6, <1>7, <1>8, <2>6, FS_EmptySet
<1>9. CASE ~TurnIs(s, first, k, p)
  <2>1. ASSUME NEW j \in Nat
        PROVE  j \in T(k + 1) <=> j \in T(k)
    <3>1. j * a \in Nat /\ j <= j * a
      BY <1>4
    <3>2. k # m + j * a
      BY <1>1, <1>2, <1>9 DEF TurnIs
    <3>3. QED
      BY <1>3, <3>1, <3>2
  <2>2. T(k) \subseteq Nat /\ T(k + 1) \subseteq Nat
    OBVIOUS
  <2> HIDE DEF T
  <2>3. T(k + 1) = T(k)
    BY <2>1, <2>2
  <2>4. QED
    BY <1>5, <1>6, <1>7, <1>9, <2>3, FS_EmptySet
<1>10. QED
  BY <1>8, <1>9

\* And passes.
LEMMA PassedNext ==
  ASSUME NEW s \in GameState, NEW first \in Active(s), NEW k \in Nat, NEW p \in Active(s),
         TurnIs(s, first, k, p)
  PROVE  /\ PassedAfter(s, first, 0) = s.passed
         /\ PassedAfter(s, first, k + 1) =
              IF OnField(s) THEN PassedAfter(s, first, k) \cup {p} ELSE PassedAfter(s, first, k)
<1>1. \A q \in Active(s) : Place(s, first, q) \in Nat
  BY PlaceIs
<1>2. {q \in Active(s) : Place(s, first, q) < 0} = {}
  BY <1>1
<1>3. ASSUME NEW q \in Active(s)
      PROVE  Place(s, first, q) < k + 1 <=> Place(s, first, q) < k \/ q = p
  <2>1. Place(s, first, p) <= k
    BY TurnsGoRound
  <2>2. ASSUME Place(s, first, q) = k PROVE q = p
    <3>1. k = Place(s, first, q) + 0 * Cardinality(Active(s))
      BY <2>2, ActiveFinite
    <3>2. TurnIs(s, first, k, q)
      BY <3>1 DEF TurnIs
    <3>3. QED
      BY <3>2, TurnsGoRound
  <2>3. Place(s, first, p) \in Nat /\ Place(s, first, q) \in Nat
    BY <1>1
  <2>4. QED
    BY <2>1, <2>2, <2>3
<1>4. QED
  BY <1>2, <1>3 DEF PassedAfter

-----------------------------------------------------------------------------
(* Who has paid for being passed over.                                     *)

\* With the same players and direction the order is the same.
LEMMA SameOrder ==
  ASSUME NEW s, NEW t, Active(t) = Active(s), t.direction = s.direction
  PROVE  /\ \A q, p : Distance(t, q, p) = Distance(s, q, p)
         /\ \A q, p : Place(t, q, p) = Place(s, q, p)
         /\ \A q : NextActive(t, q) = NextActive(s, q) /\ FirstActive(t, q) = FirstActive(s, q)
         /\ \A q, r, p : Before(t, q, r, p) <=> Before(s, q, r, p)
<1>1. \A q, p : Distance(t, q, p) = Distance(s, q, p)
  BY DEF Distance
<1>2. \A q, p : Place(t, q, p) = Place(s, q, p)
  BY <1>1 DEF Place
<1>3. \A q : NextActive(t, q) = NextActive(s, q)
  BY <1>1 DEF NextActive
<1>4. \A q, r, p : Before(t, q, r, p) <=> Before(s, q, r, p)
  BY DEF Before, SeatAfter
<1>5. QED
  BY <1>1, <1>2, <1>3, <1>4 DEF FirstActive

\* Where the lead is q's, or the next active player's, q and whoever sits before
\* u have their turns before u.
LEMMA LeadIsFirst ==
  ASSUME NEW s \in GameState, NEW q \in Seats, NEW r \in Active(s), NEW u \in Active(s),
         u # q, r = q \/ Before(s, q, r, u)
  PROVE  Place(s, FirstActive(s, q), r) < Place(s, FirstActive(s, q), u)
<1>1. r \in Seats /\ u \in Seats
  BY ActiveFinite
<1>2. CASE q \in Active(s)
  <2>1. FirstActive(s, q) = q
    BY <1>2 DEF FirstActive
  <2>2. Distance(s, q, u) \in 1 .. N
    BY <1>1, FarIs DEF Far
  <2>3. CASE r = q
    <3>1. N \in Nat /\ N >= 2 /\ q \in Int /\ s.direction \in {-1, 1}
      BY PlayerAssumption, SeatsAreNumbers DEF GameState
    <3>2. (q - q) * s.direction = 0 /\ 0 % N = 0
      BY <3>1
    <3>3. Distance(s, q, q) = 0
      BY <3>2 DEF Distance
    <3>4. Distance(s, q, r) < Distance(s, q, u)
      BY <2>2, <2>3, <3>1, <3>3
    <3>5. QED
      BY <2>1, <3>4, NearerIsFirst
  <2>4. CASE Before(s, q, r, u)
    <3>1. Far(s, q, r) < Far(s, q, u) /\ r # q
      BY <1>1, <2>4, BeforeIsNearer
    <3>2. Distance(s, q, r) < Distance(s, q, u)
      BY <3>1 DEF Far
    <3>3. QED
      BY <2>1, <3>2, NearerIsFirst
  <2>5. QED
    BY <2>3, <2>4
<1>3. CASE q \notin Active(s)
  <2>1. Far(s, q, r) < Far(s, q, u)
    BY <1>1, <1>3, BeforeIsNearer
  <2>2. QED
    BY <1>3, <2>1, OrderFromNext DEF FirstActive
<1>4. QED
  BY <1>2, <1>3

\* The lead is the owner's, or the owner and whoever sits before its holder have
\* paid.
LeadOf(s, t) ==
  t.turn = s.by \/ \A r \in Active(s) :
                     r = s.by \/ Before(s, s.by, r, t.turn) => t.skip[r] < s.skip[r]

LEMMA ClearFieldPays ==
  ASSUME NEW s, Sound(s), Held(s), ~Decided(s), OnField(s), NEW t \in ClearField(s)
  PROVE  /\ Sound(t) /\ t.effects >= s.effects /\ ~OnField(t)
         /\ t.effects = s.effects =>
              /\ t.direction = s.direction /\ Active(t) = Active(s)
              /\ \A p \in Seats : t.skip[p] <= s.skip[p]
              /\ LeadOf(s, t)
<1>1. PICK c : c = Cleared(s)
  OBVIOUS
<1>2. PICK h \in Hooked(c) : t = Led(h)
  BY <1>1 DEF ClearField
<1>3. Active(s) # {}
  BY ActiveFinite
<1>4. /\ Sound(c) /\ ~OnField(c) /\ c.turn = FirstActive(s, s.by) /\ Active(c) = Active(s)
      /\ c.hand = s.hand /\ c.skip = s.skip /\ c.direction = s.direction
      /\ c.effects = s.effects
  BY <1>1, <1>3, ClearedSound
<1>5. Sound(h) /\ Untouched(c, h) /\ QuietOrMore(c, h)
  BY <1>4, HookedSound DEF Held
<1>6. ~OnField(h) /\ h.turn = c.turn
  BY <1>4, <1>5 DEF Untouched
<1>7. CASE Decided(h)
  <2>1. t = h
    BY <1>2, <1>7 DEF Led
  <2>2. t.effects # s.effects
    BY <1>4, <1>5, <1>7, <2>1 DEF QuietOrMore, Quiet, Decided
  <2>3. QED
    BY <1>4, <1>5, <1>6, <2>1, <2>2 DEF QuietOrMore
<1>8. CASE ~Decided(h)
  <2>1. PICK first : first = FirstActive(h, h.turn)
    OBVIOUS
  <2>2. PICK r : r = Resolved(h, first)
    OBVIOUS
  <2>3. t = r.state
    BY <1>2, <1>8, <2>1, <2>2 DEF Led
  <2>4. /\ Sound(t) /\ Active(t) = Active(h) /\ t.by = h.by
        /\ t.direction = h.direction /\ t.effects = h.effects
        /\ \A p \in Seats : t.skip[p] <= h.skip[p]
        /\ r.fieldOver => OnField(t)
        /\ ~r.fieldOver => t.turn \in Active(t)
        /\ ~r.fieldOver => \A p \in Active(h) :
             Place(h, first, p) < Place(h, first, t.turn) => t.skip[p] < h.skip[p]
    BY <1>5, <1>8, <2>2, <2>3, ActiveFinite, ResolvedSound
  <2>5. ~OnField(t)
    BY <1>6, <2>4 DEF OnField
  <2>6. ASSUME t.effects = s.effects
        PROVE  /\ t.direction = s.direction /\ Active(t) = Active(s)
               /\ \A p \in Seats : t.skip[p] <= s.skip[p]
               /\ LeadOf(s, t)
    <3>1. Quiet(c, h)
      BY <1>4, <1>5, <2>4, <2>6 DEF QuietOrMore
    <3>2. /\ Active(h) = Active(s) /\ h.direction = s.direction /\ h.skip = s.skip
          /\ Active(t) = Active(s) /\ t.direction = s.direction
      BY <1>4, <2>4, <3>1 DEF Quiet
    <3>3. s.by \in Seats /\ s \in GameState
      BY DEF Sound, GameState, OnField
    <3>4. FirstActive(s, s.by) \in Active(s)
      BY <1>3, <3>3, FirstActiveIs, SeatsAreNumbers
    <3>5. first = FirstActive(s, s.by)
      BY <1>4, <1>6, <2>1, <3>2, <3>4 DEF FirstActive
    <3>6. \A p \in Active(s) :
            Place(s, first, p) < Place(s, first, t.turn) => t.skip[p] < s.skip[p]
      BY <2>4, <2>5, <3>2, SameOrder
    <3>7. LeadOf(s, t)
      BY <2>4, <2>5, <3>2, <3>3, <3>5, <3>6, LeadIsFirst DEF LeadOf
    <3>8. QED
      BY <2>4, <3>2, <3>7
  <2>7. QED
    BY <1>4, <1>5, <2>4, <2>5, <2>6 DEF QuietOrMore
<1>9. QED
  BY <1>7, <1>8

LEMMA AdvanceTurnPays ==
  ASSUME NEW s, Sound(s), Held(s), ~Decided(s), NEW p \in Seats, NEW t \in AdvanceTurn(s, p)
  PROVE  /\ Sound(t) /\ t.effects >= s.effects
         /\ t.effects = s.effects =>
              /\ t.direction = s.direction /\ Active(t) = Active(s)
              /\ OnField(t) => \A r \in Active(s) :
                                 Before(s, p, r, t.turn) => t.skip[r] < s.skip[r]
              /\ OnField(s) /\ ~OnField(t) =>
                   /\ LeadOf(s, t)
                   /\ \A r \in Active(s) \ {s.by} : r \in s.passed \/ t.skip[r] < s.skip[r]
<1>1. PICK first : first = NextActive(s, p)
  OBVIOUS
<1>2. PICK r : r = Resolved(s, first)
  OBVIOUS
<1>3. PICK u : u = r.state
  OBVIOUS
<1>4. Active(s) # {} /\ s \in GameState
  BY ActiveFinite DEF Sound
<1>5. /\ Sound(u) /\ Active(u) = Active(s) /\ u.hand = s.hand /\ u.by = s.by
      /\ u.direction = s.direction /\ u.effects = s.effects
      /\ \A q \in Seats : u.skip[q] <= s.skip[q]
      /\ r.fieldOver => /\ OnField(u)
                        /\ \A q \in Active(s) \ {s.by} : q \in s.passed \/ u.skip[q] < s.skip[q]
      /\ ~r.fieldOver => /\ u.turn \in Active(u)
                         /\ \A q \in Active(s) :
                              Place(s, first, q) < Place(s, first, u.turn) => u.skip[q] < s.skip[q]
  BY <1>2, <1>3, <1>4, ResolvedSound
<1>6. CASE ~r.fieldOver
  <2>1. t = u
    BY <1>1, <1>2, <1>3, <1>6 DEF AdvanceTurn
  <2>2. ASSUME NEW q \in Active(s), Before(s, p, q, u.turn) PROVE u.skip[q] < s.skip[q]
    <3>1. q \in Seats /\ u.turn \in Seats /\ u.turn \in Active(s)
      BY <1>5, <1>6, ActiveFinite
    <3>2. Far(s, p, q) < Far(s, p, u.turn)
      BY <1>4, <2>2, <3>1, BeforeIsNearer
    <3>3. Place(s, first, q) < Place(s, first, u.turn)
      BY <1>1, <1>4, <3>1, <3>2, OrderFromNext
    <3>4. QED
      BY <1>5, <1>6, <3>3
  <2>3. s.effects \in Int
    BY <1>4, BoundAssumption DEF GameState
  <2>4. QED
    BY <1>5, <2>1, <2>2, <2>3 DEF OnField
<1>7. CASE r.fieldOver
  <2>1. t \in ClearField(u)
    BY <1>1, <1>2, <1>3, <1>7 DEF AdvanceTurn
  <2>2. Held(u) /\ ~Decided(u) /\ OnField(u)
    BY <1>5, <1>7 DEF Held, Decided
  <2>3. /\ Sound(t) /\ t.effects >= u.effects /\ ~OnField(t)
        /\ t.effects = u.effects =>
              /\ t.direction = u.direction /\ Active(t) = Active(u)
              /\ \A q \in Seats : t.skip[q] <= u.skip[q]
              /\ LeadOf(u, t)
    BY <1>5, <2>1, <2>2, ClearFieldPays
  <2>4. ASSUME t.effects = s.effects
        PROVE  /\ LeadOf(s, t)
               /\ \A q \in Active(s) \ {s.by} : q \in s.passed \/ t.skip[q] < s.skip[q]
    <3>1. ASSUME NEW q \in Active(s)
          PROVE  /\ t.skip[q] < u.skip[q] => t.skip[q] < s.skip[q]
                 /\ u.skip[q] < s.skip[q] => t.skip[q] < s.skip[q]
      <4>1. q \in Seats
        BY ActiveFinite
      <4>2. t.skip[q] <= u.skip[q] /\ u.skip[q] <= s.skip[q]
        BY <1>5, <2>3, <2>4, <4>1
      <4>3. t.skip[q] \in Int /\ u.skip[q] \in Int /\ s.skip[q] \in Int
        BY <1>4, <1>5, <2>3, <4>1 DEF Sound, GameState
      <4>4. QED
        BY <4>2, <4>3
    <3>2. LeadOf(s, t)
      BY <1>5, <2>3, <2>4, <3>1, SameOrder DEF LeadOf
    <3>3. QED
      BY <1>5, <1>7, <3>1, <3>2
  <2>5. QED
    BY <1>5, <2>3, <2>4
<1>8. QED
  BY <1>6, <1>7

LEMMA BetweenIs ==
  ASSUME NEW s, s.direction = game.direction, NEW q, NEW u, NEW r \in Between(q, u)
  PROVE  r \in Seats /\ Before(s, q, r, u)
BY DEF Between, Before, SeatAfter

\* What NobodyIsPassedOver and LeadIsTheOwners say of a step without effects
\* from one player's turn to another's.
NextIsDue ==
  OnField(game') => \A r \in Between(game.turn, game'.turn) : SatOut(r)
LeadIsDue ==
  OnField(game) /\ ~OnField(game') =>
    game'.turn = game.by \/
      (SatOut(game.by) /\ \A r \in Between(game.by, game'.turn) : SatOut(r))

\* The field is new, so that all others have passed it only by skips.
LEMMA PlayPays ==
  ASSUME Settled(game), NEW p \in Seats, NEW cs \in SUBSET game.hand[p], Play(p, cs),
         ~FieldMayVanish, game'.phase = "awaitingPlay", game'.effects = game.effects
  PROVE  NextIsDue /\ LeadIsDue
<1>1. PICK s : s = Played(game, p, cs)
  OBVIOUS
<1>2. ToMove(game) /\ Sound(game) /\ game.turn = p /\ cs # {} /\ game \in GameState
  BY DEF Play, Settled, ToAnswer, Sound
<1>3. /\ Sound(s) /\ Held(s) /\ s.phase = "awaitingPlay" /\ s.passed = {}
      /\ s.by = p /\ s.skip = game.skip /\ s.direction = game.direction
      /\ s.effects = game.effects
  BY <1>1, <1>2, PlayedSound DEF ToMove
<1>4. game' \in Asking(s, "afterPlay", p)
                  \cup UNION {CompletePlay(r.state, p, r.clear) : r \in HookedAfterPlay(s, FALSE)}
  BY <1>1 DEF Play
<1>5. game' \notin Asking(s, "afterPlay", p)
  BY <1>3, AskingSettles DEF ToAnswer
<1>6. PICK r \in HookedAfterPlay(s, FALSE) : game' \in CompletePlay(r.state, p, r.clear)
  BY <1>4, <1>5
<1>7. PICK v : v = r.state
  OBVIOUS
<1>8. /\ Sound(v) /\ Held(v) /\ Untouched(s, v) /\ QuietOrMore(s, v)
      /\ r.clear \in BOOLEAN /\ (r.clear => OnField(v))
      /\ v.effects = s.effects => r.clear = FALSE
  BY <1>3, <1>7, HookedAfterPlaySound
<1>9. ~(v.turnCount > TurnLimit \/ Decided(v))
  <2> SUFFICES ASSUME v.turnCount > TurnLimit \/ Decided(v) PROVE FALSE
    OBVIOUS
  <2>1. game' = EndIfDue(v)
    BY <1>6, <1>7 DEF CompletePlay
  <2>2. QED
    BY <1>8, <2>1, OnlyTheEnd
<1>10. v.effects \in Int /\ s.effects \in Int
  BY <1>3, <1>8, BoundAssumption DEF Sound, GameState
<1>11. ~r.clear
  <2> SUFFICES ASSUME r.clear PROVE FALSE
    OBVIOUS
  <2>1. PICK u \in ClearField(v) : game' = EndIfDecided(u)
    BY <1>6, <1>7, <1>9 DEF CompletePlay
  <2>2. Sound(u) /\ u.effects >= v.effects
    BY <1>8, <1>9, ClearFieldPays
  <2>3. game' = u
    BY <2>1, <2>2, OnlyTheEnd
  <2>4. v.effects >= s.effects /\ v.effects # s.effects
    BY <1>8 DEF QuietOrMore
  <2>5. QED
    BY <1>3, <1>10, <2>2, <2>3, <2>4
<1>12. game' \in AdvanceTurn(v, p)
  <2>1. PICK u \in AdvanceTurn(v, p) : game' = EndIfDue(u)
    BY <1>6, <1>7, <1>9, <1>11 DEF CompletePlay
  <2>2. Sound(u)
    BY <1>8, <1>9, AdvanceTurnPays
  <2>3. QED
    BY <2>1, <2>2, OnlyTheEnd
<1>13. Sound(game') /\ game'.effects >= v.effects
  BY <1>8, <1>9, <1>12, AdvanceTurnPays
<1>14. v.effects = s.effects
  BY <1>3, <1>8, <1>10, <1>13 DEF QuietOrMore
<1>15. /\ v.skip = game.skip /\ v.direction = game.direction /\ v.by = p /\ v.passed = {}
  BY <1>3, <1>8, <1>14 DEF QuietOrMore, Quiet, Untouched
<1>16. /\ Active(game') = Active(v)
       /\ OnField(game') => \A q \in Active(v) :
                              Before(v, p, q, game'.turn) => game'.skip[q] < game.skip[q]
       /\ ~OnField(game') => /\ LeadOf(v, game')
                             /\ \A q \in Active(v) \ {p} : game'.skip[q] < game.skip[q]
  <2>1. OnField(v)
    BY <1>15, ZonesDiffer DEF OnField
  <2>2. QED
    BY <1>3, <1>8, <1>9, <1>12, <1>14, <1>15, <2>1, AdvanceTurnPays
<1>17. \A q \in Seats \ Active(v) : SatOut(q)
  BY <1>16 DEF SatOut, Active
<1>18. NextIsDue
  BY <1>2, <1>15, <1>16, <1>17, BetweenIs DEF NextIsDue, SatOut
<1>19. ASSUME OnField(game), ~OnField(game'), game'.turn # game.by
       PROVE  SatOut(game.by) /\ \A q \in Between(game.by, game'.turn) : SatOut(q)
  <2>1. game.by \in Seats
    BY <1>2, <1>19 DEF GameState, OnField
  <2>2. ASSUME NEW q \in Seats, q # p PROVE SatOut(q)
    BY <1>16, <1>17, <1>19, <2>2 DEF SatOut
  <2>3. ASSUME game'.turn # p PROVE SatOut(p)
    BY <1>15, <1>16, <1>17, <1>19, <2>3 DEF LeadOf, SatOut
  <2>4. SatOut(game.by)
    BY <1>19, <2>1, <2>2, <2>3
  <2>5. ASSUME NEW q \in Between(game.by, game'.turn) PROVE SatOut(q)
    <3>1. q \in Seats /\ Before(game, game.by, q, game'.turn)
      BY BetweenIs
    <3>2. q # game'.turn
      BY <3>1, PlayerAssumption DEF Before
    <3>3. QED
      BY <2>2, <2>3, <3>1, <3>2
  <2>6. QED
    BY <2>4, <2>5
<1>20. QED
  BY <1>18, <1>19 DEF LeadIsDue

LEMMA PassPays ==
  ASSUME Settled(game), NEW p \in Seats, Pass(p),
         game'.phase = "awaitingPlay", game'.effects = game.effects
  PROVE  NextIsDue /\ LeadIsDue
<1>1. PICK s : s = [game EXCEPT !.passed = @ \cup {p}, !.turnCount = @ + 1]
  OBVIOUS
<1>2. Sound(game) /\ ToMove(game) /\ game.turn = p /\ OnField(game) /\ game \in GameState
  BY DEF Pass, Settled, ToAnswer, Sound
<1>3. /\ Sound(s) /\ Held(s) /\ s.by = game.by /\ s.skip = game.skip
      /\ s.direction = game.direction /\ s.effects = game.effects
  BY <1>1, <1>2, PassedSound DEF ToMove
<1>4. PICK h \in Hooked(s) : game' \in AfterPass(h, p)
  BY <1>1 DEF Pass
<1>5. Sound(h) /\ Held(h) /\ Untouched(s, h) /\ QuietOrMore(s, h)
  BY <1>3, HookedSound
<1>6. ~Decided(h)
  BY <1>4, <1>5, GameOverSound DEF AfterPass
<1>7. PICK u : /\ game' = EndIfDue(u)
               /\ u \in IF AllOthersPassed(h, h.passed) THEN ClearField(h)
                                                        ELSE AdvanceTurn(h, p)
  BY <1>4, <1>6 DEF AfterPass
<1>8. /\ game.by \in Seats /\ game.turn \in Seats
      /\ h.effects \in Int /\ s.effects \in Int
  BY <1>2, <1>3, <1>5, BoundAssumption DEF Sound, GameState, OnField
<1>9. CASE AllOthersPassed(h, h.passed)
  <2>1. OnField(h) /\ u \in ClearField(h)
    BY <1>7, <1>9 DEF AllOthersPassed
  <2>2. /\ Sound(u) /\ u.effects >= h.effects /\ ~OnField(u)
        /\ u.effects = h.effects => Active(u) = Active(h) /\ LeadOf(h, u)
    BY <1>5, <1>6, <2>1, ClearFieldPays
  <2>3. game' = u
    BY <1>7, <2>2, OnlyTheEnd
  <2>4. h.effects = s.effects /\ u.effects = h.effects
    BY <1>3, <1>5, <1>8, <2>2, <2>3 DEF QuietOrMore
  <2>5. h.skip = game.skip /\ h.direction = game.direction /\ h.by = game.by
    BY <1>3, <1>5, <2>4 DEF QuietOrMore, Quiet
  <2>6. \A q \in Seats \ Active(h) : SatOut(q)
    BY <2>2, <2>3, <2>4 DEF SatOut, Active
  <2>7. LeadIsDue
    BY <1>8, <2>2, <2>3, <2>4, <2>5, <2>6, BetweenIs DEF LeadIsDue, LeadOf, SatOut
  <2>8. QED
    BY <2>2, <2>3, <2>7 DEF NextIsDue
<1>10. CASE ~AllOthersPassed(h, h.passed)
  <2>1. u \in AdvanceTurn(h, p)
    BY <1>7, <1>10
  <2>2. /\ Sound(u) /\ u.effects >= h.effects
        /\ u.effects = h.effects =>
             /\ Active(u) = Active(h)
             /\ OnField(u) => \A r \in Active(h) :
                                Before(h, p, r, u.turn) => u.skip[r] < h.skip[r]
             /\ OnField(h) /\ ~OnField(u) => LeadOf(h, u)
    BY <1>5, <1>6, <2>1, AdvanceTurnPays
  <2>3. game' = u
    BY <1>7, <2>2, OnlyTheEnd
  <2>4. h.effects = s.effects /\ u.effects = h.effects
    BY <1>3, <1>5, <1>8, <2>2, <2>3 DEF QuietOrMore
  <2>5. h.skip = game.skip /\ h.direction = game.direction /\ h.by = game.by
    BY <1>3, <1>5, <2>4 DEF QuietOrMore, Quiet
  <2>6. \A q \in Seats \ Active(h) : SatOut(q)
    BY <2>2, <2>3, <2>4 DEF SatOut, Active
  <2>7. LeadIsDue
    BY <1>8, <2>2, <2>3, <2>4, <2>5, <2>6, BetweenIs DEF LeadIsDue, LeadOf, SatOut, OnField
  <2>8. NextIsDue
    BY <1>2, <2>2, <2>3, <2>4, <2>5, <2>6, BetweenIs DEF NextIsDue, SatOut
  <2>9. QED
    BY <2>7, <2>8
<1>11. QED
  BY <1>9, <1>10

\* Choices end in other phases than they begin in, games that are over do not
\* go on.
LEMMA NextPays ==
  ASSUME Settled(game), Next, ~FieldMayVanish,
         game.phase = "awaitingPlay", game'.phase = "awaitingPlay",
         game'.effects = game.effects
  PROVE  NextIsDue /\ LeadIsDue
<1>1. ASSUME NEW p \in Seats, NEW cs \in SUBSET game.hand[p], Play(p, cs)
      PROVE  NextIsDue /\ LeadIsDue
  BY <1>1, PlayPays
<1>2. ASSUME NEW p \in Seats, Pass(p) PROVE NextIsDue /\ LeadIsDue
  BY <1>2, PassPays
<1>3. ASSUME NEW p \in Seats PROVE ~Answer(p)
  BY DEF Answer
<1>4. ~Over
  BY DEF Over
<1>5. QED
  BY <1>1, <1>2, <1>3, <1>4 DEF Next

-----------------------------------------------------------------------------
(* The closed form and the loop.                                           *)

LEMMA PayingIs ==
  ASSUME NEW s \in GameState, NEW first \in Active(s), NEW k \in Nat, NEW p \in Active(s),
         TurnIs(s, first, k, p)
  PROVE  /\ SkippedTo(s, first, 0) = s
         /\ Paying([state |-> SkippedTo(s, first, k), candidate |-> p])
              = [state |-> SkippedTo(s, first, k + 1), candidate |-> NextActive(s, p)]
<1> DEFINE owed(n) == [q \in Seats |-> s.skip[q] - IF q \in Active(s)
                                                   THEN Paid(s, first, n, q) ELSE 0]
<1>1. /\ p \in Seats /\ s.turnCount \in Nat /\ \A q \in Seats : s.skip[q] \in Nat
      /\ s.skip \in [Seats -> Nat]
  BY ActiveFinite DEF GameState
<1>2. \A n : SkippedTo(s, first, n) =
               [s EXCEPT !.passed = PassedAfter(s, first, n), !.turnCount = s.turnCount + n,
                         !.skip = owed(n)]
  BY DEF SkippedTo, GameState
<1>3. owed(0) = s.skip
  <2>1. \A q \in Seats : owed(0)[q] = s.skip[q]
    BY <1>1, PaidNext
  <2>2. owed(0) = [q \in Seats |-> owed(0)[q]]
    OBVIOUS
  <2> HIDE DEF owed
  <2>3. QED
    BY <1>1, <2>1, <2>2
<1>4. owed(k + 1) = [owed(k) EXCEPT ![p] = @ - 1]
  <2>1. ASSUME NEW q \in Seats
        PROVE  owed(k + 1)[q] = IF q = p THEN owed(k)[q] - 1 ELSE owed(k)[q]
    <3>1. CASE q \in Active(s)
      <4>1. TurnIs(s, first, k, q) <=> q = p
        BY <3>1, TurnsGoRound
      <4>2. /\ Paid(s, first, k, q) \in Nat
            /\ Paid(s, first, k + 1, q) = Paid(s, first, k, q) + IF q = p THEN 1 ELSE 0
        BY <3>1, <4>1, PaidNext
      <4>3. QED
        BY <1>1, <3>1, <4>2
    <3>2. CASE q \notin Active(s)
      BY <3>2
    <3>3. QED
      BY <3>1, <3>2
  <2>2. /\ owed(k) = [q \in Seats |-> owed(k)[q]]
        /\ owed(k + 1) = [q \in Seats |-> owed(k + 1)[q]]
    OBVIOUS
  <2> HIDE DEF owed
  <2>3. QED
    BY <1>1, <2>1, <2>2
<1> HIDE DEF owed
<1>5. SkippedTo(s, first, 0) = s
  <2>1. PassedAfter(s, first, 0) = s.passed
    BY PassedNext
  <2>2. s.turnCount + 0 = s.turnCount
    BY <1>1
  <2>3. SkippedTo(s, first, 0) =
          [s EXCEPT !.passed = s.passed, !.turnCount = s.turnCount, !.skip = s.skip]
    BY <1>2, <1>3, <2>1, <2>2
  <2>4. QED
    BY <2>3 DEF GameState
<1>6. PICK t : t = SkippedTo(s, first, k)
  OBVIOUS
<1>7. PICK u : u = SkippedTo(s, first, k + 1)
  OBVIOUS
<1>8. PICK passed : passed = PassedAfter(s, first, k)
  OBVIOUS
<1>9. PICK skip : skip = owed(k)
  OBVIOUS
<1>10. PICK count : count = s.turnCount + k
  OBVIOUS
<1>11. t = [s EXCEPT !.passed = passed, !.turnCount = count, !.skip = skip]
  BY <1>2, <1>6, <1>8, <1>9, <1>10
<1>12. /\ t.passed = passed /\ t.turnCount = count /\ t.skip = skip /\ t.by = s.by
       /\ t.direction = s.direction /\ t.status = s.status
  BY <1>11 DEF GameState
<1>13. u = [s EXCEPT !.passed = IF OnField(s) THEN passed \cup {p} ELSE passed,
                     !.turnCount = count + 1, !.skip = [skip EXCEPT ![p] = @ - 1]]
  <2>1. s.turnCount + (k + 1) = count + 1
    BY <1>1, <1>10
  <2>2. PassedAfter(s, first, k + 1) = IF OnField(s) THEN passed \cup {p} ELSE passed
    BY <1>8, PassedNext
  <2>3. QED
    BY <1>2, <1>4, <1>7, <1>9, <2>1, <2>2
<1>14. [t EXCEPT !.skip[p] = @ - 1, !.turnCount = @ + 1,
                 !.passed = IF OnField(t) THEN @ \cup {p} ELSE @] = u
  <2>1. OnField(t) <=> OnField(s)
    BY <1>12 DEF OnField
  <2>2. QED
    BY <1>11, <1>12, <1>13, <2>1 DEF GameState
<1>15. Active(u) = Active(s) /\ u.direction = s.direction
  BY <1>13 DEF Active, GameState
<1>16. NextActive(u, p) = NextActive(s, p)
  BY <1>15, SameOrder
<1>17. Paying([state |-> t, candidate |-> p]) = [state |-> u, candidate |-> NextActive(u, p)]
  BY <1>14 DEF Paying
<1>18. QED
  BY <1>5, <1>6, <1>7, <1>16, <1>17

\* The loop goes through the states of the closed form and the players whose
\* turns these are.
LEMMA LoopIs ==
  ASSUME NEW s \in GameState, NEW first \in Active(s), NEW n \in Nat
  PROVE  \E who \in [0 .. n -> Active(s)] : \A k \in 0 .. n :
           /\ TurnIs(s, first, k, who[k])
           /\ Loop(s, first, n)[k] = [state |-> SkippedTo(s, first, k), candidate |-> who[k]]
<1> DEFINE who == [k \in 0 .. n |-> CHOOSE p \in Active(s) : TurnIs(s, first, k, p)]
           closed == [k \in 0 .. n |-> [state |-> SkippedTo(s, first, k), candidate |-> who[k]]]
           start == [state |-> s, candidate |-> first]
           at[k \in 0 .. n] ==
             IF k = 0 THEN [state |-> s, candidate |-> first] ELSE Paying(at[k - 1])
<1>1. ASSUME NEW k \in 0 .. n PROVE who[k] \in Active(s) /\ TurnIs(s, first, k, who[k])
  <2>1. k \in Nat
    OBVIOUS
  <2>2. \E p \in Active(s) : TurnIs(s, first, k, p)
    BY <2>1, EachTurnIs
  <2>3. QED
    BY <2>2
<1>2. who \in [0 .. n -> Active(s)]
  <2>1. who = [k \in 0 .. n |-> who[k]]
    OBVIOUS
  <2> HIDE DEF who
  <2>2. QED
    BY <1>1, <2>1
<1> HIDE DEF who
<1>3. closed[0] = start
  <2>1. 0 \in 0 .. n /\ TurnIs(s, first, 0, who[0]) /\ who[0] \in Active(s)
    BY <1>1
  <2>2. 0 = Place(s, first, first) + 0 * Cardinality(Active(s))
    BY PlacesNumber, ActiveFinite
  <2>3. TurnIs(s, first, 0, first)
    BY <2>2 DEF TurnIs
  <2>4. who[0] = first
    BY <2>1, <2>3, TurnsGoRound
  <2>5. SkippedTo(s, first, 0) = s
    BY <2>3, PayingIs
  <2>6. QED
    BY <2>1, <2>4, <2>5
<1>4. ASSUME NEW k \in 1 .. n PROVE closed[k] = Paying(closed[k - 1])
  <2>1. k \in 0 .. n /\ k - 1 \in 0 .. n /\ k - 1 \in Nat /\ (k - 1) + 1 = k
    OBVIOUS
  <2>2. /\ TurnIs(s, first, k - 1, who[k - 1]) /\ who[k - 1] \in Active(s)
        /\ TurnIs(s, first, k, who[k]) /\ who[k] \in Active(s)
    BY <1>1, <2>1
  <2>3. /\ NextActive(s, who[k - 1]) \in Active(s)
        /\ TurnIs(s, first, k, NextActive(s, who[k - 1]))
    BY <2>1, <2>2, TurnsGoRound
  <2>4. who[k] = NextActive(s, who[k - 1])
    BY <2>1, <2>2, <2>3, TurnsGoRound
  <2>5. Paying([state |-> SkippedTo(s, first, k - 1), candidate |-> who[k - 1]])
          = [state |-> SkippedTo(s, first, k), candidate |-> who[k]]
    BY <2>1, <2>2, <2>4, PayingIs
  <2>6. QED
    BY <2>1, <2>5
<1>5. \E f : f = [k \in 0 .. n |-> IF k = 0 THEN [state |-> s, candidate |-> first]
                                   ELSE Paying(f[k - 1])]
  <2>1. closed = [k \in 0 .. n |-> closed[k]]
    OBVIOUS
  <2>2. \A k \in 0 .. n : k = 0 \/ (k \in 1 .. n /\ k # 0)
    OBVIOUS
  <2> HIDE DEF closed
  <2>3. \A k \in 0 .. n : closed[k] = IF k = 0 THEN start ELSE Paying(closed[k - 1])
    BY <1>3, <1>4, <2>2
  <2>4. closed = [k \in 0 .. n |-> IF k = 0 THEN start ELSE Paying(closed[k - 1])]
    BY <2>1, <2>3
  <2>5. QED
    BY <2>4, Zenon
<1>6. at = [k \in 0 .. n |-> IF k = 0 THEN [state |-> s, candidate |-> first]
                             ELSE Paying(at[k - 1])]
  BY <1>5, Zenon
<1>7. Loop(s, first, n) = at
  BY Zenon DEF Loop
<1> HIDE DEF closed, at
<1>8. /\ at[0] = start
      /\ \A k \in 1 .. n : at[k] = Paying(at[k - 1])
  <2>1. \A k \in 0 .. n : at[k] = IF k = 0 THEN start ELSE Paying(at[k - 1])
    BY <1>6, Zenon
  <2>2. 0 \in 0 .. n /\ \A k \in 1 .. n : k \in 0 .. n /\ k # 0
    OBVIOUS
  <2>3. QED
    BY <2>1, <2>2
<1>9. \A k \in 0 .. n : at[k] = closed[k]
  <2> DEFINE bad == {k \in 0 .. n : at[k] # closed[k]}
             id == [k \in bad |-> k]
  <2>1. SUFFICES ASSUME bad # {} PROVE FALSE
    OBVIOUS
  <2>2. \A k \in bad : id[k] \in Nat
    OBVIOUS
  <2>3. \E k \in bad : \A j \in bad : id[k] <= id[j]
    <3> HIDE DEF bad, id
    <3>1. QED
      BY <2>1, <2>2, LeastExists
  <2>4. PICK k \in bad : \A j \in bad : k <= j
    BY <2>3
  <2>5. k \in 0 .. n /\ at[k] # closed[k]
    OBVIOUS
  <2>6. k # 0
    BY <1>3, <1>8, <2>5
  <2>7. k \in 1 .. n /\ k - 1 \in 0 .. n /\ ~(k <= k - 1)
    BY <2>5, <2>6
  <2>8. at[k - 1] = closed[k - 1]
    BY <2>4, <2>7
  <2>9. QED
    BY <1>4, <1>8, <2>5, <2>7, <2>8
<1>10. \A k \in 0 .. n : closed[k] = [state |-> SkippedTo(s, first, k), candidate |-> who[k]]
  BY DEF closed
<1>11. QED
  BY <1>1, <1>2, <1>7, <1>9, <1>10

\* The closed form of the resolution of skips is what the loop of
\* resolveNextTurn (engine/reducer.ts) comes to: in any state of a game,
\* whatever skips are owed, whoever the turn goes to.
THEOREM ClosedForm ==
  ASSUME NEW s \in GameState, NEW first \in Active(s)
  PROVE  ResolvedAsLoop(s, first)
<1> DEFINE Stop(p) == Place(s, first, p) + s.skip[p] * Cardinality(Active(s))
           all(k) == AllOthersPassed(s, PassedAfter(s, first, k))
           at(k) == SkippedTo(s, first, k)
<1>1. PICK n \in Nat :
        /\ \A p \in Active(s) : n <= Stop(p)
        /\ \A k \in 1 .. n - 1 : ~all(k)
        /\ \/ /\ n >= 1 /\ all(n)
              /\ Resolved(s, first) = [state |-> at(n), fieldOver |-> TRUE]
           \/ /\ ~(n >= 1 /\ all(n))
              /\ \E p \in Active(s) :
                   /\ n = Stop(p)
                   /\ Resolved(s, first) = [state |-> [at(n) EXCEPT !.turn = p], fieldOver |-> FALSE]
  BY ResolvedIs
<1>2. PICK loop : loop = Loop(s, first, n)
  OBVIOUS
<1>3. PICK who \in [0 .. n -> Active(s)] : \A k \in 0 .. n :
        /\ TurnIs(s, first, k, who[k])
        /\ loop[k] = [state |-> at(k), candidate |-> who[k]]
  BY <1>2, LoopIs
<1>4. \A k \in 0 .. n : loop[k].state = at(k) /\ loop[k].candidate = who[k] /\ who[k] \in Active(s)
  <2> SUFFICES ASSUME NEW k \in 0 .. n
               PROVE  loop[k].state = at(k) /\ loop[k].candidate = who[k] /\ who[k] \in Active(s)
    OBVIOUS
  <2> HIDE DEF at
  <2>1. loop[k] = [state |-> at(k), candidate |-> who[k]]
    BY <1>3, Zenon
  <2>2. QED
    BY <2>1
<1>5. ASSUME NEW k \in 0 .. n
      PROVE  /\ at(k).passed = PassedAfter(s, first, k) /\ at(k).by = s.by
             /\ Active(at(k)) = Active(s)
             /\ at(k).turnCount = s.turnCount + k
             /\ \A p \in Active(s) : at(k).skip[p] = s.skip[p] - Paid(s, first, k, p)
  <2>1. Active(s) \subseteq Seats
    BY ActiveFinite
  <2>2. QED
    BY <2>1 DEF SkippedTo, Active, GameState
<1>6. PICK r : r = Resolved(s, first)
  OBVIOUS
<1>7. r.state.turnCount - s.turnCount = n
  <2>1. n \in 0 .. n /\ s.turnCount \in Nat
    BY DEF GameState
  <2>2. at(n).turnCount = s.turnCount + n
    BY <1>5, <2>1
  <2>3. \A p : [at(n) EXCEPT !.turn = p].turnCount = at(n).turnCount
    BY DEF SkippedTo, GameState
  <2>4. r.state.turnCount = s.turnCount + n
    <3> HIDE DEF at, all, Stop
    <3>1. r.state = at(n) \/ \E p \in Active(s) : r.state = [at(n) EXCEPT !.turn = p]
      BY <1>1, <1>6
    <3>2. QED
      BY <2>2, <2>3, <3>1
  <2>5. QED
    BY <2>1, <2>4
<1> DEFINE over(k) == k > 0 /\ AllOthersPassed(loop[k].state, loop[k].state.passed)
           owes(k) == loop[k].state.skip[loop[k].candidate] > 0
<1>8. ASSUME NEW k \in 0 .. n PROVE over(k) <=> k > 0 /\ all(k)
  <2> HIDE DEF at
  <2>1. QED
    BY <1>4, <1>5 DEF AllOthersPassed, OnField
<1>9. ASSUME NEW k \in 0 .. n
      PROVE  owes(k) <=> s.skip[who[k]] - Paid(s, first, k, who[k]) > 0
  <2> HIDE DEF at
  <2>1. QED
    BY <1>4, <1>5
<1>10. ASSUME NEW k \in 0 .. n - 1 PROVE ~over(k) /\ owes(k)
  <2>1. k \in 0 .. n /\ k \in Nat /\ k + 1 \in Nat /\ k + 1 <= n /\ (k > 0 => k \in 1 .. n - 1)
    OBVIOUS
  <2>2. ~over(k)
    <3> HIDE DEF over, all
    <3>1. QED
      BY <1>1, <1>8, <2>1
  <2>3. PICK p : p = who[k]
    OBVIOUS
  <2>4. p \in Active(s) /\ p \in Seats /\ TurnIs(s, first, k, p)
    BY <1>3, <1>4, <2>1, <2>3, ActiveFinite
  <2>5. k + 1 <= Place(s, first, p) + s.skip[p] * Cardinality(Active(s))
    <3>1. Place(s, first, p) \in Nat /\ s.skip[p] * Cardinality(Active(s)) \in Nat
      BY <2>4, PlaceIs, ActiveFinite DEF GameState
    <3>2. QED
      BY <1>1, <2>1, <2>4, <3>1
  <2>6. Paid(s, first, k + 1, p) \in 0 .. s.skip[p]
    BY <2>1, <2>4, <2>5, PaidIs
  <2>7. Paid(s, first, k, p) \in Nat /\ Paid(s, first, k + 1, p) = Paid(s, first, k, p) + 1
    BY <2>1, <2>4, PaidNext
  <2>8. s.skip[p] \in Nat
    BY <2>4 DEF GameState
  <2>9. owes(k)
    <3> HIDE DEF owes
    <3>1. QED
      BY <1>9, <2>1, <2>3, <2>6, <2>7, <2>8
  <2>10. QED
    BY <2>2, <2>9
<1>11. CASE n >= 1 /\ all(n) /\ r = [state |-> at(n), fieldOver |-> TRUE]
  <2>1. n \in 0 .. n /\ n > 0
    BY <1>11
  <2>2. over(n) /\ r.fieldOver = TRUE /\ r.state = loop[n].state
    <3> HIDE DEF over, all, at
    <3>1. QED
      BY <1>4, <1>8, <1>11, <2>1
  <2> HIDE DEF over, owes, all, at
  <2>3. QED
    BY <1>2, <1>6, <1>7, <1>10, <2>2 DEF ResolvedAsLoop, over, owes
<1>12. ASSUME NEW p \in Active(s), n = Stop(p), ~(n >= 1 /\ all(n)),
              r = [state |-> [at(n) EXCEPT !.turn = p], fieldOver |-> FALSE]
       PROVE  ResolvedAsLoop(s, first)
  <2>1. n \in 0 .. n /\ p \in Seats
    BY ActiveFinite
  <2>2. ~over(n)
    <3> HIDE DEF over, all
    <3>1. QED
      BY <1>8, <1>12, <2>1
  <2>3. s.skip[p] \in Nat
    BY <2>1 DEF GameState
  <2>4. TurnIs(s, first, n, p)
    BY <1>12, <2>3 DEF TurnIs
  <2>5. who[n] = p
    BY <1>3, <1>4, <2>1, <2>4, TurnsGoRound
  <2>6. Paid(s, first, n, p) = s.skip[p]
    <3>1. Place(s, first, p) \in Nat /\ s.skip[p] * Cardinality(Active(s)) \in Nat
      BY <2>3, PlaceIs, ActiveFinite
    <3>2. n <= Place(s, first, p) + s.skip[p] * Cardinality(Active(s))
      BY <1>12, <3>1
    <3>3. QED
      BY <1>12, <3>2, PaidIs
  <2>7. ~owes(n)
    <3> HIDE DEF owes
    <3>1. QED
      BY <1>9, <2>1, <2>3, <2>5, <2>6
  <2>8. r.fieldOver = FALSE /\ r.state = [loop[n].state EXCEPT !.turn = loop[n].candidate]
    <3> HIDE DEF at
    <3>1. QED
      BY <1>4, <1>12, <2>1, <2>5
  <2> HIDE DEF over, owes, all, at
  <2>9. QED
    BY <1>2, <1>6, <1>7, <1>10, <2>2, <2>7, <2>8 DEF ResolvedAsLoop, over, owes
<1>13. QED
  <2> HIDE DEF all, at, Stop
  <2>1. QED
    BY <1>1, <1>6, <1>11, <1>12

-----------------------------------------------------------------------------
(* The theorems.                                                           *)

\* Whatever rules do, the state of the game keeps its type (engine/reducer.ts).
THEOREM GameTypes ==
  ASSUME ~FieldMayVanish
  PROVE  Spec => []TypeOK
<1>1. Settled(game) => TypeOK
  BY DEF Settled, Sound, TypeOK
<1>2. QED
  BY <1>1, GameInvariant, PTL

\* Every card is in exactly one place, whatever rules move and whoever leaves
\* the game (applyMoveCards and forceStanding in engine/effects.ts), and the
\* field has an owner exactly when there are cards on it.
THEOREM Cardkeeping ==
  ASSUME ~FieldMayVanish
  PROVE  Spec => []CardsConserved
<1>1. ASSUME Settled(game) PROVE CardsConserved
  <2>1. PICK where \in [Cards -> Places] : LaidOut(game, where)
    BY <1>1 DEF Settled, Sound, CardsFit
  <2>2. ASSUME NEW c \in Cards
        PROVE  LET piles == <<game.field, game.discard, game.excluded>>
               IN  Cardinality({p \in Seats : c \in game.hand[p]})
                     + Cardinality({i \in DOMAIN piles : c \in piles[i]}) = 1
    <3> DEFINE piles == <<game.field, game.discard, game.excluded>>
               held == {p \in Seats : c \in game.hand[p]}
               lies == {i \in DOMAIN piles : c \in piles[i]}
    <3>1. /\ \A p \in Seats : c \in game.hand[p] <=> where[c] = p
          /\ c \in game.field <=> where[c] = FieldZone
          /\ c \in game.discard <=> where[c] = DiscardZone
          /\ c \in game.excluded <=> where[c] = ExcludedZone
      BY <2>1 DEF LaidOut
    <3>2. \A i : i \in lies <=> \/ i = 1 /\ where[c] = FieldZone
                                \/ i = 2 /\ where[c] = DiscardZone
                                \/ i = 3 /\ where[c] = ExcludedZone
      BY <3>1
    <3>3. where[c] \in Places
      OBVIOUS
    <3>4. ASSUME where[c] \in Seats PROVE Cardinality(held) + Cardinality(lies) = 1
      <4>1. held = {where[c]} /\ lies = {}
        <5> HIDE DEF lies
        <5>1. QED
          BY <3>1, <3>2, <3>4, ZonesDiffer
      <4> HIDE DEF held, lies
      <4>2. Cardinality(held) = 1 /\ Cardinality(lies) = 0
        BY <4>1, FS_Singleton, FS_EmptySet
      <4>3. QED
        BY <4>2
    <3>5. ASSUME where[c] \notin Seats PROVE Cardinality(held) + Cardinality(lies) = 1
      <4>1. held = {} /\ \E i : lies = {i}
        <5>1. held = {}
          BY <3>1, <3>5
        <5> HIDE DEF lies
        <5>2. where[c] \in {FieldZone, DiscardZone, ExcludedZone}
          BY <3>3, <3>5, ZonesDiffer
        <5>3. CASE where[c] = FieldZone
          BY <3>2, <5>1, <5>3, ZonesDiffer, lies = {1}
        <5>4. CASE where[c] = DiscardZone
          BY <3>2, <5>1, <5>4, ZonesDiffer, lies = {2}
        <5>5. CASE where[c] = ExcludedZone
          BY <3>2, <5>1, <5>5, ZonesDiffer, lies = {3}
        <5>6. QED
          BY <5>2, <5>3, <5>4, <5>5
      <4> HIDE DEF held, lies
      <4>2. Cardinality(held) = 0 /\ Cardinality(lies) = 1
        BY <4>1, FS_Singleton, FS_EmptySet
      <4>3. QED
        BY <4>2
    <3>6. QED
      BY <3>4, <3>5, Zenon
  <2>3. QED
    BY <1>1, <2>2 DEF CardsConserved, Settled, Sound, CardsFit
<1>2. QED
  BY <1>1, GameInvariant, PTL

\* The order of finishing survives finishing, ranks forced by rules and the turn
\* limit: exactly those out of the game have a standing, each one of his own
\* (engine/standing.ts).
THEOREM Standings ==
  ASSUME ~FieldMayVanish
  PROVE  Spec => []StandingsFit
<1>1. Settled(game) => StandingsFit
  BY DEF Settled, Sound, Ranked, StandingsFit
<1>2. QED
  BY <1>1, GameInvariant, PTL

\* The engine never waits for somebody who cannot move (resolveNextTurn).
THEOREM TurnHolder ==
  ASSUME ~FieldMayVanish
  PROVE  Spec => []TurnHolderCanMove
<1>1. Settled(game) => TurnHolderCanMove
  BY DEF Settled, ToMove, ToAnswer, Held, TurnHolderCanMove
<1>2. QED
  BY <1>1, GameInvariant, PTL

\* A field everybody else has passed on never stays (allOthersPassed).
THEOREM ContestedField ==
  ASSUME ~FieldMayVanish
  PROVE  Spec => []FieldIsContested
<1>1. Settled(game) => FieldIsContested
  BY DEF Settled, ToMove, ToAnswer, Contested, FieldIsContested
<1>2. QED
  BY <1>1, GameInvariant, PTL

\* Nobody is passed over: whoever sits between the player who moved and the next
\* one is out or has paid a skip (resolveNextTurn in engine/reducer.ts).
THEOREM NobodyPassedOver ==
  ASSUME ~FieldMayVanish
  PROVE  Spec => NobodyIsPassedOver
<1>1. Settled(game) /\ [Next]_game =>
        [game.phase = "awaitingPlay" /\ game'.phase = "awaitingPlay"
           /\ game'.effects = game.effects /\ OnField(game')
         => \A p \in Between(game.turn, game'.turn) : SatOut(p)]_game
  BY NextPays DEF NextIsDue
<1>2. QED
  BY <1>1, GameInvariant, PTL DEF Spec, NobodyIsPassedOver

\* When the field goes the lead is its owner's, or the next one's who owes no
\* skip (clearField in engine/reducer.ts).
THEOREM OwnersLead ==
  ASSUME ~FieldMayVanish
  PROVE  Spec => LeadIsTheOwners
<1>1. Settled(game) /\ [Next]_game =>
        [game.phase = "awaitingPlay" /\ game'.phase = "awaitingPlay"
           /\ game'.effects = game.effects /\ OnField(game) /\ ~OnField(game')
         => game'.turn = game.by \/
              (SatOut(game.by) /\ \A p \in Between(game.by, game'.turn) : SatOut(p))]_game
  BY NextPays DEF LeadIsDue
<1>2. QED
  BY <1>1, GameInvariant, PTL DEF Spec, LeadIsTheOwners

\* The closed form of the resolution of skips agrees with the loop of
\* resolveNextTurn (engine/reducer.ts) in every state a game can be in.
THEOREM SkipsAsLoop ==
  ASSUME ~FieldMayVanish
  PROVE  Spec => []SkipsResolveAsLoop
<1>1. ASSUME TypeOK PROVE SkipsResolveAsLoop
  <2>1. game \in GameState
    BY <1>1 DEF TypeOK
  <2>2. SUFFICES ASSUME NEW p \in Active(game), NEW more \in 0 .. MaxSkip
                 PROVE  ResolvedAsLoop([game EXCEPT !.skip = [q \in Seats |-> @[q] + more]], p)
    BY DEF SkipsResolveAsLoop
  <2>3. PICK skip : skip = [q \in Seats |-> game.skip[q] + more]
    OBVIOUS
  <2>4. PICK s : s = [game EXCEPT !.skip = [q \in Seats |-> @[q] + more]]
    OBVIOUS
  <2>5. more \in Nat
    BY BoundAssumption
  <2>6. skip \in [Seats -> Nat]
    BY <2>1, <2>3, <2>5 DEF GameState
  <2>7. s = [game EXCEPT !.skip = skip]
    BY <2>1, <2>3, <2>4 DEF GameState
  <2>8. s \in GameState /\ Active(s) = Active(game)
    BY <2>1, <2>6, <2>7 DEF GameState, Active
  <2>9. QED
    BY <2>4, <2>8, ClosedForm
<1>2. QED
  BY <1>1, GameTypes, PTL
=============================================================================
