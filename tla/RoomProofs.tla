------------------------------ MODULE RoomProofs ------------------------------
(***************************************************************************)
(* Invariants of Room.tla proved for every value of its constants.         *)
(***************************************************************************)
EXTENDS Room, FiniteSetTheorems, SequenceTheorems, WellFoundedInduction, TLAPS

-----------------------------------------------------------------------------
(* What the helpers of the room return.                                    *)

MembersTyped(ms) == DOMAIN ms \subseteq MemberId /\ ms \in [DOMAIN ms -> Member]

LEMMA NewMemberTyped ==
  /\ NewAi \in Member
  /\ \A u \in Users, rank \in 0 .. MaxRank, host, wants \in BOOLEAN :
       NewHuman(u, rank, host, wants) \in Member
BY UsersAssumption, LimitAssumption, BoundAssumption
   DEF NewAi, NewHuman, Member, TimeLeft, Never

LEMMA SettledTyped ==
  ASSUME NEW ms, MembersTyped(ms), NEW e
  PROVE  /\ MembersTyped(Settled(ms, e))
         /\ DOMAIN Settled(ms, e) = DOMAIN ms
         /\ \A i \in DOMAIN ms :
              Settled(ms, e)[i] =
                IF e.phase = "setResult" /\ i \in Humans(ms) \ Connected(ms)
                THEN [ms[i] EXCEPT !.controller = "ai", !.departed = TRUE,
                                   !.wantsNext = FALSE]
                ELSE ms[i]
<1>1. \A i \in DOMAIN ms :
        [ms[i] EXCEPT !.controller = "ai", !.departed = TRUE, !.wantsNext = FALSE]
          \in Member
  BY DEF MembersTyped, Member
<1>2. CASE e.phase = "setResult"
  <2> DEFINE new(i) == IF i \in Humans(ms) \ Connected(ms)
                       THEN [ms[i] EXCEPT !.controller = "ai", !.departed = TRUE,
                                          !.wantsNext = FALSE]
                       ELSE ms[i]
  <2>1. Settled(ms, e) = [i \in DOMAIN ms |-> new(i)]
    BY <1>2 DEF Settled
  <2>2. \A i \in DOMAIN ms : new(i) \in Member
    BY <1>1 DEF MembersTyped
  <2>3. \A i \in DOMAIN ms :
          new(i) = IF e.phase = "setResult" /\ i \in Humans(ms) \ Connected(ms)
                   THEN [ms[i] EXCEPT !.controller = "ai", !.departed = TRUE,
                                      !.wantsNext = FALSE]
                   ELSE ms[i]
    BY <1>2
  <2> HIDE DEF new
  <2>4. MembersTyped(Settled(ms, e)) /\ DOMAIN Settled(ms, e) = DOMAIN ms
    BY <2>1, <2>2 DEF MembersTyped
  <2>5. \A i \in DOMAIN ms : Settled(ms, e)[i] = new(i)
    BY <2>1
  <2>6. QED
    BY <2>3, <2>4, <2>5
<1>3. CASE e.phase # "setResult"
  BY <1>3 DEF Settled
<1>4. QED
  BY <1>2, <1>3

LEMMA TableTyped ==
  ASSUME NEW ms, MembersTyped(ms), NEW humans \in SUBSET DOMAIN ms,
         NEW ais \in SUBSET Ais
  PROVE  MembersTyped(Table(ms, humans, ais)) /\ DOMAIN Table(ms, humans, ais) = humans \cup ais
<1>1. \A i \in humans :
        [ms[i] EXCEPT !.seated = TRUE, !.wantsNext = FALSE, !.grace = Never,
                      !.controller = IF ms[i].connected THEN "human" ELSE "ai"]
          \in Member
  <2>0. Never \in TimeLeft(LobbyGrace)
    BY LimitAssumption DEF TimeLeft, Never
  <2>1. \A r \in Member, c \in {"human", "ai"} :
          [r EXCEPT !.seated = TRUE, !.wantsNext = FALSE, !.grace = Never,
                    !.controller = c] \in Member
    BY <2>0 DEF Member
  <2>2. \A i \in humans : ms[i] \in Member
    BY DEF MembersTyped
  <2>3. \A i \in humans :
          (IF ms[i].connected THEN "human" ELSE "ai") \in {"human", "ai"}
    OBVIOUS
  <2>4. QED
    BY <2>1, <2>2, <2>3
<1> DEFINE new(i) == IF i \in humans
                     THEN [ms[i] EXCEPT !.seated = TRUE, !.wantsNext = FALSE, !.grace = Never,
                             !.controller = IF ms[i].connected THEN "human" ELSE "ai"]
                     ELSE NewAi
<1>2. \A i \in humans \cup ais : new(i) \in Member
  BY <1>1, NewMemberTyped
<1>3. Table(ms, humans, ais) = [i \in humans \cup ais |-> new(i)]
  BY DEF Table
<1>4. humans \cup ais \subseteq MemberId
  BY DEF MembersTyped, MemberId
<1> HIDE DEF new
<1>5. QED
  BY <1>2, <1>3, <1>4 DEF MembersTyped

LEMMA WithoutMemberTyped ==
  ASSUME NEW ms, MembersTyped(ms), NEW m \in DOMAIN ms
  PROVE  /\ MembersTyped(WithoutMember(ms, m))
         /\ DOMAIN WithoutMember(ms, m) = DOMAIN ms \ {m}
         /\ \A i \in DOMAIN ms \ {m} :
              \E host \in BOOLEAN :
                WithoutMember(ms, m)[i] = [ms[i] EXCEPT !.isHost = host]
<1> DEFINE rest == Restricted(ms, DOMAIN ms \ {m})
<1>1. MembersTyped(rest) /\ DOMAIN rest = DOMAIN ms \ {m}
  BY DEF Restricted, MembersTyped
<1>2. \A i \in DOMAIN rest : rest[i] = ms[i] /\ ms[i] \in Member
  BY DEF Restricted, MembersTyped
<1>3. \A i \in DOMAIN rest, host \in BOOLEAN : [rest[i] EXCEPT !.isHost = host] \in Member
  BY <1>2 DEF Member
<1>4. \A i \in DOMAIN rest : \E host \in BOOLEAN : rest[i] = [ms[i] EXCEPT !.isHost = host]
  <2> SUFFICES ASSUME NEW i \in DOMAIN rest
               PROVE  rest[i] = [ms[i] EXCEPT !.isHost = ms[i].isHost] /\ ms[i].isHost \in BOOLEAN
    OBVIOUS
  <2> QED BY <1>2 DEF Member
<1> HIDE DEF rest
<1>5. WithoutMember(ms, m) = IF ms[m].isHost /\ Humans(rest) # {}
                             THEN [i \in DOMAIN rest |-> [rest[i] EXCEPT !.isHost = (i = NextHost(rest))]]
                             ELSE rest
  BY DEF WithoutMember, rest
<1>6. CASE ms[m].isHost /\ Humans(rest) # {}
  <2> DEFINE new(i) == [rest[i] EXCEPT !.isHost = (i = NextHost(rest))]
  <2>1. WithoutMember(ms, m) = [i \in DOMAIN rest |-> new(i)]
    BY <1>5, <1>6
  <2>2. \A i \in DOMAIN rest : new(i) \in Member
    BY <1>3
  <2>3. \A i \in DOMAIN rest : new(i) = [ms[i] EXCEPT !.isHost = (i = NextHost(rest))]
    BY <1>2
  <2>4. \A i \in DOMAIN rest : \E host \in BOOLEAN : new(i) = [ms[i] EXCEPT !.isHost = host]
    BY <2>3
  <2> HIDE DEF new
  <2>5. QED
    BY <1>1, <2>1, <2>2, <2>4 DEF MembersTyped
<1>7. CASE ~(ms[m].isHost /\ Humans(rest) # {})
  BY <1>1, <1>4, <1>5, <1>7
<1>8. QED
  BY <1>6, <1>7

-----------------------------------------------------------------------------
(* What the moves of a game do to the set.                                 *)

GameKinds == {"awaitingPlay", "awaitingChoice", "miniGame"}

\* A game is on exactly while the set is in progress, it then waits for
\* somebody, and there is room for its result.
EngineSound(e) ==
  /\ e \in Engine
  /\ e.phase = "gameInProgress" <=> e.game \in GameKinds
  /\ e.game \in GameKinds => e.asked # <<>>
  /\ e.phase # "setResult" => e.results < GamesPerSet

LEMMA ListsAreSequences ==
  ASSUME NEW S, NEW lo \in Nat \ {0}, NEW hi \in Nat, NEW s \in Lists(S, lo, hi)
  PROVE  s \in Seq(S) /\ s # <<>>
<1>1. PICK n \in lo .. hi : s \in [1 .. n -> S]
  BY DEF Lists
<1>2. n \in Nat /\ n >= 1
  BY <1>1
<1>3. s \in Seq(S) /\ Len(s) = n
  BY <1>1, <1>2
<1>4. QED
  BY <1>2, <1>3

LEMMA SituationAsks ==
  ASSUME NEW S, IsFiniteSet(S), NEW sit \in Situations(S)
  PROVE  /\ sit.game \in GameKinds
         /\ sit.asked \in Seq(S) /\ sit.asked # <<>>
         /\ sit.left \in 0 .. MiniTicks
<1>1. Cardinality(S) \in Nat
  BY FS_CardinalityType
<1>2. CASE sit \in [game : {"awaitingPlay"}, asked : {<<p>> : p \in S}, left : {0}]
  <2>1. PICK p \in S : sit.asked = <<p>>
    BY <1>2
  <2>2. <<p>> \in Seq(S) /\ <<p>> # <<>>
    OBVIOUS
  <2>3. sit.game \in GameKinds /\ sit.left \in 0 .. MiniTicks
    BY <1>2, SetAssumption DEF GameKinds
  <2>4. QED
    BY <2>1, <2>2, <2>3
<1>3. CASE sit \in [game : {"awaitingChoice"}, asked : Lists(S, 1, MaxRequests), left : {0}]
  BY <1>3, SetAssumption, ListsAreSequences DEF GameKinds
<1>4. CASE sit \in [game  : {"miniGame"}, left : {MiniTicks},
                    asked : {s \in Lists(S, 2, Cardinality(S)) : Distinct(s)}]
  <2>1. /\ sit.game \in GameKinds
        /\ sit.left \in 0 .. MiniTicks
        /\ sit.asked \in Lists(S, 2, Cardinality(S))
    BY <1>4, SetAssumption DEF GameKinds
  <2>2. 2 \in Nat \ {0}
    OBVIOUS
  <2>3. QED
    BY <1>1, <2>1, <2>2, ListsAreSequences
<1>5. QED
  BY <1>2, <1>3, <1>4 DEF Situations

LEMMA WithoutIndexAsks ==
  ASSUME NEW S, NEW s \in Seq(S), NEW i \in DOMAIN s
  PROVE  WithoutIndex(s, i) \in Seq(S) /\ Len(WithoutIndex(s, i)) = Len(s) - 1
<1>1. i \in 1 .. Len(s) /\ Len(s) \in Nat /\ \A j \in 1 .. Len(s) : s[j] \in S
  OBVIOUS
<1>2. /\ SubSeq(s, 1, i - 1) \in Seq(S)
      /\ Len(SubSeq(s, 1, i - 1)) = i - 1
  <2>1. \A j \in 1 .. (i - 1) : s[j] \in S
    BY <1>1
  <2>2. QED
    BY <1>1, <2>1, SubSeqProperties
<1>3. /\ SubSeq(s, i + 1, Len(s)) \in Seq(S)
      /\ Len(SubSeq(s, i + 1, Len(s))) = Len(s) - i
  <2>1. \A j \in (i + 1) .. Len(s) : s[j] \in S
    BY <1>1
  <2>2. QED
    BY <1>1, <2>1, SubSeqProperties
<1> DEFINE a == SubSeq(s, 1, i - 1)
           b == SubSeq(s, i + 1, Len(s))
<1>4. a \o b \in Seq(S) /\ Len(a \o b) = Len(a) + Len(b)
  <2> HIDE DEF a, b
  <2>1. a \in Seq(S) /\ b \in Seq(S)
    BY <1>2, <1>3 DEF a, b
  <2>2. QED
    BY <2>1, ConcatProperties
<1>5. Len(a) + Len(b) = Len(s) - 1
  BY <1>1, <1>2, <1>3
<1>6. QED
  BY <1>4, <1>5 DEF WithoutIndex

LEMMA InGameSound ==
  ASSUME NEW S, IsFiniteSet(S), S \subseteq MemberId, NEW sit \in Situations(S),
         NEW e \in Engine, e.results < GamesPerSet
  PROVE  /\ EngineSound(InGame(e, sit))
         /\ InGame(e, sit).phase = "gameInProgress"
         /\ InGame(e, sit).asked \in Seq(S)
<1>1. /\ sit.game \in GameKinds
      /\ sit.asked \in Seq(S) /\ sit.asked # <<>>
      /\ sit.left \in 0 .. MiniTicks
  BY SituationAsks
<1>2. sit.asked \in Seq(MemberId)
  BY <1>1
<1>3. QED
  BY <1>1, <1>2 DEF InGame, EngineSound, Engine, GameKinds

LEMMA GameOverSound ==
  ASSUME NEW e \in Engine, e.results < GamesPerSet,
         NEW next \in {"interimResult", "setResult"},
         next = "interimResult" => e.results + 1 < GamesPerSet
  PROVE  /\ EngineSound(GameOver(e, next))
         /\ GameOver(e, next).phase = next
         /\ GameOver(e, next).asked = <<>>
<1>1. /\ <<>> \in Seq(MemberId) /\ 0 \in 0 .. MiniTicks
      /\ e.results + 1 \in 0 .. GamesPerSet
  BY SetAssumption DEF Engine
<1>2. GameOver(e, next) \in Engine
  BY <1>1 DEF GameOver, Engine
<1>3. /\ GameOver(e, next).phase = next /\ GameOver(e, next).game = "finished"
      /\ GameOver(e, next).asked = <<>> /\ GameOver(e, next).results = e.results + 1
  BY DEF GameOver, Engine
<1>4. QED
  BY <1>2, <1>3 DEF EngineSound, GameKinds

\* A set that has begun its next game is in that game or past its end.
LEMMA StartGameSound ==
  ASSUME NEW S, IsFiniteSet(S), S \subseteq MemberId,
         NEW e \in Engine, e.results < GamesPerSet, NEW f \in StartGame(e, S)
  PROVE  /\ EngineSound(f)
         /\ f.phase # "none"
         /\ f.asked \in Seq(S)
<1>1. CASE \E sit \in Situations(S) : f = InGame(e, sit)
  BY <1>1, InGameSound
<1>2. CASE f = GameOver(e, IF e.results + 1 < GamesPerSet
                           THEN "interimResult" ELSE "setResult")
  <2> DEFINE next == IF e.results + 1 < GamesPerSet THEN "interimResult" ELSE "setResult"
  <2>1. /\ next \in {"interimResult", "setResult"}
        /\ next = "interimResult" => e.results + 1 < GamesPerSet
    OBVIOUS
  <2>2. f = GameOver(e, next)
    BY <1>2
  <2>3. <<>> \in Seq(S)
    OBVIOUS
  <2> HIDE DEF next
  <2>4. EngineSound(f) /\ f.phase = next /\ f.asked = <<>>
    BY <2>1, <2>2, GameOverSound
  <2>5. QED
    BY <2>1, <2>3, <2>4
<1>3. QED
  BY <1>1, <1>2 DEF StartGame

LEMMA GameEndSound ==
  ASSUME NEW e \in Engine, e.results < GamesPerSet
  PROVE  /\ EngineSound(GameEnd(e))
         /\ GameEnd(e).phase \in {"interimResult", "setResult"}
         /\ GameEnd(e).asked = <<>>
BY GameOverSound DEF GameEnd

\* An accepted move leaves the game in progress or at its end.
LEMMA AfterMoveSound ==
  ASSUME NEW T, T \subseteq MemberId, NEW S, IsFiniteSet(S), S \subseteq T,
         NEW e, EngineSound(e), e.phase = "gameInProgress", e.asked \in Seq(T),
         NEW p, NEW f \in AfterMove(e, p, S)
  PROVE  /\ EngineSound(f)
         /\ f.phase # "none"
         /\ f.asked \in Seq(T)
<1>1. e \in Engine /\ e.results < GamesPerSet
  BY DEF EngineSound
<1>2. CASE Len(e.asked) > 1
  <2>1. PICK i \in DOMAIN e.asked : f = [e EXCEPT !.asked = WithoutIndex(e.asked, i)]
    BY <1>2 DEF AfterMove
  <2>2. WithoutIndex(e.asked, i) \in Seq(T) /\ Len(WithoutIndex(e.asked, i)) >= 1
    BY <1>2, WithoutIndexAsks
  <2>3. WithoutIndex(e.asked, i) \in Seq(MemberId) /\ WithoutIndex(e.asked, i) # <<>>
    BY <2>2
  <2> HIDE DEF WithoutIndex
  <2>4. QED
    BY <1>1, <2>1, <2>2, <2>3 DEF EngineSound, Engine, GameKinds
<1>3. CASE \E sit \in Situations(S) : f = InGame(e, sit)
  <2>1. S \subseteq MemberId
    OBVIOUS
  <2>2. EngineSound(f) /\ f.phase = "gameInProgress" /\ f.asked \in Seq(S)
    BY <1>1, <1>3, <2>1, InGameSound
  <2>3. QED
    BY <2>2
<1>4. CASE f = GameEnd(e)
  <2>1. EngineSound(f) /\ f.phase \in {"interimResult", "setResult"} /\ f.asked = <<>>
    BY <1>1, <1>4, GameEndSound
  <2>2. <<>> \in Seq(T)
    OBVIOUS
  <2>3. QED
    BY <2>1, <2>2
<1>5. QED
  BY <1>2, <1>3, <1>4 DEF AfterMove

\* The result of a mini game goes on with the game, or ends it.
LEMMA AfterMiniGameSound ==
  ASSUME NEW S, IsFiniteSet(S), S \subseteq MemberId,
         NEW e \in Engine, e.results < GamesPerSet, NEW f \in AfterMiniGame(e, S)
  PROVE  /\ EngineSound(f)
         /\ f.phase # "none"
         /\ ~MiniGameEndsGame => f.phase = "gameInProgress"
         /\ f.asked \in Seq(S)
<1>1. CASE \E sit \in Situations(S) : f = InGame(e, sit)
  BY <1>1, InGameSound
<1>2. CASE MiniGameEndsGame /\ f = GameEnd(e)
  <2>1. EngineSound(f) /\ f.phase \in {"interimResult", "setResult"} /\ f.asked = <<>>
    BY <1>2, GameEndSound
  <2>2. <<>> \in Seq(S)
    OBVIOUS
  <2>3. QED
    BY <1>2, <2>1, <2>2
<1>3. QED
  BY <1>1, <1>2 DEF AfterMiniGame

-----------------------------------------------------------------------------
(* Type correctness.                                                       *)

LEMMA SeatsFinite ==
  ASSUME NEW ms, MembersTyped(ms)
  PROVE  /\ IsFiniteSet(MemberId) /\ IsFiniteSet(DOMAIN ms) /\ IsFiniteSet(Seats(ms))
         /\ Seats(ms) \subseteq DOMAIN ms /\ Seats(ms) \subseteq MemberId
         /\ Humans(ms) \subseteq DOMAIN ms /\ IsFiniteSet(Humans(ms))
         /\ Connected(ms) \subseteq Humans(ms)
<1>1. IsFiniteSet(MemberId)
  BY UsersAssumption, FS_Union DEF MemberId
<1>2. /\ Seats(ms) \subseteq DOMAIN ms /\ Humans(ms) \subseteq DOMAIN ms
      /\ DOMAIN ms \subseteq MemberId /\ Connected(ms) \subseteq Humans(ms)
  BY DEF Seats, Humans, Connected, MembersTyped
<1>3. QED
  BY <1>1, <1>2, FS_Subset

LEMMA DeadlineTyped ==
  ASSUME NEW e, NEW ms
  PROVE  DeadlineForTurn(e, ms) \in {Never, DisconnectedLimit, TurnLimit}
BY DEF DeadlineForTurn

LEMMA NoEngineTyped == NoEngine \in Engine /\ NoEngine.results = 0
BY SetAssumption DEF NoEngine, Engine

\* What a new set looks like.
LEMMA StartSetOutcome ==
  ASSUME NEW ms, MembersTyped(ms), NEW humans \in SUBSET DOMAIN ms,
         StartSet(ms, humans)
  PROVE  /\ setNo < MaxSets /\ setNo' = setNo + 1 /\ ready' = {}
         /\ UNCHANGED <<mode, turnSeq, lobbyExpires>>
         /\ EngineSound(engine') /\ engine'.phase # "none"
         /\ \E ais \in SUBSET (Ais \ humans) :
              /\ Cardinality(ais) = SeatCount - Cardinality(humans)
              /\ members' = Settled(Table(ms, humans, ais), engine')
              /\ engine'.asked \in Seq(humans \cup ais)
         /\ phase' = PhaseAfter(engine', members')
         /\ turnDeadline' = DeadlineForTurn(engine', members')
         /\ interimEnds' \in {Never, InterimTime}
         /\ respondBy' = RespondAfter(phase')
         /\ abandonAt' = Never
<1>1. PICK ais \in SUBSET (Ais \ humans) :
        /\ Cardinality(ais) = SeatCount - Cardinality(humans)
        /\ \E e \in StartGame(NoEngine, humans \cup ais) :
             LET settled == Settled(Table(ms, humans, ais), e)
                 ph      == PhaseAfter(e, settled)
             IN  /\ phase' = ph
                 /\ members' = settled
                 /\ engine' = e
                 /\ setNo' = setNo + 1
                 /\ ready' = {}
                 /\ turnDeadline' = DeadlineForTurn(e, settled)
                 /\ interimEnds' = IF e.phase = "interimResult"
                                   THEN InterimTime ELSE Never
                 /\ respondBy' = RespondAfter(ph)
                 /\ abandonAt' = Never
                 /\ UNCHANGED <<mode, turnSeq, lobbyExpires>>
  BY DEF StartSet
<1>2. engine' \in StartGame(NoEngine, humans \cup ais)
  BY <1>1
<1>3. members' = Settled(Table(ms, humans, ais), engine')
  BY <1>1
<1>4. /\ EngineSound(engine') /\ engine'.phase # "none"
      /\ engine'.asked \in Seq(humans \cup ais)
  <2>1. IsFiniteSet(humans \cup ais) /\ humans \cup ais \subseteq MemberId
    <3>1. humans \cup ais \subseteq MemberId
      BY DEF MembersTyped, MemberId
    <3>2. QED
      BY <3>1, SeatsFinite, FS_Subset
  <2>2. QED
    BY <1>2, <2>1, NoEngineTyped, StartGameSound, SetAssumption
<1>5. setNo < MaxSets
  BY DEF StartSet
<1>6. QED
  BY <1>1, <1>3, <1>4, <1>5

TypeInv == TypeOK /\ EngineSound(engine)

LEMMA LimitsTyped ==
  /\ Never \in TimeLeft(LobbyGrace) /\ LobbyGrace \in TimeLeft(LobbyGrace)
  /\ Never \in TimeLeft(InterimTime) /\ InterimTime \in TimeLeft(InterimTime)
  /\ Never \in TimeLeft(RespondTime) /\ RespondTime \in TimeLeft(RespondTime)
  /\ Never \in TimeLeft(AbandonTime) /\ AbandonTime \in TimeLeft(AbandonTime)
  /\ LobbyTtl \in TimeLeft(LobbyTtl)
  /\ {Never, DisconnectedLimit, TurnLimit}
       \subseteq -1 .. TurnLimit \cup TimeLeft(DisconnectedLimit)
BY LimitAssumption DEF TimeLeft, Never

LEMMA StartSetTyped ==
  ASSUME TypeInv, NEW ms, MembersTyped(ms), NEW humans \in SUBSET DOMAIN ms,
         StartSet(ms, humans)
  PROVE  TypeInv'
<1>1. PICK ais \in SUBSET (Ais \ humans) :
        members' = Settled(Table(ms, humans, ais), engine')
  BY StartSetOutcome
<1>2. MembersTyped(members')
  BY <1>1, TableTyped, SettledTyped
<1>3. /\ EngineSound(engine') /\ engine' \in Engine
      /\ setNo' \in 0 .. MaxSets /\ ready' \subseteq MemberId
      /\ mode' \in RoomMode /\ turnSeq' \in 0 .. MaxTurnSeq
      /\ lobbyExpires' \in TimeLeft(LobbyTtl)
  BY StartSetOutcome, BoundAssumption DEF TypeInv, TypeOK, EngineSound
<1>4. phase' \in Phase
  BY StartSetOutcome DEF PhaseAfter, Phase
<1>5. turnDeadline' \in -1 .. TurnLimit \cup TimeLeft(DisconnectedLimit)
  BY StartSetOutcome, DeadlineTyped, LimitsTyped
<1>6. /\ interimEnds' \in TimeLeft(InterimTime)
      /\ respondBy' \in TimeLeft(RespondTime)
      /\ abandonAt' \in TimeLeft(AbandonTime)
  BY StartSetOutcome, LimitsTyped DEF RespondAfter
<1>7. QED
  BY <1>2, <1>3, <1>4, <1>5, <1>6 DEF TypeInv, TypeOK, MembersTyped

LEMMA ProgressTyped ==
  ASSUME TypeInv, NEW e, EngineSound(e), Progress(e),
         interimEnds' \in TimeLeft(InterimTime), turnSeq' \in 0 .. MaxTurnSeq
  PROVE  TypeInv'
<1>1. MembersTyped(members')
  BY SettledTyped DEF Progress, TypeInv, TypeOK, MembersTyped
<1>2. /\ EngineSound(engine') /\ engine' \in Engine
      /\ setNo' \in 0 .. MaxSets /\ ready' \subseteq MemberId
      /\ mode' \in RoomMode /\ lobbyExpires' \in TimeLeft(LobbyTtl)
  BY DEF Progress, TypeInv, TypeOK, EngineSound
<1>3. phase' \in Phase
  BY DEF Progress, PhaseAfter, Phase
<1>4. turnDeadline' \in -1 .. TurnLimit \cup TimeLeft(DisconnectedLimit)
  BY DeadlineTyped, LimitsTyped DEF Progress
<1>5. /\ respondBy' \in TimeLeft(RespondTime)
      /\ abandonAt' \in TimeLeft(AbandonTime)
  BY LimitsTyped DEF Progress, RespondAfter, TypeInv, TypeOK
<1>6. QED
  BY <1>1, <1>2, <1>3, <1>4, <1>5 DEF TypeInv, TypeOK, MembersTyped

LEMMA GameActionTyped ==
  ASSUME TypeInv, NEW m, NEW seq, GameAction(m, seq)
  PROVE  TypeInv'
<1>1. PICK e \in AfterMove(engine, m, Seats(members)) :
        Progress(e) /\ interimEnds' = IF e.phase = "interimResult" THEN InterimTime ELSE Never
  BY DEF GameAction
<1>2. EngineSound(e)
  <2>1. IsFiniteSet(Seats(members)) /\ Seats(members) \subseteq MemberId
    BY SeatsFinite DEF TypeInv, TypeOK, MembersTyped
  <2>2. engine.phase = "gameInProgress" /\ engine.asked \in Seq(MemberId)
    BY DEF GameAction, WaitsForPlayer, TypeInv, TypeOK, Engine
  <2>3. QED
    BY <2>1, <2>2, AfterMoveSound DEF TypeInv
<1>3. turnSeq' \in 0 .. MaxTurnSeq
  BY BoundAssumption DEF GameAction, TypeInv, TypeOK
<1>4. QED
  BY <1>1, <1>2, <1>3, ProgressTyped, LimitsTyped

LEMMA AdvanceTyped ==
  ASSUME TypeInv, AdvanceIntermission
  PROVE  TypeInv'
<1>1. PICK e \in StartGame(engine, Seats(members)) : Progress(e)
  BY DEF AdvanceIntermission
<1>2. EngineSound(e)
  <2>1. IsFiniteSet(Seats(members)) /\ Seats(members) \subseteq MemberId
    BY SeatsFinite DEF TypeInv, TypeOK, MembersTyped
  <2>2. engine \in Engine /\ engine.results < GamesPerSet
    BY DEF AdvanceIntermission, TypeInv, EngineSound
  <2>3. QED
    BY <1>1, <2>1, <2>2, StartGameSound
<1>3. turnSeq' \in 0 .. MaxTurnSeq /\ interimEnds' \in TimeLeft(InterimTime)
  BY LimitsTyped DEF AdvanceIntermission, TypeInv, TypeOK
<1>4. QED
  BY <1>1, <1>2, <1>3, ProgressTyped

LEMMA JoinsTyped ==
  ASSUME TypeInv, NEW u \in Users, NEW a, Join(u) \/ JoinTakeover(u, a)
  PROVE  TypeInv'
<1>1. CASE Join(u)
  <2>1. PICK rank \in 1 .. MaxRank :
          members' = [i \in DOMAIN members \cup {u} |->
                        IF i = u THEN NewHuman(u, rank, FALSE, phase = "setResult")
                        ELSE members[i]]
    BY <1>1 DEF Join
  <2>2. NewHuman(u, rank, FALSE, phase = "setResult") \in Member
    <3>1. rank \in 0 .. MaxRank /\ (phase = "setResult") \in BOOLEAN
      BY BoundAssumption
    <3>2. QED
      BY <3>1, NewMemberTyped
  <2>3. MembersTyped(members')
    BY <2>1, <2>2 DEF TypeInv, TypeOK, MembersTyped, MemberId
  <2>4. QED
    BY <1>1, <2>3 DEF Join, clocks, TypeInv, TypeOK, MembersTyped
<1>2. CASE JoinTakeover(u, a)
  <2>1. PICK rank \in 1 .. MaxRank :
          members' = [members EXCEPT ![a] =
                        [NewHuman(u, rank, FALSE, FALSE) EXCEPT
                           !.seated = members[a].seated]]
    BY <1>2 DEF JoinTakeover
  <2>2. a \in DOMAIN members /\ members[a] \in Member
    BY <1>2 DEF JoinTakeover, TypeInv, TypeOK
  <2>3. [NewHuman(u, rank, FALSE, FALSE) EXCEPT !.seated = members[a].seated] \in Member
    <3>1. rank \in 0 .. MaxRank
      BY BoundAssumption
    <3>2. NewHuman(u, rank, FALSE, FALSE) \in Member
      BY <3>1, NewMemberTyped
    <3>3. QED
      BY <2>2, <3>2 DEF Member
  <2>4. MembersTyped(members')
    BY <2>1, <2>3 DEF TypeInv, TypeOK, MembersTyped
  <2>5. turnDeadline' \in -1 .. TurnLimit \cup TimeLeft(DisconnectedLimit)
    BY <1>2, DeadlineTyped, LimitsTyped DEF JoinTakeover
  <2>6. QED
    BY <1>2, <2>4, <2>5, LimitsTyped DEF JoinTakeover, TypeInv, TypeOK, MembersTyped
<1>3. QED
  BY <1>1, <1>2

LEMMA LeaveTableTyped ==
  ASSUME TypeInv, NEW m \in DOMAIN members, LeaveTable(m)
  PROVE  TypeInv'
<1> DEFINE ms == WithoutMember(members, m)
<1>1. MembersTyped(members)
  BY DEF TypeInv, TypeOK, MembersTyped
<1>2. MembersTyped(ms) /\ Connected(ms) \in SUBSET DOMAIN ms
  <2>1. MembersTyped(ms)
    BY <1>1, WithoutMemberTyped
  <2>2. QED
    BY <2>1 DEF Connected, Humans
<1>3. CASE StartSet(ms, Connected(ms))
  <2> HIDE DEF ms
  <2> QED
    BY <1>2, <1>3, StartSetTyped
<1>4. CASE ~StartSet(ms, Connected(ms))
  <2> HIDE DEF ms
  <2>1. /\ members' = ms
        /\ phase' = IF Humans(ms) = {} THEN "closed" ELSE phase
        /\ interimEnds' = IF Humans(ms) = {} THEN Never ELSE interimEnds
        /\ UNCHANGED <<mode, engine, setNo, turnSeq, ready, turnDeadline,
                       respondBy, lobbyExpires, abandonAt>>
    BY <1>4 DEF LeaveTable, ms
  <2>2. QED
    BY <1>2, <2>1, LimitsTyped DEF TypeInv, TypeOK, MembersTyped, Phase
<1>5. QED
  BY <1>3, <1>4

LEMMA LeaveTyped ==
  ASSUME TypeInv, NEW m, Leave(m)
  PROVE  TypeInv'
<1>1. m \in DOMAIN members /\ MembersTyped(members)
  BY DEF Leave, TypeInv, TypeOK, MembersTyped
<1>2. CASE LeavePlaying(m)
  <2> DEFINE ms == [members EXCEPT ![m].connected = FALSE, ![m].controller = "ai",
                                   ![m].departed = TRUE]
  <2>1. MembersTyped(ms)
    <3>1. \A r \in Member : [r EXCEPT !.connected = FALSE, !.controller = "ai",
                                     !.departed = TRUE] \in Member
      BY DEF Member
    <3>2. ms = [members EXCEPT ![m] = [members[m] EXCEPT !.connected = FALSE,
                  !.controller = "ai", !.departed = TRUE]]
      BY <1>1 DEF MembersTyped, Member
    <3>3. QED
      BY <1>1, <3>1, <3>2 DEF MembersTyped
  <2>2. members' = ms
    BY <1>2 DEF LeavePlaying
  <2> HIDE DEF ms
  <2>3. phase' \in Phase /\ interimEnds' \in TimeLeft(InterimTime)
        /\ abandonAt' \in TimeLeft(AbandonTime)
    BY <1>2, LimitsTyped DEF LeavePlaying, TypeInv, TypeOK, Phase
  <2>4. UNCHANGED <<mode, engine, setNo, turnSeq, ready, turnDeadline,
                    respondBy, lobbyExpires>>
    BY <1>2 DEF LeavePlaying
  <2>5. QED
    BY <2>1, <2>2, <2>3, <2>4 DEF TypeInv, TypeOK, MembersTyped
<1>3. CASE LeaveTable(m)
  BY <1>1, <1>3, LeaveTableTyped
<1>4. QED
  BY <1>2, <1>3 DEF Leave

LEMMA StartsTyped ==
  ASSUME TypeInv, NEW m, Start(m) \/ Continue(m)
  PROVE  TypeInv'
<1>1. MembersTyped(members)
  BY DEF TypeInv, TypeOK, MembersTyped
<1>2. CASE Start(m)
  BY <1>1, <1>2, SeatsFinite, StartSetTyped DEF Start
<1>3. CASE Continue(m)
  <2> DEFINE ms == [members EXCEPT ![m].wantsNext = TRUE]
  <2>1. MembersTyped(ms)
    BY <1>1 DEF MembersTyped, Member
  <2>2. Connected(ms) \in SUBSET DOMAIN ms
    BY DEF Connected, Humans
  <2>3. \/ StartSet(ms, Connected(ms))
        \/ /\ members' = ms
           /\ UNCHANGED <<mode, phase, engine, setNo, turnSeq, ready, clocks>>
    BY <1>3 DEF Continue
  <2> HIDE DEF ms
  <2>4. QED
    BY <2>1, <2>2, <2>3, StartSetTyped DEF TypeInv, TypeOK, MembersTyped, clocks
<1>4. QED
  BY <1>2, <1>3

LEMMA ExpiriesTyped ==
  ASSUME TypeInv, \/ ExpireSetResult \/ ExpireRoom
                  \/ \E m \in MemberId : ExpireWaitingMember(m)
  PROVE  TypeInv'
<1>1. /\ MembersTyped(members)
      /\ \A S \in SUBSET DOMAIN members :
           MembersTyped(Restricted(members, S)) /\ DOMAIN Restricted(members, S) = S
  BY DEF TypeInv, TypeOK, MembersTyped, Restricted
<1>2. {} \in SUBSET DOMAIN members
  OBVIOUS
<1>3. CASE ExpireSetResult
  <2> DEFINE staying == {i \in Connected(members) : members[i].wantsNext}
  <2>1. staying \in SUBSET DOMAIN members
    BY DEF Connected, Humans
  <2>2. \/ StartSet(Restricted(members, staying), staying)
        \/ /\ phase' = "closed"
           /\ members' = Restricted(members, {})
           /\ interimEnds' = Never
           /\ UNCHANGED <<mode, engine, setNo, turnSeq, ready, turnDeadline,
                          respondBy, lobbyExpires, abandonAt>>
    BY <1>3 DEF ExpireSetResult
  <2> HIDE DEF staying
  <2>3. CASE StartSet(Restricted(members, staying), staying)
    BY <1>1, <2>1, <2>3, StartSetTyped
  <2>4. CASE members' = Restricted(members, {}) /\ phase' = "closed"
              /\ interimEnds' = Never
              /\ UNCHANGED <<mode, engine, setNo, turnSeq, ready, turnDeadline,
                          respondBy, lobbyExpires, abandonAt>>
    <3>1. MembersTyped(members')
      BY <1>1, <1>2, <2>4
    <3>2. QED
      BY <2>4, <3>1, LimitsTyped DEF TypeInv, TypeOK, MembersTyped, Phase
  <2>5. QED
    BY <2>2, <2>3, <2>4
<1>4. CASE ExpireRoom
  <2>1. MembersTyped(members')
    BY <1>1, <1>2, <1>4 DEF ExpireRoom
  <2>2. QED
    BY <1>4, <2>1, LimitsTyped DEF ExpireRoom, TypeInv, TypeOK, MembersTyped, Phase
<1>5. CASE \E m \in MemberId : ExpireWaitingMember(m)
  BY <1>5, LeaveTableTyped DEF ExpireWaitingMember
<1>6. QED
  BY <1>3, <1>4, <1>5

LEMMA ConnectionTyped ==
  ASSUME TypeInv, NEW m, NEW on \in BOOLEAN, ConnectionChanged(m, on)
  PROVE  TypeInv'
<1> DEFINE ctrl == IF ~on /\ phase # "waiting" THEN "ai" ELSE "human"
           left == IF ~on /\ phase = "waiting" THEN LobbyGrace ELSE Never
<1>1. members' = [members EXCEPT ![m].connected = on, ![m].controller = ctrl,
                                 ![m].grace = left]
  BY DEF ConnectionChanged
<1>2. ctrl \in {"human", "ai"} /\ left \in TimeLeft(LobbyGrace)
  BY LimitsTyped
<1> HIDE DEF ctrl, left
<1>3. MembersTyped(members')
  <2>1. \A r \in Member : [r EXCEPT !.connected = on, !.controller = ctrl,
                                   !.grace = left] \in Member
    BY <1>2 DEF Member
  <2>2. /\ members \in [DOMAIN members -> Member] /\ DOMAIN members \subseteq MemberId
        /\ m \in DOMAIN members
    BY DEF ConnectionChanged, TypeInv, TypeOK, Humans
  <2>3. members' = [members EXCEPT ![m] = [members[m] EXCEPT !.connected = on,
                      !.controller = ctrl, !.grace = left]]
    BY <1>1, <2>2 DEF Member
  <2>4. QED
    BY <2>1, <2>2, <2>3 DEF MembersTyped
<1>4. turnDeadline' \in -1 .. TurnLimit \cup TimeLeft(DisconnectedLimit)
  BY DeadlineTyped, LimitsTyped DEF ConnectionChanged
<1>5. abandonAt' \in TimeLeft(AbandonTime)
  BY LimitsTyped DEF ConnectionChanged, TypeInv, TypeOK
<1>6. QED
  BY <1>3, <1>4, <1>5 DEF ConnectionChanged, TypeInv, TypeOK, MembersTyped

LEMMA MiniGameTickTyped ==
  ASSUME TypeInv, MiniGameTick
  PROVE  /\ TypeInv'
         /\ ~MiniGameEndsGame => engine'.phase = "gameInProgress"
<1>1. engine.game = "miniGame" /\ engine.phase = "gameInProgress"
  BY DEF MiniGameTick, InMiniGame, TypeInv, EngineSound, GameKinds
<1>2. /\ EngineSound(engine')
      /\ ~MiniGameEndsGame => engine'.phase = "gameInProgress"
  <2>1. CASE engine.left > 0 /\ engine' = [engine EXCEPT !.left = @ - 1]
    <3>1. engine.left - 1 \in 0 .. MiniTicks
      BY <2>1, SetAssumption DEF TypeInv, TypeOK, Engine
    <3>2. QED
      BY <1>1, <2>1, <3>1 DEF TypeInv, EngineSound, Engine, GameKinds
  <2>2. CASE engine' \in AfterMiniGame(engine, Seats(members))
    <3>1. IsFiniteSet(Seats(members)) /\ Seats(members) \subseteq MemberId
      BY SeatsFinite DEF TypeInv, TypeOK, MembersTyped
    <3>2. engine \in Engine /\ engine.results < GamesPerSet
      BY <1>1 DEF TypeInv, EngineSound
    <3>3. QED
      BY <2>2, <3>1, <3>2, AfterMiniGameSound
  <2>3. QED
    BY <2>1, <2>2 DEF MiniGameTick
<1>3. turnDeadline' \in -1 .. TurnLimit \cup TimeLeft(DisconnectedLimit)
  BY DeadlineTyped, LimitsTyped DEF MiniGameTick
<1>4. QED
  BY <1>2, <1>3 DEF MiniGameTick, TypeInv, TypeOK, EngineSound

LEMMA ReadyTyped ==
  ASSUME TypeInv, NEW m, ReadyIntermission(m)
  PROVE  TypeInv'
<1>1. m \in MemberId
  BY DEF ReadyIntermission, Humans, TypeInv, TypeOK
<1>2. CASE AdvanceIntermission
  BY <1>2, AdvanceTyped
<1>3. CASE /\ ready' = ready \cup {m}
           /\ UNCHANGED <<mode, phase, members, engine, setNo, turnSeq, clocks>>
  BY <1>1, <1>3 DEF clocks, TypeInv, TypeOK, EngineSound
<1>4. QED
  BY <1>2, <1>3 DEF ReadyIntermission

LEMMA DrainTyped ==
  ASSUME TypeInv, RequestDrain
  PROVE  /\ TypeInv'
         /\ engine' = [engine EXCEPT !.draining = TRUE,
                                    !.phase = IF engine.phase = "interimResult"
                                              THEN "setResult" ELSE "gameInProgress"]
         /\ members' = Settled(members, engine')
         /\ phase' = PhaseAfter(engine', members')
<1>1. /\ phase = "playing" /\ engine.phase \in {"gameInProgress", "interimResult"}
      /\ engine' = [engine EXCEPT !.draining = TRUE,
                                 !.phase = IF engine.phase = "interimResult"
                                           THEN "setResult" ELSE "gameInProgress"]
      /\ members' = Settled(members, engine')
      /\ phase' = PhaseAfter(engine', members')
      /\ turnDeadline' = IF phase' = "playing" THEN turnDeadline ELSE Never
      /\ interimEnds' = Never
      /\ ready' = {}
      /\ respondBy' = RespondAfter(phase')
      /\ abandonAt' = IF phase' = "playing" THEN abandonAt ELSE Never
      /\ UNCHANGED <<mode, setNo, turnSeq, lobbyExpires>>
  BY DEF RequestDrain
<1>2. MembersTyped(members')
  BY <1>1, SettledTyped DEF TypeInv, TypeOK, MembersTyped
<1>3. EngineSound(engine') /\ engine' \in Engine
  <2> DEFINE next == IF engine.phase = "interimResult" THEN "setResult" ELSE "gameInProgress"
  <2>1. next \in {"setResult", "gameInProgress"} /\ next = "gameInProgress" <=> engine.phase = "gameInProgress"
    BY <1>1
  <2>2. engine' = [engine EXCEPT !.draining = TRUE, !.phase = next]
    BY <1>1
  <2> HIDE DEF next
  <2>3. QED
    BY <1>1, <2>1, <2>2 DEF TypeInv, EngineSound, Engine, GameKinds
<1>4. /\ phase' \in Phase
      /\ turnDeadline' \in -1 .. TurnLimit \cup TimeLeft(DisconnectedLimit)
      /\ interimEnds' \in TimeLeft(InterimTime)
      /\ respondBy' \in TimeLeft(RespondTime)
      /\ abandonAt' \in TimeLeft(AbandonTime)
  BY <1>1, LimitsTyped DEF PhaseAfter, Phase, RespondAfter, TypeInv, TypeOK
<1>5. QED
  BY <1>1, <1>2, <1>3, <1>4 DEF TypeInv, TypeOK, MembersTyped

LEMMA TickTyped ==
  ASSUME TypeInv, Tick
  PROVE  /\ TypeInv'
         /\ DOMAIN members' = DOMAIN members
         /\ \A i \in DOMAIN members :
              members'[i] = [members[i] EXCEPT !.grace = TimePasses(members[i].grace)]
<1>1. \A d, limit : limit \in Nat /\ d \in TimeLeft(limit) => TimePasses(d) \in TimeLeft(limit)
  BY DEF TimeLeft, TimePasses
<1>2. \A i \in DOMAIN members :
        [members[i] EXCEPT !.grace = TimePasses(members[i].grace)] \in Member
  <2>1. \A r \in Member : TimePasses(r.grace) \in TimeLeft(LobbyGrace)
    BY <1>1, LimitAssumption DEF Member
  <2>2. \A r \in Member : [r EXCEPT !.grace = TimePasses(r.grace)] \in Member
    BY <2>1 DEF Member
  <2>3. QED
    BY <2>2 DEF TypeInv, TypeOK
<1>3. members' = [i \in DOMAIN members |->
                    [members[i] EXCEPT !.grace = TimePasses(members[i].grace)]]
  BY DEF Tick
<1>4. MembersTyped(members') /\ DOMAIN members' = DOMAIN members
  BY <1>2, <1>3 DEF MembersTyped, TypeInv, TypeOK
<1>5. turnDeadline' \in -1 .. TurnLimit \cup TimeLeft(DisconnectedLimit)
  BY LimitAssumption DEF Tick, TimePasses, TimeLeft, TypeInv, TypeOK
<1>6. /\ interimEnds' \in TimeLeft(InterimTime) /\ respondBy' \in TimeLeft(RespondTime)
      /\ lobbyExpires' \in TimeLeft(LobbyTtl) /\ abandonAt' \in TimeLeft(AbandonTime)
  BY <1>1, LimitAssumption DEF Tick, TypeInv, TypeOK
<1>7. QED
  BY <1>3, <1>4, <1>5, <1>6 DEF Tick, TypeInv, TypeOK, MembersTyped

LEMMA TypeInit == Init => TypeInv
<1> SUFFICES ASSUME Init PROVE TypeInv
  OBVIOUS
<1>1. PICK u \in Users : members = [i \in {u} |-> NewHuman(u, 1, TRUE, FALSE)]
  BY DEF Init
<1>2. NewHuman(u, 1, TRUE, FALSE) \in Member
  <2>1. 1 \in 0 .. MaxRank
    BY BoundAssumption
  <2>2. QED
    BY <2>1, NewMemberTyped
<1>3. MembersTyped(members)
  BY <1>1, <1>2 DEF MembersTyped, MemberId
<1>4. EngineSound(engine)
  BY NoEngineTyped, SetAssumption DEF Init, EngineSound, NoEngine, GameKinds
<1>5. /\ mode \in RoomMode /\ phase \in Phase /\ ready \subseteq MemberId
      /\ setNo \in 0 .. MaxSets /\ turnSeq \in 0 .. MaxTurnSeq
  BY ModesAssumption, BoundAssumption DEF Init, Phase
<1>6. /\ turnDeadline \in -1 .. TurnLimit \cup TimeLeft(DisconnectedLimit)
      /\ interimEnds \in TimeLeft(InterimTime) /\ respondBy \in TimeLeft(RespondTime)
      /\ lobbyExpires \in TimeLeft(LobbyTtl) /\ abandonAt \in TimeLeft(AbandonTime)
  BY LimitsTyped DEF Init
<1>7. QED
  BY <1>3, <1>4, <1>5, <1>6 DEF TypeInv, TypeOK, MembersTyped, EngineSound

LEMMA TypeStep == TypeInv /\ [Next]_roomVars => TypeInv'
<1> SUFFICES ASSUME TypeInv, [Next]_roomVars PROVE TypeInv'
  OBVIOUS
<1>1. CASE ByClient
  <2>1. CASE \E u \in Users : Join(u) \/ \E a \in Ais : JoinTakeover(u, a)
    BY <2>1, JoinsTyped
  <2>2. CASE \E m \in Connected(members) : Start(m) \/ Continue(m)
    BY <2>2, StartsTyped
  <2>3. CASE \E m \in Connected(members) : Leave(m)
    BY <2>3, LeaveTyped
  <2>4. CASE \E m \in Connected(members), seq \in 0 .. MaxTurnSeq : GameAction(m, seq)
    BY <2>4, GameActionTyped
  <2>5. CASE \E m \in Connected(members) : MiniGameInput(m)
    BY <2>5 DEF MiniGameInput, roomVars, clocks, TypeInv, TypeOK, EngineSound
  <2>6. CASE \E m \in Connected(members) : ReadyIntermission(m)
    BY <2>6, ReadyTyped
  <2>7. QED
    BY <1>1, <2>1, <2>2, <2>3, <2>4, <2>5, <2>6 DEF ByClient
<1>2. CASE ByNetwork
  BY <1>2, ConnectionTyped DEF ByNetwork
<1>3. CASE ByServer
  <2>1. CASE ExpireSetResult \/ ExpireRoom \/ \E m \in MemberId : ExpireWaitingMember(m)
    BY <2>1, ExpiriesTyped
  <2>2. CASE AutoAct
    BY <2>2, GameActionTyped DEF AutoAct
  <2>3. CASE MiniGameTick
    BY <2>3, MiniGameTickTyped
  <2>4. CASE RequestDrain
    BY <2>4, DrainTyped
  <2>5. CASE AdvanceIntermission
    BY <2>5, AdvanceTyped
  <2>6. QED
    BY <1>3, <2>1, <2>2, <2>3, <2>4, <2>5 DEF ByServer
<1>4. CASE Tick
  BY <1>4, TickTyped
<1>5. CASE UNCHANGED roomVars
  BY <1>5 DEF roomVars, clocks, TypeInv, TypeOK, EngineSound
<1>6. QED
  BY <1>1, <1>2, <1>3, <1>4, <1>5 DEF Next

\* Every variable of the room keeps its type, a set never has more results than
\* games, and its game waits for somebody exactly while it is in progress.
THEOREM TypeCorrect == Spec => [](TypeOK /\ EngineSound(engine))
<1>1. Spec => []TypeInv
  BY TypeInit, TypeStep, PTL DEF Spec
<1>2. QED
  BY <1>1 DEF TypeInv
=============================================================================
