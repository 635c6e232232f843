-------------------------------- MODULE Room --------------------------------
(***************************************************************************)
(* One room: the state that packages/server/src/room/reducer.ts keeps and  *)
(* one action for each RoomAction its reduceRoom handles.  A rejected      *)
(* RoomAction leaves the state as it is, so a rejection is a stuttering    *)
(* step and the code's early returns are the guards of the actions.        *)
(*                                                                         *)
(* What is abstracted:                                                     *)
(*  - a member id is the id of the user who joined with it, or one of the  *)
(*    ids in Ais; a user who took over an AI seat keeps the AI's id and is *)
(*    recorded in the member's field "user";                               *)
(*  - a deadline is the time left until it (Never when it is null), and    *)
(*    Tick is the passing of one unit of time, so two deadlines are equal  *)
(*    here exactly when the code's two timestamps are;                     *)
(*  - the card game is reduced to what the room reads of it: the phase of  *)
(*    the set, the number of results, whether the game waits for a play,   *)
(*    for choices or for a mini game, and the players it waits for.  Which *)
(*    of these follows an accepted move is left open.                      *)
(*                                                                         *)
(* Definitions marked "Fault:" are variants of the definition that follows *)
(* with a plausible mistake in them.  Nothing uses them; they are there to *)
(* be put in its place, to see that a property notices the mistake.        *)
(***************************************************************************)
EXTENDS Integers, FiniteSets, Sequences

CONSTANTS
  Users,              \* the people who may enter the room
  Ais,                \* member ids createAiMemberId hands out
  NoUser,             \* the null userId of an AI member
  Modes,              \* room modes considered, a subset of RoomMode
  SeatCount,          \* SEATS.length, 4 in the code
  GamesPerSet,        \* games of one set, DEFAULT_GAMES_PER_SET in the code
  MaxRequests,        \* most choices one rule asks for at the same time
  MiniTicks,          \* ticks until the time limit of a mini game
  MiniGameEndsGame,   \* can the result of a mini game be the end of the game?
  TurnLimit, DisconnectedLimit, InterimTime, RespondTime,
  LobbyTtl, LobbyGrace, AbandonTime,
  MaxTurnSeq,         \* bound: accepted moves in the life of the room
  MaxSets,            \* bound: sets started in the life of the room
  MaxRank             \* bound: length of the joining order

RoomMode == {"basic", "community"}
MemberId == Users \cup Ais

ASSUME UsersAssumption ==
  /\ IsFiniteSet(Users) /\ IsFiniteSet(Ais)
  /\ Users \cap Ais = {} /\ NoUser \notin Users
ASSUME ModesAssumption == Modes \subseteq RoomMode
ASSUME SeatAssumption ==
  /\ SeatCount \in Nat \ {0}
  /\ Cardinality(Ais) >= SeatCount
ASSUME SetAssumption ==
  /\ GamesPerSet \in Nat \ {0}
  /\ MaxRequests \in Nat \ {0}
  /\ MiniTicks \in Nat
  /\ MiniGameEndsGame \in BOOLEAN
ASSUME LimitAssumption ==
  /\ TurnLimit \in Nat \ {0} /\ DisconnectedLimit \in Nat \ {0}
  /\ InterimTime \in Nat \ {0} /\ RespondTime \in Nat \ {0}
  /\ LobbyTtl \in Nat \ {0} /\ LobbyGrace \in Nat \ {0}
  /\ AbandonTime \in Nat \ {0}
ASSUME BoundAssumption ==
  MaxTurnSeq \in Nat /\ MaxSets \in Nat /\ MaxRank \in Nat \ {0}

VARIABLES
  mode,          \* RoomState.mode
  phase,         \* RoomState.phase
  members,       \* RoomState.members, by memberId
  engine,        \* RoomState.engine: what the room reads of the SetState
  setNo,         \* RoomState.setNo
  turnSeq,       \* RoomState.turnSeq
  ready,         \* RoomState.intermissionReadyMemberIds
  turnDeadline,  \* RoomState.turnDeadlineAt
  interimEnds,   \* RoomState.intermissionEndsAt
  respondBy,     \* RoomState.setRespondBy
  lobbyExpires,  \* RoomState.lobbyExpiresAt
  abandonAt      \* RoomState.abandonAt

clocks == <<turnDeadline, interimEnds, respondBy, lobbyExpires, abandonAt>>
roomVars == <<mode, phase, members, engine, setNo, turnSeq, ready, clocks>>

-----------------------------------------------------------------------------
(* Members.                                                                *)

Never == -1
TimeLeft(limit) == -1 .. limit

Phase == {"waiting", "playing", "setResult", "closed"}

Member == [ user      : Users \cup {NoUser},
            isAI      : BOOLEAN,
            isHost    : BOOLEAN,
            connected : BOOLEAN,
            controller: {"human", "ai"},
            departed  : BOOLEAN,
            wantsNext : BOOLEAN,
            seated    : BOOLEAN,
            joinedAt  : 0 .. MaxRank,
            grace     : TimeLeft(LobbyGrace) ]

NewHuman(u, rank, host, wants) ==
  [ user |-> u, isAI |-> FALSE, isHost |-> host, connected |-> TRUE,
    controller |-> "human", departed |-> FALSE, wantsNext |-> wants,
    seated |-> FALSE, joinedAt |-> rank, grace |-> Never ]

NewAi ==
  [ user |-> NoUser, isAI |-> TRUE, isHost |-> FALSE, connected |-> TRUE,
    controller |-> "ai", departed |-> FALSE, wantsNext |-> TRUE,
    seated |-> TRUE, joinedAt |-> 0, grace |-> Never ]

\* The humans who still take part, and those of them who are online.
Humans(ms)    == {i \in DOMAIN ms : ~ms[i].isAI /\ ~ms[i].departed}
Connected(ms) == {i \in Humans(ms) : ms[i].connected}
Automated(m)  == m.isAI \/ m.departed
Seats(ms)     == {i \in DOMAIN ms : ms[i].seated}
UsersIn(ms)   == {ms[i].user : i \in DOMAIN ms} \ {NoUser}

Restricted(ms, S) == [i \in S |-> ms[i]]

\* Someone who enters now comes after everybody in the room.
Newest(ms, rank) ==
  /\ \A i \in DOMAIN ms : ms[i].joinedAt < rank
  /\ rank = 1 \/ \E i \in DOMAIN ms : ms[i].joinedAt = rank - 1

-----------------------------------------------------------------------------
(* The set, as far as the room looks at it.                                *)

Engine == [ phase   : {"none", "gameInProgress", "interimResult", "setResult"},
            results : 0 .. GamesPerSet,
            draining: BOOLEAN,
            game    : {"none", "awaitingPlay", "awaitingChoice", "miniGame",
                       "finished"},
            asked   : Seq(MemberId),
            left    : 0 .. MiniTicks ]

NoEngine == [ phase |-> "none", results |-> 0, draining |-> FALSE,
              game |-> "none", asked |-> <<>>, left |-> 0 ]

Lists(S, lo, hi) == UNION {[1 .. n -> S] : n \in lo .. hi}
Distinct(s) == \A i, j \in DOMAIN s : s[i] = s[j] => i = j

\* The situations a running game can be in among the players S: it waits for
\* the player whose turn it is, for the outstanding choices (in the order of
\* the requests), or for a mini game whose first participant is its player.
Situations(S) ==
  [game : {"awaitingPlay"}, asked : {<<p>> : p \in S}, left : {0}]
    \cup [game : {"awaitingChoice"}, asked : Lists(S, 1, MaxRequests), left : {0}]
    \cup [game  : {"miniGame"}, left : {MiniTicks},
          asked : {s \in Lists(S, 2, Cardinality(S)) : Distinct(s)}]

InGame(e, sit) == [e EXCEPT !.phase = "gameInProgress", !.game = sit.game,
                            !.asked = sit.asked, !.left = sit.left]

\* The end of a game, with the phase of the set that follows it.
GameOver(e, next) == [e EXCEPT !.phase = next, !.results = e.results + 1,
                               !.game = "finished", !.asked = <<>>, !.left = 0]

\* integrateStartedGame: a game may be over as soon as it has started, and a
\* set that drains goes on all the same.
StartGame(e, S) ==
  {InGame(e, sit) : sit \in Situations(S)}
    \cup {GameOver(e, IF e.results + 1 < GamesPerSet
                      THEN "interimResult" ELSE "setResult")}

\* Fault: counts the results before the new one is added.
GameEndLate(e) == GameOver(e, IF e.results < GamesPerSet /\ ~e.draining
                              THEN "interimResult" ELSE "setResult")

\* reduceSet after a move that the game accepted.
GameEnd(e) == GameOver(e, IF e.results + 1 < GamesPerSet /\ ~e.draining
                          THEN "interimResult" ELSE "setResult")

WithoutIndex(s, i) == SubSeq(s, 1, i - 1) \o SubSeq(s, i + 1, Len(s))

\* One of several simultaneous choices is only noted down; any other accepted
\* move leads to a new situation or to the end of the game.
AfterMove(e, p, S) ==
  IF Len(e.asked) > 1
  THEN {[e EXCEPT !.asked = WithoutIndex(e.asked, i)] :
           i \in {j \in DOMAIN e.asked : /\ e.asked[j] = p
                                         /\ \A k \in 1 .. (j - 1) : e.asked[k] # p}}
  ELSE {InGame(e, sit) : sit \in Situations(S)} \cup {GameEnd(e)}

AfterMiniGame(e, S) ==
  {InGame(e, sit) : sit \in Situations(S)}
    \cup (IF MiniGameEndsGame THEN {GameEnd(e)} ELSE {})

\* nextRoomChoiceRequest: requests to AI and departed members come first.
NextRequest(e, ms) ==
  LET auto == {i \in DOMAIN e.asked : \/ e.asked[i] \notin DOMAIN ms
                                      \/ Automated(ms[e.asked[i]])}
  IN  IF auto = {} THEN e.asked[1]
      ELSE e.asked[CHOOSE i \in auto : \A j \in auto : i <= j]

WaitsForPlayer(e) ==
  e.phase = "gameInProgress" /\ e.game \in {"awaitingPlay", "awaitingChoice"}

-----------------------------------------------------------------------------
(* Helpers of the reducer.                                                 *)

BasicSolo(ms) == mode = "basic" /\ Cardinality(Humans(ms)) = 1

\* deadlineAtForTurn
DeadlineForTurn(e, ms) ==
  IF ~WaitsForPlayer(e) THEN Never
  ELSE LET p == NextRequest(e, ms)
       IN  IF p \notin Humans(ms) THEN Never
           ELSE IF ~ms[p].connected THEN DisconnectedLimit
           ELSE IF BasicSolo(ms) THEN Never ELSE TurnLimit

\* settleMembersAtSetResult: whoever is offline when the set ends has left.
Settled(ms, e) ==
  IF e.phase # "setResult" THEN ms
  ELSE [i \in DOMAIN ms |->
          IF i \in Humans(ms) \ Connected(ms)
          THEN [ms[i] EXCEPT !.controller = "ai", !.departed = TRUE,
                             !.wantsNext = FALSE]
          ELSE ms[i]]

\* phaseAfterSettlement
PhaseAfter(e, ms) ==
  IF e.phase # "setResult" THEN "playing"
  ELSE IF Humans(ms) = {} THEN "closed" ELSE "setResult"

RespondAfter(ph) == IF ph = "setResult" THEN RespondTime ELSE Never

\* Fault: whoever is dealt in is taken to be there.
TableOfPresent(ms, humans, ais) ==
  [i \in humans \cup ais |->
     IF i \in humans
     THEN [ms[i] EXCEPT !.seated = TRUE, !.wantsNext = FALSE, !.grace = Never,
                        !.controller = "human"]
     ELSE NewAi]

\* The members of a new set: the humans who play, and AIs on the other seats.
Table(ms, humans, ais) ==
  [i \in humans \cup ais |->
     IF i \in humans
     THEN [ms[i] EXCEPT !.seated = TRUE, !.wantsNext = FALSE, !.grace = Never,
                        !.controller = IF ms[i].connected THEN "human" ELSE "ai"]
     ELSE NewAi]

\* startSet
StartSet(ms, humans) ==
  /\ setNo < MaxSets
  /\ \E ais \in SUBSET (Ais \ humans) :
       /\ Cardinality(ais) = SeatCount - Cardinality(humans)
       /\ \E e \in StartGame(NoEngine, humans \cup ais) :
            LET settled == Settled(Table(ms, humans, ais), e)
                ph      == PhaseAfter(e, settled)
            IN  /\ phase' = ph
                /\ members' = settled
                /\ engine' = e
                /\ setNo' = setNo + 1
                /\ ready' = {}
                /\ turnDeadline' = DeadlineForTurn(e, settled)
                /\ interimEnds' = IF e.phase = "interimResult"
                                  THEN InterimTime ELSE Never
                /\ respondBy' = RespondAfter(ph)
                /\ abandonAt' = Never
                /\ UNCHANGED <<mode, turnSeq, lobbyExpires>>

-----------------------------------------------------------------------------
(* The actions of the reducer.                                             *)

\* createRoomState: the owner alone in the lobby.
Init ==
  /\ mode \in Modes
  /\ phase = "waiting"
  /\ \E u \in Users : members = [i \in {u} |-> NewHuman(u, 1, TRUE, FALSE)]
  /\ engine = NoEngine
  /\ setNo = 0 /\ turnSeq = 0 /\ ready = {}
  /\ turnDeadline = Never /\ interimEnds = Never /\ respondBy = Never
  /\ lobbyExpires = LobbyTtl /\ abandonAt = Never

\* Fault: does not look whether a place is free.
JoinAnyway(u) ==
  /\ mode # "basic"
  /\ phase \in {"waiting", "setResult"}
  /\ u \notin UsersIn(members) /\ u \notin DOMAIN members
  /\ \E rank \in 1 .. MaxRank :
       /\ Newest(members, rank)
       /\ members' = [i \in DOMAIN members \cup {u} |->
                        IF i = u THEN NewHuman(u, rank, FALSE, phase = "setResult")
                        ELSE members[i]]
  /\ UNCHANGED <<mode, phase, engine, setNo, turnSeq, ready, clocks>>

\* The manager lets nobody join a practice room (RoomManager.join).
Join(u) ==
  /\ mode # "basic"
  /\ phase \in {"waiting", "setResult"}
  /\ u \notin UsersIn(members) /\ u \notin DOMAIN members
  /\ Cardinality(Humans(members)) < SeatCount
  /\ \E rank \in 1 .. MaxRank :
       /\ Newest(members, rank)
       /\ members' = [i \in DOMAIN members \cup {u} |->
                        IF i = u THEN NewHuman(u, rank, FALSE, phase = "setResult")
                        ELSE members[i]]
  /\ UNCHANGED <<mode, phase, engine, setNo, turnSeq, ready, clocks>>

\* Fault: does not look whether the user is in the room already.
TakeoverTwice(u, a) ==
  /\ mode # "basic"
  /\ phase = "playing"
  /\ a \in DOMAIN members /\ members[a].isAI
  /\ \E rank \in 1 .. MaxRank :
       /\ Newest(members, rank)
       /\ members' = [members EXCEPT ![a] =
                        [NewHuman(u, rank, FALSE, FALSE) EXCEPT
                           !.seated = members[a].seated]]
  /\ turnDeadline' = DeadlineForTurn(engine, members')
  /\ abandonAt' = Never
  /\ UNCHANGED <<mode, phase, engine, setNo, turnSeq, ready, interimEnds,
                 respondBy, lobbyExpires>>

\* Fault: the clock of the turn does not start for the new player.
TakeoverOffTheClock(u, a) ==
  /\ mode # "basic"
  /\ phase = "playing"
  /\ a \in DOMAIN members /\ members[a].isAI
  /\ u \notin UsersIn(members)
  /\ \E rank \in 1 .. MaxRank :
       /\ Newest(members, rank)
       /\ members' = [members EXCEPT ![a] =
                        [NewHuman(u, rank, FALSE, FALSE) EXCEPT
                           !.seated = members[a].seated]]
  /\ turnDeadline' = turnDeadline
  /\ abandonAt' = Never
  /\ UNCHANGED <<mode, phase, engine, setNo, turnSeq, ready, interimEnds,
                 respondBy, lobbyExpires>>

\* Fault: the seat of a departed user is free, too.
TakeoverDeparted(u, a) ==
  /\ mode # "basic"
  /\ phase = "playing"
  /\ a \in DOMAIN members /\ Automated(members[a])
  /\ u \notin UsersIn(members)
  /\ \E rank \in 1 .. MaxRank :
       /\ Newest(members, rank)
       /\ members' = [members EXCEPT ![a] =
                        [NewHuman(u, rank, FALSE, FALSE) EXCEPT
                           !.seated = members[a].seated]]
  /\ turnDeadline' = DeadlineForTurn(engine, members')
  /\ abandonAt' = Never
  /\ UNCHANGED <<mode, phase, engine, setNo, turnSeq, ready, interimEnds,
                 respondBy, lobbyExpires>>

\* A user takes the seat of an AI in the middle of a set.
JoinTakeover(u, a) ==
  /\ mode # "basic"
  /\ phase = "playing"
  /\ a \in DOMAIN members /\ members[a].isAI
  /\ u \notin UsersIn(members)
  /\ \E rank \in 1 .. MaxRank :
       /\ Newest(members, rank)
       /\ members' = [members EXCEPT ![a] =
                        [NewHuman(u, rank, FALSE, FALSE) EXCEPT
                           !.seated = members[a].seated]]
  /\ turnDeadline' = DeadlineForTurn(engine, members')
  /\ abandonAt' = Never
  /\ UNCHANGED <<mode, phase, engine, setNo, turnSeq, ready, interimEnds,
                 respondBy, lobbyExpires>>

Start(m) ==
  /\ phase = "waiting"
  /\ m \in DOMAIN members /\ members[m].isHost
  /\ StartSet(members, Humans(members))

\* Fault: asks everybody who has not left, but waits only for who is online.
ContinueWithAll(m) ==
  /\ phase = "setResult"
  /\ m \in Connected(members) /\ ~members[m].wantsNext
  /\ LET ms == [members EXCEPT ![m].wantsNext = TRUE]
     IN  IF \A i \in Connected(ms) : ms[i].wantsNext
         THEN StartSet(ms, Humans(ms))
         ELSE /\ members' = ms
              /\ UNCHANGED <<mode, phase, engine, setNo, turnSeq, ready, clocks>>

\* The last one to ask for another set starts it, without whoever is offline.
Continue(m) ==
  /\ phase = "setResult"
  /\ m \in Connected(members) /\ ~members[m].wantsNext
  /\ LET ms == [members EXCEPT ![m].wantsNext = TRUE]
     IN  IF \A i \in Connected(ms) : ms[i].wantsNext
         THEN StartSet(ms, Connected(ms))
         ELSE /\ members' = ms
              /\ UNCHANGED <<mode, phase, engine, setNo, turnSeq, ready, clocks>>

\* Fault: forgets the clock that gives up a room nobody is connected to.
LeavePlayingUnnoticed(m) ==
  LET ms == [members EXCEPT ![m].connected = FALSE, ![m].controller = "ai",
                            ![m].departed = TRUE]
  IN  /\ members' = ms
      /\ phase' = IF Humans(ms) = {} THEN "closed" ELSE phase
      /\ interimEnds' = IF Humans(ms) = {} THEN Never ELSE interimEnds
      /\ UNCHANGED <<mode, engine, setNo, turnSeq, ready, turnDeadline,
                     respondBy, lobbyExpires, abandonAt>>

\* leave while a set is played: an AI plays on for the seat.
LeavePlaying(m) ==
  LET ms == [members EXCEPT ![m].connected = FALSE, ![m].controller = "ai",
                            ![m].departed = TRUE]
  IN  /\ members' = ms
      /\ phase' = IF Humans(ms) = {} THEN "closed" ELSE phase
      /\ interimEnds' = IF Humans(ms) = {} THEN Never ELSE interimEnds
      /\ abandonAt' = IF Humans(ms) # {} /\ Connected(ms) = {}
                      THEN AbandonTime ELSE Never
      /\ UNCHANGED <<mode, engine, setNo, turnSeq, ready, turnDeadline,
                     respondBy, lobbyExpires>>

\* The earliest of the humans who are still there.
NextHost(ms) ==
  CHOOSE i \in Humans(ms) : \A j \in Humans(ms) : ms[i].joinedAt <= ms[j].joinedAt

\* Fault: the host goes and nobody follows.
WithoutHost(ms, m) == Restricted(ms, DOMAIN ms \ {m})

WithoutMember(ms, m) ==
  LET rest == Restricted(ms, DOMAIN ms \ {m})
  IN  IF ms[m].isHost /\ Humans(rest) # {}
      THEN [i \in DOMAIN rest |-> [rest[i] EXCEPT !.isHost = (i = NextHost(rest))]]
      ELSE rest

\* leave in the lobby or at the set result.
LeaveTable(m) ==
  LET ms == WithoutMember(members, m)
  IN  IF /\ phase = "setResult" /\ Connected(ms) # {}
         /\ \A i \in Connected(ms) : ms[i].wantsNext
      THEN StartSet(ms, Connected(ms))
      ELSE /\ members' = ms
           /\ phase' = IF Humans(ms) = {} THEN "closed" ELSE phase
           /\ interimEnds' = IF Humans(ms) = {} THEN Never ELSE interimEnds
           /\ UNCHANGED <<mode, engine, setNo, turnSeq, ready, turnDeadline,
                          respondBy, lobbyExpires, abandonAt>>

Leave(m) ==
  /\ m \in DOMAIN members /\ ~members[m].isAI
  /\ \/ phase = "playing" /\ LeavePlaying(m)
     \/ phase \in {"waiting", "setResult"} /\ LeaveTable(m)

ExpireSetResult ==
  /\ phase = "setResult" /\ respondBy <= 0
  /\ LET staying == {i \in Connected(members) : members[i].wantsNext}
     IN  IF staying = {}
         THEN /\ phase' = "closed"
              /\ members' = Restricted(members, {})
              /\ interimEnds' = Never
              /\ UNCHANGED <<mode, engine, setNo, turnSeq, ready, turnDeadline,
                             respondBy, lobbyExpires, abandonAt>>
         ELSE StartSet(Restricted(members, staying), staying)

ExpireWaitingMember(m) ==
  /\ phase = "waiting"
  /\ m \in DOMAIN members /\ ~members[m].isAI /\ ~members[m].connected
  /\ members[m].grace = 0
  /\ LeaveTable(m)

ExpireRoom ==
  /\ \/ phase = "waiting" /\ lobbyExpires = 0
     \/ phase = "playing" /\ abandonAt = 0 /\ Connected(members) = {}
  /\ phase' = "closed"
  /\ members' = Restricted(members, {})
  /\ turnDeadline' = Never /\ interimEnds' = Never
  /\ respondBy' = Never /\ abandonAt' = Never
  /\ UNCHANGED <<mode, engine, setNo, turnSeq, ready, lobbyExpires>>

\* connectionChanged, for "disconnect" (online = FALSE) and "reconnect".
ConnectionChanged(m, online) ==
  /\ phase # "closed"
  /\ m \in Humans(members) /\ members[m].connected # online
  /\ members' = [members EXCEPT
       ![m].connected = online,
       ![m].controller = IF ~online /\ phase # "waiting" THEN "ai" ELSE "human",
       ![m].grace = IF ~online /\ phase = "waiting" THEN LobbyGrace ELSE Never]
  /\ turnDeadline' = DeadlineForTurn(engine, members')
  /\ abandonAt' = IF phase = "playing" /\ Connected(members') = {}
                  THEN IF abandonAt = Never THEN AbandonTime ELSE abandonAt
                  ELSE Never
  /\ UNCHANGED <<mode, phase, engine, setNo, turnSeq, ready, interimEnds,
                 respondBy, lobbyExpires>>

\* What an accepted move of the game or the start of the next game does to
\* the room; the ends of the intermission are left to the caller.
Progress(e) ==
  LET settled == Settled(members, e)
      ph      == PhaseAfter(e, settled)
  IN  /\ phase' = ph
      /\ members' = settled
      /\ engine' = e
      /\ turnDeadline' = DeadlineForTurn(e, settled)
      /\ ready' = {}
      /\ respondBy' = RespondAfter(ph)
      /\ abandonAt' = IF ph = "playing" THEN abandonAt ELSE Never
      /\ UNCHANGED <<mode, setNo, lobbyExpires>>

\* Fault: the turn of the message is not compared with the turn of the room.
GameActionAnyTurn(m, seq) ==
  /\ phase = "playing" /\ WaitsForPlayer(engine)
  /\ m \in DOMAIN members /\ members[m].seated
  /\ \E i \in DOMAIN engine.asked : engine.asked[i] = m
  /\ turnSeq < MaxTurnSeq
  /\ \E e \in AfterMove(engine, m, Seats(members)) :
       /\ Progress(e)
       /\ interimEnds' = IF e.phase = "interimResult" THEN InterimTime ELSE Never
  /\ turnSeq' = turnSeq + 1

\* gameAction: a play, a pass, an answer or an automatic act of member m,
\* composed when the room was at turn seq.
GameAction(m, seq) ==
  /\ phase = "playing" /\ WaitsForPlayer(engine)
  /\ m \in DOMAIN members /\ members[m].seated
  /\ \E i \in DOMAIN engine.asked : engine.asked[i] = m
  /\ seq = turnSeq /\ turnSeq < MaxTurnSeq
  /\ \E e \in AfterMove(engine, m, Seats(members)) :
       /\ Progress(e)
       /\ interimEnds' = IF e.phase = "interimResult" THEN InterimTime ELSE Never
  /\ turnSeq' = turnSeq + 1

InMiniGame == phase = "playing" /\ engine.game = "miniGame"

\* miniGameAction, a command of a player who is there: it changes only the
\* state of the mini game, which is abstracted.
MiniGameInput(m) ==
  /\ InMiniGame
  /\ m \in Connected(members) /\ members[m].seated
  /\ members[m].controller = "human"
  /\ \E i \in DOMAIN engine.asked : engine.asked[i] = m
  /\ UNCHANGED roomVars

\* miniGameAction, a tick: of the room only the engine and the turn's deadline
\* follow the result of the mini game.
MiniGameTick ==
  /\ InMiniGame
  /\ \/ engine.left > 0 /\ engine' = [engine EXCEPT !.left = @ - 1]
     \/ engine' \in AfterMiniGame(engine, Seats(members))
  /\ turnDeadline' = DeadlineForTurn(engine', members)
  /\ UNCHANGED <<mode, phase, members, setNo, turnSeq, ready, interimEnds,
                 respondBy, lobbyExpires, abandonAt>>

\* advanceIntermission
AdvanceIntermission ==
  /\ phase = "playing" /\ engine.phase = "interimResult"
  /\ \E e \in StartGame(engine, Seats(members)) : Progress(e)
  /\ interimEnds' = Never
  /\ UNCHANGED turnSeq

\* readyIntermission: the last of the humans to be ready ends the pause.
ReadyIntermission(m) ==
  /\ phase = "playing" /\ engine.phase = "interimResult"
  /\ m \in Humans(members)
  /\ IF Cardinality(Humans(members)) <= 1 \/ Humans(members) \subseteq ready \cup {m}
     THEN AdvanceIntermission
     ELSE /\ ready' = ready \cup {m}
          /\ UNCHANGED <<mode, phase, members, engine, setNo, turnSeq, clocks>>

\* Fault: the room goes on playing a set that a drain has ended.
RequestDrainUnseen ==
  /\ phase = "playing"
  /\ engine.phase \in {"gameInProgress", "interimResult"}
  /\ engine' = [engine EXCEPT !.draining = TRUE,
                              !.phase = IF engine.phase = "interimResult"
                                        THEN "setResult" ELSE "gameInProgress"]
  /\ interimEnds' = Never /\ ready' = {}
  /\ UNCHANGED <<mode, phase, members, setNo, turnSeq, turnDeadline,
                 respondBy, lobbyExpires, abandonAt>>

\* requestDrain: a set between two games ends, any other ends with its game.
RequestDrain ==
  /\ phase = "playing"
  /\ engine.phase \in {"gameInProgress", "interimResult"}
  /\ LET e == [engine EXCEPT !.draining = TRUE,
                             !.phase = IF engine.phase = "interimResult"
                                       THEN "setResult" ELSE "gameInProgress"]
         settled == Settled(members, e)
         ph      == PhaseAfter(e, settled)
     IN  /\ phase' = ph
         /\ members' = settled
         /\ engine' = e
         /\ turnDeadline' = IF ph = "playing" THEN turnDeadline ELSE Never
         /\ interimEnds' = Never
         /\ ready' = {}
         /\ respondBy' = RespondAfter(ph)
         /\ abandonAt' = IF ph = "playing" THEN abandonAt ELSE Never
         /\ UNCHANGED <<mode, setNo, turnSeq, lobbyExpires>>

-----------------------------------------------------------------------------
(* The room on its own: members act while they are online, and timers and  *)
(* the server act when their time has come.                                *)

TimePasses(d) == IF d > 0 THEN d - 1 ELSE d

Tick ==
  /\ members' = [i \in DOMAIN members |->
                   [members[i] EXCEPT !.grace = TimePasses(@)]]
  /\ turnDeadline' = TimePasses(turnDeadline)
  /\ interimEnds' = TimePasses(interimEnds)
  /\ respondBy' = TimePasses(respondBy)
  /\ lobbyExpires' = TimePasses(lobbyExpires)
  /\ abandonAt' = TimePasses(abandonAt)
  /\ UNCHANGED <<mode, phase, engine, setNo, turnSeq, ready>>

\* A decision of the AI for the player the room waits for (RoomTimerCoordinator).
AutoAct ==
  /\ WaitsForPlayer(engine)
  /\ LET m == NextRequest(engine, members)
     IN  /\ m \in DOMAIN members
         /\ (Automated(members[m]) \/ turnDeadline = 0)
         /\ GameAction(m, turnSeq)

ByClient ==
  \/ \E u \in Users : Join(u)
  \/ \E u \in Users, a \in Ais : JoinTakeover(u, a)
  \/ \E m \in Connected(members) :
       \/ Start(m) \/ Continue(m) \/ Leave(m)
       \/ \E seq \in 0 .. MaxTurnSeq : GameAction(m, seq)
       \/ MiniGameInput(m) \/ ReadyIntermission(m)

ByNetwork == \E m \in MemberId, online \in BOOLEAN : ConnectionChanged(m, online)

ByServer ==
  \/ ExpireSetResult \/ ExpireRoom
  \/ \E m \in MemberId : ExpireWaitingMember(m)
  \/ AutoAct \/ MiniGameTick \/ RequestDrain
  \/ (interimEnds <= 0 /\ AdvanceIntermission)

Next ==
  /\ phase # "closed"
  /\ (ByClient \/ ByNetwork \/ ByServer \/ Tick)

Spec == Init /\ [][Next]_roomVars

-----------------------------------------------------------------------------
(* Properties.                                                             *)

TypeOK ==
  /\ mode \in RoomMode
  /\ phase \in Phase
  /\ DOMAIN members \subseteq MemberId /\ members \in [DOMAIN members -> Member]
  /\ engine \in Engine
  /\ setNo \in 0 .. MaxSets /\ turnSeq \in 0 .. MaxTurnSeq
  /\ ready \subseteq MemberId
  /\ turnDeadline \in -1 .. TurnLimit \cup TimeLeft(DisconnectedLimit)
  /\ interimEnds \in TimeLeft(InterimTime)
  /\ respondBy \in TimeLeft(RespondTime)
  /\ lobbyExpires \in TimeLeft(LobbyTtl)
  /\ abandonAt \in TimeLeft(AbandonTime)

\* A set is played by exactly SeatCount members, all of them seated, and the
\* game waits for nobody else: joins, takeovers, departures and new sets in any
\* order neither overfill the table nor lose a seat the game still asks for.
TableIsFull ==
  /\ Cardinality(Humans(members)) <= SeatCount
  /\ phase = "playing" =>
       /\ Cardinality(DOMAIN members) = SeatCount
       /\ Seats(members) = DOMAIN members
       /\ \A i \in DOMAIN engine.asked : engine.asked[i] \in DOMAIN members

\* In the lobby there is always exactly one host, and it is someone who is
\* still in the room, whoever left, was timed out or came back.
OneHostInLobby ==
  phase = "waiting" =>
    \E h \in Humans(members) :
      \A i \in DOMAIN members : members[i].isHost <=> i = h

\* No user sits at the table twice.
OneSeatPerUser ==
  \A i, j \in DOMAIN members :
    members[i].user = members[j].user /\ members[i].user # NoUser => i = j

\* While a set is played the clock that gives up the room runs exactly as long
\* as nobody is online; leaving, dropping out, coming back, taking over a seat
\* and the moves of the AI all keep it so.
AbandonClockRuns ==
  phase = "playing" => (abandonAt # Never <=> Connected(members) = {})

\* The phase of the room is the phase of its set: the room is never "playing"
\* a set that is over, nor showing the result of one that is not, and a
\* result is always shown under a running response clock.
PhaseFollowsSet ==
  /\ phase = "waiting" => engine.phase = "none"
  /\ phase = "playing" => engine.phase \in {"gameInProgress", "interimResult"}
  /\ phase = "setResult" => engine.phase = "setResult" /\ respondBy # Never

\* A human the game waits for is on the clock, and on the short one while
\* offline, except for the one human of a practice room who is there.
HumanIsOnTheClock ==
  phase = "playing" /\ WaitsForPlayer(engine) =>
    LET p == NextRequest(engine, members)
    IN  p \in Humans(members) =>
          IF ~members[p].connected THEN turnDeadline \in 0 .. DisconnectedLimit
          ELSE BasicSolo(members) \/ turnDeadline \in 0 .. TurnLimit

\* From the first set on, the AI holds the seat of a human exactly while he
\* is offline; in the lobby no human is played by the AI.
AiHoldsSeatOfAbsent ==
  \A i \in Humans(members) :
    members[i].controller = "ai" <=> phase # "waiting" /\ ~members[i].connected

\* While a set runs a user keeps the seat he has: he is given up only when he
\* leaves or when the set ends while he is offline, and a departed user never
\* gets back to the seat in that set.
SeatIsKept ==
  [][phase = "playing" /\ phase' # "closed" =>
       \A i \in DOMAIN members : ~members[i].isAI =>
         /\ i \in DOMAIN members'
         /\ members'[i].user = members[i].user /\ ~members'[i].isAI
         /\ members[i].departed => members'[i].departed
         /\ ~members[i].departed /\ members'[i].departed =>
              ~members'[i].connected
                /\ (members[i].connected \/ phase' = "setResult")]_roomVars

\* Nobody is dealt into a further set who is offline.  Those dealt in are the
\* ones who had asked for it, but for the one member whose step it is (he asks
\* last, or leaves), and before the response clock has run out nobody else who
\* is online is left out.
NextSetNeedsConsent ==
  [][phase = "setResult" /\ setNo' # setNo =>
       LET dealt   == {i \in DOMAIN members' : ~members'[i].isAI}
           online  == Connected(members)
           willing == {i \in online : members[i].wantsNext}
       IN  /\ dealt \subseteq online
           /\ Cardinality(dealt \ willing) + Cardinality(willing \ dealt) <= 1
           /\ (respondBy = 0 \/ Cardinality(online \ dealt) <= 1)]_roomVars
=============================================================================
