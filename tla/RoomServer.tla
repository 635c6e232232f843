----------------------------- MODULE RoomServer -----------------------------
(***************************************************************************)
(* One room inside the server: the sockets of its users and the draining   *)
(* of the server (socket-gateway.ts), and the two timer coordinators that  *)
(* act on the room when nobody else does (timers.ts).                      *)
(*                                                                         *)
(* A handler of the gateway runs to completion, so applying a RoomAction   *)
(* and synchronising the timers with its outcome is one step.  The one     *)
(* exception is a decision of the AI: between the firing of a turn's timer *)
(* and the move, RoomTimerCoordinator.#fireTurn waits for a promise and    *)
(* everything else may happen.                                             *)
(*                                                                         *)
(* Time passes only while no timer is due: a timer that is due fires       *)
(* before the next unit of time is over, in any order with all that        *)
(* happens in the meantime.                                                *)
(***************************************************************************)
EXTENDS Room

CONSTANTS
  AiDelay,     \* pause before a move of the AI
  MiniDelay,   \* interval of the ticks of a mini game
  Senders,     \* users whose moves may reach the server late, or twice
  SlowThought, \* may a decision of the AI take longer than a unit of time?
  MaxFlaps     \* bound: disconnections in the life of the room

ASSUME DelayAssumption ==
  AiDelay \in Nat \ {0} /\ MiniDelay \in Nat \ {0}
ASSUME SendersAssumption == Senders \subseteq Users
ASSUME FlapAssumption == SlowThought \in BOOLEAN /\ MaxFlaps \in Nat

VARIABLES
  online,      \* keys of activeByUser, as far as they have been in the room
  flaps,       \* disconnections so far
  server,      \* is the server up, draining or about to exit?
  sent,        \* the last move each of the Senders has sent
  phaseTimer,  \* RoomTimerCoordinator.#scheduled for the room
  inFlight,    \* RoomTimerCoordinator.#inFlight
  lifeTimer    \* RoomLifecycleTimerCoordinator.#scheduled for the room

timers == <<phaseTimer, inFlight, lifeTimer>>
vars == <<roomVars, online, flaps, server, sent, timers>>

-----------------------------------------------------------------------------
(* The timers a room calls for.  A specification is what its fingerprint   *)
(* tells apart: "due" is the time in it (Never when there is none), "who"  *)
(* the member it is about and "as" the part he has at the time.            *)

Past == -2

Role(m) == [connected |-> m.connected, controller |-> m.controller,
            departed |-> m.departed]
NoRole == [connected |-> FALSE, controller |-> "ai", departed |-> TRUE]

SpecFor(kind, nos, due) ==
  [kind |-> kind, nos |-> nos, who |-> NoUser, as |-> NoRole, due |-> due]
NoSpec  == SpecFor("none", <<0, 0, 0>>, Never)
NoTimer == [spec |-> NoSpec, left |-> Never]

Waiter == NextRequest(engine, members)

TurnSpec ==
  IF /\ Waiter \in DOMAIN members
     /\ Automated(members[Waiter]) \/ turnDeadline # Never
  THEN [SpecFor("turn", <<setNo, turnSeq, 0>>, turnDeadline) EXCEPT
          !.who = Waiter, !.as = Role(members[Waiter])]
  ELSE NoSpec

\* Fault: a timer between games is for the result of the set only.
PhaseSpecOfGames ==
  IF phase = "playing" /\ engine.phase = "gameInProgress"
  THEN IF engine.game = "miniGame"
       THEN SpecFor("miniGame", <<setNo, turnSeq, engine.left>>, Never)
       ELSE TurnSpec
  ELSE IF phase = "setResult" /\ respondBy # Never
  THEN SpecFor("setResult", <<setNo, 0, 0>>, respondBy)
  ELSE NoSpec

\* Fault: no timer for the result of a set.
PhaseSpecOfPlay ==
  IF phase = "playing" /\ engine.phase = "gameInProgress"
  THEN IF engine.game = "miniGame"
       THEN SpecFor("miniGame", <<setNo, turnSeq, engine.left>>, Never)
       ELSE TurnSpec
  ELSE IF phase = "playing" /\ engine.phase = "interimResult"
  THEN SpecFor("intermission", <<setNo, engine.results, 0>>, interimEnds)
  ELSE NoSpec

\* RoomTimerCoordinator.#specification
PhaseSpec ==
  IF phase = "playing" /\ engine.phase = "gameInProgress"
  THEN IF engine.game = "miniGame"
       THEN SpecFor("miniGame", <<setNo, turnSeq, engine.left>>, Never)
       ELSE TurnSpec
  ELSE IF phase = "playing" /\ engine.phase = "interimResult"
  THEN SpecFor("intermission", <<setNo, engine.results, 0>>, interimEnds)
  ELSE IF phase = "setResult" /\ respondBy # Never
  THEN SpecFor("setResult", <<setNo, 0, 0>>, respondBy)
  ELSE NoSpec

\* When the time of a turn is up and the decision has failed it is asked for
\* again at once; that this takes its time is put down to the delay.
Retry == 1

PhaseDelay ==
  CASE PhaseSpec.kind = "miniGame"     -> MiniDelay
    [] PhaseSpec.kind = "intermission" ->
         IF interimEnds = Never THEN InterimTime ELSE interimEnds
    [] PhaseSpec.kind = "setResult"    -> respondBy
    [] PhaseSpec.kind = "turn"         ->
         IF Automated(members[Waiter]) THEN AiDelay
         ELSE IF turnDeadline = 0 THEN Retry ELSE turnDeadline
    [] OTHER                           -> Never

\* The members whose place in the lobby is about to be given up, and the one
\* whose time comes first.
OnGrace == {i \in DOMAIN members : /\ ~members[i].isAI /\ ~members[i].connected
                                   /\ members[i].grace # Never}
FirstOnGrace ==
  CHOOSE i \in OnGrace : \A j \in OnGrace \ {i} :
    \/ members[i].grace < members[j].grace
    \/ /\ members[i].grace = members[j].grace
       /\ members[i].joinedAt < members[j].joinedAt

\* Fault: while a member is being waited for the lobby itself does not expire.
LifeSpecOfMembers ==
  IF phase = "waiting"
  THEN IF OnGrace # {} THEN NoSpec
       ELSE SpecFor("lobby", <<0, 0, 0>>, lobbyExpires)
  ELSE IF phase = "playing" /\ abandonAt # Never
  THEN SpecFor("abandon", <<0, 0, 0>>, abandonAt)
  ELSE NoSpec

\* RoomLifecycleTimerCoordinator.#specification
LifeSpec ==
  IF phase = "waiting"
  THEN IF OnGrace # {} /\ members[FirstOnGrace].grace < lobbyExpires
       THEN [SpecFor("waiting", <<0, 0, 0>>, members[FirstOnGrace].grace) EXCEPT
              !.who = FirstOnGrace]
       ELSE SpecFor("lobby", <<0, 0, 0>>, lobbyExpires)
  ELSE IF phase = "playing" /\ abandonAt # Never
  THEN SpecFor("abandon", <<0, 0, 0>>, abandonAt)
  ELSE NoSpec

\* Fault: the deadline is not part of the fingerprint.
SyncPhaseByTurn(t, decisions) ==
  phaseTimer' = IF PhaseSpec' = NoSpec THEN NoTimer
                ELSE IF \/ [t.spec EXCEPT !.due = Never] = [PhaseSpec' EXCEPT !.due = Never]
                        \/ PhaseSpec' \in decisions
                THEN t
                ELSE [spec |-> PhaseSpec', left |-> PhaseDelay']

\* sync of the two coordinators with the room after the step, when t is the
\* timer that is set and decisions the moves being thought about.
SyncPhase(t, decisions) ==
  phaseTimer' = IF PhaseSpec' = NoSpec THEN NoTimer
                ELSE IF t.spec = PhaseSpec' \/ PhaseSpec' \in decisions THEN t
                ELSE [spec |-> PhaseSpec', left |-> PhaseDelay']

SyncLife(t) ==
  lifeTimer' = IF LifeSpec' = NoSpec THEN NoTimer
               ELSE IF t.spec = LifeSpec' THEN t
               ELSE [spec |-> LifeSpec', left |-> LifeSpec'.due]

\* publishTransition
Publish ==
  /\ SyncPhase(phaseTimer, inFlight) /\ SyncLife(lifeTimer)
  /\ UNCHANGED inFlight

-----------------------------------------------------------------------------
(* The gateway.                                                            *)

Seat(u) == {i \in Humans(members) : members[i].user = u}

\* room:join, with and without a seat to take over; the user is online.
ClientJoins(u) ==
  /\ server = "up" /\ online' = online \cup {u}
  /\ \/ Join(u) /\ SyncLife(lifeTimer) /\ UNCHANGED <<phaseTimer, inFlight>>
     \/ \E a \in Ais : JoinTakeover(u, a) /\ Publish
  /\ UNCHANGED <<flaps, server, sent>>

\* room:start and room:continue
ClientStarts(u) ==
  /\ server = "up" /\ u \in online
  /\ \E m \in Seat(u) : Start(m) \/ Continue(m)
  /\ Publish
  /\ UNCHANGED <<online, flaps, server, sent>>

\* room:leave, game:readyNext, game:miniGameInput
ClientActs(u) ==
  /\ server # "exiting" /\ u \in online
  /\ \E m \in Seat(u) : Leave(m) \/ ReadyIntermission(m) \/ MiniGameInput(m)
  /\ Publish
  /\ UNCHANGED <<online, flaps, server, sent>>

Position == <<setNo, engine.results, engine.game, engine.asked>>

\* game:play, game:pass and game:ruleInput, with the turn the client has seen:
\* at once, or whenever an earlier message gets through.
ClientMoves(u, seq) ==
  /\ server # "exiting" /\ u \in online
  /\ \E m \in Seat(u) : GameAction(m, seq)
  /\ Publish
  /\ UNCHANGED <<online, flaps, server, sent>>

\* The client composes a move, which may get through later and more than once;
\* at the bound on moves none is accepted any more.
Compose(u) ==
  /\ u \in online /\ phase = "playing" /\ WaitsForPlayer(engine)
  /\ turnSeq < MaxTurnSeq
  /\ \E m \in Seat(u), i \in DOMAIN engine.asked : engine.asked[i] = m
  /\ sent' = [sent EXCEPT ![u] = [seq |-> turnSeq, at |-> Position]]
  /\ sent' # sent
  /\ UNCHANGED <<roomVars, online, flaps, server, timers>>

\* Fault: whoever comes back to the lobby is not noticed.
ConnectToGame(u) ==
  /\ server # "exiting" /\ u \notin online
  /\ online' = online \cup {u}
  /\ IF phase = "waiting" THEN UNCHANGED <<roomVars, timers>>
     ELSE /\ \E m \in Seat(u) : ConnectionChanged(m, TRUE)
          /\ Publish
  /\ UNCHANGED <<flaps, server, sent>>

\* on connection and on disconnect, of a user who takes part in the room; a
\* second socket of his replaces the first and changes none of this.
Connect(u) ==
  /\ server # "exiting" /\ u \notin online
  /\ online' = online \cup {u}
  /\ \E m \in Seat(u) : ConnectionChanged(m, TRUE)
  /\ Publish
  /\ UNCHANGED <<flaps, server, sent>>

Disconnect(u) ==
  /\ server # "exiting" /\ u \in online /\ flaps < MaxFlaps
  /\ online' = online \ {u}
  /\ flaps' = flaps + 1
  /\ \E m \in Seat(u) : ConnectionChanged(m, FALSE)
  /\ Publish
  /\ UNCHANGED <<server, sent>>

BeginDrain ==
  /\ server = "up"
  /\ server' = "draining"
  /\ IF phase # "playing" THEN UNCHANGED <<roomVars, timers>>
     ELSE RequestDrain /\ Publish
  /\ UNCHANGED <<online, flaps, sent>>

\* settleDrainIfReady: the server exits once no room is playing any more, the
\* other rooms of the server included; close stops the timers.
Drained ==
  /\ server = "draining" /\ phase # "playing"
  /\ server' = "exiting"
  /\ phaseTimer' = NoTimer /\ lifeTimer' = NoTimer
  /\ UNCHANGED <<roomVars, online, flaps, sent, inFlight>>

-----------------------------------------------------------------------------
(* The sweep of the manager and the timers.                                *)

\* RoomManager.sweep takes all the members whose time is over at once.
SweepMembers ==
  LET due  == {i \in OnGrace : members[i].grace = 0}
      rest == Restricted(members, DOMAIN members \ due)
      lost == \E i \in due : members[i].isHost
  IN  /\ phase = "waiting" /\ lobbyExpires # 0 /\ due # {}
      /\ members' = IF lost /\ Humans(rest) # {}
                    THEN [i \in DOMAIN rest |->
                            [rest[i] EXCEPT !.isHost = (i = NextHost(rest))]]
                    ELSE rest
      /\ phase' = IF Humans(rest) = {} THEN "closed" ELSE phase
      /\ UNCHANGED <<mode, engine, setNo, turnSeq, ready, clocks>>

Sweep ==
  /\ server # "exiting"
  /\ \/ SweepMembers \/ ExpireRoom
     \/ respondBy = 0 /\ ExpireSetResult
  /\ Publish
  /\ UNCHANGED <<online, flaps, server, sent>>

\* RoomTimerCoordinator.#fire, but for a turn
FirePhase ==
  /\ phaseTimer.left = 0 /\ phaseTimer.spec.kind # "turn"
  /\ IF PhaseSpec # phaseTimer.spec THEN UNCHANGED roomVars
     ELSE \/ phaseTimer.spec.kind = "miniGame" /\ MiniGameTick
          \/ phaseTimer.spec.kind = "setResult" /\ ExpireSetResult
          \/ phaseTimer.spec.kind = "intermission" /\ AdvanceIntermission
  /\ SyncPhase(NoTimer, inFlight) /\ SyncLife(lifeTimer)
  /\ UNCHANGED <<online, flaps, server, sent, inFlight>>

\* Fault: whatever is due is taken for a turn.
FireAnything ==
  /\ phaseTimer.left = 0
  /\ inFlight' = inFlight \cup {phaseTimer.spec}
  /\ phaseTimer' = NoTimer
  /\ UNCHANGED <<roomVars, lifeTimer, online, flaps, server, sent>>

\* #fire and #fireTurn, up to the promise of a decision
FireTurn ==
  /\ phaseTimer.left = 0 /\ phaseTimer.spec.kind = "turn"
  /\ IF PhaseSpec = phaseTimer.spec
     THEN /\ inFlight' = inFlight \cup {phaseTimer.spec}
          /\ phaseTimer' = NoTimer
          /\ UNCHANGED <<roomVars, lifeTimer>>
     ELSE /\ SyncPhase(NoTimer, inFlight)
          /\ UNCHANGED <<roomVars, inFlight, lifeTimer>>
  /\ UNCHANGED <<online, flaps, server, sent>>

\* Fault: does not look again whether the room still waits for the move.
DecideBlindly(f) ==
  /\ server # "exiting" /\ f \in inFlight
  /\ GameAction(f.who, turnSeq)
  /\ inFlight' = inFlight \ {f}
  /\ SyncPhase(phaseTimer, inFlight') /\ SyncLife(lifeTimer)
  /\ UNCHANGED <<online, flaps, server, sent>>

\* #fireTurn goes on: the move is made if the room still waits for it.
Decide(f) ==
  /\ server # "exiting" /\ f \in inFlight /\ f = PhaseSpec
  /\ GameAction(f.who, turnSeq)
  /\ inFlight' = inFlight \ {f}
  /\ SyncPhase(phaseTimer, inFlight') /\ SyncLife(lifeTimer)
  /\ UNCHANGED <<online, flaps, server, sent>>

\* Fault: after a failed decision nobody looks after the room.
DecideAndForget(f) ==
  /\ f \in inFlight
  /\ inFlight' = inFlight \ {f}
  /\ UNCHANGED <<roomVars, phaseTimer, online, flaps, server, sent, lifeTimer>>

\* The room has moved on, or the decision failed or is none the game accepts.
DecideInVain(f) ==
  /\ f \in inFlight
  /\ inFlight' = inFlight \ {f}
  /\ UNCHANGED roomVars
  /\ IF server = "exiting" \/ phase = "closed" THEN UNCHANGED phaseTimer
     ELSE SyncPhase(phaseTimer, inFlight')
  /\ UNCHANGED <<online, flaps, server, sent, lifeTimer>>

\* Fault: the next timer is not set.
FireLifeOnce ==
  /\ lifeTimer.left = 0
  /\ IF LifeSpec # lifeTimer.spec THEN UNCHANGED roomVars
     ELSE IF lifeTimer.spec.kind = "waiting"
          THEN ExpireWaitingMember(lifeTimer.spec.who) ELSE ExpireRoom
  /\ SyncPhase(phaseTimer, inFlight) /\ lifeTimer' = NoTimer
  /\ UNCHANGED <<online, flaps, server, sent, inFlight>>

\* RoomLifecycleTimerCoordinator.#fire
FireLife ==
  /\ lifeTimer.left = 0
  /\ IF LifeSpec # lifeTimer.spec THEN UNCHANGED roomVars
     ELSE IF lifeTimer.spec.kind = "waiting"
          THEN ExpireWaitingMember(lifeTimer.spec.who) ELSE ExpireRoom
  /\ SyncPhase(phaseTimer, inFlight) /\ SyncLife(NoTimer)
  /\ UNCHANGED <<online, flaps, server, sent, inFlight>>

Aged(t) == [spec |-> [t.spec EXCEPT !.due = TimePasses(@)],
            left |-> TimePasses(t.left)]

\* A decision for a moment that is over never fits the room again.
TimePassesFor(f) ==
  IF f.due < 0 THEN f
  ELSE [f EXCEPT !.due = IF f = PhaseSpec THEN TimePasses(@) ELSE Past]

TimeGoesOn ==
  /\ server # "exiting" /\ phase # "closed"
  /\ phaseTimer.left # 0 /\ lifeTimer.left # 0
  /\ SlowThought \/ inFlight = {}
  /\ Tick
  /\ phaseTimer' = Aged(phaseTimer) /\ lifeTimer' = Aged(lifeTimer)
  /\ inFlight' = {TimePassesFor(f) : f \in inFlight}
  /\ UNCHANGED <<online, flaps, server, sent>>

-----------------------------------------------------------------------------

NothingSent == [seq |-> -1, at |-> <<0, 0, "none", <<>> >>]

\* room:create by the owner, who is online
ServerInit ==
  /\ Init
  /\ online = UsersIn(members) /\ flaps = 0 /\ server = "up"
  /\ sent = [u \in Senders |-> NothingSent]
  /\ phaseTimer = NoTimer /\ inFlight = {}
  /\ lifeTimer = [spec |-> LifeSpec, left |-> lobbyExpires]

Thought == \E f \in inFlight : Decide(f)
ThoughtOver == Thought \/ \E f \in inFlight : DecideInVain(f)

ClientNext ==
  \E u \in Users :
    \/ ClientJoins(u) \/ ClientStarts(u) \/ ClientActs(u)
    \/ ClientMoves(u, turnSeq)
    \/ u \in Senders /\ Compose(u)
    \/ u \in Senders /\ sent[u] # NothingSent /\ ClientMoves(u, sent[u].seq)
    \/ Connect(u) \/ Disconnect(u)

TimersNext ==
  \/ FirePhase \/ FireTurn \/ FireLife \/ ThoughtOver

ServerNext == ClientNext \/ TimersNext \/ Sweep \/ BeginDrain \/ Drained \/ TimeGoesOn

ServerSpec == ServerInit /\ [][ServerNext]_vars

\* Timers fire, time passes, the promise of a decision is settled (the AI has a
\* budget and a fallback), and the AI, asked for a move again and again, comes up
\* with one the game accepts.  Nothing is assumed of clients and of the sweep.
Fairness ==
  /\ WF_vars(TimeGoesOn)
  /\ WF_vars(FirePhase) /\ WF_vars(FireTurn) /\ WF_vars(FireLife)
  /\ WF_vars(ThoughtOver) /\ SF_vars(Thought)

FairSpec == ServerSpec /\ Fairness
-----------------------------------------------------------------------------
(* Properties.                                                             *)

TimerSpec ==
  [ kind: {"none", "miniGame", "turn", "intermission", "setResult",
           "waiting", "lobby", "abandon"},
    nos : Nat \X Nat \X Nat,
    who : MemberId \cup {NoUser},
    as  : [connected : BOOLEAN, controller : {"human", "ai"}, departed : BOOLEAN],
    due : Int ]

ServerTypeOK ==
  /\ online \subseteq Users /\ flaps \in 0 .. MaxFlaps
  /\ server \in {"up", "draining", "exiting"}
  /\ DOMAIN sent = Senders
  /\ \A u \in Senders : sent[u].seq \in -1 .. turnSeq
  /\ \A f \in inFlight : f \in TimerSpec /\ f.kind = "turn"
  /\ {phaseTimer, lifeTimer} \subseteq [spec : TimerSpec, left : Int]

\* Whoever still takes part in the room counts as connected exactly while he
\* has a socket: no order of sockets opened and closed, seats taken and given
\* up, sets ended and started leaves the room with a wrong idea of him.
ConnectedMeansOnline ==
  server # "exiting" =>
    \A m \in Humans(members) : members[m].connected <=> members[m].user \in online

\* The timer of the phase is the one the room calls for, with the time that is
\* left, or a decision for just this turn is on its way: the room is never
\* left without a timer and no timer for another state of it goes on.
PhaseTimerFollowsRoom ==
  server # "exiting" =>
    IF PhaseSpec = NoSpec THEN phaseTimer = NoTimer
    ELSE \/ PhaseSpec \in inFlight
         \/ /\ phaseTimer.spec = PhaseSpec
            /\ PhaseSpec.due # Never /\ PhaseSpec.kind # "turn" =>
                 phaseTimer.left = PhaseSpec.due

\* The lifecycle timer is the one for whatever runs out first in the lobby, or
\* for a room that everybody has dropped out of.
LifeTimerFollowsRoom ==
  server # "exiting" =>
    IF LifeSpec = NoSpec THEN lifeTimer = NoTimer
    ELSE lifeTimer = [spec |-> LifeSpec, left |-> LifeSpec.due]

\* A move that reaches the server late or twice is only accepted in the very
\* position of the game it was meant for.
MoveFitsPosition ==
  [][\A u \in Senders :
       sent[u] # NothingSent /\ sent[u].at # Position
         => ~ClientMoves(u, sent[u].seq)]_vars

\* The AI moves for a human only when his time is up or he has left, also when
\* he came back while the AI was thinking.
AiYieldsToHuman ==
  [][inFlight' # inFlight /\ turnSeq' # turnSeq =>
       Automated(members[Waiter]) \/ turnDeadline = 0]_vars

\* What the design says of draining: no new set is started.
DrainStartsNoSet == [][server = "draining" => setNo' = setNo]_vars

\* The result of a set is shown for a limited time.
ResultEnds ==
  \A n \in 1 .. (MaxSets - 1) :
    phase = "setResult" /\ setNo = n
      ~> phase # "setResult" \/ setNo # n \/ server = "exiting"

\* The pause between two games ends, even when nobody is ready.
PauseEnds ==
  \A r \in 1 .. (GamesPerSet - 1) :
    phase = "playing" /\ engine.phase = "interimResult" /\ engine.results = r
      ~> \/ phase # "playing" \/ server = "exiting"
         \/ engine.phase # "interimResult" \/ engine.results # r

\* A game goes on: whoever is asked for a move or a choice and does nothing,
\* or drops out, is played for by the AI in the end.
GameGoesOn ==
  \A s \in 0 .. (MaxTurnSeq - 1) :
    phase = "playing" /\ WaitsForPlayer(engine) /\ turnSeq = s
      ~> phase # "playing" \/ turnSeq # s \/ server = "exiting"

\* A room nobody is connected to does not last, even when its game makes no
\* progress (as it does here once the moves have reached their bound).
DesertedRoomEnds ==
  phase = "playing" /\ Connected(members) = {}
    ~> phase # "playing" \/ Connected(members) # {} \/ server = "exiting"

\* A lobby does not last, whoever comes and goes in it.
LobbyEnds == phase = "waiting" ~> phase # "waiting" \/ server = "exiting"
=============================================================================
