------------------------------ MODULE RoomSafety ------------------------------
(***************************************************************************)
(* Safety of Room.tla, proved for every value of its constants.  Each of   *)
(* the invariants is inductive next to the type invariant of RoomProofs,   *)
(* and the two action properties follow from it and from the clock under   *)
(* which the result of a set is shown (ResultClock).                       *)
(***************************************************************************)
EXTENDS RoomProofs

-----------------------------------------------------------------------------
(* What a step does to the members.                                        *)

LEMMA SettledMembers ==
  ASSUME NEW ms, MembersTyped(ms), NEW e
  PROVE  \A i \in DOMAIN ms :
           LET new == Settled(ms, e)[i]
           IN  /\ new.user = ms[i].user /\ new.isAI = ms[i].isAI
               /\ new.isHost = ms[i].isHost /\ new.connected = ms[i].connected
               /\ new.seated = ms[i].seated /\ new.joinedAt = ms[i].joinedAt
               /\ ms[i].departed => new.departed
               /\ new.departed /\ ~ms[i].departed =>
                    e.phase = "setResult" /\ ~ms[i].connected
               /\ ~new.departed => new = ms[i]
<1> SUFFICES ASSUME NEW i \in DOMAIN ms
             PROVE  LET new == Settled(ms, e)[i]
                    IN  /\ new.user = ms[i].user /\ new.isAI = ms[i].isAI
                        /\ new.isHost = ms[i].isHost /\ new.connected = ms[i].connected
                        /\ new.seated = ms[i].seated /\ new.joinedAt = ms[i].joinedAt
                        /\ ms[i].departed => new.departed
                        /\ new.departed /\ ~ms[i].departed =>
                             e.phase = "setResult" /\ ~ms[i].connected
                        /\ ~new.departed => new = ms[i]
  OBVIOUS
<1>1. ms[i] \in Member
  BY DEF MembersTyped
<1>2. CASE e.phase = "setResult" /\ i \in Humans(ms) \ Connected(ms)
  <2>1. Settled(ms, e)[i] = [ms[i] EXCEPT !.controller = "ai", !.departed = TRUE,
                                          !.wantsNext = FALSE]
    BY <1>2, SettledTyped
  <2>2. ~ms[i].connected
    BY <1>2 DEF Connected
  <2>3. QED
    BY <1>1, <1>2, <2>1, <2>2 DEF Member
<1>3. CASE ~(e.phase = "setResult" /\ i \in Humans(ms) \ Connected(ms))
  BY <1>3, SettledTyped
<1>4. QED
  BY <1>2, <1>3

\* The members of a new set are the humans it was started for and fresh AIs.
LEMMA StartSetMembers ==
  ASSUME NEW ms, MembersTyped(ms), NEW humans \in SUBSET Humans(ms),
         StartSet(ms, humans)
  PROVE  /\ humans \subseteq DOMAIN members'
         /\ \A i \in DOMAIN members' \ humans : i \in Ais /\ members'[i] = NewAi
         /\ \A i \in humans :
              /\ members'[i].user = ms[i].user /\ ~members'[i].isAI
              /\ members'[i].connected = ms[i].connected
              /\ ~members'[i].departed =>
                   members'[i].controller = IF ms[i].connected THEN "human" ELSE "ai"
              /\ members'[i].departed => engine'.phase = "setResult" /\ ~ms[i].connected
<1>0. humans \in SUBSET DOMAIN ms
  BY DEF Humans
<1>1. PICK ais \in SUBSET (Ais \ humans) :
        members' = Settled(Table(ms, humans, ais), engine')
  BY <1>0, StartSetOutcome
<1> DEFINE tb == Table(ms, humans, ais)
<1>2. /\ MembersTyped(tb) /\ DOMAIN tb = humans \cup ais
      /\ DOMAIN members' = humans \cup ais
  <2>1. ais \in SUBSET Ais
    OBVIOUS
  <2>2. MembersTyped(tb) /\ DOMAIN tb = humans \cup ais
    BY <1>0, <2>1, TableTyped
  <2> HIDE DEF tb
  <2>3. DOMAIN members' = DOMAIN tb
    BY <1>1, <2>2, SettledTyped DEF tb
  <2>4. QED
    BY <2>2, <2>3
<1>3. \A i \in ais : tb[i] = NewAi
  BY DEF Table
<1>4. \A i \in humans :
        /\ tb[i].user = ms[i].user /\ ~tb[i].isAI /\ ~tb[i].departed
        /\ tb[i].connected = ms[i].connected
        /\ tb[i].controller = IF ms[i].connected THEN "human" ELSE "ai"
  <2> SUFFICES ASSUME NEW i \in humans
               PROVE  /\ tb[i].user = ms[i].user /\ ~tb[i].isAI /\ ~tb[i].departed
                      /\ tb[i].connected = ms[i].connected
                      /\ tb[i].controller = IF ms[i].connected THEN "human" ELSE "ai"
    OBVIOUS
  <2> DEFINE c == IF ms[i].connected THEN "human" ELSE "ai"
  <2>1. tb[i] = [ms[i] EXCEPT !.seated = TRUE, !.wantsNext = FALSE, !.grace = Never,
                              !.controller = c]
    BY DEF Table
  <2>2. ms[i] \in Member /\ ~ms[i].isAI /\ ~ms[i].departed
    BY DEF MembersTyped, Humans
  <2> HIDE DEF c, tb
  <2>3. /\ tb[i].user = ms[i].user /\ tb[i].isAI = ms[i].isAI
        /\ tb[i].departed = ms[i].departed /\ tb[i].connected = ms[i].connected
        /\ tb[i].controller = c
    BY <2>1, <2>2 DEF Member
  <2>4. QED
    BY <2>2, <2>3 DEF c
<1>5. \A i \in ais : members'[i] = NewAi
  <2> SUFFICES ASSUME NEW i \in ais PROVE members'[i] = NewAi
    OBVIOUS
  <2>1. i \notin Humans(tb)
    BY <1>3 DEF Humans, NewAi
  <2>2. members'[i] = tb[i]
    BY <1>1, <1>2, <2>1, SettledTyped
  <2>3. QED
    BY <1>3, <2>2
<1> HIDE DEF tb
<1>6. \A i \in humans :
        /\ members'[i].user = tb[i].user /\ members'[i].isAI = tb[i].isAI
        /\ members'[i].connected = tb[i].connected
        /\ members'[i].departed /\ ~tb[i].departed => engine'.phase = "setResult" /\ ~tb[i].connected
        /\ ~members'[i].departed => members'[i] = tb[i]
  BY <1>1, <1>2, SettledMembers DEF tb
<1>7. QED
  BY <1>2, <1>4, <1>5, <1>6

\* Whoever stays when a member is taken out keeps all but the part of the host.
LEMMA WithoutMemberDomain ==
  ASSUME NEW ms, MembersTyped(ms), NEW m \in DOMAIN ms,
         NEW rest, rest = WithoutMember(ms, m)
  PROVE  /\ MembersTyped(rest) /\ DOMAIN rest = DOMAIN ms \ {m}
         /\ Connected(rest) \in SUBSET Humans(rest)
         /\ Humans(rest) \in SUBSET DOMAIN rest
BY WithoutMemberTyped DEF Connected, Humans

LEMMA WithoutMemberKeeps ==
  ASSUME NEW ms, MembersTyped(ms), NEW m \in DOMAIN ms,
         NEW rest, rest = WithoutMember(ms, m)
  PROVE  \A i \in DOMAIN rest :
           /\ rest[i].user = ms[i].user
           /\ rest[i].isAI = ms[i].isAI
           /\ rest[i].connected = ms[i].connected
           /\ rest[i].controller = ms[i].controller
           /\ rest[i].departed = ms[i].departed
<1>1. /\ DOMAIN rest = DOMAIN ms \ {m}
      /\ \A i \in DOMAIN ms \ {m} : \E host \in BOOLEAN :
           rest[i] = [ms[i] EXCEPT !.isHost = host]
  BY WithoutMemberTyped
<1>2. \A i \in DOMAIN rest : ms[i] \in Member
  BY <1>1 DEF MembersTyped
<1>3. QED
  BY <1>1, <1>2 DEF Member

-----------------------------------------------------------------------------
(* Nobody sits at the table twice.                                         *)

LEMMA OneSeatStartSet ==
  ASSUME NEW ms, MembersTyped(ms), NEW humans \in SUBSET Humans(ms),
         \A i, j \in DOMAIN ms :
           ms[i].user = ms[j].user /\ ms[i].user # NoUser => i = j,
         StartSet(ms, humans)
  PROVE  OneSeatPerUser'
<1> SUFFICES ASSUME NEW i \in DOMAIN members', NEW j \in DOMAIN members',
                    members'[i].user = members'[j].user, members'[i].user # NoUser
             PROVE  i = j
  BY DEF OneSeatPerUser
<1>1. i \in humans /\ j \in humans
  BY StartSetMembers DEF NewAi
<1>2. QED
  BY <1>1, StartSetMembers DEF Humans

LEMMA OneSeatProgress ==
  ASSUME TypeInv, OneSeatPerUser, NEW e, members' = Settled(members, e)
  PROVE  OneSeatPerUser'
<1>1. MembersTyped(members)
  BY DEF TypeInv, TypeOK, MembersTyped
<1>2. DOMAIN members' = DOMAIN members
  BY <1>1, SettledTyped
<1>3. \A i \in DOMAIN members : members'[i].user = members[i].user
  BY <1>1, SettledMembers
<1>4. QED
  BY <1>2, <1>3 DEF OneSeatPerUser

LEMMA OneSeatLeaveTable ==
  ASSUME TypeInv, OneSeatPerUser, NEW m \in DOMAIN members, LeaveTable(m)
  PROVE  OneSeatPerUser'
<1>1. PICK ms : ms = WithoutMember(members, m)
  OBVIOUS
<1>2. MembersTyped(members)
  BY DEF TypeInv, TypeOK, MembersTyped
<1>3. /\ MembersTyped(ms) /\ DOMAIN ms = DOMAIN members \ {m}
      /\ Connected(ms) \in SUBSET Humans(ms)
      /\ \A i \in DOMAIN ms : ms[i].user = members[i].user
  <2>1. \A i \in DOMAIN ms : ms[i].user = members[i].user
    BY <1>1, <1>2, WithoutMemberKeeps
  <2>2. QED
    BY <1>1, <1>2, <2>1, WithoutMemberDomain
<1>4. \A i, j \in DOMAIN ms : ms[i].user = ms[j].user /\ ms[i].user # NoUser => i = j
  BY <1>3 DEF OneSeatPerUser
<1>5. CASE members' = ms
  BY <1>4, <1>5 DEF OneSeatPerUser
<1>6. CASE StartSet(ms, Connected(ms))
  BY <1>3, <1>4, <1>6, OneSeatStartSet
<1>7. QED
  BY <1>1, <1>5, <1>6 DEF LeaveTable

LEMMA OneSeatStep ==
  ASSUME TypeInv, OneSeatPerUser, [Next]_roomVars
  PROVE  OneSeatPerUser'
<1>1. /\ MembersTyped(members)
      /\ \A i, j \in DOMAIN members :
           members[i].user = members[j].user /\ members[i].user # NoUser => i = j
  BY DEF TypeInv, TypeOK, MembersTyped, OneSeatPerUser
<1>2. CASE \E u \in Users : Join(u)
  <2>1. PICK u \in Users : Join(u)
    BY <1>2
  <2>2. PICK rank \in 1 .. MaxRank :
          members' = [i \in DOMAIN members \cup {u} |->
                        IF i = u THEN NewHuman(u, rank, FALSE, phase = "setResult")
                        ELSE members[i]]
    BY <2>1 DEF Join
  <2>3. u \notin DOMAIN members /\ \A i \in DOMAIN members : members[i].user # u
    BY <2>1, UsersAssumption DEF Join, UsersIn
  <2>4. NewHuman(u, rank, FALSE, phase = "setResult").user = u
    BY DEF NewHuman
  <2>5. /\ DOMAIN members' = DOMAIN members \cup {u} /\ members'[u].user = u
        /\ \A i \in DOMAIN members : members'[i] = members[i]
    BY <2>2, <2>3, <2>4
  <2>6. QED
    BY <1>1, <2>3, <2>5 DEF OneSeatPerUser
<1>3. CASE \E u \in Users, a \in Ais : JoinTakeover(u, a)
  <2>1. PICK u \in Users, a \in Ais : JoinTakeover(u, a)
    BY <1>3
  <2>2. PICK rank \in 1 .. MaxRank :
          members' = [members EXCEPT ![a] =
                        [NewHuman(u, rank, FALSE, FALSE) EXCEPT
                           !.seated = members[a].seated]]
    BY <2>1 DEF JoinTakeover
  <2>3. a \in DOMAIN members /\ \A i \in DOMAIN members : members[i].user # u
    BY <2>1, UsersAssumption DEF JoinTakeover, UsersIn
  <2>4. [NewHuman(u, rank, FALSE, FALSE) EXCEPT !.seated = members[a].seated].user = u
    BY DEF NewHuman
  <2>5. /\ DOMAIN members' = DOMAIN members /\ members'[a].user = u
        /\ \A i \in DOMAIN members \ {a} : members'[i] = members[i]
    BY <1>1, <2>2, <2>3, <2>4 DEF MembersTyped
  <2>6. QED
    BY <1>1, <2>3, <2>5 DEF OneSeatPerUser
<1>4. CASE \E m \in Connected(members) : Start(m)
  BY <1>1, <1>4, OneSeatStartSet DEF Start
<1>5. CASE \E m \in Connected(members) : Continue(m)
  <2>1. PICK m \in Connected(members) : Continue(m)
    BY <1>5
  <2> DEFINE ms == [members EXCEPT ![m].wantsNext = TRUE]
  <2>2. MembersTyped(ms) /\ \A i \in DOMAIN ms : ms[i].user = members[i].user
    BY <1>1 DEF MembersTyped, Member
  <2>3. StartSet(ms, Connected(ms)) \/ members' = ms
    BY <2>1 DEF Continue
  <2>4. DOMAIN ms = DOMAIN members /\ Connected(ms) \in SUBSET Humans(ms)
    BY DEF Connected
  <2> HIDE DEF ms
  <2>5. \A i, j \in DOMAIN ms : ms[i].user = ms[j].user /\ ms[i].user # NoUser => i = j
    BY <1>1, <2>2, <2>4
  <2>6. QED
    BY <2>2, <2>3, <2>4, <2>5, OneSeatStartSet DEF OneSeatPerUser
<1>6. CASE \E m \in Connected(members) : Leave(m)
  <2>1. PICK m \in Connected(members) : Leave(m)
    BY <1>6
  <2>2. CASE LeavePlaying(m)
    BY <1>1, <2>2 DEF LeavePlaying, OneSeatPerUser, MembersTyped, Member
  <2>3. CASE LeaveTable(m)
    BY <2>1, <2>3, OneSeatLeaveTable DEF Leave
  <2>4. QED
    BY <2>1, <2>2, <2>3 DEF Leave
<1>7. CASE \E m \in MemberId, on \in BOOLEAN : ConnectionChanged(m, on)
  <2>1. PICK m \in MemberId, on \in BOOLEAN : ConnectionChanged(m, on)
    BY <1>7
  <2>2. DOMAIN members' = DOMAIN members /\ \A i \in DOMAIN members : members'[i].user = members[i].user
    BY <1>1, <2>1 DEF ConnectionChanged, MembersTyped, Member
  <2>3. QED
    BY <1>1, <2>2 DEF OneSeatPerUser
<1>8. CASE ExpireSetResult
  <2> DEFINE staying == {i \in Connected(members) : members[i].wantsNext}
             ms == Restricted(members, staying)
  <2>1. staying \subseteq Humans(members) /\ staying \subseteq DOMAIN members
    BY DEF Connected, Humans
  <2>2. ms = [i \in staying |-> members[i]]
    BY DEF Restricted
  <2>3. StartSet(ms, staying) \/ members' = Restricted(members, {})
    BY <1>8 DEF ExpireSetResult
  <2> HIDE DEF staying, ms
  <2>4. MembersTyped(ms) /\ staying \in SUBSET Humans(ms)
    BY <1>1, <2>1, <2>2 DEF MembersTyped, Humans
  <2>5. \A i, j \in DOMAIN ms : ms[i].user = ms[j].user /\ ms[i].user # NoUser => i = j
    BY <1>1, <2>1, <2>2
  <2>6. QED
    BY <2>3, <2>4, <2>5, OneSeatStartSet DEF OneSeatPerUser, Restricted
<1>9. CASE ExpireRoom
  BY <1>9 DEF ExpireRoom, Restricted, OneSeatPerUser
<1>10. CASE \E m \in MemberId : ExpireWaitingMember(m)
  BY <1>10, OneSeatLeaveTable DEF ExpireWaitingMember
<1>11. CASE (\E m, seq : GameAction(m, seq)) \/ AdvanceIntermission \/ RequestDrain
  BY <1>11, DrainTyped, OneSeatProgress DEF GameAction, AdvanceIntermission, Progress
<1>12. CASE Tick
  BY <1>1, <1>12, TickTyped DEF OneSeatPerUser, MembersTyped, Member
<1>13. CASE UNCHANGED members
  BY <1>13 DEF OneSeatPerUser
<1>14. QED
  BY <1>2, <1>3, <1>4, <1>5, <1>6, <1>7, <1>8, <1>9, <1>10, <1>11, <1>12, <1>13
     DEF Next, ByClient, ByNetwork, ByServer, AutoAct, MiniGameInput, MiniGameTick,
         ReadyIntermission, roomVars

\* However users join, take over seats, leave and come back, no user ever has
\* two seats of one room.
THEOREM OneSeat == Spec => []OneSeatPerUser
<1>1. Init => OneSeatPerUser
  BY DEF Init, OneSeatPerUser
<1>2. QED
  BY <1>1, TypeInit, TypeStep, OneSeatStep, PTL DEF Spec

-----------------------------------------------------------------------------
(* The phase of the room and the phase of its set.                         *)

LEMMA PhaseAfterSound ==
  ASSUME NEW e, EngineSound(e), e.phase # "none", NEW ms, phase' = PhaseAfter(e, ms),
         engine' = e, respondBy' = RespondAfter(phase')
  PROVE  PhaseFollowsSet'
<1>1. e.phase \in {"gameInProgress", "interimResult", "setResult"}
  BY DEF EngineSound, Engine
<1>2. RespondTime # Never
  BY LimitAssumption DEF Never
<1>3. QED
  BY <1>1, <1>2 DEF PhaseFollowsSet, PhaseAfter, RespondAfter

LEMMA PhaseLeaveTable ==
  ASSUME TypeInv, PhaseFollowsSet, NEW m \in DOMAIN members, LeaveTable(m)
  PROVE  PhaseFollowsSet'
<1> DEFINE ms == WithoutMember(members, m)
<1>1. MembersTyped(ms) /\ Connected(ms) \in SUBSET DOMAIN ms
  <2>1. MembersTyped(members)
    BY DEF TypeInv, TypeOK, MembersTyped
  <2>2. ms = WithoutMember(members, m)
    OBVIOUS
  <2> HIDE DEF ms
  <2>3. MembersTyped(ms)
    BY <2>1, <2>2, WithoutMemberDomain
  <2>4. QED
    BY <2>3 DEF Connected, Humans
<1>2. \/ StartSet(ms, Connected(ms))
      \/ /\ phase' = IF Humans(ms) = {} THEN "closed" ELSE phase
         /\ UNCHANGED <<engine, respondBy>>
  BY DEF LeaveTable
<1> HIDE DEF ms
<1>3. CASE StartSet(ms, Connected(ms))
  BY <1>1, <1>3, StartSetOutcome, PhaseAfterSound
<1>4. QED
  BY <1>2, <1>3 DEF PhaseFollowsSet

LEMMA PhaseStep ==
  ASSUME TypeInv, PhaseFollowsSet, ~MiniGameEndsGame, [Next]_roomVars
  PROVE  PhaseFollowsSet'
<1>1. MembersTyped(members) /\ TypeInv'
  BY TypeStep DEF TypeInv, TypeOK, MembersTyped
<1>2. CASE \E m \in Connected(members) : Start(m)
  <2>1. Humans(members) \in SUBSET DOMAIN members
    BY DEF Humans
  <2>2. QED
    BY <1>1, <1>2, <2>1, StartSetOutcome, PhaseAfterSound DEF Start
<1>3. CASE \E m \in Connected(members) : Continue(m)
  <2>1. PICK m \in Connected(members) : Continue(m)
    BY <1>3
  <2> DEFINE ms == [members EXCEPT ![m].wantsNext = TRUE]
  <2>2. MembersTyped(ms) /\ Connected(ms) \in SUBSET DOMAIN ms
    BY <1>1 DEF MembersTyped, Member, Connected, Humans
  <2>3. \/ StartSet(ms, Connected(ms))
        \/ UNCHANGED <<phase, engine, respondBy>>
    BY <2>1 DEF Continue, clocks
  <2> HIDE DEF ms
  <2>4. QED
    BY <2>2, <2>3, StartSetOutcome, PhaseAfterSound DEF PhaseFollowsSet
<1>4. CASE \E m \in Connected(members) : Leave(m)
  BY <1>4, PhaseLeaveTable DEF Leave, LeavePlaying, PhaseFollowsSet
<1>5. CASE \E m \in MemberId : ExpireWaitingMember(m)
  BY <1>5, PhaseLeaveTable DEF ExpireWaitingMember
<1>6. CASE ExpireSetResult
  <2> DEFINE staying == {i \in Connected(members) : members[i].wantsNext}
             ms == Restricted(members, staying)
  <2>1. staying \subseteq DOMAIN members
    BY DEF Connected, Humans
  <2>2. ms = [i \in staying |-> members[i]]
    BY DEF Restricted
  <2>3. StartSet(ms, staying) \/ phase' = "closed"
    BY <1>6 DEF ExpireSetResult
  <2> HIDE DEF staying, ms
  <2>4. MembersTyped(ms) /\ staying \in SUBSET DOMAIN ms
    BY <1>1, <2>1, <2>2 DEF MembersTyped
  <2>5. QED
    BY <2>3, <2>4, StartSetOutcome, PhaseAfterSound DEF PhaseFollowsSet
<1>7. CASE ExpireRoom
  BY <1>7 DEF ExpireRoom, PhaseFollowsSet
<1>8. CASE \E m, seq : GameAction(m, seq)
  <2>1. PICK m, e : /\ e \in AfterMove(engine, m, Seats(members))
                    /\ WaitsForPlayer(engine) /\ Progress(e)
    BY <1>8 DEF GameAction
  <2>2. EngineSound(e) /\ e.phase # "none"
    <3>1. /\ IsFiniteSet(Seats(members)) /\ Seats(members) \subseteq MemberId
          /\ EngineSound(engine) /\ engine.asked \in Seq(MemberId)
      BY <1>1, SeatsFinite DEF TypeInv, TypeOK, Engine
    <3>2. QED
      BY <2>1, <3>1, AfterMoveSound DEF WaitsForPlayer
  <2>3. QED
    BY <2>1, <2>2, PhaseAfterSound DEF Progress
<1>9. CASE AdvanceIntermission
  <2>1. PICK e \in StartGame(engine, Seats(members)) : Progress(e)
    BY <1>9 DEF AdvanceIntermission
  <2>2. EngineSound(e) /\ e.phase # "none"
    <3>1. /\ IsFiniteSet(Seats(members)) /\ Seats(members) \subseteq MemberId
          /\ engine \in Engine /\ engine.results < GamesPerSet
      BY <1>1, <1>9, SeatsFinite DEF AdvanceIntermission, TypeInv, EngineSound
    <3>2. QED
      BY <2>1, <3>1, StartGameSound
  <2>3. QED
    BY <2>1, <2>2, PhaseAfterSound DEF Progress
<1>10. CASE RequestDrain
  <2>1. engine'.phase \in {"setResult", "gameInProgress"}
    BY <1>10 DEF RequestDrain, TypeInv, TypeOK, Engine
  <2>2. EngineSound(engine') /\ engine'.phase # "none"
    BY <1>1, <2>1 DEF TypeInv
  <2>3. phase' = PhaseAfter(engine', members') /\ respondBy' = RespondAfter(phase')
    BY <1>10 DEF RequestDrain
  <2>4. QED
    BY <2>2, <2>3, PhaseAfterSound
<1>11. CASE MiniGameTick
  BY <1>11, MiniGameTickTyped DEF MiniGameTick, InMiniGame, PhaseFollowsSet
<1>12. CASE Tick
  <2>1. respondBy # Never => respondBy' # Never
    BY <1>12, LimitAssumption DEF Tick, TimePasses, Never, TypeInv, TypeOK, TimeLeft
  <2>2. QED
    BY <1>12, <2>1 DEF Tick, PhaseFollowsSet
<1>13. CASE UNCHANGED <<phase, engine, respondBy>>
  BY <1>13 DEF PhaseFollowsSet
<1>14. QED
  BY <1>2, <1>3, <1>4, <1>5, <1>6, <1>7, <1>8, <1>9, <1>10, <1>11, <1>12, <1>13
     DEF Next, ByClient, ByNetwork, ByServer, AutoAct, MiniGameInput, Join, JoinTakeover,
         ConnectionChanged, ReadyIntermission, roomVars, clocks

\* As long as no mini game ends a game, the phase of the room is the phase of
\* its set, and a result is always shown under a running clock.
THEOREM PhaseFollows ==
  ASSUME ~MiniGameEndsGame
  PROVE  Spec => []PhaseFollowsSet
<1>1. Init => PhaseFollowsSet
  BY DEF Init, PhaseFollowsSet, NoEngine
<1>2. TypeInv /\ PhaseFollowsSet /\ [Next]_roomVars => PhaseFollowsSet'
  BY PhaseStep
<1>3. QED
  BY <1>1, <1>2, TypeInit, TypeStep, PTL DEF Spec

-----------------------------------------------------------------------------
(* Who is played by the AI.                                                *)

LEMMA AiHoldsStartSet ==
  ASSUME NEW ms, MembersTyped(ms), NEW humans \in SUBSET Humans(ms),
         StartSet(ms, humans)
  PROVE  AiHoldsSeatOfAbsent'
<1>1. phase' # "waiting"
  BY SeatsFinite, StartSetOutcome DEF PhaseAfter
<1>2. SUFFICES ASSUME NEW i \in Humans(members)'
               PROVE  members'[i].controller = "ai" <=> ~members'[i].connected
  BY <1>1 DEF AiHoldsSeatOfAbsent
<1>3. i \in DOMAIN members' /\ ~members'[i].isAI /\ ~members'[i].departed
  BY <1>2 DEF Humans
<1>4. i \in humans
  BY <1>3, StartSetMembers DEF NewAi
<1>5. QED
  BY <1>3, <1>4, StartSetMembers

LEMMA AiHoldsSettled ==
  ASSUME TypeInv, AiHoldsSeatOfAbsent, NEW e, members' = Settled(members, e),
         phase # "waiting", phase' # "waiting"
  PROVE  AiHoldsSeatOfAbsent'
<1>1. MembersTyped(members)
  BY DEF TypeInv, TypeOK, MembersTyped
<1>2. SUFFICES ASSUME NEW i \in Humans(members)'
               PROVE  members'[i].controller = "ai" <=> ~members'[i].connected
  BY DEF AiHoldsSeatOfAbsent
<1>3. i \in DOMAIN members /\ ~members'[i].isAI /\ ~members'[i].departed
  BY <1>1, <1>2, SettledTyped DEF Humans
<1>4. members'[i] = members[i]
  BY <1>1, <1>3, SettledMembers
<1>5. i \in Humans(members)
  BY <1>3, <1>4 DEF Humans
<1>6. QED
  BY <1>4, <1>5 DEF AiHoldsSeatOfAbsent

LEMMA AiHoldsLeaveTable ==
  ASSUME TypeInv, AiHoldsSeatOfAbsent, NEW m \in DOMAIN members, LeaveTable(m)
  PROVE  AiHoldsSeatOfAbsent'
<1>1. PICK ms : ms = WithoutMember(members, m)
  OBVIOUS
<1>2. MembersTyped(members)
  BY DEF TypeInv, TypeOK, MembersTyped
<1>3. /\ MembersTyped(ms) /\ DOMAIN ms = DOMAIN members \ {m}
      /\ Connected(ms) \in SUBSET Humans(ms)
      /\ \A i \in DOMAIN ms :
           /\ ms[i].isAI = members[i].isAI
           /\ ms[i].connected = members[i].connected
           /\ ms[i].controller = members[i].controller
           /\ ms[i].departed = members[i].departed
  <2>1. \A i \in DOMAIN ms :
           /\ ms[i].isAI = members[i].isAI
           /\ ms[i].connected = members[i].connected
           /\ ms[i].controller = members[i].controller
           /\ ms[i].departed = members[i].departed
    BY <1>1, <1>2, WithoutMemberKeeps
  <2>2. QED
    BY <1>1, <1>2, <2>1, WithoutMemberDomain
<1>4. CASE members' = ms /\ phase' = IF Humans(ms) = {} THEN "closed" ELSE phase
  <2>1. SUFFICES ASSUME NEW i \in Humans(members)'
                 PROVE  /\ phase' = phase
                        /\ members'[i].controller = "ai"
                             <=> phase # "waiting" /\ ~members'[i].connected
    BY DEF AiHoldsSeatOfAbsent
  <2>2. i \in Humans(ms) /\ i \in Humans(members) /\ i \in DOMAIN ms
    BY <1>3, <1>4, <2>1 DEF Humans
  <2>3. QED
    BY <1>3, <1>4, <2>2 DEF AiHoldsSeatOfAbsent
<1>5. CASE StartSet(ms, Connected(ms))
  BY <1>3, <1>5, AiHoldsStartSet
<1>6. QED
  BY <1>1, <1>4, <1>5 DEF LeaveTable

LEMMA AiHoldsStep ==
  ASSUME TypeInv, AiHoldsSeatOfAbsent, [Next]_roomVars
  PROVE  AiHoldsSeatOfAbsent'
<1>1. MembersTyped(members)
  BY DEF TypeInv, TypeOK, MembersTyped
<1>2. CASE \E u \in Users : Join(u)
  <2>1. PICK u \in Users, rank \in 1 .. MaxRank :
          /\ phase' = phase
          /\ members' = [i \in DOMAIN members \cup {u} |->
                           IF i = u THEN NewHuman(u, rank, FALSE, phase = "setResult")
                           ELSE members[i]]
          /\ u \notin DOMAIN members
    BY <1>2 DEF Join
  <2>2. /\ DOMAIN members' = DOMAIN members \cup {u}
        /\ members'[u].controller = "human" /\ members'[u].connected = TRUE
        /\ \A i \in DOMAIN members : members'[i] = members[i]
    BY <2>1 DEF NewHuman
  <2>3. QED
    BY <2>1, <2>2 DEF AiHoldsSeatOfAbsent, Humans
<1>3. CASE \E u \in Users, a \in Ais : JoinTakeover(u, a)
  <2>1. PICK u \in Users, a \in DOMAIN members, rank \in 1 .. MaxRank :
          /\ phase' = phase
          /\ members' = [members EXCEPT ![a] =
                        [NewHuman(u, rank, FALSE, FALSE) EXCEPT
                           !.seated = members[a].seated]]
    BY <1>3 DEF JoinTakeover
  <2>2. /\ DOMAIN members' = DOMAIN members
        /\ members'[a].controller = "human" /\ members'[a].connected = TRUE
        /\ \A i \in DOMAIN members \ {a} : members'[i] = members[i]
    BY <1>1, <2>1 DEF NewHuman, MembersTyped
  <2>3. QED
    BY <2>1, <2>2 DEF AiHoldsSeatOfAbsent, Humans
<1>4. CASE \E m \in Connected(members) : Start(m)
  BY <1>1, <1>4, AiHoldsStartSet DEF Start
<1>5. CASE \E m \in Connected(members) : Continue(m)
  <2>0. PICK m \in DOMAIN members : Continue(m)
    BY <1>5 DEF Connected, Humans
  <2>1. PICK ms : Continue(m) /\ ms = [members EXCEPT ![m].wantsNext = TRUE]
    BY <2>0
  <2>2. /\ MembersTyped(ms) /\ DOMAIN ms = DOMAIN members
        /\ Connected(ms) \in SUBSET Humans(ms)
        /\ \A i \in DOMAIN ms :
             /\ ms[i].isAI = members[i].isAI /\ ms[i].departed = members[i].departed
             /\ ms[i].connected = members[i].connected
             /\ ms[i].controller = members[i].controller
    BY <1>1, <2>1 DEF MembersTyped, Member, Connected
  <2>3. StartSet(ms, Connected(ms)) \/ (members' = ms /\ phase' = phase)
    BY <2>1 DEF Continue
  <2>4. QED
    BY <2>2, <2>3, AiHoldsStartSet DEF AiHoldsSeatOfAbsent, Humans
<1>6. CASE \E m \in Connected(members) : Leave(m)
  <2>1. PICK m \in DOMAIN members : Leave(m)
    BY <1>6 DEF Leave
  <2>2. CASE LeavePlaying(m) /\ phase = "playing"
    <3>1. /\ DOMAIN members' = DOMAIN members /\ phase' # "waiting"
          /\ members'[m].departed = TRUE
          /\ \A i \in DOMAIN members \ {m} : members'[i] = members[i]
      BY <1>1, <2>2 DEF LeavePlaying, MembersTyped, Member
    <3>2. QED
      BY <2>2, <3>1 DEF AiHoldsSeatOfAbsent, Humans
  <2>3. CASE LeaveTable(m)
    BY <2>3, AiHoldsLeaveTable
  <2>4. QED
    BY <2>1, <2>2, <2>3 DEF Leave
<1>7. CASE \E m \in MemberId, on \in BOOLEAN : ConnectionChanged(m, on)
  <2>1. PICK m \in DOMAIN members, on \in BOOLEAN : ConnectionChanged(m, on)
    BY <1>7 DEF ConnectionChanged, Humans
  <2>2. PICK c, g : c = (IF ~on /\ phase # "waiting" THEN "ai" ELSE "human")
                    /\ g = (IF ~on /\ phase = "waiting" THEN LobbyGrace ELSE Never)
    OBVIOUS
  <2>3. /\ DOMAIN members' = DOMAIN members /\ phase' = phase
        /\ members'[m].controller = c /\ members'[m].connected = on
        /\ members'[m].isAI = members[m].isAI
        /\ \A i \in DOMAIN members \ {m} : members'[i] = members[i]
    BY <1>1, <2>1, <2>2 DEF ConnectionChanged, MembersTyped, Member
  <2>4. QED
    BY <2>2, <2>3 DEF AiHoldsSeatOfAbsent, Humans
<1>8. CASE ExpireSetResult
  <2>1. PICK staying, ms : /\ staying = {i \in Connected(members) : members[i].wantsNext}
                           /\ ms = Restricted(members, staying)
    OBVIOUS
  <2>2. staying \subseteq Humans(members) /\ staying \subseteq DOMAIN members
    BY <2>1 DEF Connected, Humans
  <2>3. MembersTyped(ms) /\ staying \in SUBSET Humans(ms)
    BY <1>1, <2>1, <2>2 DEF Restricted, MembersTyped, Humans
  <2>4. StartSet(ms, staying) \/ members' = Restricted(members, {})
    BY <1>8, <2>1 DEF ExpireSetResult
  <2>5. QED
    BY <2>3, <2>4, AiHoldsStartSet DEF AiHoldsSeatOfAbsent, Restricted, Humans
<1>9. CASE ExpireRoom
  BY <1>9 DEF ExpireRoom, Restricted, AiHoldsSeatOfAbsent, Humans
<1>10. CASE \E m \in MemberId : ExpireWaitingMember(m)
  BY <1>10, AiHoldsLeaveTable DEF ExpireWaitingMember
<1>11. CASE (\E m, seq : GameAction(m, seq)) \/ AdvanceIntermission \/ RequestDrain
  BY <1>11, DrainTyped, AiHoldsSettled
     DEF GameAction, AdvanceIntermission, RequestDrain, Progress, PhaseAfter
<1>12. CASE Tick
  <2>1. /\ DOMAIN members' = DOMAIN members /\ phase' = phase
        /\ \A i \in DOMAIN members :
             /\ members'[i].isAI = members[i].isAI
             /\ members'[i].departed = members[i].departed
             /\ members'[i].connected = members[i].connected
             /\ members'[i].controller = members[i].controller
    BY <1>1, <1>12, TickTyped DEF Tick, MembersTyped, Member
  <2>2. QED
    BY <2>1 DEF AiHoldsSeatOfAbsent, Humans
<1>13. CASE UNCHANGED <<members, phase>>
  BY <1>13 DEF AiHoldsSeatOfAbsent, Humans
<1>14. QED
  BY <1>2, <1>3, <1>4, <1>5, <1>6, <1>7, <1>8, <1>9, <1>10, <1>11, <1>12, <1>13
     DEF Next, ByClient, ByNetwork, ByServer, AutoAct, MiniGameInput, MiniGameTick,
         ReadyIntermission, roomVars, clocks

\* The AI plays for a human exactly while he is offline, once the first set has
\* begun, whichever way he dropped out, came back or was dealt in.
THEOREM AiHolds == Spec => []AiHoldsSeatOfAbsent
<1>1. Init => AiHoldsSeatOfAbsent
  BY DEF Init, AiHoldsSeatOfAbsent, Humans, NewHuman
<1>2. QED
  BY <1>1, TypeInit, TypeStep, AiHoldsStep, PTL DEF Spec

-----------------------------------------------------------------------------
(* The clock of a deserted room.                                           *)

LEMMA AbandonStartSet ==
  ASSUME NEW ms, MembersTyped(ms), NEW humans \in SUBSET Humans(ms),
         humans \cap Connected(ms) # {}, StartSet(ms, humans)
  PROVE  AbandonClockRuns'
<1>1. abandonAt' = Never /\ (phase' = "playing" => engine'.phase # "setResult")
  <2>1. humans \in SUBSET DOMAIN ms
    BY DEF Humans
  <2>2. abandonAt' = Never /\ phase' = PhaseAfter(engine', members')
    BY <2>1, StartSetOutcome
  <2>3. QED
    BY <2>2 DEF PhaseAfter
<1>2. PICK i \in humans : ms[i].connected
  BY DEF Connected
<1>3. i \in DOMAIN members' /\ ~members'[i].isAI
  BY <1>2, StartSetMembers
<1>4. members'[i].connected
  BY <1>2, StartSetMembers
<1>5. members'[i].departed => engine'.phase = "setResult"
  BY <1>2, StartSetMembers
<1>6. phase' = "playing" => i \in Connected(members')
  BY <1>1, <1>3, <1>4, <1>5 DEF Connected, Humans
<1>7. QED
  BY <1>1, <1>6 DEF AbandonClockRuns

LEMMA AbandonSettled ==
  ASSUME TypeInv, AbandonClockRuns, NEW e, members' = Settled(members, e),
         phase' = PhaseAfter(e, members'), phase = "playing",
         abandonAt' = IF phase' = "playing" THEN abandonAt ELSE Never
  PROVE  AbandonClockRuns'
<1>1. phase' = "playing" => members' = members
  BY DEF PhaseAfter, Settled
<1>2. QED
  BY <1>1 DEF AbandonClockRuns

LEMMA AbandonLeaveTable ==
  ASSUME TypeInv, phase # "playing", NEW m \in DOMAIN members, LeaveTable(m)
  PROVE  AbandonClockRuns'
<1>1. PICK ms : ms = WithoutMember(members, m)
  OBVIOUS
<1>2. MembersTyped(members)
  BY DEF TypeInv, TypeOK, MembersTyped
<1>3. MembersTyped(ms) /\ Connected(ms) \in SUBSET Humans(ms)
  BY <1>1, <1>2, WithoutMemberDomain
<1>4. CASE Connected(ms) # {} /\ StartSet(ms, Connected(ms))
  BY <1>3, <1>4, AbandonStartSet
<1>5. CASE phase' = IF Humans(ms) = {} THEN "closed" ELSE phase
  BY <1>5 DEF AbandonClockRuns
<1>6. QED
  BY <1>1, <1>4, <1>5 DEF LeaveTable

LEMMA AbandonStep ==
  ASSUME TypeInv, AbandonClockRuns, [Next]_roomVars
  PROVE  AbandonClockRuns'
<1>1. MembersTyped(members) /\ AbandonTime # Never
  BY LimitAssumption DEF TypeInv, TypeOK, MembersTyped, Never
<1>2. CASE \E u \in Users : Join(u)
  BY <1>2 DEF Join, AbandonClockRuns
<1>3. CASE \E u \in Users, a \in Ais : JoinTakeover(u, a)
  <2>1. PICK u \in Users, a \in DOMAIN members, rank \in 1 .. MaxRank :
          /\ abandonAt' = Never
          /\ members' = [members EXCEPT ![a] =
                        [NewHuman(u, rank, FALSE, FALSE) EXCEPT
                           !.seated = members[a].seated]]
    BY <1>3 DEF JoinTakeover
  <2>2. a \in Connected(members')
    BY <1>1, <2>1 DEF NewHuman, MembersTyped, Connected, Humans
  <2>3. QED
    BY <2>1, <2>2 DEF AbandonClockRuns
<1>4. CASE \E m \in Connected(members) : Start(m)
  <2>1. Humans(members) \in SUBSET Humans(members) /\ Connected(members) \subseteq Humans(members)
    BY DEF Connected
  <2>2. StartSet(members, Humans(members)) /\ Humans(members) \cap Connected(members) # {}
    BY <1>4, <2>1 DEF Start
  <2>3. QED
    BY <1>1, <2>1, <2>2, AbandonStartSet
<1>5. CASE \E m \in Connected(members) : Continue(m)
  <2>0. PICK m \in Connected(members) : Continue(m)
    BY <1>5
  <2>1. PICK ms : Continue(m) /\ ms = [members EXCEPT ![m].wantsNext = TRUE]
    BY <2>0
  <2>a. m \in DOMAIN members
    BY <2>1 DEF Connected, Humans
  <2>b. \A r \in Member : [r EXCEPT !.wantsNext = TRUE] \in Member
    BY DEF Member
  <2>c. ms = [members EXCEPT ![m] = [members[m] EXCEPT !.wantsNext = TRUE]]
    BY <2>1
  <2>2. MembersTyped(ms) /\ m \in DOMAIN members
    BY <1>1, <2>a, <2>b, <2>c DEF MembersTyped
  <2>3. m \in Connected(ms) /\ Connected(ms) \in SUBSET Humans(ms)
    BY <1>1, <2>1, <2>2 DEF MembersTyped, Member, Connected, Humans
  <2>4. StartSet(ms, Connected(ms)) \/ phase' = "setResult"
    BY <2>1 DEF Continue
  <2>5. QED
    BY <2>2, <2>3, <2>4, AbandonStartSet DEF AbandonClockRuns
<1>6. CASE \E m \in Connected(members) : Leave(m)
  BY <1>1, <1>6, AbandonLeaveTable DEF Leave, LeavePlaying, AbandonClockRuns, Connected
<1>7. CASE \E m \in MemberId, on \in BOOLEAN : ConnectionChanged(m, on)
  BY <1>1, <1>7 DEF ConnectionChanged, AbandonClockRuns
<1>8. CASE ExpireSetResult
  <2>1. PICK staying, ms : /\ staying = {i \in Connected(members) : members[i].wantsNext}
                           /\ ms = Restricted(members, staying)
    OBVIOUS
  <2>2. /\ staying \subseteq Humans(members) /\ staying \subseteq DOMAIN members
        /\ staying \subseteq Connected(members)
    BY <2>1 DEF Connected, Humans
  <2>3. /\ MembersTyped(ms) /\ staying \in SUBSET Humans(ms)
        /\ staying \subseteq Connected(ms)
    BY <1>1, <2>1, <2>2 DEF Restricted, MembersTyped, Connected, Humans
  <2>4. (staying # {} /\ StartSet(ms, staying)) \/ phase' = "closed"
    BY <1>8, <2>1 DEF ExpireSetResult
  <2>5. QED
    BY <2>3, <2>4, AbandonStartSet DEF AbandonClockRuns
<1>9. CASE ExpireRoom
  BY <1>9 DEF ExpireRoom, AbandonClockRuns
<1>10. CASE \E m \in MemberId : ExpireWaitingMember(m)
  BY <1>10, AbandonLeaveTable DEF ExpireWaitingMember
<1>11. CASE (\E m, seq : GameAction(m, seq)) \/ AdvanceIntermission
  BY <1>11, AbandonSettled DEF GameAction, AdvanceIntermission, Progress
<1>12. CASE RequestDrain
  <2>1. abandonAt' = IF phase' = "playing" THEN abandonAt ELSE Never
    BY <1>12 DEF RequestDrain
  <2>2. phase = "playing"
    BY <1>12 DEF RequestDrain
  <2>3. QED
    BY <1>12, <2>1, <2>2, DrainTyped, AbandonSettled
<1>13. CASE Tick
  <2>1. Connected(members') = Connected(members)
    BY <1>1, <1>13, TickTyped DEF MembersTyped, Member, Connected, Humans
  <2>2. abandonAt' = Never <=> abandonAt = Never
    BY <1>13 DEF Tick, TimePasses, Never, TypeInv, TypeOK, TimeLeft
  <2>3. QED
    BY <1>13, <2>1, <2>2 DEF Tick, AbandonClockRuns
<1>14. CASE UNCHANGED <<members, phase, abandonAt>>
  BY <1>14 DEF AbandonClockRuns
<1>15. QED
  BY <1>2, <1>3, <1>4, <1>5, <1>6, <1>7, <1>8, <1>9, <1>10, <1>11, <1>12, <1>13, <1>14
     DEF Next, ByClient, ByNetwork, ByServer, AutoAct, MiniGameInput, MiniGameTick,
         ReadyIntermission, roomVars, clocks

\* A room that is playing is given up by the clock exactly when nobody is
\* online, whatever sequence of steps has led there.
THEOREM AbandonClock == Spec => []AbandonClockRuns
<1>1. Init => AbandonClockRuns
  BY DEF Init, AbandonClockRuns
<1>2. QED
  BY <1>1, TypeInit, TypeStep, AbandonStep, PTL DEF Spec

-----------------------------------------------------------------------------
(* The host of the lobby.                                                  *)

\* In a set that is not empty some element is least by whatever numbers it.
LEMMA LeastExists ==
  ASSUME NEW S, S # {}, NEW f, \A x \in S : f[x] \in Nat
  PROVE  \E x \in S : \A y \in S : f[x] <= f[y]
<1> DEFINE upTo(x) == 0 .. f[x]
           T == {upTo(x) : x \in S}
<1>1. T \subseteq FiniteSubsetsOf(Nat) /\ T # {}
  <2>1. \A x \in S : IsFiniteSet(0 .. f[x]) /\ 0 .. f[x] \subseteq Nat
    BY FS_Interval
  <2>2. QED
    BY <2>1 DEF FiniteSubsetsOf
<1>2. PICK t \in T : \A k \in T : <<k, t>> \notin StrictSubsetOrdering(Nat)
  BY <1>1, FS_StrictSubsetOrderingWellFounded, WFMin
<1>3. PICK x \in S : t = 0 .. f[x]
  BY <1>2
<1>4. \A y \in S : f[x] <= f[y]
  <2> SUFFICES ASSUME NEW y \in S, f[y] < f[x] PROVE FALSE
    OBVIOUS
  <2>1. 0 .. f[y] \in SUBSET Nat /\ 0 .. f[x] \in SUBSET Nat
    OBVIOUS
  <2>2. 0 .. f[y] \subseteq 0 .. f[x] /\ 0 .. f[y] # 0 .. f[x]
    OBVIOUS
  <2>3. <<0 .. f[y], 0 .. f[x]>> \in StrictSubsetOrdering(Nat)
    BY <2>1, <2>2 DEF StrictSubsetOrdering
  <2>4. QED
    BY <1>2, <1>3, <2>3
<1>5. QED
  BY <1>3, <1>4

\* Whoever is to be the next host is one of the humans who are still there.
LEMMA NextHostIsThere ==
  ASSUME NEW ms, MembersTyped(ms), Humans(ms) # {}
  PROVE  NextHost(ms) \in Humans(ms)
<1> DEFINE f == [i \in Humans(ms) |-> ms[i].joinedAt]
<1>1. \A i \in Humans(ms) : f[i] \in Nat
  BY DEF Humans, MembersTyped, Member
<1>2. PICK i \in Humans(ms) : \A j \in Humans(ms) : f[i] <= f[j]
  BY <1>1, LeastExists
<1>3. \A j \in Humans(ms) : ms[i].joinedAt <= ms[j].joinedAt
  BY <1>2
<1>4. QED
  BY <1>3 DEF NextHost

\* Exactly one member of ms is the host, and he takes part.
HasHost(ms) ==
  \E h \in Humans(ms) : \A i \in DOMAIN ms : ms[i].isHost <=> i = h

LEMMA HostAfterLeaving ==
  ASSUME NEW ms, MembersTyped(ms), HasHost(ms), NEW m \in DOMAIN ms,
         NEW rest, rest = WithoutMember(ms, m), Humans(rest) # {}
  PROVE  HasHost(rest)
<1> DEFINE cut == Restricted(ms, DOMAIN ms \ {m})
<1>1. /\ MembersTyped(cut) /\ DOMAIN cut = DOMAIN ms \ {m}
      /\ \A i \in DOMAIN cut : cut[i] = ms[i]
  BY DEF Restricted, MembersTyped
<1>2. /\ DOMAIN rest = DOMAIN cut
      /\ \A i \in DOMAIN rest : rest[i].isAI = cut[i].isAI /\ rest[i].departed = cut[i].departed
  <2>1. /\ DOMAIN rest = DOMAIN ms \ {m}
        /\ \A i \in DOMAIN rest : rest[i].isAI = ms[i].isAI /\ rest[i].departed = ms[i].departed
    <3>1. DOMAIN rest = DOMAIN ms \ {m}
      BY WithoutMemberDomain
    <3>2. QED
      BY <3>1, WithoutMemberKeeps
  <2>2. QED
    BY <1>1, <2>1
<1>3. rest = IF ms[m].isHost /\ Humans(cut) # {}
             THEN [i \in DOMAIN cut |-> [cut[i] EXCEPT !.isHost = (i = NextHost(cut))]]
             ELSE cut
  BY DEF WithoutMember
<1> HIDE DEF cut
<1>4. Humans(rest) = Humans(cut)
  BY <1>2 DEF Humans
<1>5. CASE ms[m].isHost
  <2>1. NextHost(cut) \in Humans(rest)
    BY <1>1, <1>4, NextHostIsThere
  <2>2. \A i \in DOMAIN rest : rest[i] = [cut[i] EXCEPT !.isHost = (i = NextHost(cut))]
    BY <1>3, <1>4, <1>5
  <2>3. \A i \in DOMAIN rest : rest[i].isHost <=> i = NextHost(cut)
    <3> SUFFICES ASSUME NEW i \in DOMAIN rest PROVE rest[i].isHost <=> i = NextHost(cut)
      OBVIOUS
    <3>1. cut[i] \in Member
      BY <1>1, <1>2 DEF MembersTyped
    <3>2. QED
      BY <2>2, <3>1 DEF Member
  <2>4. QED
    BY <2>1, <2>3 DEF HasHost
<1>6. CASE ~ms[m].isHost
  <2>1. rest = cut
    BY <1>3, <1>6
  <2>2. QED
    BY <1>1, <1>6, <2>1 DEF HasHost, Humans
<1>7. QED
  BY <1>5, <1>6

LEMMA HostLeaveTable ==
  ASSUME TypeInv, OneHostInLobby, NEW m \in DOMAIN members, LeaveTable(m)
  PROVE  OneHostInLobby'
<1>1. PICK ms : ms = WithoutMember(members, m)
  OBVIOUS
<1>2. MembersTyped(members)
  BY DEF TypeInv, TypeOK, MembersTyped
<1>3. CASE members' = ms /\ phase' = IF Humans(ms) = {} THEN "closed" ELSE phase
  <2> SUFFICES ASSUME phase' = "waiting" PROVE HasHost(members')
    BY DEF OneHostInLobby, HasHost
  <2>1. phase = "waiting" /\ Humans(ms) # {}
    BY <1>3
  <2>2. HasHost(members)
    BY <2>1 DEF OneHostInLobby, HasHost
  <2>3. QED
    BY <1>1, <1>2, <1>3, <2>1, <2>2, HostAfterLeaving
<1>4. CASE StartSet(ms, Connected(ms))
  <2>1. phase' # "waiting"
    BY <1>4 DEF StartSet, PhaseAfter
  <2>2. QED
    BY <2>1 DEF OneHostInLobby
<1>5. QED
  BY <1>1, <1>3, <1>4 DEF LeaveTable

\* The steps that leave the lobby, or happen elsewhere.
LEMMA HostElsewhere ==
  ASSUME \/ \E m : \/ Start(m) \/ Continue(m) \/ ReadyIntermission(m) \/ MiniGameInput(m)
                   \/ phase = "playing" /\ LeavePlaying(m)
         \/ \E u, a : JoinTakeover(u, a)
         \/ \E m, seq : GameAction(m, seq)
         \/ ExpireSetResult \/ ExpireRoom \/ AdvanceIntermission \/ RequestDrain
         \/ MiniGameTick
  PROVE  phase' # "waiting"
<1>1. \A ms, humans : StartSet(ms, humans) => phase' # "waiting"
  BY DEF StartSet, PhaseAfter
<1>2. \A e : Progress(e) => phase' # "waiting"
  BY DEF Progress, PhaseAfter
<1>3. (\E m : Start(m) \/ Continue(m)) \/ ExpireSetResult => phase' # "waiting"
  BY <1>1 DEF Start, Continue, ExpireSetResult
<1>4. (\E m, seq : GameAction(m, seq)) \/ AdvanceIntermission => phase' # "waiting"
  BY <1>2 DEF GameAction, AdvanceIntermission
<1>5. (\E m : ReadyIntermission(m) \/ MiniGameInput(m)) => phase' # "waiting"
  BY <1>4 DEF ReadyIntermission, MiniGameInput, InMiniGame, roomVars
<1>6. ExpireRoom \/ RequestDrain \/ MiniGameTick \/ (\E u, a : JoinTakeover(u, a))
        => phase' # "waiting"
  BY DEF ExpireRoom, RequestDrain, PhaseAfter, MiniGameTick, InMiniGame, JoinTakeover
<1>7. phase = "playing" /\ (\E m : LeavePlaying(m)) => phase' # "waiting"
  BY DEF LeavePlaying
<1>8. QED
  BY <1>3, <1>4, <1>5, <1>6, <1>7

LEMMA HostStep ==
  ASSUME TypeInv, OneHostInLobby, [Next]_roomVars
  PROVE  OneHostInLobby'
<1>1. MembersTyped(members) /\ (phase = "waiting" => HasHost(members))
  BY DEF TypeInv, TypeOK, MembersTyped, OneHostInLobby, HasHost
<1>2. CASE \E u \in Users : Join(u)
  <2>1. PICK u \in Users, rank \in 1 .. MaxRank :
          /\ phase' = phase
          /\ members' = [i \in DOMAIN members \cup {u} |->
                           IF i = u THEN NewHuman(u, rank, FALSE, phase = "setResult")
                           ELSE members[i]]
          /\ u \notin DOMAIN members
    BY <1>2 DEF Join
  <2>2. /\ DOMAIN members' = DOMAIN members \cup {u} /\ ~members'[u].isHost
        /\ \A i \in DOMAIN members : members'[i] = members[i]
    BY <2>1 DEF NewHuman
  <2>3. phase' = "waiting" => HasHost(members')
    <3> SUFFICES ASSUME phase' = "waiting" PROVE HasHost(members')
      OBVIOUS
    <3>1. PICK h \in Humans(members) : \A i \in DOMAIN members : members[i].isHost <=> i = h
      BY <1>1, <2>1 DEF HasHost
    <3>2. h \in DOMAIN members /\ h \in Humans(members')
      BY <2>2 DEF Humans
    <3>3. \A i \in DOMAIN members' : members'[i].isHost <=> i = h
      BY <2>1, <2>2, <3>1, <3>2
    <3>4. QED
      BY <3>2, <3>3 DEF HasHost
  <2>4. QED
    BY <2>3 DEF OneHostInLobby, HasHost
<1>3. CASE phase' # "waiting"
  BY <1>3 DEF OneHostInLobby
<1>4. CASE \E m \in DOMAIN members : LeaveTable(m)
  BY <1>4, HostLeaveTable
<1>5. CASE \E m \in MemberId, on \in BOOLEAN : ConnectionChanged(m, on)
  <2>1. /\ DOMAIN members' = DOMAIN members /\ phase' = phase
        /\ \A i \in DOMAIN members :
             /\ members'[i].isAI = members[i].isAI
             /\ members'[i].departed = members[i].departed
             /\ members'[i].isHost = members[i].isHost
    BY <1>1, <1>5 DEF ConnectionChanged, MembersTyped, Member
  <2>2. phase' = "waiting" => HasHost(members')
    BY <1>1, <2>1 DEF HasHost, Humans
  <2>3. QED
    BY <2>2 DEF OneHostInLobby, HasHost
<1>6. CASE Tick
  <2>1. /\ DOMAIN members' = DOMAIN members /\ phase' = phase
        /\ \A i \in DOMAIN members :
             /\ members'[i].isAI = members[i].isAI
             /\ members'[i].departed = members[i].departed
             /\ members'[i].isHost = members[i].isHost
    BY <1>1, <1>6, TickTyped DEF Tick, MembersTyped, Member
  <2>2. phase' = "waiting" => HasHost(members')
    BY <1>1, <2>1 DEF HasHost, Humans
  <2>3. QED
    BY <2>2 DEF OneHostInLobby, HasHost
<1>7. CASE UNCHANGED roomVars
  BY <1>7 DEF OneHostInLobby, Humans, roomVars
<1>8. CASE Next
  <2>1. CASE ByClient
    BY <1>2, <1>3, <1>4, <2>1, HostElsewhere
       DEF ByClient, Leave
  <2>2. CASE ByServer
    BY <1>3, <1>4, <2>2, HostElsewhere DEF ByServer, ExpireWaitingMember, AutoAct
  <2>3. QED
    BY <1>5, <1>6, <1>8, <2>1, <2>2 DEF Next, ByNetwork
<1>9. QED
  BY <1>7, <1>8

\* Whoever leaves the lobby, is timed out, drops out or comes back, there is
\* exactly one host in it who can start the set.
THEOREM OneHost == Spec => []OneHostInLobby
<1>1. Init => OneHostInLobby
  BY DEF Init, OneHostInLobby, Humans, NewHuman
<1>2. QED
  BY <1>1, TypeInit, TypeStep, HostStep, PTL DEF Spec

-----------------------------------------------------------------------------
(* The clock of the player the game waits for.                             *)

\* Whom the game waits for, in terms of what the members are.
LEMMA NextRequestIs ==
  ASSUME NEW ms, NEW e, e.asked \in Seq(MemberId), e.asked # <<>>,
         NextRequest(e, ms) \in Humans(ms)
  PROVE  /\ NextRequest(e, ms) = e.asked[1]
         /\ \A i \in DOMAIN e.asked : e.asked[i] \in DOMAIN ms /\ ~Automated(ms[e.asked[i]])
<1> DEFINE auto == {i \in DOMAIN e.asked : \/ e.asked[i] \notin DOMAIN ms
                                           \/ Automated(ms[e.asked[i]])}
<1>1. DOMAIN e.asked \subseteq Nat
  OBVIOUS
<1>2. ASSUME auto # {} PROVE FALSE
  <2> DEFINE f == [i \in auto |-> i]
             first == CHOOSE i \in auto : \A j \in auto : i <= j
  <2>1. \A i \in auto : f[i] \in Nat
    BY <1>1
  <2>2. \E i \in auto : \A j \in auto : f[i] <= f[j]
    <3> HIDE DEF auto, f
    <3> QED BY <1>2, <2>1, LeastExists
  <2>3. \E i \in auto : \A j \in auto : i <= j
    BY <2>2
  <2>4. first \in auto
    <3> HIDE DEF auto
    <3> QED BY <2>3
  <2>5. NextRequest(e, ms) = e.asked[first]
    BY <1>2 DEF NextRequest
  <2>6. QED
    BY <2>4, <2>5 DEF Humans, Automated
<1>3. auto = {}
  BY <1>2
<1>4. QED
  BY <1>3 DEF NextRequest

\* When m leaves, whoever the game then waits for is waited for already.
LEMMA ClockLeavePlaying ==
  ASSUME TypeInv, HumanIsOnTheClock, NEW m \in Connected(members),
         phase = "playing", LeavePlaying(m)
  PROVE  HumanIsOnTheClock'
<1> SUFFICES ASSUME phase' = "playing", WaitsForPlayer(engine),
                    NextRequest(engine, members') \in Humans(members')
             PROVE  LET p == NextRequest(engine, members')
                    IN  IF ~members'[p].connected
                        THEN turnDeadline \in 0 .. DisconnectedLimit
                        ELSE BasicSolo(members)' \/ turnDeadline \in 0 .. TurnLimit
  BY DEF HumanIsOnTheClock, LeavePlaying
<1>1. MembersTyped(members) /\ engine.asked \in Seq(MemberId) /\ engine.asked # <<>>
  BY DEF TypeInv, TypeOK, MembersTyped, EngineSound, Engine, WaitsForPlayer, GameKinds
<1>2. /\ m \in DOMAIN members /\ DOMAIN members' = DOMAIN members
      /\ members'[m].departed = TRUE
      /\ \A i \in DOMAIN members \ {m} : members'[i] = members[i]
  BY <1>1 DEF LeavePlaying, MembersTyped, Member, Connected, Humans
<1>3. /\ NextRequest(engine, members') = engine.asked[1]
      /\ \A i \in DOMAIN engine.asked :
           engine.asked[i] \in DOMAIN members' /\ ~Automated(members'[engine.asked[i]])
  BY <1>1, NextRequestIs
<1>4. \A i \in DOMAIN engine.asked : engine.asked[i] \in DOMAIN members \ {m}
  BY <1>2, <1>3 DEF Automated
<1>5. NextRequest(engine, members) = engine.asked[1]
  <2>1. \A i \in DOMAIN engine.asked :
          ~(engine.asked[i] \notin DOMAIN members \/ Automated(members[engine.asked[i]]))
    BY <1>2, <1>3, <1>4
  <2>2. {i \in DOMAIN engine.asked : \/ engine.asked[i] \notin DOMAIN members
                                     \/ Automated(members[engine.asked[i]])} = {}
    BY <2>1
  <2>3. QED
    BY <2>2 DEF NextRequest
<1>6. PICK p : p = engine.asked[1]
  OBVIOUS
<1>7. p \in Humans(members) /\ p # m /\ members'[p] = members[p]
  <2>1. p \in Humans(members') /\ p \in DOMAIN members \ {m}
    <3>1. 1 \in DOMAIN engine.asked
      BY <1>1
    <3>2. QED
      BY <1>3, <1>4, <1>6, <3>1
  <2>2. QED
    BY <1>2, <2>1 DEF Humans
<1>8. ~BasicSolo(members)
  <2>1. m \in Humans(members)
    BY DEF Connected
  <2>2. QED
    BY <1>7, <2>1, FS_Singleton, <1>1, SeatsFinite DEF BasicSolo
<1>9. IF ~members[p].connected THEN turnDeadline \in 0 .. DisconnectedLimit
      ELSE turnDeadline \in 0 .. TurnLimit
  BY <1>5, <1>6, <1>7, <1>8 DEF HumanIsOnTheClock
<1>10. QED
  BY <1>3, <1>6, <1>7, <1>9

\* After a step that sets the deadline for the turn.
LEMMA ClockAnew ==
  ASSUME \/ phase' # "playing"
         \/ turnDeadline' = DeadlineForTurn(engine', members') /\ UNCHANGED mode
  PROVE  HumanIsOnTheClock'
<1>1. CASE turnDeadline' = DeadlineForTurn(engine', members') /\ UNCHANGED mode
  BY <1>1, LimitAssumption
     DEF HumanIsOnTheClock, DeadlineForTurn, BasicSolo
<1>2. QED
  BY <1>1 DEF HumanIsOnTheClock

\* The same member is waited for as long as nobody becomes an AI's or ceases to be.
LEMMA NextRequestSame ==
  ASSUME NEW ms, NEW new, DOMAIN new = DOMAIN ms,
         \A i \in DOMAIN ms : new[i].isAI = ms[i].isAI /\ new[i].departed = ms[i].departed,
         NEW e, NEW f, f.asked = e.asked
  PROVE  NextRequest(f, new) = NextRequest(e, ms)
<1> DEFINE auto(x) == {i \in DOMAIN e.asked : \/ e.asked[i] \notin DOMAIN x
                                              \/ Automated(x[e.asked[i]])}
<1>1. auto(new) = auto(ms)
  BY DEF Automated
<1>2. \A x, g : g.asked = e.asked =>
        NextRequest(g, x) = IF auto(x) = {} THEN e.asked[1]
                            ELSE e.asked[CHOOSE i \in auto(x) : \A j \in auto(x) : i <= j]
  BY DEF NextRequest
<1> HIDE DEF auto
<1>3. QED
  BY <1>1, <1>2

LEMMA ClockStep ==
  ASSUME TypeInv, HumanIsOnTheClock, [Next]_roomVars
  PROVE  HumanIsOnTheClock'
<1>1. MembersTyped(members)
  BY DEF TypeInv, TypeOK, MembersTyped
<1>2. ASSUME NEW ms, NEW humans, StartSet(ms, humans) PROVE HumanIsOnTheClock'
  BY <1>2, ClockAnew DEF StartSet
<1>3. ASSUME NEW e, Progress(e) PROVE HumanIsOnTheClock'
  BY <1>3, ClockAnew DEF Progress
<1>4. CASE phase # "playing" /\ UNCHANGED phase
  BY <1>4 DEF HumanIsOnTheClock
<1>5. CASE UNCHANGED <<mode, phase, members, engine, turnDeadline>>
  BY <1>5 DEF HumanIsOnTheClock, BasicSolo
<1>6. CASE \E u \in Users, a \in Ais : JoinTakeover(u, a)
  BY <1>6, ClockAnew DEF JoinTakeover
<1>7. CASE \E m \in MemberId, on \in BOOLEAN : ConnectionChanged(m, on)
  BY <1>7, ClockAnew DEF ConnectionChanged
<1>8. CASE MiniGameTick
  BY <1>8, ClockAnew DEF MiniGameTick
<1>9. CASE \E m \in Connected(members) : Leave(m)
  <2>1. PICK m \in Connected(members) : Leave(m)
    BY <1>9
  <2>2. CASE phase = "playing" /\ LeavePlaying(m)
    BY <2>2, ClockLeavePlaying
  <2>3. CASE phase # "playing" /\ LeaveTable(m)
    BY <1>2, <2>3 DEF LeaveTable, HumanIsOnTheClock
  <2>4. QED
    BY <2>1, <2>2, <2>3 DEF Leave
<1>10. CASE \E m \in MemberId : ExpireWaitingMember(m)
  BY <1>2, <1>10 DEF ExpireWaitingMember, LeaveTable, HumanIsOnTheClock
<1>11. CASE RequestDrain
  <2>1. CASE engine.phase = "interimResult"
    BY <1>11, <2>1, ClockAnew DEF RequestDrain, PhaseAfter
  <2>2. CASE engine.phase = "gameInProgress"
    <3>1. /\ engine' = [engine EXCEPT !.draining = TRUE, !.phase = "gameInProgress"]
          /\ members' = Settled(members, engine')
      BY <1>11, <2>2, DrainTyped
    <3>2. engine'.asked = engine.asked /\ engine'.phase = engine.phase
          /\ engine'.game = engine.game
      BY <2>2, <3>1 DEF TypeInv, TypeOK, Engine
    <3>3. members' = members
      BY <2>2, <3>1, <3>2 DEF Settled
    <3>4. phase' = "playing" /\ turnDeadline' = turnDeadline /\ phase = "playing" /\ mode' = mode
      BY <1>11, <2>2 DEF RequestDrain, PhaseAfter
    <3>5. NextRequest(engine', members') = NextRequest(engine, members)
      BY <3>2, <3>3, NextRequestSame
    <3>6. QED
      BY <3>2, <3>3, <3>4, <3>5 DEF HumanIsOnTheClock, WaitsForPlayer, BasicSolo
  <2>3. QED
    BY <1>11, <2>1, <2>2 DEF RequestDrain
<1>12. CASE Tick
  <2>1. /\ DOMAIN members' = DOMAIN members
        /\ \A i \in DOMAIN members :
             /\ members'[i].isAI = members[i].isAI
             /\ members'[i].departed = members[i].departed
             /\ members'[i].connected = members[i].connected
    BY <1>1, <1>12, TickTyped DEF MembersTyped, Member
  <2>2. NextRequest(engine', members') = NextRequest(engine, members)
    BY <1>12, <2>1, NextRequestSame DEF Tick
  <2>3. Humans(members') = Humans(members)
    BY <2>1 DEF Humans
  <2>4. /\ turnDeadline \in 0 .. DisconnectedLimit => turnDeadline' \in 0 .. DisconnectedLimit
        /\ turnDeadline \in 0 .. TurnLimit => turnDeadline' \in 0 .. TurnLimit
    BY <1>12, LimitAssumption DEF Tick, TimePasses
  <2>5. QED
    BY <1>12, <2>1, <2>2, <2>3, <2>4
       DEF HumanIsOnTheClock, Tick, BasicSolo, Humans
<1>13. CASE ExpireRoom
  BY <1>13 DEF ExpireRoom, HumanIsOnTheClock
<1>14. CASE \E m : Start(m) \/ Continue(m)
  BY <1>2, <1>4, <1>14 DEF Start, Continue
<1>15. CASE ExpireSetResult
  BY <1>2, <1>15 DEF ExpireSetResult, HumanIsOnTheClock
<1>16. CASE (\E m, seq : GameAction(m, seq)) \/ AdvanceIntermission
  BY <1>3, <1>16 DEF GameAction, AdvanceIntermission
<1>17. CASE \E m : ReadyIntermission(m)
  BY <1>5, <1>16, <1>17 DEF ReadyIntermission, clocks
<1>18. CASE \E u \in Users : Join(u)
  BY <1>4, <1>18 DEF Join
<1>19. CASE UNCHANGED roomVars
  BY <1>5, <1>19 DEF roomVars, clocks
<1>20. QED
  BY <1>6, <1>7, <1>8, <1>9, <1>10, <1>11, <1>12, <1>13, <1>14, <1>15, <1>16, <1>17,
     <1>18, <1>19
     DEF Next, ByClient, ByNetwork, ByServer, AutoAct, MiniGameInput

\* A human the game waits for is on the clock, whatever others did meanwhile.
THEOREM OnTheClock == Spec => []HumanIsOnTheClock
<1>1. Init => HumanIsOnTheClock
  BY DEF Init, HumanIsOnTheClock
<1>2. QED
  BY <1>1, TypeInit, TypeStep, ClockStep, PTL DEF Spec

-----------------------------------------------------------------------------
(* The table of a set.                                                     *)

LEMMA TableStartSet ==
  ASSUME NEW ms, MembersTyped(ms), NEW humans \in SUBSET Humans(ms),
         StartSet(ms, humans)
  PROVE  TableIsFull'
<1>0. humans \in SUBSET DOMAIN ms /\ IsFiniteSet(humans)
  <2>1. humans \in SUBSET DOMAIN ms
    BY DEF Humans
  <2>2. QED
    BY <2>1, SeatsFinite, FS_Subset
<1>1. PICK ais \in SUBSET (Ais \ humans) :
        /\ Cardinality(ais) = SeatCount - Cardinality(humans)
        /\ members' = Settled(Table(ms, humans, ais), engine')
        /\ engine'.asked \in Seq(humans \cup ais)
  BY <1>0, StartSetOutcome
<1> DEFINE tb == Table(ms, humans, ais)
<1>2. MembersTyped(tb) /\ DOMAIN tb = humans \cup ais
  <2>1. ais \in SUBSET Ais
    OBVIOUS
  <2>2. QED
    BY <1>0, <2>1, TableTyped
<1>3. \A i \in DOMAIN tb : tb[i].seated = TRUE
  <2>1. \A i \in humans : ms[i] \in Member
    BY <1>0 DEF MembersTyped
  <2>2. \A r \in Member, c \in {"human", "ai"} :
          [r EXCEPT !.seated = TRUE, !.wantsNext = FALSE, !.grace = Never,
                    !.controller = c].seated = TRUE
    BY DEF Member
  <2>3. QED
    BY <1>2, <2>1, <2>2 DEF Table, NewAi
<1> HIDE DEF tb
<1>4. MembersTyped(members') /\ DOMAIN members' = humans \cup ais
  BY <1>1, <1>2, SettledTyped DEF tb
<1>5. \A i \in DOMAIN members' : members'[i].seated = TRUE
  BY <1>1, <1>2, <1>3, <1>4, SettledMembers DEF tb
<1>6. IsFiniteSet(ais) /\ humans \cap ais = {}
  BY UsersAssumption, FS_Subset
<1>7. Cardinality(DOMAIN members') = SeatCount
  <2>1. Cardinality(humans) \in Nat /\ Cardinality(ais) \in Nat
    BY <1>0, <1>6, FS_CardinalityType
  <2>2. Cardinality(humans \cup ais) = Cardinality(humans) + Cardinality(ais) - Cardinality({})
    BY <1>0, <1>6, FS_Union
  <2>3. QED
    BY <1>1, <1>4, <2>1, <2>2, FS_EmptySet, SeatAssumption
<1>8. Cardinality(Humans(members')) <= SeatCount
  <2>1. Humans(members') \in SUBSET DOMAIN members' /\ IsFiniteSet(DOMAIN members')
    BY <1>4, SeatsFinite DEF Humans
  <2>2. QED
    BY <1>7, <2>1, FS_Subset
<1>9. \A i \in DOMAIN engine'.asked : engine'.asked[i] \in DOMAIN members'
  BY <1>1, <1>4
<1>10. QED
  BY <1>5, <1>7, <1>8, <1>9 DEF TableIsFull, Seats

\* A step after which the same members sit at the table.
LEMMA TableKept ==
  ASSUME TypeInv, TableIsFull, DOMAIN members' = DOMAIN members,
         \A i \in DOMAIN members : members'[i].seated = members[i].seated,
         phase' = "playing" => phase = "playing",
         phase' = "playing" =>
           \A i \in DOMAIN engine'.asked : engine'.asked[i] \in DOMAIN members,
         Cardinality(Humans(members')) <= SeatCount
  PROVE  TableIsFull'
BY DEF TableIsFull, Seats

\* Fewer humans than there were are no more than there are seats.
LEMMA HumansFit ==
  ASSUME TypeInv, TableIsFull, Humans(members') \in SUBSET Humans(members)
  PROVE  Cardinality(Humans(members')) <= SeatCount
<1>1. IsFiniteSet(Humans(members))
  BY SeatsFinite DEF TypeInv, TypeOK, MembersTyped
<1>2. /\ Cardinality(Humans(members')) <= Cardinality(Humans(members))
      /\ Cardinality(Humans(members)) \in Nat /\ Cardinality(Humans(members')) \in Nat
  BY <1>1, FS_Subset, FS_CardinalityType
<1>3. QED
  BY <1>2, SeatAssumption DEF TableIsFull

LEMMA TableSettled ==
  ASSUME TypeInv, TableIsFull, phase = "playing", members' = Settled(members, engine'),
         \A i \in DOMAIN engine'.asked : engine'.asked[i] \in DOMAIN members
  PROVE  TableIsFull'
<1>1. MembersTyped(members)
  BY DEF TypeInv, TypeOK, MembersTyped
<1>2. /\ DOMAIN members' = DOMAIN members
      /\ \A i \in DOMAIN members : members'[i].seated = members[i].seated
      /\ \A i \in DOMAIN members : members'[i].isAI = members[i].isAI
                                   /\ (members[i].departed => members'[i].departed)
  <2>1. DOMAIN members' = DOMAIN members
    BY <1>1, SettledTyped
  <2>2. QED
    BY <1>1, <2>1, SettledMembers
<1>3. Humans(members') \in SUBSET Humans(members)
  BY <1>2 DEF Humans
<1>4. QED
  BY <1>2, <1>3, HumansFit, TableKept

LEMMA TableLeaveTable ==
  ASSUME TypeInv, TableIsFull, phase # "playing", NEW m \in DOMAIN members, LeaveTable(m)
  PROVE  TableIsFull'
<1>1. PICK ms : ms = WithoutMember(members, m)
  OBVIOUS
<1>2. MembersTyped(members)
  BY DEF TypeInv, TypeOK, MembersTyped
<1>3. /\ MembersTyped(ms) /\ DOMAIN ms = DOMAIN members \ {m}
      /\ Connected(ms) \in SUBSET Humans(ms)
      /\ \A i \in DOMAIN ms : ms[i].isAI = members[i].isAI
                              /\ ms[i].departed = members[i].departed
  <2>1. \A i \in DOMAIN ms : ms[i].isAI = members[i].isAI
                             /\ ms[i].departed = members[i].departed
    BY <1>1, <1>2, WithoutMemberKeeps
  <2>2. QED
    BY <1>1, <1>2, <2>1, WithoutMemberDomain
<1>4. CASE StartSet(ms, Connected(ms))
  BY <1>3, <1>4, TableStartSet
<1>5. CASE members' = ms /\ phase' # "playing"
  <2>1. Humans(members') \in SUBSET Humans(members)
    BY <1>3, <1>5 DEF Humans
  <2>2. QED
    BY <1>5, <2>1, HumansFit DEF TableIsFull
<1>6. QED
  BY <1>1, <1>4, <1>5 DEF LeaveTable

LEMMA TableStep ==
  ASSUME TypeInv, TableIsFull, [Next]_roomVars
  PROVE  TableIsFull'
<1>1. /\ MembersTyped(members) /\ IsFiniteSet(DOMAIN members)
      /\ Humans(members) \in SUBSET DOMAIN members /\ IsFiniteSet(Humans(members))
  <2>1. MembersTyped(members)
    BY DEF TypeInv, TypeOK, MembersTyped
  <2>2. QED
    BY <2>1, SeatsFinite
<1>2. CASE \E u \in Users : Join(u)
  <2>1. PICK u \in Users, rank \in 1 .. MaxRank :
          /\ phase' = phase /\ phase # "playing"
          /\ Cardinality(Humans(members)) < SeatCount
          /\ members' = [i \in DOMAIN members \cup {u} |->
                           IF i = u THEN NewHuman(u, rank, FALSE, phase = "setResult")
                           ELSE members[i]]
          /\ u \notin DOMAIN members
    BY <1>2 DEF Join
  <2>2. /\ DOMAIN members' = DOMAIN members \cup {u}
        /\ \A i \in DOMAIN members : members'[i] = members[i]
    BY <2>1
  <2>3. Humans(members') \in SUBSET (Humans(members) \cup {u})
    BY <2>2 DEF Humans
  <2>4. /\ IsFiniteSet(Humans(members) \cup {u})
        /\ Cardinality(Humans(members) \cup {u}) <= Cardinality(Humans(members)) + 1
        /\ Cardinality(Humans(members)) \in Nat
    <3>1. Cardinality(Humans(members)) \in Nat
      BY <1>1, FS_CardinalityType
    <3>2. /\ IsFiniteSet(Humans(members) \cup {u})
          /\ Cardinality(Humans(members) \cup {u}) =
               IF u \in Humans(members) THEN Cardinality(Humans(members))
               ELSE Cardinality(Humans(members)) + 1
      BY <1>1, FS_AddElement
    <3> QED
      BY <3>1, <3>2
  <2>5. /\ Cardinality(Humans(members')) <= Cardinality(Humans(members) \cup {u})
        /\ Cardinality(Humans(members')) \in Nat
        /\ Cardinality(Humans(members) \cup {u}) \in Nat
    BY <2>3, <2>4, FS_Subset, FS_CardinalityType
  <2>6. Cardinality(Humans(members')) <= SeatCount
    BY <2>1, <2>4, <2>5, SeatAssumption
  <2>7. QED
    BY <2>1, <2>6 DEF TableIsFull
<1>3. CASE \E u \in Users, a \in Ais : JoinTakeover(u, a)
  <2>1. PICK u \in Users, a \in DOMAIN members, rank \in 1 .. MaxRank :
          /\ phase' = phase /\ phase = "playing" /\ engine' = engine
          /\ members' = [members EXCEPT ![a] =
                        [NewHuman(u, rank, FALSE, FALSE) EXCEPT
                           !.seated = members[a].seated]]
    BY <1>3 DEF JoinTakeover
  <2>2. /\ DOMAIN members' = DOMAIN members
        /\ \A i \in DOMAIN members : members'[i].seated = members[i].seated
    BY <1>1, <2>1 DEF NewHuman, MembersTyped
  <2>3. Humans(members') \in SUBSET DOMAIN members
    BY <2>2 DEF Humans
  <2>4. Cardinality(Humans(members')) <= SeatCount
    BY <1>1, <2>1, <2>3, FS_Subset DEF TableIsFull
  <2>5. QED
    BY <2>1, <2>2, <2>4, TableKept DEF TableIsFull
<1>4. CASE \E m \in Connected(members) : Start(m)
  BY <1>1, <1>4, TableStartSet DEF Start
<1>5. CASE \E m \in Connected(members) : Continue(m)
  <2>0. PICK m \in DOMAIN members : Continue(m)
    BY <1>5 DEF Connected, Humans
  <2>1. PICK ms : Continue(m) /\ ms = [members EXCEPT ![m].wantsNext = TRUE]
    BY <2>0
  <2>2. /\ MembersTyped(ms) /\ DOMAIN ms = DOMAIN members
        /\ Connected(ms) \in SUBSET Humans(ms)
        /\ Humans(ms) = Humans(members)
    <3>1. \A r \in Member : /\ [r EXCEPT !.wantsNext = TRUE] \in Member
                            /\ [r EXCEPT !.wantsNext = TRUE].isAI = r.isAI
                            /\ [r EXCEPT !.wantsNext = TRUE].departed = r.departed
      BY DEF Member
    <3>2. ms = [members EXCEPT ![m] = [members[m] EXCEPT !.wantsNext = TRUE]]
      BY <2>1
    <3>3. MembersTyped(ms) /\ DOMAIN ms = DOMAIN members
      BY <1>1, <3>1, <3>2 DEF MembersTyped
    <3>4. \A i \in DOMAIN ms : ms[i].isAI = members[i].isAI
                               /\ ms[i].departed = members[i].departed
      BY <1>1, <3>1, <3>2 DEF MembersTyped
    <3>5. QED
      BY <3>3, <3>4 DEF Humans, Connected
  <2>3. StartSet(ms, Connected(ms)) \/ (members' = ms /\ phase' = phase)
    BY <2>1 DEF Continue
  <2>4. QED
    BY <2>1, <2>2, <2>3, TableStartSet DEF TableIsFull, Continue
<1>6. CASE \E m \in Connected(members) : Leave(m)
  <2>1. PICK m \in DOMAIN members : Leave(m)
    BY <1>6 DEF Leave
  <2>2. CASE LeavePlaying(m) /\ phase = "playing"
    <3>1. /\ DOMAIN members' = DOMAIN members /\ engine' = engine
          /\ \A i \in DOMAIN members :
               /\ members'[i].seated = members[i].seated
               /\ members'[i].isAI = members[i].isAI
               /\ members[i].departed => members'[i].departed
      BY <1>1, <2>2 DEF LeavePlaying, MembersTyped, Member
    <3>2. Humans(members') \in SUBSET Humans(members)
      BY <3>1 DEF Humans
    <3>3. QED
      BY <2>2, <3>1, <3>2, HumansFit, TableKept DEF TableIsFull
  <2>3. CASE phase # "playing" /\ LeaveTable(m)
    BY <2>3, TableLeaveTable
  <2>4. QED
    BY <2>1, <2>2, <2>3 DEF Leave
<1>7. CASE \E m \in MemberId, on \in BOOLEAN : ConnectionChanged(m, on)
  <2>1. /\ DOMAIN members' = DOMAIN members /\ phase' = phase /\ engine' = engine
        /\ \A i \in DOMAIN members :
             /\ members'[i].isAI = members[i].isAI
             /\ members'[i].departed = members[i].departed
             /\ members'[i].seated = members[i].seated
    BY <1>1, <1>7 DEF ConnectionChanged, MembersTyped, Member
  <2>2. Humans(members') \in SUBSET Humans(members)
    BY <2>1 DEF Humans
  <2>3. QED
    BY <2>1, <2>2, HumansFit, TableKept DEF TableIsFull
<1>8. CASE ExpireSetResult
  <2>1. PICK staying, ms : /\ staying = {i \in Connected(members) : members[i].wantsNext}
                           /\ ms = Restricted(members, staying)
    OBVIOUS
  <2>2. staying \subseteq Humans(members) /\ staying \subseteq DOMAIN members
    BY <2>1 DEF Connected, Humans
  <2>3. MembersTyped(ms) /\ staying \in SUBSET Humans(ms)
    BY <1>1, <2>1, <2>2 DEF Restricted, MembersTyped, Humans
  <2>4. \/ StartSet(ms, staying)
        \/ members' = Restricted(members, {}) /\ phase' = "closed"
    BY <1>8, <2>1 DEF ExpireSetResult
  <2>5. Humans(Restricted(members, {})) = {}
    BY DEF Restricted, Humans
  <2>6. QED
    BY <2>3, <2>4, <2>5, TableStartSet, HumansFit DEF TableIsFull
<1>9. CASE ExpireRoom
  <2>1. Humans(members') = {} /\ phase' = "closed"
    BY <1>9 DEF ExpireRoom, Restricted, Humans
  <2>2. QED
    BY <2>1, HumansFit DEF TableIsFull
<1>10. CASE \E m \in MemberId : ExpireWaitingMember(m)
  BY <1>10, TableLeaveTable DEF ExpireWaitingMember
<1>11. CASE \E m, seq : GameAction(m, seq)
  <2>1. PICK m, e : /\ e \in AfterMove(engine, m, Seats(members))
                    /\ WaitsForPlayer(engine) /\ Progress(e) /\ phase = "playing"
    BY <1>11 DEF GameAction
  <2>2. e.asked \in Seq(DOMAIN members)
    <3>1. /\ DOMAIN members \subseteq MemberId
          /\ IsFiniteSet(Seats(members)) /\ Seats(members) \subseteq DOMAIN members
          /\ EngineSound(engine)
      BY <1>1, SeatsFinite DEF TypeInv, MembersTyped
    <3>2. engine.asked \in Seq(DOMAIN members)
      <4>1. engine.asked \in Seq(MemberId)
        BY DEF TypeInv, TypeOK, Engine
      <4>2. \A i \in DOMAIN engine.asked : engine.asked[i] \in DOMAIN members
        BY <2>1 DEF TableIsFull
      <4>3. QED
        BY <4>1, <4>2
    <3>3. QED
      BY <2>1, <3>1, <3>2, AfterMoveSound DEF WaitsForPlayer
  <2>3. engine' = e /\ members' = Settled(members, e)
    BY <2>1 DEF Progress
  <2>4. QED
    BY <2>1, <2>2, <2>3, TableSettled
<1>12. CASE AdvanceIntermission
  <2>1. PICK e \in StartGame(engine, Seats(members)) : Progress(e)
    BY <1>12 DEF AdvanceIntermission
  <2>2. e.asked \in Seq(Seats(members))
    <3>1. /\ IsFiniteSet(Seats(members)) /\ Seats(members) \subseteq MemberId
          /\ engine \in Engine /\ engine.results < GamesPerSet
      BY <1>1, <1>12, SeatsFinite DEF AdvanceIntermission, TypeInv, EngineSound
    <3>2. QED
      BY <2>1, <3>1, StartGameSound
  <2>3. engine' = e /\ members' = Settled(members, e) /\ phase = "playing"
    BY <1>12, <2>1 DEF Progress, AdvanceIntermission
  <2>4. Seats(members) \subseteq DOMAIN members
    BY DEF Seats
  <2>5. QED
    BY <2>2, <2>3, <2>4, TableSettled
<1>13. CASE RequestDrain
  <2>1. members' = Settled(members, engine') /\ phase = "playing"
        /\ engine'.asked = engine.asked
    BY <1>13, DrainTyped DEF RequestDrain, TypeInv, TypeOK, Engine
  <2>2. QED
    BY <2>1, TableSettled DEF TableIsFull
<1>14. CASE MiniGameTick
  <2>1. /\ phase' = phase /\ members' = members /\ phase = "playing"
        /\ \/ engine' = [engine EXCEPT !.left = @ - 1]
           \/ engine' \in AfterMiniGame(engine, Seats(members))
    BY <1>14 DEF MiniGameTick, InMiniGame
  <2>2. \A i \in DOMAIN engine'.asked : engine'.asked[i] \in DOMAIN members
    <3>1. CASE engine' = [engine EXCEPT !.left = @ - 1]
      <4>1. engine'.asked = engine.asked
        BY <3>1 DEF TypeInv, TypeOK, Engine
      <4>2. QED
        BY <2>1, <4>1 DEF TableIsFull
    <3>2. CASE engine' \in AfterMiniGame(engine, Seats(members))
      <4>1. /\ IsFiniteSet(Seats(members)) /\ Seats(members) \subseteq MemberId
            /\ Seats(members) \subseteq DOMAIN members
            /\ engine \in Engine /\ engine.results < GamesPerSet
        BY <1>1, <1>14, SeatsFinite
           DEF MiniGameTick, InMiniGame, TypeInv, EngineSound, GameKinds
      <4>2. engine'.asked \in Seq(Seats(members))
        BY <3>2, <4>1, AfterMiniGameSound
      <4>3. QED
        BY <4>1, <4>2
    <3>3. QED
      BY <2>1, <3>1, <3>2
  <2>3. QED
    BY <2>1, <2>2 DEF TableIsFull
<1>15. CASE Tick
  <2>1. /\ DOMAIN members' = DOMAIN members /\ phase' = phase /\ engine' = engine
        /\ \A i \in DOMAIN members :
             /\ members'[i].isAI = members[i].isAI
             /\ members'[i].departed = members[i].departed
             /\ members'[i].seated = members[i].seated
    BY <1>1, <1>15, TickTyped DEF Tick, MembersTyped, Member
  <2>2. Humans(members') \in SUBSET Humans(members)
    BY <2>1 DEF Humans
  <2>3. QED
    BY <2>1, <2>2, HumansFit, TableKept DEF TableIsFull
<1>16. CASE UNCHANGED <<members, phase, engine>>
  BY <1>16 DEF TableIsFull
<1>17. QED
  BY <1>2, <1>3, <1>4, <1>5, <1>6, <1>7, <1>8, <1>9, <1>10, <1>11, <1>12, <1>13, <1>14,
     <1>15, <1>16
     DEF Next, ByClient, ByNetwork, ByServer, AutoAct, MiniGameInput,
         ReadyIntermission, roomVars, clocks

LEMMA TableInit == Init => TableIsFull
<1> SUFFICES ASSUME Init PROVE TableIsFull
  OBVIOUS
<1>1. PICK u \in Users : members = [i \in {u} |-> NewHuman(u, 1, TRUE, FALSE)]
  BY DEF Init
<1>2. Humans(members) = {u}
  BY <1>1 DEF Humans, NewHuman
<1>3. Cardinality(Humans(members)) = 1
  BY <1>2, FS_Singleton
<1>4. QED
  BY <1>3, SeatAssumption DEF Init, TableIsFull

\* A set is played by as many members as there are seats, and the game waits
\* only for them: no order of joins, takeovers and departures changes that.
THEOREM FullTable == Spec => []TableIsFull
BY TableInit, TypeInit, TypeStep, TableStep, PTL DEF Spec

-----------------------------------------------------------------------------
(* What a step never does: take a seat away.                               *)

\* The seats of users in a step from members ms to members new, in which the
\* result of the set may be (over) or is not yet reached.
SeatsStay(ms, new, over) ==
  \A i \in DOMAIN ms : ~ms[i].isAI =>
    /\ i \in DOMAIN new
    /\ new[i].user = ms[i].user /\ ~new[i].isAI
    /\ ms[i].departed => new[i].departed
    /\ ~ms[i].departed /\ new[i].departed =>
         ~new[i].connected /\ (ms[i].connected \/ over)

LEMMA SeatsStaySettled ==
  ASSUME TypeInv, members' = Settled(members, engine'),
         phase' = PhaseAfter(engine', members'), phase' # "closed"
  PROVE  SeatsStay(members, members', phase' = "setResult")
<1>1. MembersTyped(members)
  BY DEF TypeInv, TypeOK, MembersTyped
<1>2. /\ DOMAIN members' = DOMAIN members
      /\ \A i \in DOMAIN members :
           /\ members'[i].user = members[i].user /\ members'[i].isAI = members[i].isAI
           /\ members'[i].connected = members[i].connected
           /\ members[i].departed => members'[i].departed
           /\ members'[i].departed /\ ~members[i].departed =>
                engine'.phase = "setResult" /\ ~members[i].connected
  <2>1. DOMAIN members' = DOMAIN members
    BY <1>1, SettledTyped
  <2>2. QED
    BY <1>1, <2>1, SettledMembers
<1>3. engine'.phase = "setResult" => phase' = "setResult"
  BY DEF PhaseAfter
<1>4. QED
  BY <1>2, <1>3 DEF SeatsStay

LEMMA SeatsStayStep ==
  ASSUME TypeInv, [Next]_roomVars, phase = "playing", phase' # "closed"
  PROVE  SeatsStay(members, members', phase' = "setResult")
<1>1. MembersTyped(members)
  BY DEF TypeInv, TypeOK, MembersTyped
<1>2. CASE \E u \in Users, a \in Ais : JoinTakeover(u, a)
  <2>1. PICK u \in Users, a \in DOMAIN members, rank \in 1 .. MaxRank :
          /\ members[a].isAI
          /\ members' = [members EXCEPT ![a] =
                        [NewHuman(u, rank, FALSE, FALSE) EXCEPT
                           !.seated = members[a].seated]]
    BY <1>2 DEF JoinTakeover
  <2>2. /\ DOMAIN members' = DOMAIN members
        /\ \A i \in DOMAIN members \ {a} : members'[i] = members[i]
    BY <1>1, <2>1 DEF MembersTyped
  <2>3. QED
    BY <2>1, <2>2 DEF SeatsStay
<1>3. CASE \E m \in Connected(members) : LeavePlaying(m)
  <2>1. PICK m \in Connected(members) : LeavePlaying(m)
    BY <1>3
  <2>2. /\ DOMAIN members' = DOMAIN members
        /\ members[m].connected /\ ~members'[m].connected
        /\ members'[m].user = members[m].user /\ members'[m].isAI = members[m].isAI
        /\ members'[m].departed
        /\ \A i \in DOMAIN members \ {m} : members'[i] = members[i]
    BY <1>1, <2>1 DEF LeavePlaying, MembersTyped, Member, Connected, Humans
  <2>3. QED
    BY <2>2 DEF SeatsStay
<1>4. CASE (\E m \in MemberId, on \in BOOLEAN : ConnectionChanged(m, on)) \/ Tick
  <2>1. /\ DOMAIN members' = DOMAIN members
        /\ \A i \in DOMAIN members :
             /\ members'[i].user = members[i].user
             /\ members'[i].isAI = members[i].isAI
             /\ members'[i].departed = members[i].departed
    <3>1. CASE \E m \in MemberId, on \in BOOLEAN : ConnectionChanged(m, on)
      BY <1>1, <3>1 DEF ConnectionChanged, MembersTyped, Member
    <3>2. CASE Tick
      BY <1>1, <3>2 DEF Tick, MembersTyped, Member
    <3>3. QED
      BY <1>4, <3>1, <3>2
  <2>2. QED
    BY <2>1 DEF SeatsStay
<1>5. CASE (\E m, seq : GameAction(m, seq)) \/ AdvanceIntermission \/ RequestDrain
  <2>1. members' = Settled(members, engine') /\ phase' = PhaseAfter(engine', members')
    <3>1. CASE RequestDrain
      BY <3>1, DrainTyped DEF RequestDrain
    <3>2. CASE (\E m, seq : GameAction(m, seq)) \/ AdvanceIntermission
      BY <3>2 DEF GameAction, AdvanceIntermission, Progress
    <3>3. QED
      BY <1>5, <3>1, <3>2
  <2>2. QED
    BY <2>1, SeatsStaySettled
<1>6. CASE UNCHANGED members
  BY <1>6 DEF SeatsStay
<1>7. QED
  BY <1>2, <1>3, <1>4, <1>5, <1>6
     DEF Next, ByClient, ByNetwork, ByServer, AutoAct, MiniGameInput, MiniGameTick,
         ReadyIntermission, Join, Start, Continue, Leave, ExpireSetResult, ExpireRoom,
         ExpireWaitingMember, roomVars, clocks

\* While a set runs nobody loses a seat but by leaving, or by being offline when
\* the set ends.
THEOREM SeatsKept == Spec => SeatIsKept
<1>1. TypeInv /\ [Next]_roomVars =>
        [phase = "playing" /\ phase' # "closed" =>
           SeatsStay(members, members', phase' = "setResult")]_roomVars
  BY SeatsStayStep
<1>2. QED
  BY <1>1, TypeInit, TypeStep, PTL DEF Spec, SeatIsKept, SeatsStay


-----------------------------------------------------------------------------
(* Who is dealt into a further set.                                        *)

\* The result of a set is shown under a running clock, also if a mini game may
\* end a game.
ResultClock == phase = "setResult" => respondBy # Never

LEMMA ResultClockStep ==
  ASSUME TypeInv, ResultClock, [Next]_roomVars
  PROVE  ResultClock'
<1>1. MembersTyped(members)
  BY DEF TypeInv, TypeOK, MembersTyped
<1>2. respondBy' = RespondAfter(phase') => ResultClock'
  BY LimitAssumption DEF RespondAfter, ResultClock, Never
<1>3. ASSUME NEW ms, MembersTyped(ms), NEW humans \in SUBSET DOMAIN ms,
             StartSet(ms, humans)
      PROVE  ResultClock'
  BY <1>2, <1>3, StartSetOutcome
<1>4. ASSUME NEW m \in DOMAIN members, LeaveTable(m) PROVE ResultClock'
  <2>1. PICK ms : ms = WithoutMember(members, m)
    OBVIOUS
  <2>2. MembersTyped(ms) /\ Connected(ms) \in SUBSET DOMAIN ms
    BY <1>1, <1>4, <2>1, WithoutMemberDomain
  <2>3. \/ StartSet(ms, Connected(ms))
        \/ phase' \in {"closed", phase} /\ respondBy' = respondBy
    BY <1>4, <2>1 DEF LeaveTable
  <2>4. QED
    BY <1>3, <2>2, <2>3 DEF ResultClock
<1>5. CASE \E m \in Connected(members) : Start(m)
  <2>1. Humans(members) \in SUBSET DOMAIN members
    BY DEF Humans
  <2>2. QED
    BY <1>1, <1>3, <1>5, <2>1 DEF Start
<1>6. CASE \E m \in Connected(members) : Continue(m)
  <2>0. PICK m \in Connected(members) : Continue(m)
    BY <1>6
  <2>1. PICK ms :
          /\ ms = [members EXCEPT ![m].wantsNext = TRUE]
          /\ StartSet(ms, Connected(ms)) \/ UNCHANGED <<phase, respondBy>>
    BY <2>0 DEF Continue, clocks
  <2>2. MembersTyped(ms)
    <3>1. /\ m \in DOMAIN members
          /\ ms = [members EXCEPT ![m] = [members[m] EXCEPT !.wantsNext = TRUE]]
      BY <1>1, <2>1 DEF Connected, Humans, MembersTyped, Member
    <3>2. [members[m] EXCEPT !.wantsNext = TRUE] \in Member
      BY <1>1, <3>1 DEF MembersTyped, Member
    <3>3. QED
      BY <1>1, <3>1, <3>2 DEF MembersTyped
  <2>3. Connected(ms) \in SUBSET DOMAIN ms
    BY DEF Connected, Humans
  <2>4. QED
    BY <1>3, <2>1, <2>2, <2>3 DEF ResultClock
<1>7. CASE ExpireSetResult
  <2>0. PICK staying \in SUBSET DOMAIN members :
          StartSet(Restricted(members, staying), staying) \/ phase' = "closed"
    BY <1>7 DEF ExpireSetResult, Connected, Humans
  <2>1. PICK ms :
          /\ ms = [i \in staying |-> members[i]]
          /\ StartSet(ms, staying) \/ phase' = "closed"
    BY <2>0 DEF Restricted
  <2>2. MembersTyped(ms) /\ staying \in SUBSET DOMAIN ms
    BY <1>1, <2>1 DEF MembersTyped
  <2>3. QED
    BY <1>3, <2>1, <2>2 DEF ResultClock
<1>8. CASE \/ \E m \in Connected(members) : Leave(m)
           \/ \E m \in MemberId : ExpireWaitingMember(m)
  BY <1>4, <1>8 DEF Leave, LeavePlaying, ExpireWaitingMember, ResultClock
<1>9. CASE (\E m, seq : GameAction(m, seq)) \/ AdvanceIntermission \/ RequestDrain
  BY <1>2, <1>9 DEF GameAction, AdvanceIntermission, Progress, RequestDrain
<1>10. CASE Tick
  BY <1>10, LimitAssumption DEF Tick, TimePasses, Never, TypeInv, TypeOK, TimeLeft,
     ResultClock
<1>11. CASE UNCHANGED <<phase, respondBy>> \/ phase' = "closed"
  BY <1>11 DEF ResultClock
<1>12. QED
  BY <1>5, <1>6, <1>7, <1>8, <1>9, <1>10, <1>11
     DEF Next, ByClient, ByNetwork, ByServer, AutoAct, MiniGameInput, MiniGameTick,
         Join, JoinTakeover, ConnectionChanged, ReadyIntermission, ExpireRoom,
         roomVars, clocks

\* The humans of the members new were dealt in with the consent the property
\* asks for, when ms were the members and the clock stood at left.
Consented(ms, new, left) ==
  LET dealt   == {i \in DOMAIN new : ~new[i].isAI}
      online  == Connected(ms)
      willing == {i \in online : ms[i].wantsNext}
  IN  /\ dealt \subseteq online
      /\ Cardinality(dealt \ willing) + Cardinality(willing \ dealt) <= 1
      /\ (left = 0 \/ Cardinality(online \ dealt) <= 1)

LEMMA ConsentStep ==
  ASSUME TypeInv, ResultClock, [Next]_roomVars, phase = "setResult", setNo' # setNo
  PROVE  Consented(members, members', respondBy)
<1> DEFINE dealt   == {i \in DOMAIN members' : ~members'[i].isAI}
           online  == Connected(members)
           willing == {i \in online : members[i].wantsNext}
<1>1. MembersTyped(members)
  BY DEF TypeInv, TypeOK, MembersTyped
<1>2. ASSUME NEW ms, MembersTyped(ms), NEW humans \in SUBSET Humans(ms),
             StartSet(ms, humans)
      PROVE  dealt = humans
  BY <1>2, StartSetMembers DEF NewAi
<1>3. /\ Cardinality({}) = 0
      /\ \A m, S : S \subseteq {m} => Cardinality(S) \in {0, 1}
  <2>1. \A m, S : S \subseteq {m} => S = {} \/ S = {m}
    OBVIOUS
  <2>2. QED
    BY <2>1, FS_EmptySet, FS_Singleton
<1> HIDE DEF dealt, willing
<1>8. ASSUME dealt \subseteq online, NEW m,
             \/ /\ dealt \ willing = {m} /\ willing \ dealt = {}
                /\ online \ dealt = {}
             \/ /\ dealt \ willing = {} /\ willing \ dealt \subseteq {m}
                /\ respondBy = 0 \/ online \ dealt \subseteq {m}
      PROVE  Consented(members, members', respondBy)
  <2>1. /\ Cardinality(dealt \ willing) + Cardinality(willing \ dealt) <= 1
        /\ respondBy = 0 \/ Cardinality(online \ dealt) <= 1
    <3>1. CASE dealt \ willing = {m} /\ willing \ dealt = {} /\ online \ dealt = {}
      <4>1. Cardinality({m}) = 1
        BY FS_Singleton
      <4>2. QED
        BY <1>3, <3>1, <4>1
    <3>2. CASE /\ dealt \ willing = {} /\ willing \ dealt \subseteq {m}
               /\ respondBy = 0 \/ online \ dealt \subseteq {m}
      <4>1. /\ Cardinality(dealt \ willing) = 0
            /\ Cardinality(willing \ dealt) \in {0, 1}
            /\ respondBy = 0 \/ Cardinality(online \ dealt) \in {0, 1}
        BY <1>3, <3>2
      <4>2. QED
        BY <4>1
    <3>3. QED
      BY <1>8, <3>1, <3>2
  <2>2. QED
    BY <1>8, <2>1 DEF Consented, dealt, willing
<1> USE DEF willing
<1>4. CASE \E m \in Connected(members) : Continue(m)
  <2>0. PICK m \in Connected(members) : Continue(m)
    BY <1>4
  <2>1. PICK ms :
          /\ ~members[m].wantsNext
          /\ ms = [members EXCEPT ![m].wantsNext = TRUE]
          /\ \A i \in Connected(ms) : ms[i].wantsNext
          /\ StartSet(ms, Connected(ms))
    BY <2>0 DEF Continue
  <2>2. /\ MembersTyped(ms) /\ Connected(ms) \in SUBSET Humans(ms)
        /\ Connected(ms) = online
        /\ \A i \in online \ {m} : members[i].wantsNext
    BY <1>1, <2>1 DEF MembersTyped, Member, Connected, Humans
  <2>3. dealt = online
    BY <1>2, <2>1, <2>2
  <2>4. dealt \ willing = {m} /\ willing \ dealt = {} /\ online \ dealt = {}
    BY <2>1, <2>2, <2>3
  <2>5. QED
    BY <1>8, <2>3, <2>4
<1>5. CASE \E m \in Connected(members) : Leave(m)
  <2>1. PICK m \in Connected(members) : LeaveTable(m)
    BY <1>5 DEF Leave
  <2>2. PICK ms : ms = WithoutMember(members, m)
    OBVIOUS
  <2>3. m \in DOMAIN members
    BY DEF Connected, Humans
  <2>4. StartSet(ms, Connected(ms)) /\ \A i \in Connected(ms) : ms[i].wantsNext
    BY <2>1, <2>2 DEF LeaveTable
  <2>5. /\ MembersTyped(ms) /\ Connected(ms) \in SUBSET Humans(ms)
        /\ DOMAIN ms = DOMAIN members \ {m}
    BY <1>1, <2>2, <2>3, WithoutMemberDomain
  <2>6. \A i \in DOMAIN ms :
          /\ ms[i].isAI = members[i].isAI /\ ms[i].connected = members[i].connected
          /\ ms[i].departed = members[i].departed
          /\ ms[i].wantsNext = members[i].wantsNext
    <3>1. \A i \in DOMAIN ms :
            \E host \in BOOLEAN : ms[i] = [members[i] EXCEPT !.isHost = host]
      <4>1. \A i \in DOMAIN members \ {m} : \E host \in BOOLEAN :
              WithoutMember(members, m)[i] = [members[i] EXCEPT !.isHost = host]
        BY <1>1, <2>3, WithoutMemberTyped
      <4>2. QED
        BY <2>2, <2>5, <4>1
    <3>2. \A i \in DOMAIN ms : members[i] \in Member
      BY <1>1, <2>5 DEF MembersTyped
    <3>3. QED
      BY <3>1, <3>2 DEF Member
  <2>7. Connected(ms) = online \ {m}
    BY <2>5, <2>6 DEF Connected, Humans
  <2>8. dealt = online \ {m}
    BY <1>2, <2>4, <2>5, <2>7
  <2>9. \A i \in online \ {m} : i \in DOMAIN ms /\ members[i].wantsNext
    BY <2>4, <2>5, <2>6, <2>7 DEF Connected, Humans
  <2>10. dealt \ willing = {} /\ willing \ dealt \subseteq {m} /\ online \ dealt \subseteq {m}
    BY <2>8, <2>9
  <2>11. QED
    BY <1>8, <2>8, <2>10
<1>6. CASE ExpireSetResult
  <2>1. PICK ms : /\ ms = [i \in willing |-> members[i]]
                  /\ StartSet(ms, willing)
    BY <1>6 DEF ExpireSetResult, Restricted
  <2>2. MembersTyped(ms) /\ willing \in SUBSET Humans(ms)
    BY <1>1, <2>1 DEF MembersTyped, Connected, Humans
  <2>3. dealt = willing
    BY <1>2, <2>1, <2>2
  <2>4. respondBy = 0
    BY <1>6 DEF ExpireSetResult, ResultClock, TypeInv, TypeOK, TimeLeft, Never
  <2>5. dealt \ willing = {} /\ willing \ dealt \subseteq {0} /\ dealt \subseteq online
    BY <2>3
  <2>6. QED
    BY <1>8, <2>4, <2>5
<1>7. QED
  BY <1>4, <1>5, <1>6
     DEF Next, ByClient, ByNetwork, ByServer, AutoAct, GameAction, MiniGameInput,
         MiniGameTick, Join, JoinTakeover, Start, ConnectionChanged,
         ReadyIntermission, AdvanceIntermission, InMiniGame, RequestDrain, ExpireRoom,
         ExpireWaitingMember, Tick, roomVars, clocks

\* Nobody is dealt into a further set against his will but the one member whose
\* step it is, nobody who is offline, and nobody who is there is passed over
\* before the response clock has run out.
THEOREM ConsentNeeded == Spec => NextSetNeedsConsent
<1>1. Init => ResultClock
  BY DEF Init, ResultClock
<1>2. TypeInv /\ ResultClock /\ [Next]_roomVars =>
        [phase = "setResult" /\ setNo' # setNo =>
           Consented(members, members', respondBy)]_roomVars
  BY ConsentStep
<1>3. TypeInv /\ ResultClock /\ [Next]_roomVars => ResultClock'
  BY ResultClockStep
<1>4. QED
  BY <1>1, <1>2, <1>3, TypeInit, TypeStep, PTL
     DEF Spec, NextSetNeedsConsent, Consented
=============================================================================
