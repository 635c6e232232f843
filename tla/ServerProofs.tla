----------------------------- MODULE ServerProofs -----------------------------
(***************************************************************************)
(* Safety of RoomServer.tla, proved for every value of its constants.      *)
(*                                                                         *)
(* The room under the server takes the steps of Room.tla and one of the    *)
(* manager's own, the sweep of the lobby.  To show that, one has to know   *)
(* that who acts is online, that a timer which fires is the one the room   *)
(* calls for, and that a decision of the AI comes for a member who is      *)
(* played by it or out of time; and all this holds only as long as the     *)
(* room takes no other steps.  So the two are proved together, as one      *)
(* inductive invariant.                                                    *)
(***************************************************************************)
EXTENDS RoomServer, RoomSafety

-----------------------------------------------------------------------------
(* What the steps of the room do to a member.                              *)

\* A member goes on from the record old to the record new, without having
\* come, gone offline or come back.
Carried(old, new) ==
  /\ new.user = old.user /\ new.isAI = old.isAI /\ new.joinedAt = old.joinedAt
  /\ old.departed => new.departed
  /\ ~new.departed => new.connected = old.connected
  /\ old.isAI => /\ new.connected = old.connected /\ new.departed = old.departed
                 /\ new.controller = old.controller

CarriedFrom(ms, new) ==
  \A i \in DOMAIN new : \/ i \in Ais /\ new[i] = NewAi
                        \/ i \in DOMAIN ms /\ Carried(ms[i], new[i])

\* Somebody comes into the room, goes offline or comes back.
Presence ==
  \/ \E u \in Users : Join(u) \/ \E a \in Ais : JoinTakeover(u, a)
  \/ \E m \in MemberId, on \in BOOLEAN : ConnectionChanged(m, on)

\* All other steps of the room.
Steady ==
  \/ UNCHANGED roomVars
  \/ /\ phase # "closed"
     /\ \/ \E m \in Connected(members) :
             \/ Start(m) \/ Continue(m) \/ Leave(m)
             \/ MiniGameInput(m) \/ ReadyIntermission(m)
             \/ \E seq \in 0 .. MaxTurnSeq : GameAction(m, seq)
        \/ ByServer \/ Tick

LEMMA NextIs == [Next]_roomVars <=> Steady \/ Presence
<1>1. Presence => phase # "closed" /\ (ByClient \/ ByNetwork)
  BY DEF Presence, Join, JoinTakeover, ConnectionChanged, ByClient, ByNetwork
<1>2. QED
  BY <1>1 DEF Next, Steady, Presence, ByClient, ByNetwork

LEMMA CarriedSettled ==
  ASSUME NEW ms, MembersTyped(ms), NEW e, NEW new, new = Settled(ms, e)
  PROVE  /\ CarriedFrom(ms, new)
         /\ DOMAIN new = DOMAIN ms /\ \A i \in DOMAIN ms : Carried(ms[i], new[i])
<1>1. DOMAIN new = DOMAIN ms
  BY SettledTyped
<1>2. \A i \in DOMAIN ms : ms[i].isAI => new[i] = ms[i]
  BY SettledTyped DEF Humans
<1>3. \A i \in DOMAIN ms :
        /\ new[i].user = ms[i].user /\ new[i].isAI = ms[i].isAI
        /\ new[i].connected = ms[i].connected /\ new[i].joinedAt = ms[i].joinedAt
        /\ ms[i].departed => new[i].departed
  BY SettledMembers
<1>4. QED
  BY <1>1, <1>2, <1>3 DEF CarriedFrom, Carried

LEMMA CarriedStartSet ==
  ASSUME NEW ms, MembersTyped(ms), NEW humans \in SUBSET Humans(ms),
         StartSet(ms, humans)
  PROVE  CarriedFrom(ms, members')
<1>1. humans \in SUBSET DOMAIN ms
  BY DEF Humans
<1>2. PICK ais \in SUBSET (Ais \ humans) :
        members' = Settled(Table(ms, humans, ais), engine')
  BY <1>1, StartSetOutcome
<1> DEFINE tb == Table(ms, humans, ais)
<1>3. MembersTyped(tb) /\ DOMAIN tb = humans \cup ais
  <2>1. ais \in SUBSET Ais
    OBVIOUS
  <2>2. QED
    BY <1>1, <2>1, TableTyped
<1>4. /\ \A i \in ais : tb[i] = NewAi
      /\ \A i \in humans : /\ tb[i].user = ms[i].user /\ tb[i].isAI = ms[i].isAI
                           /\ tb[i].joinedAt = ms[i].joinedAt
                           /\ tb[i].departed = ms[i].departed
                           /\ tb[i].connected = ms[i].connected
  <2>1. \A i \in humans : ms[i] \in Member
    BY <1>1 DEF MembersTyped
  <2>2. QED
    BY <2>1 DEF Table, Member
<1> HIDE DEF tb
<1>5. /\ DOMAIN members' = DOMAIN tb
      /\ \A i \in DOMAIN tb : Carried(tb[i], members'[i])
  BY <1>2, <1>3, CarriedSettled DEF tb
<1>6. \A i \in ais : members'[i] = NewAi
  <2> SUFFICES ASSUME NEW i \in ais PROVE members'[i] = NewAi
    OBVIOUS
  <2>1. i \in DOMAIN tb /\ i \notin Humans(tb)
    BY <1>3, <1>4 DEF Humans, NewAi
  <2>2. members'[i] = tb[i]
    BY <1>2, <1>3, <2>1, SettledTyped DEF tb
  <2>3. QED
    BY <1>4, <2>2
<1>7. \A i \in humans : ~ms[i].isAI /\ i \in DOMAIN ms
  BY DEF Humans
<1>8. \A i \in humans : Carried(ms[i], members'[i])
  BY <1>3, <1>4, <1>5, <1>7 DEF Carried
<1>9. QED
  BY <1>3, <1>5, <1>6, <1>7, <1>8 DEF CarriedFrom

LEMMA CarriedLeaveTable ==
  ASSUME TypeInv, NEW m \in DOMAIN members, LeaveTable(m)
  PROVE  CarriedFrom(members, members')
<1>1. PICK ms : ms = WithoutMember(members, m)
  OBVIOUS
<1>2. MembersTyped(members)
  BY DEF TypeInv, TypeOK, MembersTyped
<1>3. /\ MembersTyped(ms) /\ DOMAIN ms = DOMAIN members \ {m}
      /\ Connected(ms) \in SUBSET Humans(ms)
  BY <1>1, <1>2, WithoutMemberDomain
<1>4. \A i \in DOMAIN ms : Carried(members[i], ms[i])
  <2> SUFFICES ASSUME NEW i \in DOMAIN ms PROVE Carried(members[i], ms[i])
    OBVIOUS
  <2>1. i \in DOMAIN members \ {m}
    BY <1>3
  <2>2. PICK host \in BOOLEAN : WithoutMember(members, m)[i] = [members[i] EXCEPT !.isHost = host]
    BY <1>2, <2>1, WithoutMemberTyped
  <2>3. members[i] \in Member
    BY <1>2, <2>1 DEF MembersTyped
  <2>4. QED
    BY <1>1, <2>2, <2>3 DEF Carried, Member
<1>5. CASE members' = ms
  BY <1>3, <1>4, <1>5 DEF CarriedFrom
<1>6. CASE StartSet(ms, Connected(ms))
  <2>1. CarriedFrom(ms, members')
    BY <1>3, <1>6, CarriedStartSet
  <2>2. QED
    BY <1>3, <1>4, <2>1 DEF CarriedFrom, Carried
<1>7. QED
  BY <1>1, <1>5, <1>6 DEF LeaveTable

LEMMA CarriedDeparted ==
  ASSUME NEW r \in Member, ~r.isAI
  PROVE  Carried(r, [r EXCEPT !.connected = FALSE, !.controller = "ai", !.departed = TRUE])
<1>1. PICK d : d = [r EXCEPT !.connected = FALSE, !.controller = "ai", !.departed = TRUE]
  OBVIOUS
<1>2. /\ d.user = r.user /\ d.isAI = r.isAI /\ d.joinedAt = r.joinedAt
      /\ d.departed = TRUE
  BY <1>1 DEF Member
<1>3. QED
  BY <1>1, <1>2 DEF Carried

LEMMA CarriedStep ==
  ASSUME TypeInv, Steady
  PROVE  CarriedFrom(members, members')
<1>1. MembersTyped(members)
  BY DEF TypeInv, TypeOK, MembersTyped
<1>2. ASSUME NEW m \in Connected(members), Start(m)
      PROVE  CarriedFrom(members, members')
  BY <1>1, <1>2, CarriedStartSet DEF Start
<1>3. ASSUME NEW m \in Connected(members), Continue(m)
      PROVE  CarriedFrom(members, members')
  <2>1. PICK ms : ms = [members EXCEPT ![m].wantsNext = TRUE]
    OBVIOUS
  <2>2. m \in DOMAIN members
    BY DEF Connected, Humans
  <2>3. MembersTyped(ms) /\ DOMAIN ms = DOMAIN members
    BY <1>1, <2>1, <2>2 DEF MembersTyped, Member
  <2>4. \A i \in DOMAIN ms : Carried(members[i], ms[i])
    BY <1>1, <2>1, <2>2 DEF MembersTyped, Member, Carried
  <2>5. members' = ms \/ StartSet(ms, Connected(ms))
    BY <1>3, <2>1 DEF Continue
  <2>6. Connected(ms) \in SUBSET Humans(ms)
    BY DEF Connected
  <2>7. members' = ms \/ CarriedFrom(ms, members')
    BY <2>3, <2>5, <2>6, CarriedStartSet
  <2>8. QED
    BY <2>3, <2>4, <2>7 DEF CarriedFrom, Carried
<1>4. ASSUME NEW m, LeavePlaying(m), m \in DOMAIN members, ~members[m].isAI
      PROVE  CarriedFrom(members, members')
  <2>1. members' = [members EXCEPT ![m].connected = FALSE, ![m].controller = "ai",
                                   ![m].departed = TRUE]
    BY <1>4 DEF LeavePlaying
  <2>2. members' = [members EXCEPT ![m] = members'[m]]
        /\ members'[m] = [members[m] EXCEPT !.connected = FALSE, !.controller = "ai",
                                            !.departed = TRUE]
    BY <1>1, <1>4, <2>1 DEF MembersTyped
  <2>3. DOMAIN members' = DOMAIN members
        /\ \A i \in DOMAIN members : i # m => members'[i] = members[i]
    BY <2>2
  <2>4. members[m] \in Member
    BY <1>1, <1>4 DEF MembersTyped
  <2>5. Carried(members[m], members'[m])
    BY <1>4, <2>2, <2>4, CarriedDeparted
  <2>6. \A i \in DOMAIN members : i # m => Carried(members[i], members'[i])
    BY <2>3 DEF Carried
  <2>7. QED
    BY <2>3, <2>5, <2>6 DEF CarriedFrom
<1>5. CASE ExpireSetResult
  <2>1. PICK staying \in SUBSET Humans(members) :
          \/ members' = Restricted(members, {})
          \/ StartSet(Restricted(members, staying), staying)
    BY <1>5 DEF ExpireSetResult, Connected
  <2>2. PICK ms : ms = Restricted(members, staying)
    OBVIOUS
  <2>3. /\ MembersTyped(ms) /\ DOMAIN ms = staying /\ staying \subseteq DOMAIN members
        /\ staying \in SUBSET Humans(ms) /\ \A i \in staying : ms[i] = members[i]
    BY <1>1, <2>1, <2>2 DEF Restricted, MembersTyped, Humans
  <2>4. CASE members' = Restricted(members, {})
    BY <2>4 DEF Restricted, CarriedFrom
  <2>5. CASE StartSet(Restricted(members, staying), staying)
    <3>1. CarriedFrom(ms, members')
      BY <2>2, <2>3, <2>5, CarriedStartSet
    <3>2. QED
      BY <2>3, <3>1 DEF CarriedFrom
  <2>6. QED
    BY <2>1, <2>4, <2>5
<1>6. CASE ExpireRoom
  BY <1>6 DEF ExpireRoom, Restricted, CarriedFrom
<1>7. CASE (\E m, seq : GameAction(m, seq)) \/ AdvanceIntermission \/ RequestDrain
  <2>1. members' = Settled(members, engine')
    BY <1>7 DEF GameAction, AdvanceIntermission, Progress, RequestDrain
  <2>2. QED
    BY <1>1, <2>1, CarriedSettled
<1>8. CASE Tick
  BY <1>1, <1>8 DEF Tick, MembersTyped, Member, CarriedFrom, Carried
<1>9. CASE UNCHANGED members
  BY <1>9 DEF CarriedFrom, Carried
<1>10. CASE \/ \E m \in Connected(members) : Leave(m)
            \/ \E m \in MemberId : ExpireWaitingMember(m)
  BY <1>4, <1>10, CarriedLeaveTable DEF Leave, ExpireWaitingMember
<1>11. QED
  BY <1>2, <1>3, <1>5, <1>6, <1>7, <1>8, <1>9, <1>10
     DEF Steady, ByServer, AutoAct, MiniGameInput, MiniGameTick, ReadyIntermission,
         roomVars, clocks

-----------------------------------------------------------------------------
(* The invariant of the room under the server.                             *)

\* An AI is always there, and no two users have the same rank.
MembersSound ==
  /\ \A i \in DOMAIN members : members[i].isAI =>
       /\ members[i].connected /\ ~members[i].departed
       /\ members[i].controller = "ai"
  /\ \A i, j \in DOMAIN members :
       ~members[i].isAI /\ ~members[j].isAI /\ members[i].joinedAt = members[j].joinedAt
         => i = j

RoomInv == TypeInv /\ OneSeatPerUser /\ AiHoldsSeatOfAbsent /\ MembersSound

RoomStep == [Next]_roomVars \/ SweepMembers

LEMMA CarriedSound ==
  ASSUME MembersSound, CarriedFrom(members, members')
  PROVE  MembersSound'
<1>1. \A i \in DOMAIN members' : ~members'[i].isAI =>
        i \in DOMAIN members /\ ~members[i].isAI
          /\ members'[i].joinedAt = members[i].joinedAt
  BY DEF CarriedFrom, Carried, NewAi
<1>2. \A i \in DOMAIN members' : members'[i].isAI =>
        /\ members'[i].connected /\ ~members'[i].departed
        /\ members'[i].controller = "ai"
  BY DEF CarriedFrom, Carried, NewAi, MembersSound
<1>3. ASSUME NEW i \in DOMAIN members', NEW j \in DOMAIN members',
             ~members'[i].isAI, ~members'[j].isAI,
             members'[i].joinedAt = members'[j].joinedAt
      PROVE  i = j
  BY <1>1, <1>3 DEF MembersSound
<1>4. QED
  BY <1>2, <1>3 DEF MembersSound

\* Somebody comes into the room, in place of the AI m if there is one.
Arrives(m, rank) ==
  /\ Newest(members, rank)
  /\ DOMAIN members' = DOMAIN members \cup {m}
  /\ ~members'[m].isAI /\ members'[m].joinedAt = rank
  /\ \A i \in DOMAIN members \ {m} : members'[i] = members[i]

LEMMA PresenceSound ==
  ASSUME TypeInv, MembersSound, Presence
  PROVE  MembersSound'
<1>1. MembersTyped(members)
  BY DEF TypeInv, TypeOK, MembersTyped
<1>2. CASE \E u \in Users : Join(u) \/ \E a \in Ais : JoinTakeover(u, a)
  <2>1. PICK m \in MemberId, rank \in 1 .. MaxRank : Arrives(m, rank)
    <3>1. ASSUME NEW u \in Users, Join(u)
          PROVE  \E m \in MemberId, rank \in 1 .. MaxRank : Arrives(m, rank)
      <4>1. PICK rank \in 1 .. MaxRank :
              /\ Newest(members, rank)
              /\ members' = [i \in DOMAIN members \cup {u} |->
                               IF i = u THEN NewHuman(u, rank, FALSE, phase = "setResult")
                               ELSE members[i]]
        BY <3>1 DEF Join
      <4>2. /\ DOMAIN members' = DOMAIN members \cup {u}
            /\ members'[u] = NewHuman(u, rank, FALSE, phase = "setResult")
            /\ \A i \in DOMAIN members \ {u} : members'[i] = members[i]
        BY <4>1
      <4>3. ~members'[u].isAI /\ members'[u].joinedAt = rank
        BY <4>2 DEF NewHuman
      <4>4. Arrives(u, rank)
        BY <4>1, <4>2, <4>3 DEF Arrives
      <4>5. QED
        BY <4>4 DEF MemberId
    <3>2. ASSUME NEW u \in Users, NEW a \in Ais, JoinTakeover(u, a)
          PROVE  \E m \in MemberId, rank \in 1 .. MaxRank : Arrives(m, rank)
      <4>1. PICK rank \in 1 .. MaxRank :
              /\ Newest(members, rank) /\ a \in DOMAIN members
              /\ members' = [members EXCEPT ![a] =
                               [NewHuman(u, rank, FALSE, FALSE) EXCEPT
                                  !.seated = members[a].seated]]
        BY <3>2 DEF JoinTakeover
      <4>2. /\ DOMAIN members' = DOMAIN members \cup {a}
            /\ members'[a] = [NewHuman(u, rank, FALSE, FALSE) EXCEPT
                                !.seated = members[a].seated]
            /\ \A i \in DOMAIN members \ {a} : members'[i] = members[i]
        BY <1>1, <4>1 DEF MembersTyped
      <4>3. ~members'[a].isAI /\ members'[a].joinedAt = rank
        BY <4>2 DEF NewHuman
      <4>4. Arrives(a, rank)
        BY <4>1, <4>2, <4>3 DEF Arrives
      <4>5. QED
        BY <4>4 DEF MemberId
    <3>3. QED
      BY <1>2, <3>1, <3>2
  <2>2. \A i \in DOMAIN members : members[i].joinedAt < rank /\ members[i].joinedAt \in Nat
    BY <1>1, <2>1 DEF Arrives, Newest, MembersTyped, Member
  <2>3. QED
    BY <2>1, <2>2 DEF Arrives, MembersSound
<1>3. CASE \E m \in MemberId, on \in BOOLEAN : ConnectionChanged(m, on)
  <2>1. PICK m \in MemberId, on \in BOOLEAN : ConnectionChanged(m, on)
    BY <1>3
  <2>2. /\ DOMAIN members' = DOMAIN members /\ ~members[m].isAI
        /\ \A i \in DOMAIN members \ {m} : members'[i] = members[i]
        /\ members'[m].isAI = members[m].isAI
        /\ members'[m].joinedAt = members[m].joinedAt
    BY <1>1, <2>1 DEF ConnectionChanged, Humans, MembersTyped, Member
  <2>3. QED
    BY <2>2 DEF MembersSound
<1>4. QED
  BY <1>2, <1>3 DEF Presence

\* The manager's sweep takes members out of the lobby and passes the part of
\* the host on; it changes nothing else.
LEMMA SweepMembersOutcome ==
  ASSUME TypeInv, SweepMembers
  PROVE  /\ phase = "waiting"
         /\ phase' = IF Humans(members') = {} THEN "closed" ELSE phase
         /\ DOMAIN members' \subseteq DOMAIN members
         /\ \A i \in DOMAIN members' : \E host \in BOOLEAN :
              members'[i] = [members[i] EXCEPT !.isHost = host]
         /\ UNCHANGED <<mode, engine, setNo, turnSeq, ready, clocks>>
<1> DEFINE due == {i \in OnGrace : members[i].grace = 0}
           rest == Restricted(members, DOMAIN members \ due)
           lost == \E i \in due : members[i].isHost
<1>1. MembersTyped(members)
  BY DEF TypeInv, TypeOK, MembersTyped
<1>2. /\ phase = "waiting"
      /\ members' = IF lost /\ Humans(rest) # {}
                    THEN [i \in DOMAIN rest |->
                            [rest[i] EXCEPT !.isHost = (i = NextHost(rest))]]
                    ELSE rest
      /\ phase' = IF Humans(rest) = {} THEN "closed" ELSE phase
      /\ UNCHANGED <<mode, engine, setNo, turnSeq, ready, clocks>>
  BY DEF SweepMembers
<1>3. /\ DOMAIN rest \subseteq DOMAIN members
      /\ \A i \in DOMAIN rest : rest[i] = members[i] /\ members[i] \in Member
  BY <1>1 DEF Restricted, MembersTyped
<1> HIDE DEF rest, lost
<1>4. /\ DOMAIN members' = DOMAIN rest
      /\ \A i \in DOMAIN rest : \E host \in BOOLEAN :
           members'[i] = [members[i] EXCEPT !.isHost = host]
  <2>1. CASE lost /\ Humans(rest) # {}
    BY <1>2, <1>3, <2>1
  <2>2. CASE ~(lost /\ Humans(rest) # {})
    <3>1. \A i \in DOMAIN rest :
            members[i].isHost \in BOOLEAN
              /\ members[i] = [members[i] EXCEPT !.isHost = members[i].isHost]
      BY <1>3 DEF Member
    <3>2. QED
      BY <1>2, <1>3, <2>2, <3>1
  <2>3. QED
    BY <2>1, <2>2
<1>5. Humans(members') = Humans(rest)
  <2>1. \A i \in DOMAIN rest : /\ members'[i].isAI = rest[i].isAI
                               /\ members'[i].departed = rest[i].departed
    BY <1>3, <1>4 DEF Member
  <2>2. QED
    BY <1>4, <2>1 DEF Humans
<1>6. QED
  BY <1>2, <1>3, <1>4, <1>5

LEMMA SweepKeeps ==
  ASSUME RoomInv, SweepMembers
  PROVE  RoomInv' /\ CarriedFrom(members, members')
<1>1. MembersTyped(members) /\ DOMAIN members' \subseteq DOMAIN members
  BY SweepMembersOutcome DEF RoomInv, TypeInv, TypeOK, MembersTyped
<1>2. \A i \in DOMAIN members' :
        /\ members'[i] \in Member
        /\ members'[i].user = members[i].user /\ members'[i].isAI = members[i].isAI
        /\ members'[i].joinedAt = members[i].joinedAt
        /\ members'[i].departed = members[i].departed
        /\ members'[i].connected = members[i].connected
        /\ members'[i].controller = members[i].controller
  <2> SUFFICES ASSUME NEW i \in DOMAIN members'
               PROVE  /\ members'[i] \in Member
                      /\ members'[i].user = members[i].user
                      /\ members'[i].isAI = members[i].isAI
                      /\ members'[i].joinedAt = members[i].joinedAt
                      /\ members'[i].departed = members[i].departed
                      /\ members'[i].connected = members[i].connected
                      /\ members'[i].controller = members[i].controller
    OBVIOUS
  <2>1. PICK host \in BOOLEAN : members'[i] = [members[i] EXCEPT !.isHost = host]
    BY SweepMembersOutcome DEF RoomInv
  <2>2. members[i] \in Member
    BY <1>1 DEF MembersTyped
  <2>3. QED
    BY <2>1, <2>2 DEF Member
<1>3. CarriedFrom(members, members')
  BY <1>1, <1>2 DEF CarriedFrom, Carried
<1>4. MembersTyped(members')
  <2>1. PICK ms : ms = [i \in DOMAIN members' |-> members'[i]]
    OBVIOUS
  <2>2. members' = ms
    BY <2>1 DEF SweepMembers, Restricted
  <2>3. QED
    BY <1>1, <1>2, <2>1, <2>2 DEF MembersTyped
<1>5. TypeInv'
  BY <1>4, SweepMembersOutcome DEF RoomInv, TypeInv, TypeOK, MembersTyped, Phase,
     EngineSound, clocks
<1>6. OneSeatPerUser'
  BY <1>1, <1>2 DEF RoomInv, OneSeatPerUser
<1>7. AiHoldsSeatOfAbsent'
  <2>1. phase = "waiting" /\ (phase' = "waiting" \/ Humans(members') = {})
    BY SweepMembersOutcome DEF RoomInv
  <2>2. Humans(members') \subseteq Humans(members)
    BY <1>1, <1>2 DEF Humans
  <2>3. Humans(members') \subseteq DOMAIN members'
    BY DEF Humans
  <2>4. QED
    BY <1>2, <2>1, <2>2, <2>3 DEF RoomInv, AiHoldsSeatOfAbsent
<1>8. QED
  BY <1>3, <1>5, <1>6, <1>7, CarriedSound DEF RoomInv

LEMMA RoomInvStep ==
  ASSUME RoomInv, RoomStep
  PROVE  RoomInv'
<1>1. CASE [Next]_roomVars
  <2>1. TypeInv' /\ OneSeatPerUser' /\ AiHoldsSeatOfAbsent'
    BY <1>1, TypeStep, OneSeatStep, AiHoldsStep DEF RoomInv
  <2>2. MembersSound'
    BY <1>1, NextIs, CarriedStep, CarriedSound, PresenceSound DEF RoomInv
  <2>3. QED
    BY <2>1, <2>2 DEF RoomInv
<1>2. CASE SweepMembers
  BY <1>2, SweepKeeps
<1>3. QED
  BY <1>1, <1>2 DEF RoomStep

LEMMA RoomInvInit == Init => RoomInv
<1> SUFFICES ASSUME Init PROVE RoomInv
  OBVIOUS
<1>1. PICK u \in Users : members = [i \in {u} |-> NewHuman(u, 1, TRUE, FALSE)]
  BY DEF Init
<1>2. QED
  BY <1>1, TypeInit DEF Init, RoomInv, OneSeatPerUser, AiHoldsSeatOfAbsent,
     MembersSound, NewHuman, Humans


-----------------------------------------------------------------------------
(* The timers.                                                             *)

\* A member whom the AI plays for at any time: who was recorded in this part is
\* an AI or has departed.
Excused(as) == as.departed \/ (as.connected /\ as.controller = "ai")

\* The timer t of the phase is of its type, it runs out at the time in its
\* specification, and for a human who has his time it does not run out before.
TimerSound(t) ==
  /\ t \in [spec : TimerSpec, left : Int]
  /\ t.spec.kind # "turn" /\ t.spec.due # Never => t.left = t.spec.due
  /\ t.spec.kind = "turn" /\ ~Excused(t.spec.as) => t.left = t.spec.due \/ t.spec.due = 0

LifeTimerSound ==
  lifeTimer \in [spec : TimerSpec, left : Int] /\ lifeTimer.left = lifeTimer.spec.due

\* The AI thinks about moves of AIs, of departed users, and of users whose time
\* was up; if somebody's time has changed since, the decision is for the Past.
InFlightSound ==
  \A f \in inFlight :
    /\ f \in TimerSpec /\ f.kind = "turn"
    /\ Excused(f.as) \/ f.due \in {0, Past}

\* Who has sent a move for the present turn has seen the present position.
SentSound ==
  /\ DOMAIN sent = Senders
  /\ \A u \in Senders :
       /\ sent[u].seq \in -1 .. turnSeq
       /\ sent[u].seq = turnSeq =>
            sent[u].at = Position /\ WaitsForPlayer(engine) /\ phase \in {"playing", "closed"}

ServerInv ==
  /\ RoomInv /\ ConnectedMeansOnline
  /\ online \subseteq Users /\ flaps \in 0 .. MaxFlaps
  /\ server \in {"up", "draining", "exiting"}
  /\ TimerSound(phaseTimer) /\ PhaseTimerFollowsRoom /\ InFlightSound
  /\ LifeTimerSound /\ LifeTimerFollowsRoom
  /\ SentSound


\* Whoever is first on grace is on grace, and nobody's place is given up sooner.
LEMMA FirstOnGraceIs ==
  ASSUME RoomInv, OnGrace # {}
  PROVE  /\ FirstOnGrace \in OnGrace
         /\ \A j \in OnGrace : members[FirstOnGrace].grace <= members[j].grace
<1>1. \A i \in OnGrace : /\ i \in DOMAIN members /\ ~members[i].isAI
                         /\ members[i].joinedAt \in Nat /\ members[i].grace \in Nat
  BY DEF OnGrace, RoomInv, TypeInv, TypeOK, Member, TimeLeft, Never
<1> DEFINE grace == [i \in OnGrace |-> members[i].grace]
           rank == [i \in OnGrace |-> members[i].joinedAt]
<1>2. PICK x \in OnGrace : \A j \in OnGrace : grace[x] <= grace[j]
  <2>1. \A i \in OnGrace : grace[i] \in Nat
    BY <1>1
  <2> HIDE DEF grace
  <2>2. QED
    BY <2>1, LeastExists
<1> DEFINE Next_ == {i \in OnGrace : members[i].grace = members[x].grace}
<1>3. PICK y \in Next_ : \A j \in Next_ : rank[y] <= rank[j]
  <2>1. Next_ # {} /\ \A i \in Next_ : rank[i] \in Nat
    BY <1>1
  <2> HIDE DEF rank, Next_
  <2>2. QED
    BY <2>1, LeastExists
<1>4. \A j \in OnGrace \ {y} :
        \/ members[y].grace < members[j].grace
        \/ /\ members[y].grace = members[j].grace
           /\ members[y].joinedAt < members[j].joinedAt
  <2> SUFFICES ASSUME NEW j \in OnGrace, j # y,
                      ~(members[y].grace < members[j].grace)
               PROVE  /\ members[y].grace = members[j].grace
                      /\ members[y].joinedAt < members[j].joinedAt
    OBVIOUS
  <2>1. members[y].grace = members[j].grace /\ j \in Next_
    BY <1>1, <1>2
  <2>2. members[y].joinedAt <= members[j].joinedAt
    BY <1>3, <2>1
  <2>3. members[y].joinedAt # members[j].joinedAt
    BY <1>1 DEF RoomInv, MembersSound
  <2>4. QED
    BY <1>1, <2>1, <2>2, <2>3
<1>5. /\ FirstOnGrace \in OnGrace
      /\ \A j \in OnGrace \ {FirstOnGrace} :
           \/ members[FirstOnGrace].grace < members[j].grace
           \/ /\ members[FirstOnGrace].grace = members[j].grace
              /\ members[FirstOnGrace].joinedAt < members[j].joinedAt
  BY <1>4 DEF FirstOnGrace
<1>6. QED
  BY <1>1, <1>5

LEMMA FirstOnGraceThere == RoomInv /\ OnGrace # {} => FirstOnGrace \in OnGrace
BY FirstOnGraceIs

Roles == [connected : BOOLEAN, controller : {"human", "ai"}, departed : BOOLEAN]

LEMMA SpecForTyped ==
  ASSUME NEW kind \in {"none", "miniGame", "turn", "intermission", "setResult",
                       "waiting", "lobby", "abandon"},
         NEW nos \in Nat \X Nat \X Nat, NEW due \in Int
  PROVE  /\ SpecFor(kind, nos, due) \in TimerSpec
         /\ SpecFor(kind, nos, due).kind = kind /\ SpecFor(kind, nos, due).due = due
BY DEF SpecFor, TimerSpec, NoRole

LEMMA SpecOfMember ==
  ASSUME NEW spec \in TimerSpec, NEW who \in MemberId
  PROVE  /\ [spec EXCEPT !.who = who] \in TimerSpec
         /\ [spec EXCEPT !.who = who].due = spec.due
BY DEF TimerSpec

LEMMA DuesTyped ==
  ASSUME RoomInv
  PROVE  /\ turnDeadline \in Int /\ interimEnds \in Int /\ respondBy \in Int
         /\ lobbyExpires \in Int /\ abandonAt \in Int
         /\ \A i \in DOMAIN members : i \in MemberId /\ members[i].grace \in Int
                                      /\ members[i] \in Member
         /\ setNo \in Nat /\ turnSeq \in Nat /\ engine.left \in Nat /\ engine.results \in Nat
BY LimitAssumption, SetAssumption, BoundAssumption
   DEF RoomInv, TypeInv, TypeOK, TimeLeft, Engine, Member

LEMMA NoSpecTyped == NoSpec \in TimerSpec /\ NoSpec.kind = "none" /\ NoSpec.due = Never
<1>1. Never \in Int /\ <<0, 0, 0>> \in Nat \X Nat \X Nat
  BY DEF Never
<1>2. QED
  BY <1>1, SpecForTyped DEF NoSpec

LEMMA LifeSpecTyped ==
  ASSUME RoomInv
  PROVE  LifeSpec \in TimerSpec
<1>1. OnGrace # {} => FirstOnGrace \in MemberId /\ members[FirstOnGrace].grace \in Int
  BY FirstOnGraceIs, DuesTyped DEF OnGrace
<1>2. SpecFor("lobby", <<0, 0, 0>>, lobbyExpires) \in TimerSpec
  BY DuesTyped, SpecForTyped
<1>3. SpecFor("abandon", <<0, 0, 0>>, abandonAt) \in TimerSpec
  BY DuesTyped, SpecForTyped
<1>4. ASSUME OnGrace # {}
      PROVE  [SpecFor("waiting", <<0, 0, 0>>, members[FirstOnGrace].grace) EXCEPT
                !.who = FirstOnGrace] \in TimerSpec
  <2>1. PICK spec \in TimerSpec :
          spec = SpecFor("waiting", <<0, 0, 0>>, members[FirstOnGrace].grace)
    BY <1>1, <1>4, SpecForTyped
  <2>2. QED
    BY <1>1, <1>4, <2>1, SpecOfMember
<1>5. QED
  BY <1>2, <1>3, <1>4, NoSpecTyped DEF LifeSpec

\* The timer the room calls for while it waits for a move is about the member
\* it waits for, as he is, and it has a deadline unless the AI plays for him.
LEMMA TurnSpecIs ==
  ASSUME RoomInv
  PROVE  /\ TurnSpec \in TimerSpec
         /\ TurnSpec # NoSpec =>
              /\ TurnSpec.kind = "turn" /\ TurnSpec.due = turnDeadline
              /\ Waiter \in DOMAIN members /\ TurnSpec.who = Waiter
              /\ TurnSpec.as = Role(members[Waiter])
              /\ Automated(members[Waiter]) \/ turnDeadline # Never
<1>1. CASE TurnSpec = NoSpec
  BY <1>1, NoSpecTyped
<1>2. CASE TurnSpec # NoSpec
  <2>1. /\ Waiter \in DOMAIN members
        /\ Automated(members[Waiter]) \/ turnDeadline # Never
        /\ TurnSpec = [SpecFor("turn", <<setNo, turnSeq, 0>>, turnDeadline) EXCEPT
                         !.who = Waiter, !.as = Role(members[Waiter])]
    BY <1>2 DEF TurnSpec
  <2>2. Waiter \in MemberId /\ Role(members[Waiter]) \in Roles
    BY <2>1, DuesTyped DEF Role, Roles, Member
  <2>3. PICK spec \in TimerSpec :
          /\ spec = SpecFor("turn", <<setNo, turnSeq, 0>>, turnDeadline)
          /\ spec.kind = "turn" /\ spec.due = turnDeadline
    BY DuesTyped, SpecForTyped
  <2>4. PICK as \in Roles : as = Role(members[Waiter])
    BY <2>2
  <2>5. PICK new : new = [spec EXCEPT !.who = Waiter, !.as = as]
    OBVIOUS
  <2>6. /\ new \in TimerSpec /\ new.kind = "turn" /\ new.due = turnDeadline
        /\ new.who = Waiter /\ new.as = as
    BY <2>2, <2>3, <2>5 DEF TimerSpec, Roles
  <2>7. TurnSpec = new
    BY <2>1, <2>3, <2>4, <2>5
  <2>8. QED
    BY <2>1, <2>4, <2>6, <2>7
<1>3. QED
  BY <1>1, <1>2

\* The timer a running game calls for, and the time it is set to.
LEMMA PhaseSpecIs ==
  ASSUME RoomInv
  PROVE  /\ PhaseSpec \in TimerSpec
         /\ PhaseSpec.kind = "turn" =>
              /\ PhaseSpec = TurnSpec /\ TurnSpec # NoSpec
              /\ phase = "playing" /\ engine.phase = "gameInProgress"
         /\ PhaseSpec.kind = "intermission" => PhaseSpec.due = interimEnds
         /\ PhaseSpec.kind = "setResult" => PhaseSpec.due = respondBy
         /\ PhaseSpec.kind = "miniGame" => PhaseSpec.due = Never
         /\ PhaseSpec # NoSpec =>
              PhaseSpec.kind \in {"miniGame", "turn", "intermission", "setResult"}
<1>1. CASE phase = "playing" /\ engine.phase = "gameInProgress" /\ engine.game = "miniGame"
  <2>1. PhaseSpec = SpecFor("miniGame", <<setNo, turnSeq, engine.left>>, Never)
    BY <1>1 DEF PhaseSpec
  <2>2. Never \in Int
    BY DEF Never
  <2>3. QED
    BY <2>1, <2>2, DuesTyped, SpecForTyped
<1>2. CASE phase = "playing" /\ engine.phase = "gameInProgress" /\ engine.game # "miniGame"
  BY <1>2, TurnSpecIs, NoSpecTyped DEF PhaseSpec
<1>3. CASE phase = "playing" /\ engine.phase = "interimResult"
  <2>1. PhaseSpec = SpecFor("intermission", <<setNo, engine.results, 0>>, interimEnds)
    BY <1>3 DEF PhaseSpec
  <2>2. QED
    BY <2>1, DuesTyped, SpecForTyped
<1>4. CASE phase = "setResult" /\ respondBy # Never
  <2>1. PhaseSpec = SpecFor("setResult", <<setNo, 0, 0>>, respondBy)
    BY <1>4 DEF PhaseSpec
  <2>2. QED
    BY <2>1, DuesTyped, SpecForTyped
<1>5. CASE PhaseSpec = NoSpec
  BY <1>5, NoSpecTyped
<1>6. QED
  BY <1>1, <1>2, <1>3, <1>4, <1>5 DEF PhaseSpec


\* A timer that is set anew runs out when it should.
LEMMA NewTimerSound ==
  RoomInv /\ PhaseSpec # NoSpec => TimerSound([spec |-> PhaseSpec, left |-> PhaseDelay])
<1> SUFFICES ASSUME RoomInv, PhaseSpec # NoSpec
             PROVE  TimerSound([spec |-> PhaseSpec, left |-> PhaseDelay])
  OBVIOUS
<1>1. PhaseSpec \in TimerSpec
  BY PhaseSpecIs
<1>2. CASE PhaseSpec.kind = "miniGame"
  <2>1. PhaseDelay = MiniDelay /\ MiniDelay \in Int /\ PhaseSpec.due = Never
    BY <1>2, PhaseSpecIs, DelayAssumption DEF PhaseDelay
  <2>2. QED
    BY <1>1, <1>2, <2>1 DEF TimerSound
<1>3. CASE PhaseSpec.kind = "intermission"
  <2>1. /\ PhaseDelay = IF interimEnds = Never THEN InterimTime ELSE interimEnds
        /\ InterimTime \in Int /\ interimEnds \in Int /\ PhaseSpec.due = interimEnds
    BY <1>3, PhaseSpecIs, DuesTyped, LimitAssumption DEF PhaseDelay
  <2>2. QED
    BY <1>1, <1>3, <2>1 DEF TimerSound
<1>4. CASE PhaseSpec.kind = "setResult"
  <2>1. PhaseDelay = respondBy /\ respondBy \in Int /\ PhaseSpec.due = respondBy
    BY <1>4, PhaseSpecIs, DuesTyped DEF PhaseDelay
  <2>2. QED
    BY <1>1, <1>4, <2>1 DEF TimerSound
<1>5. CASE PhaseSpec.kind = "turn"
  <2>1. /\ PhaseDelay = IF Automated(members[Waiter]) THEN AiDelay
                        ELSE IF turnDeadline = 0 THEN Retry ELSE turnDeadline
        /\ AiDelay \in Int /\ turnDeadline \in Int /\ Retry \in Int
    BY <1>5, DuesTyped, DelayAssumption DEF PhaseDelay, Retry
  <2>2. /\ PhaseSpec.due = turnDeadline /\ PhaseSpec.as = Role(members[Waiter])
        /\ Waiter \in DOMAIN members
    BY <1>5, PhaseSpecIs, TurnSpecIs
  <2>3. Automated(members[Waiter]) => Excused(PhaseSpec.as)
    BY <2>2 DEF RoomInv, MembersSound, Automated, Excused, Role
  <2>4. QED
    BY <1>1, <1>5, <2>1, <2>2, <2>3 DEF TimerSound
<1>6. QED
  BY <1>2, <1>3, <1>4, <1>5, PhaseSpecIs

LEMMA NoTimerSound == TimerSound(NoTimer)
BY NoSpecTyped DEF NoTimer, TimerSound, Never

\* What a synchronisation leaves behind, whatever the step before it has done.
LEMMA SyncedSound ==
  ASSUME RoomInv', NEW t, TimerSound(t), SyncPhase(t, inFlight')
  PROVE  TimerSound(phaseTimer)' /\ PhaseTimerFollowsRoom'
<1>1. (RoomInv /\ PhaseSpec # NoSpec =>
         TimerSound([spec |-> PhaseSpec, left |-> PhaseDelay]))'
  BY NewTimerSound, PTL
<1>2. phaseTimer' \in {NoTimer, t, [spec |-> PhaseSpec', left |-> PhaseDelay']}
  BY DEF SyncPhase
<1>3. CASE PhaseSpec' = NoSpec
  BY <1>3, NoTimerSound DEF SyncPhase, PhaseTimerFollowsRoom
<1>4. CASE PhaseSpec' # NoSpec /\ PhaseSpec' \in inFlight'
  BY <1>4, <1>1, <1>2 DEF SyncPhase, PhaseTimerFollowsRoom
<1>5. CASE PhaseSpec' # NoSpec /\ PhaseSpec' \notin inFlight'
  <2>1. phaseTimer'.spec = PhaseSpec' /\ TimerSound(phaseTimer')
    BY <1>1, <1>5 DEF SyncPhase
  <2>2. PhaseSpec'.due # Never /\ PhaseSpec'.kind # "turn" => phaseTimer'.left = PhaseSpec'.due
    BY <2>1 DEF TimerSound
  <2>3. QED
    BY <1>5, <2>1, <2>2 DEF PhaseTimerFollowsRoom
<1>6. QED
  BY <1>3, <1>4, <1>5


-----------------------------------------------------------------------------
(* The passing of time.                                                    *)

AgedSpec(s) == [s EXCEPT !.due = TimePasses(s.due)]

LEMMA AgedIs ==
  /\ \A kind, nos, due : AgedSpec(SpecFor(kind, nos, due)) = SpecFor(kind, nos, TimePasses(due))
  /\ AgedSpec(NoSpec) = NoSpec
  /\ \A s \in TimerSpec : /\ AgedSpec(s) \in TimerSpec
                          /\ AgedSpec(s).kind = s.kind /\ AgedSpec(s).as = s.as
                          /\ AgedSpec(s).due = TimePasses(s.due)
  /\ \A d \in Int : TimePasses(d) \in Int /\ (TimePasses(d) = Never <=> d = Never)
<1>1. \A d \in Int : TimePasses(d) \in Int /\ (TimePasses(d) = Never <=> d = Never)
  BY DEF TimePasses, Never
<1>2. \A kind, nos, due : AgedSpec(SpecFor(kind, nos, due)) = SpecFor(kind, nos, TimePasses(due))
  BY DEF AgedSpec, SpecFor
<1>3. AgedSpec(NoSpec) = NoSpec
  BY <1>2 DEF NoSpec, TimePasses, Never
<1>4. \A s \in TimerSpec : /\ AgedSpec(s) \in TimerSpec
                           /\ AgedSpec(s).kind = s.kind /\ AgedSpec(s).as = s.as
                           /\ AgedSpec(s).due = TimePasses(s.due)
  <2> SUFFICES ASSUME NEW s \in TimerSpec
               PROVE  /\ AgedSpec(s) \in TimerSpec
                      /\ AgedSpec(s).kind = s.kind /\ AgedSpec(s).as = s.as
                      /\ AgedSpec(s).due = TimePasses(s.due)
    OBVIOUS
  <2>1. PICK d \in Int : d = TimePasses(s.due)
    BY <1>1 DEF TimerSpec
  <2>2. QED
    BY <2>1 DEF AgedSpec, TimerSpec
<1>5. QED
  BY <1>1, <1>2, <1>3, <1>4

LEMMA AgedSound ==
  ASSUME NEW t, TimerSound(t)
  PROVE  TimerSound(Aged(t)) /\ Aged(t).spec = AgedSpec(t.spec)
<1>1. /\ Aged(t).spec = AgedSpec(t.spec) /\ Aged(t).left = TimePasses(t.left)
      /\ t.spec \in TimerSpec /\ t.left \in Int /\ t.spec.due \in Int
  BY DEF Aged, AgedSpec, TimerSound, TimerSpec
<1>2. Aged(t) \in [spec : TimerSpec, left : Int]
  BY <1>1, AgedIs DEF Aged, AgedSpec
<1>3. /\ Aged(t).spec.kind = t.spec.kind /\ Aged(t).spec.as = t.spec.as
      /\ Aged(t).spec.due = TimePasses(t.spec.due)
  BY <1>1, AgedIs
<1>4. TimePasses(t.spec.due) = Never <=> t.spec.due = Never
  BY <1>1, AgedIs
<1>5. TimePasses(0) = 0
  BY DEF TimePasses
<1>6. QED
  BY <1>1, <1>2, <1>3, <1>4, <1>5 DEF TimerSound

LEMMA TickMembers ==
  ASSUME RoomInv, Tick
  PROVE  /\ DOMAIN members' = DOMAIN members
         /\ \A i \in DOMAIN members :
              /\ members'[i].isAI = members[i].isAI
              /\ members'[i].connected = members[i].connected
              /\ members'[i].controller = members[i].controller
              /\ members'[i].departed = members[i].departed
              /\ members'[i].joinedAt = members[i].joinedAt
              /\ members'[i].grace = TimePasses(members[i].grace)
<1>1. /\ DOMAIN members' = DOMAIN members
      /\ \A i \in DOMAIN members :
           members'[i] = [members[i] EXCEPT !.grace = TimePasses(members[i].grace)]
  BY TickTyped DEF RoomInv
<1>2. \A i \in DOMAIN members : members[i] \in Member
  BY DuesTyped
<1>3. QED
  BY <1>1, <1>2 DEF Member

LEMMA TickPhaseSpec ==
  ASSUME RoomInv, Tick
  PROVE  PhaseSpec' = AgedSpec(PhaseSpec)
<1>1. /\ UNCHANGED <<phase, engine, setNo, turnSeq>>
      /\ turnDeadline' = TimePasses(turnDeadline)
      /\ interimEnds' = TimePasses(interimEnds) /\ respondBy' = TimePasses(respondBy)
  BY DEF Tick
<1>2. Waiter' = Waiter
  BY <1>1, TickMembers, NextRequestSame DEF Waiter
<1>3. TimePasses(Never) = Never
  BY DEF TimePasses, Never
<1>4. \A d \in Int : TimePasses(d) = Never <=> d = Never
  BY AgedIs
<1>5. TurnSpec' = AgedSpec(TurnSpec)
  <2>1. CASE TurnSpec # NoSpec
    <3>1. /\ Waiter \in DOMAIN members
          /\ Automated(members[Waiter]) \/ turnDeadline # Never
      BY <2>1 DEF TurnSpec
    <3>2. /\ Waiter' \in DOMAIN members'
          /\ Automated(members'[Waiter']) \/ turnDeadline' # Never
          /\ Role(members'[Waiter']) = Role(members[Waiter])
      BY <1>1, <1>2, <1>4, <3>1, DuesTyped, TickMembers DEF Automated, Role
    <3>3. TurnSpec = [kind |-> "turn", nos |-> <<setNo, turnSeq, 0>>, who |-> Waiter,
                      as |-> Role(members[Waiter]), due |-> turnDeadline]
      BY <3>1 DEF TurnSpec, SpecFor
    <3>4. TurnSpec' = [kind |-> "turn", nos |-> <<setNo, turnSeq, 0>>, who |-> Waiter,
                       as |-> Role(members[Waiter]), due |-> TimePasses(turnDeadline)]
      BY <1>1, <1>2, <3>2 DEF TurnSpec, SpecFor
    <3>5. QED
      BY <3>3, <3>4 DEF AgedSpec
  <2>2. CASE TurnSpec = NoSpec
    <3>1. \/ Waiter \notin DOMAIN members
          \/ ~Automated(members[Waiter]) /\ turnDeadline = Never
      <4> SUFFICES ASSUME Waiter \in DOMAIN members,
                          Automated(members[Waiter]) \/ turnDeadline # Never
                   PROVE  FALSE
        OBVIOUS
      <4>1. TurnSpec = [kind |-> "turn", nos |-> <<setNo, turnSeq, 0>>, who |-> Waiter,
                        as |-> Role(members[Waiter]), due |-> turnDeadline]
        BY DEF TurnSpec, SpecFor
      <4>2. TurnSpec.kind = "turn"
        BY <4>1
      <4>3. QED
        BY <2>2, <4>2, NoSpecTyped
    <3>2. TurnSpec' = NoSpec
      BY <1>1, <1>2, <1>3, <3>1, TickMembers DEF TurnSpec, Automated
    <3>3. QED
      BY <2>2, <3>2, AgedIs
  <2>3. QED
    BY <2>1, <2>2
<1>6. respondBy' # Never <=> respondBy # Never
  BY <1>1, <1>4, DuesTyped
<1>7. QED
  BY <1>1, <1>3, <1>5, <1>6, AgedIs DEF PhaseSpec


LEMMA TickOnGrace ==
  ASSUME RoomInv, Tick
  PROVE  /\ OnGrace' = OnGrace
         /\ (\A i \in OnGrace : members[i].grace # 0) => FirstOnGrace' = FirstOnGrace
<1>1. \A i \in DOMAIN members : /\ members[i].grace \in Int
                                /\ members'[i].grace = Never <=> members[i].grace = Never
  BY DuesTyped, TickMembers, AgedIs
<1>2. OnGrace' = OnGrace
  BY <1>1, TickMembers DEF OnGrace
<1>3. ASSUME \A i \in OnGrace : members[i].grace # 0
      PROVE  FirstOnGrace' = FirstOnGrace
  <2>1. \A i \in OnGrace : members[i].grace \in Nat \ {0}
    BY <1>3, LimitAssumption DEF OnGrace, RoomInv, TypeInv, TypeOK, Member, TimeLeft, Never
  <2>2. \A i \in OnGrace : /\ members'[i].grace = members[i].grace - 1
                           /\ members'[i].joinedAt = members[i].joinedAt
    <3>1. OnGrace \subseteq DOMAIN members
      BY DEF OnGrace
    <3>2. QED
      BY <2>1, <3>1, TickMembers DEF TimePasses
  <2> DEFINE P(i) == \A j \in OnGrace \ {i} :
                       \/ members[i].grace < members[j].grace
                       \/ /\ members[i].grace = members[j].grace
                          /\ members[i].joinedAt < members[j].joinedAt
             Q(i) == \A j \in OnGrace \ {i} :
                       \/ members'[i].grace < members'[j].grace
                       \/ /\ members'[i].grace = members'[j].grace
                          /\ members'[i].joinedAt < members'[j].joinedAt
  <2>3. \A i \in OnGrace : P(i) <=> Q(i)
    BY <2>1, <2>2
  <2>4. FirstOnGrace = CHOOSE i \in OnGrace : P(i)
    BY DEF FirstOnGrace
  <2>5. FirstOnGrace' = CHOOSE i \in OnGrace : Q(i)
    BY <1>2 DEF FirstOnGrace
  <2> HIDE DEF P, Q
  <2>6. (CHOOSE i \in OnGrace : P(i)) = CHOOSE i \in OnGrace : Q(i)
    BY <2>3
  <2>7. QED
    BY <2>4, <2>5, <2>6
<1>4. QED
  BY <1>2, <1>3

LEMMA TickLifeSpec ==
  ASSUME RoomInv, RoomInv', Tick, LifeSpec.due # 0
  PROVE  LifeSpec' = AgedSpec(LifeSpec)
<1>1. /\ UNCHANGED phase
      /\ lobbyExpires' = TimePasses(lobbyExpires) /\ abandonAt' = TimePasses(abandonAt)
      /\ OnGrace' = OnGrace
      /\ \A i \in OnGrace : /\ i \in DOMAIN members
                            /\ members'[i].grace = TimePasses(members[i].grace)
                            /\ members[i].grace \in Nat
                            /\ members'[i].grace \in Nat
  <2>1. \A i \in OnGrace : i \in DOMAIN members /\ members[i].grace \in Nat
    BY LimitAssumption DEF OnGrace, RoomInv, TypeInv, TypeOK, Member, TimeLeft, Never
  <2>2. \A n \in Nat : TimePasses(n) \in Nat
    BY DEF TimePasses
  <2>3. QED
    BY <2>1, <2>2, TickMembers, TickOnGrace DEF Tick
<1>2. lobbyExpires \in Int /\ abandonAt \in Int
  BY DuesTyped
<1>3. CASE phase = "waiting" /\ OnGrace # {}
  <2> DEFINE first == FirstOnGrace
             g == members[first].grace
  <2>1. first \in OnGrace /\ \A j \in OnGrace : g <= members[j].grace
    BY <1>3, FirstOnGraceIs
  <2>2. CASE g < lobbyExpires
    <3>1. LifeSpec = [SpecFor("waiting", <<0, 0, 0>>, g) EXCEPT !.who = first]
      BY <1>3, <2>2 DEF LifeSpec
    <3>2. LifeSpec = [kind |-> "waiting", nos |-> <<0, 0, 0>>, who |-> first,
                      as |-> NoRole, due |-> g]
      BY <3>1 DEF SpecFor
    <3>3. g # 0
      BY <3>2
    <3>4. \A i \in OnGrace : members[i].grace # 0
      BY <1>1, <2>1, <3>3
    <3>5. FirstOnGrace' = first
      BY <3>4, TickOnGrace
    <3>6. members'[first].grace = TimePasses(g) /\ TimePasses(g) < lobbyExpires'
      BY <1>1, <1>2, <2>1, <2>2, <3>3 DEF TimePasses
    <3>7. LifeSpec' = [SpecFor("waiting", <<0, 0, 0>>, TimePasses(g)) EXCEPT !.who = first]
      BY <1>1, <1>3, <3>5, <3>6 DEF LifeSpec
    <3>8. LifeSpec' = [kind |-> "waiting", nos |-> <<0, 0, 0>>, who |-> first,
                       as |-> NoRole, due |-> TimePasses(g)]
      BY <3>7 DEF SpecFor
    <3>9. QED
      BY <3>2, <3>8 DEF AgedSpec
  <2>3. CASE ~(g < lobbyExpires)
    <3>1. LifeSpec = SpecFor("lobby", <<0, 0, 0>>, lobbyExpires)
      BY <1>3, <2>3 DEF LifeSpec
    <3>2. lobbyExpires # 0
      BY <1>2, <3>1, SpecForTyped
    <3>3. FirstOnGrace' \in OnGrace
      <4>1. (RoomInv /\ OnGrace # {} => FirstOnGrace \in OnGrace)'
        BY FirstOnGraceThere, PTL
      <4>2. QED
        BY <1>1, <1>3, <4>1
    <3>4. ~(members'[FirstOnGrace'].grace < lobbyExpires')
      <4>1. members[FirstOnGrace'].grace \in Nat /\ lobbyExpires <= members[FirstOnGrace'].grace
        BY <1>1, <1>2, <2>1, <2>3, <3>3
      <4>2. QED
        BY <1>1, <1>2, <3>2, <3>3, <4>1 DEF TimePasses
    <3>5. LifeSpec' = SpecFor("lobby", <<0, 0, 0>>, TimePasses(lobbyExpires))
      BY <1>1, <1>3, <3>4 DEF LifeSpec
    <3>6. QED
      BY <3>1, <3>5, AgedIs
  <2>4. QED
    BY <2>2, <2>3
<1>4. CASE phase = "waiting" /\ OnGrace = {}
  BY <1>1, <1>4, AgedIs DEF LifeSpec
<1>5. CASE phase # "waiting"
  <2>1. abandonAt' = Never <=> abandonAt = Never
    BY <1>1, <1>2, AgedIs
  <2>2. QED
    BY <1>1, <1>5, <2>1, AgedIs DEF LifeSpec
<1>6. QED
  BY <1>3, <1>4, <1>5


-----------------------------------------------------------------------------
(* The steps of the server are steps of the room.                          *)

\* A step in which nobody comes or goes.
SteadyStep ==
  /\ Steady \/ SweepMembers
  /\ UNCHANGED <<online, flaps>> /\ (server = "exiting" => server' = "exiting")

PresenceStep == \E u \in Users : ClientJoins(u) \/ Connect(u) \/ Disconnect(u)

LEMMA SeatIs ==
  ASSUME ServerInv, server # "exiting", NEW u \in online, NEW m \in Seat(u)
  PROVE  m \in Connected(members)
BY DEF ServerInv, ConnectedMeansOnline, Seat, Connected

\* The AI moves for a member only while it may.
LEMMA DecisionIs ==
  ASSUME ServerInv, NEW f \in inFlight, f = PhaseSpec
  PROVE  /\ WaitsForPlayer(engine) => f.who = NextRequest(engine, members)
         /\ f.who \in DOMAIN members /\ f.who = Waiter
         /\ Automated(members[Waiter]) \/ turnDeadline = 0
<1>1. /\ f.kind = "turn"
      /\ Excused(f.as) \/ f.due \in {0, Past}
  BY DEF ServerInv, InFlightSound
<1>2. /\ f.due = turnDeadline /\ Waiter \in DOMAIN members /\ f.who = Waiter
      /\ f.as = Role(members[Waiter]) /\ phase = "playing"
  <2>1. RoomInv /\ PhaseSpec.kind = "turn"
    BY <1>1 DEF ServerInv
  <2>2. f = TurnSpec /\ TurnSpec # NoSpec /\ phase = "playing"
    BY <2>1, PhaseSpecIs
  <2>3. QED
    BY <2>1, <2>2, TurnSpecIs
<1>3. CASE Excused(f.as)
  <2>1. \/ members[Waiter].departed
        \/ members[Waiter].connected /\ members[Waiter].controller = "ai"
    BY <1>2, <1>3 DEF Excused, Role
  <2>2. Automated(members[Waiter])
    BY <1>2, <2>1 DEF ServerInv, RoomInv, AiHoldsSeatOfAbsent, Humans, Automated
  <2>3. QED
    BY <1>2, <2>2 DEF Waiter
<1>4. CASE f.due \in {0, Past}
  <2>1. turnDeadline # Past
    BY LimitAssumption DEF ServerInv, RoomInv, TypeInv, TypeOK, TimeLeft, Past
  <2>2. QED
    BY <1>2, <1>4, <2>1 DEF Waiter
<1>5. QED
  BY <1>1, <1>3, <1>4

LEMMA ServerSteps ==
  ASSUME ServerInv, [ServerNext]_vars
  PROVE  SteadyStep \/ PresenceStep
<1>0. TypeInv
  BY DEF ServerInv, RoomInv
<1>1. ASSUME NEW u \in Users, ClientStarts(u) \/ ClientActs(u)
      PROVE  SteadyStep
  <2>1. PICK m \in Connected(members) :
          Start(m) \/ Continue(m) \/ Leave(m) \/ ReadyIntermission(m) \/ MiniGameInput(m)
    BY <1>1, SeatIs DEF ClientStarts, ClientActs
  <2>2. phase # "closed"
    BY <2>1 DEF Start, Continue, Leave, ReadyIntermission, MiniGameInput, InMiniGame
  <2>3. QED
    BY <1>1, <2>1, <2>2 DEF SteadyStep, Steady, ClientStarts, ClientActs
<1>2. ASSUME NEW u \in Users, NEW seq, ClientMoves(u, seq)
      PROVE  SteadyStep
  <2>1. PICK m \in Connected(members) : GameAction(m, seq)
    BY <1>2, SeatIs DEF ClientMoves
  <2>2. phase # "closed" /\ seq \in 0 .. MaxTurnSeq
    BY <1>0, <2>1 DEF GameAction, TypeInv, TypeOK
  <2>3. QED
    BY <1>2, <2>1, <2>2 DEF SteadyStep, Steady, ClientMoves
<1>3. CASE FirePhase
  <2>1. CASE phaseTimer.spec.kind = "miniGame" /\ MiniGameTick
    BY <1>3, <2>1 DEF FirePhase, MiniGameTick, InMiniGame, SteadyStep, Steady, ByServer
  <2>2. CASE phaseTimer.spec.kind = "setResult" /\ ExpireSetResult
    BY <1>3, <2>2 DEF FirePhase, ExpireSetResult, SteadyStep, Steady, ByServer
  <2>3. CASE /\ PhaseSpec = phaseTimer.spec
             /\ phaseTimer.spec.kind = "intermission" /\ AdvanceIntermission
    <3>1. phaseTimer.spec.due = interimEnds
      BY <2>3, PhaseSpecIs DEF ServerInv
    <3>2. interimEnds = Never \/ phaseTimer.left = interimEnds
      BY <2>3, <3>1 DEF ServerInv, TimerSound
    <3>3. interimEnds <= 0
      BY <1>3, <3>2 DEF FirePhase, Never
    <3>4. QED
      BY <1>3, <2>3, <3>3 DEF FirePhase, AdvanceIntermission, SteadyStep, Steady, ByServer
  <2>4. CASE UNCHANGED roomVars
    BY <1>3, <2>4 DEF FirePhase, SteadyStep, Steady
  <2>5. QED
    BY <1>3, <2>1, <2>2, <2>3, <2>4 DEF FirePhase
<1>4. ASSUME NEW f \in inFlight, Decide(f)
      PROVE  SteadyStep
  <2>1. WaitsForPlayer(engine) /\ phase # "closed" /\ GameAction(f.who, turnSeq)
    BY <1>4 DEF Decide, GameAction
  <2>2. AutoAct
    BY <1>4, <2>1, DecisionIs DEF Decide, AutoAct, Waiter
  <2>3. QED
    BY <1>4, <2>1, <2>2 DEF Decide, SteadyStep, Steady, ByServer
<1>5. CASE FireLife
  <2>1. CASE UNCHANGED roomVars
    BY <1>5, <2>1 DEF FireLife, SteadyStep, Steady
  <2>2. CASE LifeSpec = lifeTimer.spec /\ lifeTimer.spec.kind = "waiting"
             /\ ExpireWaitingMember(lifeTimer.spec.who)
    <3>1. lifeTimer.spec.who \in MemberId /\ phase # "closed"
      BY <1>0, <2>2 DEF ExpireWaitingMember, TypeInv, TypeOK
    <3>2. QED
      BY <1>5, <2>2, <3>1 DEF FireLife, SteadyStep, Steady, ByServer
  <2>3. CASE ExpireRoom
    BY <1>5, <2>3 DEF FireLife, ExpireRoom, SteadyStep, Steady, ByServer
  <2>4. QED
    BY <1>5, <2>1, <2>2, <2>3 DEF FireLife
<1>6. CASE Sweep
  <2>1. CASE SweepMembers
    BY <1>6, <2>1 DEF Sweep, SteadyStep
  <2>2. CASE ExpireRoom \/ ExpireSetResult
    <3>1. phase # "closed"
      BY <2>2 DEF ExpireRoom, ExpireSetResult
    <3>2. QED
      BY <1>6, <2>2, <3>1 DEF Sweep, SteadyStep, Steady, ByServer
  <2>3. QED
    BY <1>6, <2>1, <2>2 DEF Sweep
<1>7. CASE BeginDrain
  <2>1. CASE UNCHANGED roomVars
    BY <1>7, <2>1 DEF BeginDrain, SteadyStep, Steady
  <2>2. CASE RequestDrain
    BY <1>7, <2>2 DEF BeginDrain, RequestDrain, SteadyStep, Steady, ByServer
  <2>3. QED
    BY <1>7, <2>1, <2>2 DEF BeginDrain
<1>8. CASE TimeGoesOn
  BY <1>8 DEF TimeGoesOn, SteadyStep, Steady
<1>9. CASE \/ \E u \in Users : Compose(u)
           \/ FireTurn \/ (\E f \in inFlight : DecideInVain(f))
           \/ Drained \/ UNCHANGED vars
  BY <1>9 DEF Compose, FireTurn, DecideInVain, Drained, vars, SteadyStep, Steady
<1>10. QED
  BY <1>1, <1>2, <1>3, <1>4, <1>5, <1>6, <1>7, <1>8, <1>9
     DEF ServerNext, ClientNext, TimersNext, ThoughtOver, Thought, PresenceStep

LEMMA ServerRoomStep ==
  ASSUME ServerInv, [ServerNext]_vars
  PROVE  RoomStep /\ RoomInv'
<1>1. PresenceStep => Presence
  <2>1. \A u : Seat(u) \subseteq MemberId
    BY DEF Seat, Humans, ServerInv, RoomInv, TypeInv, TypeOK
  <2>2. QED
    BY <2>1 DEF PresenceStep, Presence, ClientJoins, Connect, Disconnect
<1>2. RoomStep
  BY <1>1, ServerSteps, NextIs DEF SteadyStep, RoomStep
<1>3. QED
  BY <1>2, RoomInvStep DEF ServerInv


-----------------------------------------------------------------------------
(* Who is connected is online.                                             *)

LEMMA OnlineStep ==
  ASSUME ServerInv, [ServerNext]_vars
  PROVE  ConnectedMeansOnline' /\ online' \subseteq Users /\ flaps' \in 0 .. MaxFlaps
<1>1. MembersTyped(members) /\ OneSeatPerUser /\ ConnectedMeansOnline
      /\ online \subseteq Users /\ flaps \in 0 .. MaxFlaps
  BY DEF ServerInv, RoomInv, TypeInv, TypeOK, MembersTyped
<1>2. CASE SteadyStep
  <2>1. CarriedFrom(members, members')
    BY <1>2, CarriedStep, SweepKeeps DEF SteadyStep, ServerInv, RoomInv
  <2>2. \A i \in Humans(members') : /\ i \in Humans(members)
                                    /\ members'[i].user = members[i].user
                                    /\ members'[i].connected = members[i].connected
    BY <2>1 DEF CarriedFrom, Carried, NewAi, Humans
  <2>3. QED
    BY <1>1, <1>2, <2>2 DEF SteadyStep, ConnectedMeansOnline
<1>3. ASSUME NEW u \in Users, NEW on \in BOOLEAN, server # "exiting",
             online' = (IF on THEN online \cup {u} ELSE online \ {u}),
             \E m \in Seat(u) : ConnectionChanged(m, on)
      PROVE  ConnectedMeansOnline'
  <2>1. PICK m \in Seat(u) : ConnectionChanged(m, on)
    BY <1>3
  <2>2. /\ m \in DOMAIN members /\ members[m].user = u
        /\ DOMAIN members' = DOMAIN members
        /\ members'[m].connected = on
        /\ \A i \in DOMAIN members : /\ members'[i].user = members[i].user
                                     /\ members'[i].isAI = members[i].isAI
                                     /\ members'[i].departed = members[i].departed
        /\ \A i \in DOMAIN members \ {m} : members'[i] = members[i]
    BY <1>1, <2>1 DEF Seat, ConnectionChanged, Humans, MembersTyped, Member
  <2>3. \A i \in DOMAIN members \ {m} : members[i].user # u
    BY <1>1, <2>2, UsersAssumption DEF OneSeatPerUser
  <2>4. Humans(members') = Humans(members)
    BY <2>2 DEF Humans
  <2>5. Humans(members) \subseteq DOMAIN members
    BY DEF Humans
  <2>6. \A i \in Humans(members) : members'[i].connected <=> members'[i].user \in online'
    <3> SUFFICES ASSUME NEW i \in Humans(members)
                 PROVE  members'[i].connected <=> members'[i].user \in online'
      OBVIOUS
    <3>1. CASE i = m
      BY <1>3, <2>2, <3>1
    <3>2. CASE i # m
      BY <1>1, <1>3, <2>2, <2>3, <2>5, <3>2 DEF ConnectedMeansOnline
    <3>3. QED
      BY <3>1, <3>2
  <2>7. QED
    BY <2>4, <2>6 DEF ConnectedMeansOnline
<1>4. ASSUME NEW u \in Users, ClientJoins(u)
      PROVE  ConnectedMeansOnline'
  <2>1. PICK m \in MemberId :
          /\ DOMAIN members' = DOMAIN members \cup {m}
          /\ members'[m].user = u /\ members'[m].connected
          /\ \A i \in DOMAIN members \ {m} : members'[i] = members[i]
    <3>1. CASE Join(u)
      <4>1. PICK rank \in 1 .. MaxRank :
              members' = [i \in DOMAIN members \cup {u} |->
                            IF i = u THEN NewHuman(u, rank, FALSE, phase = "setResult")
                            ELSE members[i]]
        BY <3>1 DEF Join
      <4>2. /\ DOMAIN members' = DOMAIN members \cup {u}
            /\ members'[u] = NewHuman(u, rank, FALSE, phase = "setResult")
            /\ \A i \in DOMAIN members \ {u} : members'[i] = members[i]
        BY <4>1
      <4>3. members'[u].user = u /\ members'[u].connected
        BY <4>2 DEF NewHuman
      <4>4. QED
        BY <4>2, <4>3 DEF MemberId
    <3>2. CASE \E a \in Ais : JoinTakeover(u, a)
      <4>1. PICK a \in Ais, rank \in 1 .. MaxRank :
              /\ a \in DOMAIN members
              /\ members' = [members EXCEPT ![a] =
                               [NewHuman(u, rank, FALSE, FALSE) EXCEPT
                                  !.seated = members[a].seated]]
        BY <3>2 DEF JoinTakeover
      <4>2. /\ DOMAIN members' = DOMAIN members \cup {a}
            /\ members'[a] = [NewHuman(u, rank, FALSE, FALSE) EXCEPT
                                !.seated = members[a].seated]
            /\ \A i \in DOMAIN members \ {a} : members'[i] = members[i]
        BY <1>1, <4>1 DEF MembersTyped
      <4>3. members'[a].user = u /\ members'[a].connected
        BY <4>2 DEF NewHuman
      <4>4. QED
        BY <4>2, <4>3 DEF MemberId
    <3>3. QED
      BY <1>4, <3>1, <3>2 DEF ClientJoins
  <2>2. \A i \in DOMAIN members : members[i].user # u
    <3>1. u \notin UsersIn(members)
      BY <1>4 DEF ClientJoins, Join, JoinTakeover
    <3>2. QED
      BY <3>1, UsersAssumption DEF UsersIn
  <2>3. server # "exiting" /\ online' = online \cup {u}
    BY <1>4 DEF ClientJoins
  <2>4. \A i \in Humans(members') \ {m} : i \in Humans(members) /\ i \in DOMAIN members \ {m}
    BY <2>1 DEF Humans
  <2>5. QED
    BY <1>1, <2>1, <2>2, <2>3, <2>4 DEF ConnectedMeansOnline, Humans
<1>5. CASE PresenceStep
  <2>1. PICK u \in Users : ClientJoins(u) \/ Connect(u) \/ Disconnect(u)
    BY <1>5 DEF PresenceStep
  <2>2. CASE ClientJoins(u)
    BY <1>1, <1>4, <2>2 DEF ClientJoins
  <2>3. CASE Connect(u)
    BY <1>1, <1>3, <2>3 DEF Connect
  <2>4. CASE Disconnect(u)
    <3>1. flaps' \in 0 .. MaxFlaps
      BY <1>1, <2>4, FlapAssumption DEF Disconnect
    <3>2. QED
      BY <1>1, <1>3, <2>4, <3>1 DEF Disconnect
  <2>5. QED
    BY <2>1, <2>2, <2>3, <2>4
<1>6. QED
  BY <1>1, <1>2, <1>5, ServerSteps DEF SteadyStep

-----------------------------------------------------------------------------
(* What a step of the server does to the timers.                           *)

LEMMA LifeSpecThere == RoomInv => LifeSpec \in TimerSpec
BY LifeSpecTyped

LEMMA SyncedLife ==
  ASSUME RoomInv', NEW t \in [spec : TimerSpec, left : Int], t.left = t.spec.due, SyncLife(t)
  PROVE  LifeTimerSound' /\ LifeTimerFollowsRoom'
<1>1. (RoomInv => LifeSpec \in TimerSpec)'
  BY LifeSpecThere, PTL
<1>2. LifeSpec' \in TimerSpec /\ LifeSpec'.due \in Int
  BY <1>1 DEF TimerSpec
<1>3. NoTimer \in [spec : TimerSpec, left : Int] /\ NoTimer.left = NoTimer.spec.due
  BY NoSpecTyped DEF NoTimer, Never
<1>4. CASE LifeSpec' = NoSpec
  BY <1>3, <1>4 DEF SyncLife, LifeTimerSound, LifeTimerFollowsRoom
<1>5. CASE LifeSpec' # NoSpec /\ t.spec = LifeSpec'
  <2>1. lifeTimer' = t /\ t = [spec |-> LifeSpec', left |-> LifeSpec'.due]
    BY <1>5 DEF SyncLife
  <2>2. QED
    BY <1>5, <2>1 DEF LifeTimerSound, LifeTimerFollowsRoom
<1>6. CASE LifeSpec' # NoSpec /\ t.spec # LifeSpec'
  <2>1. lifeTimer' = [spec |-> LifeSpec', left |-> LifeSpec'.due]
    BY <1>6 DEF SyncLife
  <2>2. QED
    BY <1>2, <1>6, <2>1 DEF LifeTimerSound, LifeTimerFollowsRoom
<1>7. QED
  BY <1>4, <1>5, <1>6

LEMMA LifeTimerTimePasses ==
  ASSUME ServerInv, RoomInv', TimeGoesOn
  PROVE  LifeTimerSound' /\ LifeTimerFollowsRoom'
<1>1. /\ lifeTimer \in [spec : TimerSpec, left : Int] /\ lifeTimer.left = lifeTimer.spec.due
      /\ lifeTimer.left # 0 /\ lifeTimer' = Aged(lifeTimer) /\ server # "exiting" /\ RoomInv
      /\ Tick
  BY DEF ServerInv, LifeTimerSound, TimeGoesOn
<1>2. /\ Aged(lifeTimer).spec = AgedSpec(lifeTimer.spec)
      /\ Aged(lifeTimer).left = TimePasses(lifeTimer.left)
      /\ Aged(lifeTimer) = [spec |-> AgedSpec(lifeTimer.spec), left |-> TimePasses(lifeTimer.left)]
  BY DEF Aged, AgedSpec
<1>3. /\ AgedSpec(lifeTimer.spec) \in TimerSpec
      /\ AgedSpec(lifeTimer.spec).due = TimePasses(lifeTimer.spec.due)
      /\ TimePasses(lifeTimer.left) \in Int
  BY <1>1, AgedIs
<1>4. LifeTimerSound'
  BY <1>1, <1>2, <1>3 DEF LifeTimerSound
<1>5. LifeSpec' = AgedSpec(LifeSpec) /\ (LifeSpec' = NoSpec => LifeSpec = NoSpec)
  <2>1. LifeSpec.due # 0
    <3>1. CASE LifeSpec = NoSpec
      BY <3>1, NoSpecTyped DEF Never
    <3>2. CASE LifeSpec # NoSpec
      BY <1>1, <3>2 DEF ServerInv, LifeTimerFollowsRoom
    <3>3. QED
      BY <3>1, <3>2
  <2>2. LifeSpec' = AgedSpec(LifeSpec)
    BY <1>1, <2>1, TickLifeSpec
  <2>3. LifeSpec = NoSpec \/ LifeSpec.kind # "none"
    <3>1. LifeSpec = NoSpec \/ LifeSpec.kind \in {"waiting", "lobby", "abandon"}
      BY DEF LifeSpec, SpecFor
    <3>2. QED
      BY <3>1
  <2>4. AgedSpec(LifeSpec).kind = LifeSpec.kind
    BY <1>1, LifeSpecTyped, AgedIs
  <2>5. QED
    BY <2>2, <2>3, <2>4, NoSpecTyped
<1>6. CASE LifeSpec = NoSpec
  <2>1. lifeTimer = NoTimer
    BY <1>1, <1>6 DEF ServerInv, LifeTimerFollowsRoom
  <2>2. lifeTimer' = [spec |-> NoSpec, left |-> Never] /\ LifeSpec' = NoSpec
    BY <1>1, <1>2, <1>5, <1>6, <2>1, AgedIs DEF NoTimer, TimePasses, Never
  <2>3. QED
    BY <1>4, <2>2 DEF LifeTimerFollowsRoom, NoTimer
<1>7. CASE LifeSpec # NoSpec
  <2>1. lifeTimer.spec = LifeSpec
    BY <1>1, <1>7 DEF ServerInv, LifeTimerFollowsRoom
  <2>2. lifeTimer' = [spec |-> LifeSpec', left |-> LifeSpec'.due] /\ LifeSpec' # NoSpec
    BY <1>1, <1>2, <1>3, <1>5, <1>7, <2>1
  <2>3. QED
    BY <1>4, <2>2 DEF LifeTimerFollowsRoom
<1>8. QED
  BY <1>4, <1>6, <1>7

\* The lifecycle timer is synchronised with the room in every step that changes
\* the room.
LEMMA LifeTimerStep ==
  ASSUME ServerInv, RoomInv', [ServerNext]_vars
  PROVE  LifeTimerSound' /\ LifeTimerFollowsRoom'
<1>1. CASE SyncLife(lifeTimer)
  BY <1>1, SyncedLife DEF ServerInv, LifeTimerSound
<1>2. CASE SyncLife(NoTimer)
  <2>1. NoTimer \in [spec : TimerSpec, left : Int] /\ NoTimer.left = NoTimer.spec.due
    BY NoSpecTyped DEF NoTimer, Never
  <2>2. QED
    BY <1>2, <2>1, SyncedLife
<1>3. CASE UNCHANGED <<roomVars, lifeTimer, server>>
  <2>1. LifeSpec' = LifeSpec
    BY <1>3 DEF LifeSpec, OnGrace, FirstOnGrace, roomVars, clocks
  <2>2. QED
    BY <1>3, <2>1 DEF ServerInv, LifeTimerSound, LifeTimerFollowsRoom
<1>4. CASE Drained
  <2>1. lifeTimer' = NoTimer /\ server' = "exiting"
    BY <1>4 DEF Drained
  <2>2. QED
    BY <2>1, NoSpecTyped DEF LifeTimerSound, LifeTimerFollowsRoom, NoTimer, Never
<1>5. CASE TimeGoesOn
  BY <1>5, LifeTimerTimePasses
<1>6. ASSUME NEW u \in Users,
             \/ ClientJoins(u) \/ ClientStarts(u) \/ ClientActs(u)
             \/ ClientMoves(u, turnSeq) \/ ClientMoves(u, sent[u].seq)
             \/ Connect(u) \/ Disconnect(u)
      PROVE  SyncLife(lifeTimer)
  BY <1>6 DEF ClientJoins, ClientStarts, ClientActs, ClientMoves, Connect, Disconnect, Publish
<1>7. FirePhase \/ Sweep \/ Thought => SyncLife(lifeTimer)
  BY DEF FirePhase, Sweep, Publish, Thought, Decide
<1>8. FireLife => SyncLife(NoTimer)
  BY DEF FireLife
<1>9. \/ \E u \in Users : Compose(u)
      \/ FireTurn \/ (\E f \in inFlight : DecideInVain(f)) \/ UNCHANGED vars
      => UNCHANGED <<roomVars, lifeTimer, server>>
  BY DEF Compose, FireTurn, DecideInVain, vars, timers
<1>10. CASE BeginDrain
  <2>1. CASE Publish
    BY <1>1, <2>1 DEF Publish
  <2>2. CASE UNCHANGED <<roomVars, timers>>
    <3>1. LifeSpec' = LifeSpec
      BY <2>2 DEF LifeSpec, OnGrace, FirstOnGrace, roomVars, clocks
    <3>2. server # "exiting" /\ lifeTimer' = lifeTimer
      BY <1>10, <2>2 DEF BeginDrain, timers
    <3>3. QED
      BY <3>1, <3>2 DEF ServerInv, LifeTimerSound, LifeTimerFollowsRoom
  <2>3. QED
    BY <1>10, <2>1, <2>2 DEF BeginDrain
<1>11. QED
  BY <1>1, <1>2, <1>3, <1>4, <1>5, <1>6, <1>7, <1>8, <1>9, <1>10
     DEF ServerNext, ClientNext, TimersNext, ThoughtOver

\* The time that passes for the timer of the phase passes for the room.
LEMMA PhaseTimerTimePasses ==
  ASSUME ServerInv, TimeGoesOn
  PROVE  TimerSound(phaseTimer)' /\ PhaseTimerFollowsRoom'
<1>1. /\ RoomInv /\ Tick /\ TimerSound(phaseTimer) /\ PhaseTimerFollowsRoom
      /\ server # "exiting" /\ phaseTimer' = Aged(phaseTimer)
      /\ inFlight' = {TimePassesFor(f) : f \in inFlight}
  BY DEF ServerInv, TimeGoesOn
<1>2. TimerSound(phaseTimer)' /\ phaseTimer'.spec = AgedSpec(phaseTimer.spec)
  BY <1>1, AgedSound
<1>3. /\ PhaseSpec' = AgedSpec(PhaseSpec) /\ PhaseSpec \in TimerSpec
      /\ AgedSpec(PhaseSpec).kind = PhaseSpec.kind
      /\ PhaseSpec # NoSpec => PhaseSpec' # NoSpec
  <2>1. PhaseSpec' = AgedSpec(PhaseSpec)
    BY <1>1, TickPhaseSpec
  <2>2. /\ PhaseSpec \in TimerSpec
        /\ PhaseSpec # NoSpec => PhaseSpec.kind # "none"
    BY <1>1, PhaseSpecIs
  <2>3. AgedSpec(PhaseSpec).kind = PhaseSpec.kind
    BY <2>2, AgedIs
  <2>4. QED
    BY <2>1, <2>2, <2>3, NoSpecTyped
<1>4. CASE PhaseSpec = NoSpec
  <2>1. phaseTimer = NoTimer
    BY <1>1, <1>4 DEF PhaseTimerFollowsRoom
  <2>2. Aged(NoTimer) = [spec |-> AgedSpec(NoSpec), left |-> TimePasses(Never)]
    BY DEF Aged, AgedSpec, NoTimer
  <2>3. phaseTimer' = NoTimer
    BY <1>1, <2>1, <2>2, AgedIs DEF NoTimer, TimePasses, Never
  <2>4. PhaseSpec' = NoSpec
    BY <1>3, <1>4, AgedIs
  <2>5. QED
    BY <1>2, <2>3, <2>4 DEF PhaseTimerFollowsRoom
<1>5. CASE PhaseSpec \in inFlight /\ PhaseSpec # NoSpec
  <2>1. TimePassesFor(PhaseSpec) = AgedSpec(PhaseSpec)
    <3>1. CASE PhaseSpec.due < 0
      <4>1. PhaseSpec.due \in Int
        BY <1>3 DEF TimerSpec
      <4>2. TimePasses(PhaseSpec.due) = PhaseSpec.due
        BY <3>1, <4>1 DEF TimePasses
      <4>3. AgedSpec(PhaseSpec) = PhaseSpec
        BY <1>3, <4>2 DEF AgedSpec, TimerSpec
      <4>4. QED
        BY <3>1, <4>3 DEF TimePassesFor
    <3>2. CASE ~(PhaseSpec.due < 0)
      BY <3>2 DEF TimePassesFor, AgedSpec
    <3>3. QED
      BY <3>1, <3>2
  <2>2. PhaseSpec' \in inFlight'
    BY <1>1, <1>3, <1>5, <2>1
  <2>3. QED
    BY <1>2, <1>3, <1>5, <2>2 DEF PhaseTimerFollowsRoom
<1>6. CASE PhaseSpec \notin inFlight /\ PhaseSpec # NoSpec
  <2>1. phaseTimer.spec = PhaseSpec
    BY <1>1, <1>6 DEF PhaseTimerFollowsRoom
  <2>2. phaseTimer'.spec = PhaseSpec'
    BY <1>2, <1>3, <2>1
  <2>3. PhaseSpec'.due # Never /\ PhaseSpec'.kind # "turn" => phaseTimer'.left = PhaseSpec'.due
    BY <1>2, <2>2 DEF TimerSound
  <2>4. QED
    BY <1>2, <1>3, <1>6, <2>2, <2>3 DEF PhaseTimerFollowsRoom
<1>7. QED
  BY <1>4, <1>5, <1>6

\* The timer of the phase is synchronised with the room, or its time is up and
\* a decision is on its way, or the room calls for the timer it has.
LEMMA PhaseTimerStep ==
  ASSUME ServerInv, RoomInv', [ServerNext]_vars
  PROVE  TimerSound(phaseTimer)' /\ PhaseTimerFollowsRoom'
<1>1. CASE SyncPhase(phaseTimer, inFlight')
  BY <1>1, SyncedSound DEF ServerInv
<1>2. CASE SyncPhase(NoTimer, inFlight')
  BY <1>2, SyncedSound, NoTimerSound
<1>3. ASSUME UNCHANGED <<phaseTimer, inFlight>>, PhaseSpec' = PhaseSpec,
             server = "exiting" => server' = "exiting"
      PROVE  TimerSound(phaseTimer)' /\ PhaseTimerFollowsRoom'
  <2>1. TimerSound(phaseTimer) /\ (server # "exiting" => PhaseTimerFollowsRoom)
    BY DEF ServerInv
  <2>2. QED
    BY <1>3, <2>1 DEF PhaseTimerFollowsRoom
<1>4. UNCHANGED roomVars => PhaseSpec' = PhaseSpec
  BY DEF roomVars, clocks, PhaseSpec, TurnSpec, Waiter
<1>5. ASSUME NEW u \in Users, ClientJoins(u)
      PROVE  \/ SyncPhase(phaseTimer, inFlight')
             \/ UNCHANGED <<phaseTimer, inFlight, server>> /\ PhaseSpec' = PhaseSpec
  <2>1. CASE Join(u) /\ UNCHANGED <<phaseTimer, inFlight>>
    <3>1. phase # "playing" /\ UNCHANGED <<phase, engine, setNo, turnSeq, clocks>>
      BY <2>1 DEF Join
    <3>2. PhaseSpec' = PhaseSpec
      BY <3>1 DEF PhaseSpec, clocks
    <3>3. QED
      BY <1>5, <2>1, <3>2 DEF ClientJoins
  <2>2. CASE Publish
    BY <2>2 DEF Publish
  <2>3. QED
    BY <1>5, <2>1, <2>2 DEF ClientJoins
<1>6. ASSUME NEW u \in Users,
             \/ ClientStarts(u) \/ ClientActs(u)
             \/ ClientMoves(u, turnSeq) \/ ClientMoves(u, sent[u].seq)
             \/ Connect(u) \/ Disconnect(u)
      PROVE  SyncPhase(phaseTimer, inFlight')
  BY <1>6 DEF ClientStarts, ClientActs, ClientMoves, Connect, Disconnect, Publish
<1>7. Sweep \/ FireLife \/ Thought => SyncPhase(phaseTimer, inFlight')
  BY DEF FireLife, Sweep, Publish, Thought, Decide
<1>8. FirePhase => SyncPhase(NoTimer, inFlight')
  BY DEF FirePhase
<1>9. CASE (\E u \in Users : Compose(u)) \/ UNCHANGED vars
  BY <1>3, <1>4, <1>9 DEF Compose, vars, timers
<1>10. CASE BeginDrain
  <2>1. CASE Publish
    BY <1>1, <2>1 DEF Publish
  <2>2. CASE UNCHANGED <<roomVars, timers>>
    BY <1>3, <1>4, <1>10, <2>2 DEF BeginDrain, timers
  <2>3. QED
    BY <1>10, <2>1, <2>2 DEF BeginDrain
<1>11. CASE Drained
  BY <1>11, NoTimerSound DEF Drained, PhaseTimerFollowsRoom
<1>12. CASE FireTurn
  <2>1. CASE SyncPhase(NoTimer, inFlight) /\ UNCHANGED inFlight
    BY <1>2, <2>1
  <2>2. CASE /\ PhaseSpec = phaseTimer.spec /\ phaseTimer' = NoTimer
             /\ inFlight' = inFlight \cup {phaseTimer.spec} /\ UNCHANGED roomVars
    <3>1. PhaseSpec' \in inFlight'
      BY <1>4, <2>2
    <3>2. PhaseSpec' # NoSpec
      BY <1>4, <1>12, <2>2, NoSpecTyped DEF FireTurn
    <3>3. QED
      BY <2>2, <3>1, <3>2, NoTimerSound DEF PhaseTimerFollowsRoom
  <2>3. QED
    BY <1>12, <2>1, <2>2 DEF FireTurn
<1>13. ASSUME NEW f \in inFlight, DecideInVain(f)
       PROVE  TimerSound(phaseTimer)' /\ PhaseTimerFollowsRoom'
  <2>1. CASE (server = "exiting" \/ phase = "closed") /\ UNCHANGED phaseTimer
    <3>1. server' = server /\ PhaseSpec' = PhaseSpec
      BY <1>4, <1>13 DEF DecideInVain
    <3>2. phase = "closed" => PhaseSpec = NoSpec
      BY DEF PhaseSpec
    <3>3. TimerSound(phaseTimer)'
      BY <2>1 DEF ServerInv
    <3>4. QED
      BY <2>1, <3>1, <3>2, <3>3 DEF ServerInv, PhaseTimerFollowsRoom
  <2>2. CASE SyncPhase(phaseTimer, inFlight')
    BY <1>1, <2>2
  <2>3. QED
    BY <1>13, <2>1, <2>2 DEF DecideInVain
<1>14. CASE TimeGoesOn
  BY <1>14, PhaseTimerTimePasses
<1>15. CASE \E u \in Users : ClientJoins(u)
  BY <1>1, <1>3, <1>5, <1>15
<1>16. QED
  BY <1>1, <1>2, <1>6, <1>7, <1>8, <1>9, <1>10, <1>11, <1>12, <1>13, <1>14, <1>15
     DEF ServerNext, ClientNext, TimersNext, ThoughtOver

-----------------------------------------------------------------------------
(* Decisions of the AI, and moves that are on their way.                   *)

\* Only a turn that is up, or one the AI has anyway, is thought about.
LEMMA InFlightStep ==
  ASSUME ServerInv, [ServerNext]_vars
  PROVE  InFlightSound'
<1>1. InFlightSound /\ TimerSound(phaseTimer)
  BY DEF ServerInv
<1>2. CASE inFlight' \subseteq inFlight
  BY <1>1, <1>2 DEF InFlightSound
<1>3. CASE FireTurn
  <2>1. CASE inFlight' = inFlight \cup {phaseTimer.spec}
    <3> DEFINE f == phaseTimer.spec
    <3>1. f \in TimerSpec /\ f.kind = "turn" /\ phaseTimer.left = 0
      BY <1>1, <1>3 DEF FireTurn, TimerSound
    <3>2. Excused(f.as) \/ f.due = 0
      BY <1>1, <3>1 DEF TimerSound
    <3>3. QED
      BY <1>1, <2>1, <3>1, <3>2 DEF InFlightSound
  <2>2. QED
    BY <1>2, <1>3, <2>1 DEF FireTurn
<1>4. CASE TimeGoesOn
  <2> SUFFICES ASSUME NEW f \in inFlight
               PROVE  /\ TimePassesFor(f) \in TimerSpec /\ TimePassesFor(f).kind = "turn"
                      /\ \/ Excused(TimePassesFor(f).as)
                         \/ TimePassesFor(f).due \in {0, Past}
    BY <1>4 DEF TimeGoesOn, InFlightSound
  <2>1. f \in TimerSpec /\ f.kind = "turn" /\ f.due \in Int
        /\ (Excused(f.as) \/ f.due \in {0, Past})
    BY <1>1 DEF InFlightSound, TimerSpec
  <2>2. CASE f.due < 0
    BY <2>1, <2>2 DEF TimePassesFor
  <2>3. CASE ~(f.due < 0)
    <3>1. PICK d \in Int : /\ TimePassesFor(f) = [f EXCEPT !.due = d]
                           /\ d = TimePasses(f.due) \/ d = Past
      BY <2>1, <2>3, AgedIs DEF TimePassesFor, Past
    <3>2. /\ TimePassesFor(f) \in TimerSpec
          /\ TimePassesFor(f).kind = "turn" /\ TimePassesFor(f).as = f.as
          /\ TimePassesFor(f).due = d
      BY <2>1, <3>1 DEF TimerSpec
    <3>3. f.due = 0 => d \in {0, Past}
      BY <3>1 DEF TimePasses
    <3>4. f.due # Past
      BY <2>3 DEF Past
    <3>5. QED
      BY <2>1, <3>2, <3>3, <3>4
  <2>4. QED
    BY <2>2, <2>3
<1>5. FireTurn \/ TimeGoesOn \/ inFlight' \subseteq inFlight
  <2>1. \A u : ClientJoins(u) \/ ClientStarts(u) \/ ClientActs(u) \/ ClientMoves(u, turnSeq)
                 \/ ClientMoves(u, sent[u].seq) \/ Connect(u) \/ Disconnect(u) \/ Compose(u)
               => inFlight' = inFlight
    BY DEF ClientJoins, ClientStarts, ClientActs, ClientMoves, Connect, Disconnect, Compose,
       Publish, timers
  <2>2. FirePhase \/ FireLife \/ Sweep \/ BeginDrain \/ Drained \/ UNCHANGED vars
          => inFlight' = inFlight
    BY DEF FirePhase, FireLife, Sweep, BeginDrain, Drained, Publish, vars, timers
  <2>3. ThoughtOver => inFlight' \subseteq inFlight
    BY DEF ThoughtOver, Thought, Decide, DecideInVain
  <2>4. QED
    BY <2>1, <2>2, <2>3 DEF ServerNext, ClientNext, TimersNext
<1>6. QED
  BY <1>2, <1>3, <1>4, <1>5

\* While a player is waited for the position is another one only after a move,
\* which is counted, or in another phase of the room.
AtTurn == WaitsForPlayer(engine) /\ phase \in {"playing", "closed"}

LEMMA TurnStep ==
  ASSUME TypeInv, Steady \/ Presence \/ SweepMembers
  PROVE  /\ turnSeq' \in Nat /\ turnSeq \in Nat /\ turnSeq' >= turnSeq
         /\ turnSeq' = turnSeq /\ AtTurn => AtTurn' /\ Position' = Position
<1> DEFINE Goal == /\ turnSeq' >= turnSeq
                   /\ turnSeq' = turnSeq /\ AtTurn => AtTurn' /\ Position' = Position
<1>0. turnSeq \in Nat
  BY BoundAssumption DEF TypeInv, TypeOK
<1>1. CASE UNCHANGED <<phase, engine, setNo, turnSeq>>
  BY <1>0, <1>1 DEF AtTurn, Position, WaitsForPlayer
<1>2. ASSUME NEW m, NEW seq, GameAction(m, seq)
      PROVE  turnSeq' = turnSeq + 1
  BY <1>2 DEF GameAction
<1>3. ASSUME NEW ms, NEW humans, StartSet(ms, humans)
      PROVE  turnSeq' = turnSeq
  BY <1>3 DEF StartSet
<1>4. CASE UNCHANGED turnSeq /\ phase \in {"waiting", "setResult"}
  BY <1>0, <1>4 DEF AtTurn
<1>5. CASE UNCHANGED turnSeq /\ (engine.phase = "interimResult" \/ engine.game = "miniGame")
  BY <1>0, <1>5 DEF AtTurn, WaitsForPlayer
<1>6. CASE UNCHANGED <<engine, setNo, turnSeq>> /\ phase' \in {"playing", "closed"}
  BY <1>0, <1>6 DEF AtTurn, Position, WaitsForPlayer
<1>7. CASE RequestDrain /\ engine.phase = "gameInProgress"
  <2>1. engine \in Engine
    BY DEF TypeInv, TypeOK
  <2>2. engine' = [engine EXCEPT !.draining = TRUE, !.phase = "gameInProgress"]
        /\ phase' = "playing" /\ UNCHANGED <<setNo, turnSeq>>
    BY <1>7, <2>1 DEF RequestDrain, PhaseAfter, Engine
  <2>3. engine'.phase = "gameInProgress" /\ engine'.game = engine.game
        /\ engine'.results = engine.results /\ engine'.asked = engine.asked
    BY <2>1, <2>2 DEF Engine
  <2>4. QED
    BY <1>0, <1>7, <2>2, <2>3 DEF AtTurn, Position, WaitsForPlayer
<1>8. ASSUME NEW m,
             \/ Start(m) \/ Continue(m)
             \/ LeaveTable(m) /\ phase \in {"waiting", "setResult"}
      PROVE  UNCHANGED turnSeq /\ phase \in {"waiting", "setResult"}
  BY <1>3, <1>8 DEF Start, Continue, LeaveTable
<1>9. ExpireSetResult => UNCHANGED turnSeq /\ phase = "setResult"
  BY <1>3 DEF ExpireSetResult
<1>10. ExpireRoom \/ (\E m : phase = "playing" /\ LeavePlaying(m)) =>
         UNCHANGED <<engine, setNo, turnSeq>> /\ phase' \in {"playing", "closed"}
  BY DEF ExpireRoom, LeavePlaying
<1>11. AdvanceIntermission => UNCHANGED turnSeq /\ engine.phase = "interimResult"
  BY DEF AdvanceIntermission
<1>12. MiniGameTick => UNCHANGED turnSeq /\ engine.game = "miniGame"
  BY DEF MiniGameTick, InMiniGame
<1>13. CASE Presence \/ Tick \/ UNCHANGED roomVars
  <2>1. UNCHANGED <<phase, engine, setNo, turnSeq>>
    BY <1>13 DEF Presence, Join, JoinTakeover, ConnectionChanged, Tick, roomVars
  <2>2. QED
    BY <1>1, <2>1
<1>14. CASE SweepMembers
  BY <1>4, <1>14 DEF SweepMembers
<1>15. CASE RequestDrain /\ engine.phase # "gameInProgress"
  BY <1>5, <1>15 DEF RequestDrain
<1>16. CASE \E m : ReadyIntermission(m)
  <2>1. CASE AdvanceIntermission
    BY <1>5, <1>11, <2>1
  <2>2. CASE UNCHANGED <<phase, engine, setNo, turnSeq>>
    BY <1>1, <2>2
  <2>3. QED
    BY <1>16, <2>1, <2>2 DEF ReadyIntermission
<1>17. CASE \E m, seq : GameAction(m, seq)
  BY <1>0, <1>2, <1>17
<1>18. CASE \E m : Start(m) \/ Continue(m) \/ Leave(m) \/ ExpireWaitingMember(m)
  <2>1. PICK m : Start(m) \/ Continue(m) \/ Leave(m) \/ ExpireWaitingMember(m)
    BY <1>18
  <2>2. CASE phase = "playing" /\ LeavePlaying(m)
    BY <1>6, <1>10, <2>2
  <2>3. CASE ~(phase = "playing" /\ LeavePlaying(m))
    <3>1. \/ Start(m) \/ Continue(m)
          \/ LeaveTable(m) /\ phase \in {"waiting", "setResult"}
      BY <2>1, <2>3 DEF Leave, ExpireWaitingMember
    <3>2. QED
      BY <1>4, <1>8, <3>1
  <2>4. QED
    BY <2>2, <2>3
<1>19. CASE ExpireSetResult \/ ExpireRoom \/ AdvanceIntermission \/ MiniGameTick
  BY <1>4, <1>5, <1>6, <1>9, <1>10, <1>11, <1>12, <1>19
<1>20. CASE \E m : MiniGameInput(m)
  BY <1>1, <1>20 DEF MiniGameInput, roomVars
<1>21. QED
  BY <1>7, <1>13, <1>14, <1>15, <1>16, <1>17, <1>18, <1>19, <1>20
     DEF Steady, ByServer, AutoAct

LEMMA SentStep ==
  ASSUME ServerInv, [ServerNext]_vars
  PROVE  SentSound' /\ server' \in {"up", "draining", "exiting"}
<1>1. SentSound /\ server \in {"up", "draining", "exiting"}
  BY DEF ServerInv
<1>2. ASSUME NEW u \in Users, u \in Senders, Compose(u)
      PROVE  SentSound'
  <2>1. /\ sent' = [sent EXCEPT ![u] = [seq |-> turnSeq, at |-> Position]]
        /\ UNCHANGED <<roomVars, server>>
        /\ AtTurn
    BY <1>2 DEF Compose, AtTurn
  <2>2. /\ turnSeq' = turnSeq /\ Position' = Position /\ AtTurn'
        /\ WaitsForPlayer(engine') = WaitsForPlayer(engine) /\ phase' = phase
    BY <2>1 DEF roomVars, Position, AtTurn, WaitsForPlayer
  <2>3. turnSeq \in Nat
    BY BoundAssumption DEF ServerInv, RoomInv, TypeInv, TypeOK
  <2>4. QED
    BY <1>1, <1>2, <2>1, <2>2, <2>3 DEF SentSound, AtTurn
<1>3. ASSUME UNCHANGED sent
      PROVE  SentSound'
  <2>1. Steady \/ Presence \/ SweepMembers
    BY ServerRoomStep, NextIs DEF RoomStep
  <2>2. /\ turnSeq' \in Nat /\ turnSeq \in Nat /\ turnSeq' >= turnSeq
        /\ turnSeq' = turnSeq /\ AtTurn => AtTurn' /\ Position' = Position
    BY <2>1, TurnStep DEF ServerInv, RoomInv
  <2>3. \A u \in Senders :
          /\ sent[u].seq \in -1 .. turnSeq'
          /\ sent[u].seq = turnSeq' => AtTurn' /\ sent[u].at = Position'
    BY <1>1, <2>2 DEF SentSound, AtTurn
  <2>4. DOMAIN sent' = Senders /\ \A u \in Senders : sent'[u] = sent[u]
    BY <1>1, <1>3 DEF SentSound
  <2>5. \A u \in Senders :
          /\ sent'[u].seq \in -1 .. turnSeq'
          /\ sent'[u].seq = turnSeq' => AtTurn' /\ sent'[u].at = Position'
    BY <2>3, <2>4
  <2>6. QED
    BY <2>4, <2>5 DEF SentSound, AtTurn
<1>4. (\E u \in Users : u \in Senders /\ Compose(u)) \/ UNCHANGED sent
  BY DEF ServerNext, ClientNext, TimersNext, ThoughtOver, Thought, vars, ClientJoins,
     ClientStarts, ClientActs, ClientMoves, Connect, Disconnect, FirePhase, FireTurn,
     FireLife, Decide, DecideInVain, Sweep, BeginDrain, Drained, TimeGoesOn
<1>5. server' \in {"up", "draining", "exiting"}
  BY <1>1 DEF ServerNext, ClientNext, TimersNext, ThoughtOver, Thought, vars, ClientJoins,
     ClientStarts, ClientActs, ClientMoves, Connect, Disconnect, Compose, FirePhase,
     FireTurn, FireLife, Decide, DecideInVain, Sweep, BeginDrain, Drained, TimeGoesOn
<1>6. QED
  BY <1>2, <1>3, <1>4, <1>5

-----------------------------------------------------------------------------
(* The invariant of the server.                                            *)

LEMMA ServerInvInit == ServerInit => ServerInv
<1> SUFFICES ASSUME ServerInit PROVE ServerInv
  OBVIOUS
<1>1. RoomInv /\ phase = "waiting" /\ turnSeq = 0
  BY RoomInvInit DEF ServerInit, Init
<1>2. PICK u \in Users : members = [i \in {u} |-> NewHuman(u, 1, TRUE, FALSE)]
  BY DEF ServerInit, Init
<1>3. /\ online \subseteq Users /\ ConnectedMeansOnline
      /\ flaps \in 0 .. MaxFlaps /\ server = "up"
  <2>1. UsersIn(members) = {u}
    BY <1>2, UsersAssumption DEF UsersIn, NewHuman
  <2>2. \A i \in DOMAIN members : i = u /\ members[i].user = u /\ members[i].connected
    BY <1>2 DEF NewHuman
  <2>3. online = {u} /\ flaps = 0 /\ server = "up"
    BY <2>1 DEF ServerInit
  <2>4. ConnectedMeansOnline
    BY <2>2, <2>3 DEF ConnectedMeansOnline, Humans
  <2>5. QED
    BY <2>3, <2>4, FlapAssumption
<1>4. TimerSound(phaseTimer) /\ PhaseTimerFollowsRoom /\ InFlightSound
  <2>1. PhaseSpec = NoSpec
    BY <1>1 DEF PhaseSpec
  <2>2. QED
    BY <2>1, NoTimerSound DEF ServerInit, PhaseTimerFollowsRoom, InFlightSound
<1>5. LifeTimerSound /\ LifeTimerFollowsRoom
  <2>1. OnGrace = {}
    BY <1>2 DEF OnGrace, NewHuman
  <2>2. LifeSpec = SpecFor("lobby", <<0, 0, 0>>, lobbyExpires)
    BY <1>1, <2>1 DEF LifeSpec
  <2>3. /\ LifeSpec.kind = "lobby" /\ LifeSpec.due = lobbyExpires
        /\ LifeSpec \in TimerSpec /\ lobbyExpires \in Int
    BY <1>1, <2>2, DuesTyped, SpecForTyped
  <2>4. LifeSpec # NoSpec
    BY <2>3, NoSpecTyped
  <2>5. lifeTimer = [spec |-> LifeSpec, left |-> LifeSpec.due]
    BY <2>3 DEF ServerInit
  <2>6. QED
    BY <2>3, <2>4, <2>5 DEF LifeTimerSound, LifeTimerFollowsRoom
<1>6. SentSound
  BY <1>1 DEF ServerInit, SentSound, NothingSent
<1>7. QED
  BY <1>1, <1>3, <1>4, <1>5, <1>6 DEF ServerInv

LEMMA ServerInvStep == ServerInv /\ [ServerNext]_vars => ServerInv'
<1> SUFFICES ASSUME ServerInv, [ServerNext]_vars PROVE ServerInv'
  OBVIOUS
<1>1. RoomInv'
  BY ServerRoomStep
<1>2. QED
  BY <1>1, OnlineStep, PhaseTimerStep, LifeTimerStep, InFlightStep, SentStep DEF ServerInv

LEMMA ServerInvariant == ServerSpec => []ServerInv
BY ServerInvInit, ServerInvStep, PTL DEF ServerSpec

\* The state of the gateway and of the timers has its type.
THEOREM ServerTypes == ServerSpec => []ServerTypeOK
<1>1. ServerInv => ServerTypeOK
  BY DEF ServerInv, ServerTypeOK, SentSound, InFlightSound, TimerSound, LifeTimerSound
<1>2. QED
  BY <1>1, ServerInvariant, PTL

\* In whatever order sockets come and go, seats are taken and given up, and sets
\* end and begin: who takes part counts as connected exactly while he is online.
THEOREM Online == ServerSpec => []ConnectedMeansOnline
<1>1. ServerInv => ConnectedMeansOnline
  BY DEF ServerInv
<1>2. QED
  BY <1>1, ServerInvariant, PTL

\* After every step the timer of the phase is the one the room calls for, or a
\* decision for just this turn is on its way.
THEOREM PhaseTimer == ServerSpec => []PhaseTimerFollowsRoom
<1>1. ServerInv => PhaseTimerFollowsRoom
  BY DEF ServerInv
<1>2. QED
  BY <1>1, ServerInvariant, PTL

\* After every step the lifecycle timer is the one for whatever runs out first,
\* with the time that is left.
THEOREM LifeTimer == ServerSpec => []LifeTimerFollowsRoom
<1>1. ServerInv => LifeTimerFollowsRoom
  BY DEF ServerInv
<1>2. QED
  BY <1>1, ServerInvariant, PTL

\* The AI moves for a human only when he has left or his time is up, though he
\* may have come back while it was thinking.
THEOREM AiYields == ServerSpec => AiYieldsToHuman
<1>1. ServerInv /\ [ServerNext]_vars =>
        [inFlight' # inFlight /\ turnSeq' # turnSeq =>
           Automated(members[Waiter]) \/ turnDeadline = 0]_vars
  <2> SUFFICES ASSUME ServerInv, [ServerNext]_vars, inFlight' # inFlight, turnSeq' # turnSeq
               PROVE  Automated(members[Waiter]) \/ turnDeadline = 0
    OBVIOUS
  <2>1. \A u : ClientJoins(u) \/ ClientStarts(u) \/ ClientActs(u) \/ ClientMoves(u, turnSeq)
                 \/ ClientMoves(u, sent[u].seq) \/ Connect(u) \/ Disconnect(u) \/ Compose(u)
               => inFlight' = inFlight
    BY DEF ClientJoins, ClientStarts, ClientActs, ClientMoves, Connect, Disconnect, Compose,
       Publish, timers
  <2>2. FirePhase \/ FireLife \/ Sweep \/ BeginDrain \/ Drained \/ UNCHANGED vars
          => inFlight' = inFlight
    BY DEF FirePhase, FireLife, Sweep, BeginDrain, Drained, Publish, vars, timers
  <2>3. FireTurn \/ (\E f \in inFlight : DecideInVain(f)) \/ TimeGoesOn => turnSeq' = turnSeq
    BY DEF FireTurn, DecideInVain, TimeGoesOn, Tick, roomVars
  <2>4. PICK f \in inFlight : Decide(f)
    BY <2>1, <2>2, <2>3 DEF ServerNext, ClientNext, TimersNext, ThoughtOver, Thought
  <2>5. QED
    BY <2>4, DecisionIs DEF Decide
<1>2. QED
  BY <1>1, ServerInvariant, PTL DEF ServerSpec, AiYieldsToHuman

\* Whenever a move comes in, be it late or for the second time, it is accepted
\* only in the position its sender has seen.
THEOREM MoveFits == ServerSpec => MoveFitsPosition
<1>1. ServerInv => \A u \in Senders :
        sent[u] # NothingSent /\ sent[u].at # Position => ~ClientMoves(u, sent[u].seq)
  BY DEF ServerInv, SentSound, ClientMoves, GameAction
<1>2. ServerInv =>
        [\A u \in Senders :
           sent[u] # NothingSent /\ sent[u].at # Position
             => ~ClientMoves(u, sent[u].seq)]_vars
  BY <1>1
<1>3. QED
  BY <1>2, ServerInvariant, PTL DEF ServerSpec, MoveFitsPosition

-----------------------------------------------------------------------------
(* What has been proved of the room holds of the room in the server.       *)

\* The sweep leaves the lobby with a host as long as it has members.
LEMMA HostSweep ==
  ASSUME TypeInv, OneHostInLobby, SweepMembers
  PROVE  OneHostInLobby'
<1> DEFINE due == {i \in OnGrace : members[i].grace = 0}
           rest == Restricted(members, DOMAIN members \ due)
           lost == \E i \in due : members[i].isHost
<1>1. MembersTyped(members)
  BY DEF TypeInv, TypeOK, MembersTyped
<1>2. /\ phase = "waiting"
      /\ members' = IF lost /\ Humans(rest) # {}
                    THEN [i \in DOMAIN rest |->
                            [rest[i] EXCEPT !.isHost = (i = NextHost(rest))]]
                    ELSE rest
      /\ phase' = IF Humans(rest) = {} THEN "closed" ELSE phase
  BY DEF SweepMembers
<1>3. /\ MembersTyped(rest) /\ DOMAIN rest = DOMAIN members \ due
      /\ \A i \in DOMAIN rest : rest[i] = members[i]
  BY <1>1 DEF Restricted, MembersTyped
<1>4. PICK h \in Humans(members) : \A i \in DOMAIN members : members[i].isHost <=> i = h
  BY <1>2 DEF OneHostInLobby
<1>5. due \subseteq DOMAIN members
  BY DEF OnGrace
<1> HIDE DEF rest, due
<1>6. CASE Humans(rest) = {}
  BY <1>2, <1>6 DEF OneHostInLobby
<1>7. CASE Humans(rest) # {} /\ lost
  <2>1. /\ DOMAIN members' = DOMAIN rest
        /\ \A i \in DOMAIN rest :
             members'[i] = [rest[i] EXCEPT !.isHost = (i = NextHost(rest))]
    BY <1>2, <1>7
  <2>2. \A i \in DOMAIN rest : /\ members'[i].isHost <=> i = NextHost(rest)
                               /\ members'[i].isAI = rest[i].isAI
                               /\ members'[i].departed = rest[i].departed
    <3>1. \A i \in DOMAIN rest : rest[i] \in Member
      BY <1>3 DEF MembersTyped
    <3>2. QED
      BY <2>1, <3>1 DEF Member
  <2>3. NextHost(rest) \in Humans(members')
    <3>1. NextHost(rest) \in Humans(rest)
      BY <1>3, <1>7, NextHostIsThere
    <3>2. QED
      BY <2>1, <2>2, <3>1 DEF Humans
  <2>4. QED
    BY <2>1, <2>2, <2>3 DEF OneHostInLobby
<1>8. CASE ~lost
  <2>1. members' = rest /\ h \notin due
    BY <1>2, <1>4, <1>5, <1>8 DEF Humans
  <2>2. h \in Humans(rest)
    BY <1>3, <1>4, <2>1 DEF Humans
  <2>3. QED
    BY <1>3, <1>4, <2>1, <2>2 DEF OneHostInLobby
<1>9. QED
  BY <1>6, <1>7, <1>8

RoomSafe ==
  /\ TableIsFull /\ OneHostInLobby /\ AbandonClockRuns /\ HumanIsOnTheClock
  /\ ResultClock

LEMMA RoomSafeSweep ==
  ASSUME TypeInv, RoomSafe, SweepMembers
  PROVE  RoomSafe'
<1>1. /\ phase' \in {"waiting", "closed"}
      /\ Humans(members') \subseteq Humans(members)
  <2>1. phase = "waiting" /\ (phase' = "closed" \/ phase' = phase)
    BY SweepMembersOutcome
  <2>2. DOMAIN members' \subseteq DOMAIN members
    BY SweepMembersOutcome
  <2>3. ASSUME NEW i \in Humans(members') PROVE i \in Humans(members)
    <3>1. i \in DOMAIN members' /\ ~members'[i].isAI /\ ~members'[i].departed
      BY DEF Humans
    <3>2. PICK host \in BOOLEAN : members'[i] = [members[i] EXCEPT !.isHost = host]
      BY <3>1, SweepMembersOutcome
    <3>3. members[i] \in Member /\ i \in DOMAIN members
      BY <2>2, <3>1 DEF TypeInv, TypeOK
    <3>4. QED
      BY <3>1, <3>2, <3>3 DEF Humans, Member
  <2>4. QED
    BY <2>1, <2>3
<1>2. TableIsFull'
  BY <1>1, HumansFit DEF RoomSafe, TableIsFull
<1>3. OneHostInLobby'
  BY HostSweep DEF RoomSafe
<1>4. AbandonClockRuns' /\ HumanIsOnTheClock' /\ ResultClock'
  BY <1>1 DEF AbandonClockRuns, HumanIsOnTheClock, ResultClock
<1>5. QED
  BY <1>2, <1>3, <1>4 DEF RoomSafe

LEMMA RoomSafeStep == TypeInv /\ RoomSafe /\ RoomStep => RoomSafe'
<1> SUFFICES ASSUME TypeInv, RoomSafe, RoomStep PROVE RoomSafe'
  OBVIOUS
<1>1. CASE [Next]_roomVars
  BY <1>1, TableStep, HostStep, AbandonStep, ClockStep, ResultClockStep DEF RoomSafe
<1>2. CASE SweepMembers
  BY <1>2, RoomSafeSweep
<1>3. QED
  BY <1>1, <1>2 DEF RoomStep

LEMMA RoomSafeInit == Init => RoomSafe
<1>1. Init => /\ phase = "waiting"
              /\ \E u \in Users : members = [i \in {u} |-> NewHuman(u, 1, TRUE, FALSE)]
  BY DEF Init
<1>2. Init => OneHostInLobby
  BY DEF Init, OneHostInLobby, Humans, NewHuman
<1>3. QED
  BY <1>1, <1>2, TableInit
     DEF RoomSafe, AbandonClockRuns, HumanIsOnTheClock, ResultClock

LEMMA RoomInServer == ServerSpec => [](RoomInv /\ RoomSafe) /\ [][RoomStep]_roomVars
<1>1. ServerInit => RoomSafe
  BY RoomSafeInit DEF ServerInit
<1>2. ServerInv /\ [ServerNext]_vars => RoomStep
  BY ServerRoomStep
<1>3. ServerInv => TypeInv /\ RoomInv
  BY DEF ServerInv, RoomInv
<1>4. ServerInv /\ RoomSafe /\ [ServerNext]_vars => RoomSafe'
  BY <1>2, <1>3, RoomSafeStep
<1>5. RoomStep => [RoomStep]_roomVars
  OBVIOUS
<1>6. QED
  BY <1>1, <1>2, <1>3, <1>4, <1>5, ServerInvariant, PTL DEF ServerSpec

\* The gateway, the timers and the sweep take only steps of the reducer and the
\* sweep of the lobby, and with them the room keeps all that has been proved of
\* it: who sits where, who is host, who is played by the AI, and which of the
\* clocks run.
THEOREM RoomStaysSafe ==
  ServerSpec => [](/\ TypeOK /\ OneSeatPerUser /\ AiHoldsSeatOfAbsent
                   /\ TableIsFull /\ OneHostInLobby /\ AbandonClockRuns
                   /\ HumanIsOnTheClock)
<1>1. RoomInv /\ RoomSafe => /\ TypeOK /\ OneSeatPerUser /\ AiHoldsSeatOfAbsent
                             /\ TableIsFull /\ OneHostInLobby /\ AbandonClockRuns
                             /\ HumanIsOnTheClock
  BY DEF RoomInv, RoomSafe, TypeInv
<1>2. QED
  BY <1>1, RoomInServer, PTL

\* Also in the server nobody loses his seat in a set, and nobody is dealt into a
\* further set, but in the ways the reducer has for it.
THEOREM RoomStepsSafe == ServerSpec => SeatIsKept /\ NextSetNeedsConsent
<1>1. SweepMembers => phase = "waiting"
  BY DEF SweepMembers
<1>2. RoomInv /\ RoomSafe => TypeInv /\ ResultClock
  BY DEF RoomInv, RoomSafe
<1>3. RoomInv /\ RoomSafe /\ [RoomStep]_roomVars =>
        [phase = "playing" /\ phase' # "closed" =>
           SeatsStay(members, members', phase' = "setResult")]_roomVars
  BY <1>1, <1>2, SeatsStayStep DEF RoomStep
<1>4. RoomInv /\ RoomSafe /\ [RoomStep]_roomVars =>
        [phase = "setResult" /\ setNo' # setNo =>
           Consented(members, members', respondBy)]_roomVars
  BY <1>1, <1>2, ConsentStep DEF RoomStep
<1>5. QED
  BY <1>3, <1>4, RoomInServer, PTL
     DEF SeatIsKept, SeatsStay, NextSetNeedsConsent, Consented
=============================================================================
