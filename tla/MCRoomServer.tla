---------------------------- MODULE MCRoomServer -----------------------------
(* The room on the server, with two seats and two users, for TLC.          *)
EXTENDS RoomServer, TLC

MCSymmetry == Permutations(Ais)

\* Decisions that can still fit the room.  The others never will: turns do not
\* come back, nor does the time that is past.
Live == {f \in inFlight : f.nos = <<setNo, turnSeq, 0>> /\ f.due # Past}

\* Who has a message on its way that may still arrive while moves are accepted,
\* and those that are not late: late ones are all alike.
Arriving == {u \in Senders : sent[u] # NothingSent /\ turnSeq < MaxTurnSeq}
InTime == [u \in {v \in Arriving : sent[v].seq = turnSeq} |-> sent[u].at]

\* The room, without what only matters in its lobby, to which it never returns.
RoomView ==
  <<mode, phase, members, engine, setNo, turnSeq, ready, turnDeadline, interimEnds,
    respondBy, abandonAt, IF phase = "waiting" THEN lobbyExpires ELSE Never>>

\* States that no later step tells apart are one.  Of a room that is closed, or
\* on a server that exits, hardly anything matters any more.
MCView ==
  IF phase = "closed" \/ server = "exiting"
  THEN <<phase, members, online, flaps, server, phaseTimer, lifeTimer, inFlight = {}>>
  ELSE <<RoomView, online, flaps, server, phaseTimer, lifeTimer,
         Live, Live = inFlight, Arriving, InTime>>
=============================================================================
