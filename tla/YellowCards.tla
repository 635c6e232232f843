----------------------------- MODULE YellowCards -----------------------------
(***************************************************************************)
(* Yellow cards (packages/server/src/injection/repository.ts): a card for  *)
(* a proposal whose check says block_card, a suspension for two cards,     *)
(* appeals, and the revocation of a card, which lifts the suspension that  *)
(* runs on it.  Every method is one transaction of the database.           *)
(*                                                                         *)
(* A check belongs to one proposal and is named by it; a card and the      *)
(* appeal against it (at most one) are one record.  Rows are numbered in   *)
(* the order of their creation.                                            *)
(***************************************************************************)
EXTENDS Integers, Sequences

CONSTANTS
  Users,
  SuspensionMs,  \* how long two cards keep a user from proposing
  CardExpiryMs   \* how long a card counts

ASSUME ClockAssumption == SuspensionMs \in Nat \ {0} /\ CardExpiryMs \in Nat \ {0}

VARIABLES
  now,            \* the clock
  cards,          \* the rows of yellow_cards, with card_appeals
  suspensions,    \* the rows of suspensions
  suspendedUntil  \* users.proposal_suspended_until; 0: NULL

cardVars == <<cards, suspensions, suspendedUntil>>

Card == [user : Users, check : Nat, expiresAt : Nat,
         status : {"active", "consumed", "expired", "revoked"},
         appeal : {"none", "open", "upheld", "rejected"}]
Suspension == [user : Users, cardIds : SUBSET Nat, endsAt : Nat, lifted : BOOLEAN]

CardsTypeOK ==
  /\ now \in Nat \ {0}
  /\ cards \in Seq(Card)
  /\ suspensions \in Seq(Suspension)
  /\ suspendedUntil \in [Users -> Nat]

CardsInit ==
  /\ now = 1
  /\ cards = <<>>
  /\ suspensions = <<>>
  /\ suspendedUntil = [user \in Users |-> 0]

-----------------------------------------------------------------------------
Suspended(user) == suspendedUntil[user] > now

\* #expireCards, on the rows `rows`.
ExpireCards(rows, user) ==
  [c \in DOMAIN rows |->
     IF rows[c].user = user /\ rows[c].status = "active" /\ rows[c].expiresAt <= now
     THEN [rows[c] EXCEPT !.status = "expired"]
     ELSE rows[c]]

Active(rows, user) ==
  {c \in DOMAIN rows : /\ rows[c].user = user
                       /\ rows[c].status = "active"
                       /\ rows[c].expiresAt > now}

\* The two that were issued first.
OldestTwo(ids) == {c \in ids : \A a, b \in ids : a < c /\ b < c => a = b}

SetStatus(rows, ids, status) ==
  [c \in DOMAIN rows |->
     IF c \in ids THEN [rows[c] EXCEPT !.status = status] ELSE rows[c]]

NewCard(user, check) ==
  [user |-> user, check |-> check, expiresAt |-> now + CardExpiryMs,
   status |-> "active", appeal |-> "none"]

\* #cardResponse: two cards that count are used up by a suspension.
Count(rows, user) ==
  LET active == Active(rows, user)
  IN  \/ /\ \A a, b \in active : a = b
         /\ cards' = rows
         /\ UNCHANGED <<suspensions, suspendedUntil>>
      \/ /\ \E a, b \in active : a # b
         /\ cards' = SetStatus(rows, OldestTwo(active), "consumed")
         /\ suspensions' = Append(suspensions,
              [user |-> user, cardIds |-> OldestTwo(active),
               endsAt |-> now + SuspensionMs, lifted |-> FALSE])
         /\ suspendedUntil' = [suspendedUntil EXCEPT ![user] = now + SuspensionMs]

HasCard(check) == \E c \in DOMAIN cards : cards[c].check = check

\* confirmCard, for a check that says block_card.  There is one card for a
\* check, and none while its user is suspended.
ConfirmCard(user, check) ==
  \/ /\ HasCard(check) \/ Suspended(user)
     /\ UNCHANGED cardVars
  \/ /\ ~HasCard(check) /\ ~Suspended(user)
     /\ Count(Append(ExpireCards(cards, user), NewCard(user, check)), user)

\* summary: looking at one's cards expires them.
Summary(user) ==
  /\ cards' = ExpireCards(cards, user)
  /\ UNCHANGED <<now, suspensions, suspendedUntil>>

\* createAppeal, by the user who was given the card.
CreateAppeal(c) ==
  /\ cards[c].appeal = "none"
  /\ cards' = [cards EXCEPT ![c].appeal = "open"]
  /\ UNCHANGED <<now, suspensions, suspendedUntil>>

RejectAppeal(c) ==
  /\ cards[c].appeal = "open"
  /\ cards' = [cards EXCEPT ![c].appeal = "rejected"]
  /\ UNCHANGED <<now, suspensions, suspendedUntil>>

\* Fault: a suspension that is over is taken back too.
AffectedEver(c) ==
  {s \in DOMAIN suspensions : /\ suspensions[s].user = cards[c].user
                              /\ ~suspensions[s].lifted
                              /\ c \in suspensions[s].cardIds}

\* The suspension under way that card c was used up by.
Affected(c) ==
  {s \in DOMAIN suspensions : /\ suspensions[s].user = cards[c].user
                              /\ ~suspensions[s].lifted
                              /\ suspensions[s].endsAt > now
                              /\ c \in suspensions[s].cardIds}

\* Fault: the row of the card gets the status meant for the appeal.
UpheldOnCard(card) ==
  [card EXCEPT !.status = IF card.appeal = "open" THEN "upheld" ELSE "revoked"]

Upheld(card) ==
  [card EXCEPT !.status = "revoked",
               !.appeal = IF @ = "open" THEN "upheld" ELSE @]

\* The other card of a lifted suspension counts again, or has expired.
Released(card) ==
  IF card.status # "consumed" THEN card
  ELSE [card EXCEPT !.status = IF card.expiresAt > now THEN "active" ELSE "expired"]

RevokeCard(c) ==
  \/ /\ Affected(c) = {}
     /\ cards' = [cards EXCEPT ![c] = Upheld(@)]
     /\ UNCHANGED <<now, suspensions, suspendedUntil>>
  \/ \E s \in Affected(c) :
     /\ \A t \in Affected(c) : s <= t
     /\ suspensions' = [suspensions EXCEPT ![s].lifted = TRUE]
     /\ suspendedUntil' = [suspendedUntil EXCEPT ![cards[c].user] = 0]
     /\ cards' = [d \in DOMAIN cards |->
          IF d = c THEN Upheld(cards[d])
          ELSE IF d \in suspensions[s].cardIds THEN Released(cards[d])
          ELSE cards[d]]
     /\ now' = now

Tick ==
  /\ now' = now + 1
  /\ UNCHANGED cardVars

CardsNext ==
  \/ \E user \in Users : Summary(user)
  \/ \E c \in DOMAIN cards : CreateAppeal(c) \/ RejectAppeal(c) \/ RevokeCard(c)
  \/ Tick

-----------------------------------------------------------------------------
Running(s) == ~suspensions[s].lifted /\ suspensions[s].endsAt > now

(* A card is paid for once: two cards that count never lie side by side, a *)
(* card that was used up was used up by one suspension that stands, and    *)
(* the date that keeps a user from proposing (a copy) is the end of the    *)
(* suspension that runs, whose cards are all his and still used up.  An    *)
(* appeal is upheld only with the card revoked.                            *)
CardsAddUp ==
  /\ \A c, d \in DOMAIN cards :
       d \in Active(cards, cards[c].user) /\ c \in Active(cards, cards[d].user) => c = d
  /\ \A c \in DOMAIN cards : cards[c].status = "consumed" =>
       \E s \in DOMAIN suspensions : c \in suspensions[s].cardIds /\ ~suspensions[s].lifted
  /\ \A s, t \in DOMAIN suspensions :
       /\ ~suspensions[s].lifted /\ ~suspensions[t].lifted
       /\ suspensions[s].cardIds \cap suspensions[t].cardIds # {}
       => s = t
  /\ \A s \in DOMAIN suspensions : Running(s) =>
       /\ suspendedUntil[suspensions[s].user] = suspensions[s].endsAt
       /\ \E c, d \in DOMAIN cards : c # d /\ suspensions[s].cardIds = {c, d}
       /\ \A c \in suspensions[s].cardIds :
            cards[c].user = suspensions[s].user /\ cards[c].status = "consumed"
  /\ \A user \in Users : Suspended(user) =>
       \E s \in DOMAIN suspensions : Running(s) /\ suspensions[s].user = user
  /\ \A c \in DOMAIN cards : cards[c].appeal = "upheld" => cards[c].status = "revoked"
=============================================================================
