----------------------------- MODULE CardProofs -----------------------------
(***************************************************************************)
(* What the methods of YellowCards.tla do to the rows, and the invariant   *)
(* they keep, proved for every set of users and every length of a          *)
(* suspension and of a card's life.  ProposalProofs uses it for the whole. *)
(***************************************************************************)
EXTENDS YellowCards, SequenceTheorems, TLAPS

-----------------------------------------------------------------------------
(* The inductive invariant.                                                *)

Counts(c) == cards[c].status = "active" /\ cards[c].expiresAt > now

\* A user has at most one card that counts, and none while suspended.
CountsOnce ==
  \A c, d \in DOMAIN cards :
    cards[c].user = cards[d].user /\ Counts(c) /\ Counts(d) => c = d

NoneWhileSuspended == \A c \in DOMAIN cards : Counts(c) => ~Suspended(cards[c].user)

\* The cards of a suspension that was not lifted are its own, used up or, once
\* it is over, revoked.
ConsumedIsPaid ==
  \A c \in DOMAIN cards : cards[c].status = "consumed" =>
    \E s \in DOMAIN suspensions : c \in suspensions[s].cardIds /\ ~suspensions[s].lifted

PaidOnce ==
  \A s, t \in DOMAIN suspensions :
    /\ ~suspensions[s].lifted /\ ~suspensions[t].lifted
    /\ suspensions[s].cardIds \cap suspensions[t].cardIds # {}
    => s = t

PairOfOwner ==
  \A s \in DOMAIN suspensions :
    /\ \E c, d \in DOMAIN cards : c # d /\ suspensions[s].cardIds = {c, d}
    /\ \A c \in suspensions[s].cardIds : cards[c].user = suspensions[s].user

PairUsedUp ==
  \A s \in DOMAIN suspensions : ~suspensions[s].lifted =>
    \A c \in suspensions[s].cardIds :
      /\ cards[c].status \in {"consumed", "revoked"}
      /\ Running(s) => cards[c].status = "consumed"

\* At most one suspension of a user runs, and the copy of its end is true.
OneRuns ==
  \A s, t \in DOMAIN suspensions :
    Running(s) /\ Running(t) /\ suspensions[s].user = suspensions[t].user => s = t

EndIsCopied ==
  \A s \in DOMAIN suspensions : Running(s) =>
    suspendedUntil[suspensions[s].user] = suspensions[s].endsAt

SuspendedByOne ==
  \A user \in Users : Suspended(user) =>
    \E s \in DOMAIN suspensions : Running(s) /\ suspensions[s].user = user

UpheldIsRevoked ==
  \A c \in DOMAIN cards : cards[c].appeal = "upheld" => cards[c].status = "revoked"

CardInv ==
  /\ CardsTypeOK
  /\ CountsOnce
  /\ NoneWhileSuspended
  /\ ConsumedIsPaid
  /\ PaidOnce
  /\ PairOfOwner
  /\ PairUsedUp
  /\ OneRuns
  /\ EndIsCopied
  /\ SuspendedByOne
  /\ UpheldIsRevoked

LEMMA CardInvImplies == CardInv => CardsAddUp
<1> SUFFICES ASSUME CardInv PROVE CardsAddUp
  OBVIOUS
<1>1. \A c, d \in DOMAIN cards :
        d \in Active(cards, cards[c].user) /\ c \in Active(cards, cards[d].user) => c = d
  BY DEF CardInv, CountsOnce, Counts, Active
<1>2. \A s \in DOMAIN suspensions : Running(s) =>
        /\ suspendedUntil[suspensions[s].user] = suspensions[s].endsAt
        /\ \E c, d \in DOMAIN cards : c # d /\ suspensions[s].cardIds = {c, d}
        /\ \A c \in suspensions[s].cardIds :
             cards[c].user = suspensions[s].user /\ cards[c].status = "consumed"
  BY DEF CardInv, PairOfOwner, PairUsedUp, EndIsCopied, Running
<1>3. QED
  BY <1>1, <1>2 DEF CardInv, ConsumedIsPaid, PaidOnce, SuspendedByOne, UpheldIsRevoked,
                    CardsAddUp

LEMMA CardInvInit == CardsInit => CardInv
BY DEF CardsInit, CardInv, CardsTypeOK, CountsOnce, NoneWhileSuspended, ConsumedIsPaid,
       PaidOnce, PairOfOwner, PairUsedUp, OneRuns, EndIsCopied, SuspendedByOne,
       UpheldIsRevoked, Suspended

\* What the types say of the rows.
LEMMA RowsTyped ==
  ASSUME CardInv
  PROVE  /\ now \in Nat /\ suspendedUntil \in [Users -> Nat]
         /\ cards \in Seq(Card) /\ suspensions \in Seq(Suspension)
         /\ Len(cards) \in Nat /\ DOMAIN cards = 1 .. Len(cards)
         /\ Len(suspensions) \in Nat /\ DOMAIN suspensions = 1 .. Len(suspensions)
         /\ \A c \in DOMAIN cards : cards[c].user \in Users /\ cards[c].expiresAt \in Nat
         /\ \A s \in DOMAIN suspensions :
              /\ suspensions[s].user \in Users /\ suspensions[s].endsAt \in Nat
              /\ suspensions[s].cardIds \subseteq DOMAIN cards
<1>1. /\ now \in Nat /\ suspendedUntil \in [Users -> Nat]
      /\ cards \in Seq(Card) /\ suspensions \in Seq(Suspension)
  BY DEF CardInv, CardsTypeOK
<1>2. /\ Len(cards) \in Nat /\ DOMAIN cards = 1 .. Len(cards)
      /\ Len(suspensions) \in Nat /\ DOMAIN suspensions = 1 .. Len(suspensions)
      /\ \A c \in DOMAIN cards : cards[c] \in Card
      /\ \A s \in DOMAIN suspensions : suspensions[s] \in Suspension
  BY <1>1
<1>3. \A s \in DOMAIN suspensions : suspensions[s].cardIds \subseteq DOMAIN cards
  BY DEF CardInv, PairOfOwner
<1>4. QED
  BY <1>1, <1>2, <1>3 DEF Card, Suspension

-----------------------------------------------------------------------------
(* Steps that take nothing back and give nobody a card.                    *)

Quiet ==
  /\ UNCHANGED <<now, suspensions, suspendedUntil>>
  /\ cards' \in Seq(Card) /\ Len(cards') = Len(cards)
  /\ \A c \in DOMAIN cards :
       /\ cards'[c].user = cards[c].user /\ cards'[c].expiresAt = cards[c].expiresAt
       /\ \/ cards'[c].status = cards[c].status
          \/ cards'[c].status = "expired" /\ cards[c].status = "active"
          \/ cards'[c].status = "revoked" /\ Affected(c) = {}
       /\ cards'[c].appeal = "upheld" => cards'[c].status = "revoked"

LEMMA QuietKeeps == CardInv /\ Quiet => CardInv'
<1> SUFFICES ASSUME CardInv, Quiet PROVE CardInv'
  OBVIOUS
<1>1. DOMAIN cards' = DOMAIN cards /\ DOMAIN suspensions' = DOMAIN suspensions
  BY DEF CardInv, Quiet, CardsTypeOK
<1>2. CardsTypeOK'
  BY DEF CardInv, CardsTypeOK, Quiet
<1>3. \A s : Running(s)' <=> Running(s)
  BY DEF Quiet, Running
<1>4. \A user : Suspended(user)' <=> Suspended(user)
  BY DEF Quiet, Suspended
<1>5. \A c \in DOMAIN cards : Counts(c)' => Counts(c)
  BY <1>1 DEF Quiet, Counts
<1>6. CountsOnce' /\ NoneWhileSuspended'
  BY <1>1, <1>4, <1>5 DEF CardInv, CountsOnce, NoneWhileSuspended, Quiet
<1>7. \A c \in DOMAIN cards : cards'[c].status = "consumed" => cards[c].status = "consumed"
  BY DEF Quiet
<1>8. ConsumedIsPaid'
  BY <1>1, <1>7 DEF CardInv, ConsumedIsPaid, Quiet
<1>9. PaidOnce' /\ PairOfOwner'
  <2>1. PaidOnce'
    BY DEF CardInv, PaidOnce, Quiet
  <2>2. \A s \in DOMAIN suspensions : suspensions[s].cardIds \subseteq DOMAIN cards
    BY RowsTyped
  <2>3. PairOfOwner'
    BY <1>1, <2>2 DEF CardInv, PairOfOwner, Quiet
  <2>4. QED
    BY <2>1, <2>3
<1>10. PairUsedUp'
  <2> SUFFICES ASSUME NEW s \in DOMAIN suspensions, ~suspensions[s].lifted,
                      NEW c \in suspensions[s].cardIds
               PROVE  /\ cards'[c].status \in {"consumed", "revoked"}
                      /\ Running(s) => cards'[c].status = "consumed"
    BY <1>1, <1>3 DEF PairUsedUp, Quiet
  <2>1. c \in DOMAIN cards /\ cards[c].user = suspensions[s].user
    BY DEF CardInv, PairOfOwner
  <2>2. Running(s) => s \in Affected(c)
    BY <2>1 DEF Running, Affected
  <2>3. QED
    BY <2>1, <2>2 DEF CardInv, PairUsedUp, Quiet
<1>11. OneRuns' /\ EndIsCopied' /\ SuspendedByOne'
  BY <1>1, <1>3, <1>4 DEF CardInv, OneRuns, EndIsCopied, SuspendedByOne, Quiet
<1>12. UpheldIsRevoked'
  BY <1>1 DEF UpheldIsRevoked, Quiet
<1>13. QED
  BY <1>2, <1>6, <1>8, <1>9, <1>10, <1>11, <1>12 DEF CardInv

LEMMA ExpireEffect ==
  ASSUME CardsTypeOK, NEW user \in Users
  PROVE  /\ ExpireCards(cards, user) \in Seq(Card)
         /\ Len(ExpireCards(cards, user)) = Len(cards)
         /\ \A c \in DOMAIN cards :
              LET row == ExpireCards(cards, user)[c]
              IN  /\ row.user = cards[c].user /\ row.check = cards[c].check
                  /\ row.expiresAt = cards[c].expiresAt /\ row.appeal = cards[c].appeal
                  /\ IF cards[c].user = user /\ cards[c].status = "active"
                        /\ cards[c].expiresAt <= now
                     THEN row.status = "expired" ELSE row.status = cards[c].status
<1> DEFINE rows == ExpireCards(cards, user)
<1>1. DOMAIN cards = 1 .. Len(cards) /\ cards \in Seq(Card)
  BY DEF CardsTypeOK
<1>2. \A c \in 1 .. Len(cards) : rows[c] =
        IF cards[c].user = user /\ cards[c].status = "active" /\ cards[c].expiresAt <= now
        THEN [cards[c] EXCEPT !.status = "expired"] ELSE cards[c]
  BY <1>1 DEF ExpireCards
<1>3. \A c \in 1 .. Len(cards) : cards[c] \in Card
  BY <1>1
<1>4. rows \in [1 .. Len(cards) -> Card]
  BY <1>1, <1>3 DEF ExpireCards, Card
<1>5. rows \in Seq(Card) /\ Len(rows) = Len(cards)
  BY <1>1, <1>4
<1>6. QED
  BY <1>1, <1>2, <1>3, <1>5 DEF Card

LEMMA SummaryIsQuiet ==
  ASSUME CardInv, NEW user \in Users, Summary(user)
  PROVE  Quiet
BY ExpireEffect DEF CardInv, UpheldIsRevoked, Summary, Quiet

LEMMA AppealIsQuiet ==
  ASSUME CardInv, NEW c \in DOMAIN cards, CreateAppeal(c) \/ RejectAppeal(c)
  PROVE  Quiet
<1>1. PICK appeal \in {"open", "rejected"} :
        cards' = [cards EXCEPT ![c].appeal = appeal]
        /\ UNCHANGED <<now, suspensions, suspendedUntil>>
  BY DEF CreateAppeal, RejectAppeal
<1>2. cards \in Seq(Card) /\ c \in 1 .. Len(cards)
  BY DEF CardInv, CardsTypeOK
<1>3. [cards[c] EXCEPT !.appeal = appeal] \in Card
  <2>1. cards[c] \in Card
    BY <1>2
  <2>2. QED
    BY <2>1 DEF Card
<1>4. cards' \in Seq(Card) /\ Len(cards') = Len(cards)
      /\ \A d \in 1 .. Len(cards) :
           cards'[d] = IF d = c THEN [cards[c] EXCEPT !.appeal = appeal] ELSE cards[d]
  BY <1>1, <1>2, <1>3, ExceptSeq
<1>5. QED
  BY <1>1, <1>2, <1>4 DEF CardInv, UpheldIsRevoked, Quiet, Card

LEMMA UpheldEffect ==
  ASSUME NEW card \in Card
  PROVE  /\ Upheld(card) \in Card
         /\ Upheld(card).status = "revoked"
         /\ Upheld(card).user = card.user
         /\ Upheld(card).expiresAt = card.expiresAt
BY DEF Upheld, Card

LEMMA LateRevocationIsQuiet ==
  ASSUME CardInv, NEW c \in DOMAIN cards, RevokeCard(c), Affected(c) = {}
  PROVE  Quiet
<1>1. /\ cards' = [cards EXCEPT ![c] = Upheld(cards[c])]
      /\ UNCHANGED <<now, suspensions, suspendedUntil>>
  BY DEF RevokeCard
<1>2. cards \in Seq(Card) /\ c \in 1 .. Len(cards)
  BY DEF CardInv, CardsTypeOK
<1>3. Upheld(cards[c]) \in Card /\ Upheld(cards[c]).status = "revoked"
      /\ Upheld(cards[c]).user = cards[c].user
      /\ Upheld(cards[c]).expiresAt = cards[c].expiresAt
  BY <1>2, UpheldEffect
<1>4. cards' \in Seq(Card) /\ Len(cards') = Len(cards)
      /\ \A d \in 1 .. Len(cards) :
           cards'[d] = IF d = c THEN Upheld(cards[c]) ELSE cards[d]
  BY <1>1, <1>2, <1>3, ExceptSeq
<1>5. QED
  BY <1>1, <1>2, <1>3, <1>4 DEF CardInv, UpheldIsRevoked, Quiet

-----------------------------------------------------------------------------
(* The clock.                                                              *)

LEMMA TickKeeps == CardInv /\ Tick => CardInv'
<1> SUFFICES ASSUME CardInv, Tick PROVE CardInv'
  OBVIOUS
<1>1. now \in Nat /\ now' = now + 1 /\ UNCHANGED <<cards, suspensions, suspendedUntil>>
  BY RowsTyped DEF Tick, cardVars
<1>2. CardsTypeOK'
  BY <1>1 DEF CardInv, CardsTypeOK
<1>3. \A c \in DOMAIN cards : Counts(c)' => Counts(c)
  BY <1>1, RowsTyped DEF Counts
<1>4. \A user \in Users : Suspended(user)' => Suspended(user)
  BY <1>1, RowsTyped DEF Suspended
<1>5. \A s \in DOMAIN suspensions : Running(s)' => Running(s)
  BY <1>1, RowsTyped DEF Running
<1>6. CountsOnce' /\ NoneWhileSuspended'
  BY <1>1, <1>3, <1>4, RowsTyped DEF CardInv, CountsOnce, NoneWhileSuspended
<1>7. ConsumedIsPaid' /\ PaidOnce' /\ PairOfOwner' /\ UpheldIsRevoked'
  BY <1>1 DEF CardInv, ConsumedIsPaid, PaidOnce, PairOfOwner, UpheldIsRevoked
<1>8. PairUsedUp' /\ OneRuns' /\ EndIsCopied'
  BY <1>1, <1>5 DEF CardInv, PairUsedUp, OneRuns, EndIsCopied
<1>9. SuspendedByOne'
  <2> SUFFICES ASSUME NEW user \in Users, Suspended(user)'
               PROVE  \E s \in DOMAIN suspensions :
                        Running(s)' /\ suspensions[s].user = user
    BY <1>1 DEF SuspendedByOne
  <2>1. PICK s \in DOMAIN suspensions : Running(s) /\ suspensions[s].user = user
    BY <1>4 DEF CardInv, SuspendedByOne
  <2>2. suspendedUntil[user] = suspensions[s].endsAt
    BY <2>1 DEF CardInv, EndIsCopied
  <2>3. Running(s)'
    BY <1>1, <2>1, <2>2 DEF Running, Suspended
  <2>4. QED
    BY <2>1, <2>3
<1>10. QED
  BY <1>2, <1>6, <1>7, <1>8, <1>9 DEF CardInv

-----------------------------------------------------------------------------
(* A card is given.                                                        *)

LEMMA ConsumedEffect ==
  ASSUME NEW rows \in Seq(Card), NEW ids, cards' = SetStatus(rows, ids, "consumed")
  PROVE  /\ cards' \in Seq(Card) /\ Len(cards') = Len(rows) /\ DOMAIN cards' = DOMAIN rows
         /\ \A c \in DOMAIN rows :
              /\ cards'[c].user = rows[c].user /\ cards'[c].expiresAt = rows[c].expiresAt
              /\ cards'[c].appeal = rows[c].appeal
              /\ cards'[c].status = IF c \in ids THEN "consumed" ELSE rows[c].status
<1>1. \A c \in 1 .. Len(rows) :
        cards'[c] = IF c \in ids THEN [rows[c] EXCEPT !.status = "consumed"] ELSE rows[c]
  BY DEF SetStatus
<1>2. \A c \in 1 .. Len(rows) : rows[c] \in Card
  OBVIOUS
<1>3. \A c \in 1 .. Len(rows) :
        /\ [rows[c] EXCEPT !.status = "consumed"] \in Card
        /\ [rows[c] EXCEPT !.status = "consumed"].user = rows[c].user
        /\ [rows[c] EXCEPT !.status = "consumed"].expiresAt = rows[c].expiresAt
        /\ [rows[c] EXCEPT !.status = "consumed"].appeal = rows[c].appeal
        /\ [rows[c] EXCEPT !.status = "consumed"].status = "consumed"
  BY <1>2 DEF Card
<1>4. cards' \in [1 .. Len(rows) -> Card]
  BY <1>2, <1>3 DEF SetStatus
<1>5. /\ cards' \in Seq(Card) /\ Len(cards') = Len(rows)
      /\ DOMAIN cards' = 1 .. Len(rows) /\ DOMAIN rows = 1 .. Len(rows)
  BY <1>4
<1>6. QED
  BY <1>1, <1>3, <1>5

\* The rows once the new card is there, before it is counted.
WithCard(user, check) == Append(ExpireCards(cards, user), NewCard(user, check))

LEMMA NewCardEffect ==
  ASSUME CardInv, NEW user \in Users, NEW check \in Nat,
         NEW rows, rows = WithCard(user, check)
  PROVE  /\ rows \in Seq(Card) /\ Len(rows) = Len(cards) + 1
         /\ \A c \in 1 .. Len(cards) :
              /\ rows[c].user = cards[c].user /\ rows[c].expiresAt = cards[c].expiresAt
              /\ rows[c].appeal = cards[c].appeal
              /\ \/ rows[c].status = cards[c].status
                 \/ rows[c].status = "expired" /\ cards[c].status = "active"
         /\ rows[Len(cards) + 1] = NewCard(user, check)
         /\ NewCard(user, check) \in Card
<1>1. NewCard(user, check) \in Card
  BY ClockAssumption DEF CardInv, CardsTypeOK, NewCard, Card
<1>2. CardsTypeOK /\ DOMAIN cards = 1 .. Len(cards)
  BY DEF CardInv, CardsTypeOK
<1> DEFINE old == ExpireCards(cards, user)
<1>3. /\ old \in Seq(Card) /\ Len(old) = Len(cards)
      /\ \A c \in 1 .. Len(cards) :
           /\ old[c].user = cards[c].user /\ old[c].expiresAt = cards[c].expiresAt
           /\ old[c].appeal = cards[c].appeal
           /\ \/ old[c].status = cards[c].status
              \/ old[c].status = "expired" /\ cards[c].status = "active"
  <2>1. /\ old \in Seq(Card) /\ Len(old) = Len(cards)
        /\ \A c \in DOMAIN cards :
             /\ old[c].user = cards[c].user /\ old[c].check = cards[c].check
             /\ old[c].expiresAt = cards[c].expiresAt /\ old[c].appeal = cards[c].appeal
             /\ IF cards[c].user = user /\ cards[c].status = "active"
                   /\ cards[c].expiresAt <= now
                THEN old[c].status = "expired" ELSE old[c].status = cards[c].status
    BY <1>2, ExpireEffect, Zenon
  <2>2. QED
    BY <1>2, <2>1
<1> HIDE DEF old
<1>4. /\ rows \in Seq(Card) /\ Len(rows) = Len(old) + 1
      /\ \A c \in 1 .. Len(old) : rows[c] = old[c]
      /\ rows[Len(old) + 1] = NewCard(user, check)
  BY <1>1, <1>3, AppendProperties DEF old, WithCard
<1>5. QED
  BY <1>1, <1>3, <1>4

LEMMA UnchangedKeeps ==
  CardInv /\ UNCHANGED <<now, cards, suspensions, suspendedUntil>> => CardInv'
<1> SUFFICES ASSUME CardInv, UNCHANGED <<now, cards, suspensions, suspendedUntil>>
             PROVE  CardInv'
  OBVIOUS
<1>1. Quiet
  BY RowsTyped DEF CardInv, UpheldIsRevoked, Quiet
<1>2. QED
  BY <1>1, QuietKeeps

\* Card `new` is added, and some others have expired; those in `paid` are used up.
Grown(user, new, paid) ==
  /\ UNCHANGED now
  /\ cards' \in Seq(Card)
  /\ new \notin DOMAIN cards /\ DOMAIN cards' = DOMAIN cards \cup {new}
  /\ cards'[new].user = user /\ cards'[new].appeal = "none"
  /\ cards'[new].status = IF new \in paid THEN "consumed" ELSE "active"
  /\ \A c \in DOMAIN cards :
       /\ cards'[c].user = cards[c].user /\ cards'[c].expiresAt = cards[c].expiresAt
       /\ cards'[c].appeal = cards[c].appeal
       /\ \/ c \in paid /\ cards'[c].status = "consumed"
          \/ c \notin paid /\ cards'[c].status = cards[c].status
          \/ c \notin paid /\ cards'[c].status = "expired" /\ cards[c].status = "active"
       /\ cards[c].user = user => ~Counts(c)'

LEMMA FirstCardKeeps ==
  ASSUME CardInv, NEW user \in Users, ~Suspended(user),
         NEW new, Grown(user, new, {}), UNCHANGED <<suspensions, suspendedUntil>>
  PROVE  CardInv'
<1>1. CardsTypeOK'
  BY DEF CardInv, CardsTypeOK, Grown
<1>2. \A s : Running(s)' <=> Running(s)
  BY DEF Grown, Running
<1>3. \A u : Suspended(u)' <=> Suspended(u)
  BY DEF Grown, Suspended
<1>4. \A c \in DOMAIN cards : Counts(c)' => Counts(c) /\ cards[c].user # user
  BY DEF Grown, Counts
<1>5. CountsOnce'
  BY <1>4 DEF CardInv, CountsOnce, Grown
<1>6. NoneWhileSuspended'
  BY <1>3, <1>4 DEF CardInv, NoneWhileSuspended, Grown
<1>7. ConsumedIsPaid'
  BY DEF CardInv, ConsumedIsPaid, Grown
<1>8. PaidOnce'
  BY DEF CardInv, PaidOnce
<1>9. \A s \in DOMAIN suspensions : suspensions[s].cardIds \subseteq DOMAIN cards
  BY RowsTyped
<1>10. PairOfOwner'
  BY <1>9 DEF CardInv, PairOfOwner, Grown
<1>11. PairUsedUp'
  BY <1>2, <1>9 DEF CardInv, PairUsedUp, Grown
<1>12. OneRuns' /\ EndIsCopied' /\ SuspendedByOne'
  BY <1>2, <1>3 DEF CardInv, OneRuns, EndIsCopied, SuspendedByOne
<1>13. UpheldIsRevoked'
  BY DEF CardInv, UpheldIsRevoked, Grown
<1>14. QED
  BY <1>1, <1>5, <1>6, <1>7, <1>8, <1>10, <1>11, <1>12, <1>13 DEF CardInv

\* Suspension `last` is added, for two cards of the user.
SuspensionAdded(user, last, paid) ==
  /\ suspensions' \in Seq(Suspension)
  /\ last \notin DOMAIN suspensions /\ DOMAIN suspensions' = DOMAIN suspensions \cup {last}
  /\ suspensions'[last].user = user /\ suspensions'[last].cardIds = paid
  /\ suspensions'[last].endsAt = now + SuspensionMs /\ ~suspensions'[last].lifted
  /\ \A s \in DOMAIN suspensions : suspensions'[s] = suspensions[s]
  /\ suspendedUntil' = [suspendedUntil EXCEPT ![user] = now + SuspensionMs]

LEMMA SecondCardKeeps ==
  ASSUME CardInv, NEW user \in Users, ~Suspended(user),
         NEW old \in DOMAIN cards, cards[old].user = user, cards[old].status = "active",
         NEW new, Grown(user, new, {old, new}),
         NEW last, SuspensionAdded(user, last, {old, new})
  PROVE  CardInv'
<1>1. CardsTypeOK'
  BY ClockAssumption DEF CardInv, CardsTypeOK, Grown, SuspensionAdded
<1>2. \A s \in DOMAIN suspensions : Running(s)' <=> Running(s)
  BY DEF Grown, SuspensionAdded, Running
<1>3. now' = now /\ now \in Nat /\ suspendedUntil' \in [Users -> Nat]
      /\ suspendedUntil'[user] = now + SuspensionMs /\ now + SuspensionMs > now
  BY RowsTyped, ClockAssumption DEF Grown, SuspensionAdded
<1>4. Suspended(user)' /\ Running(last)'
  BY <1>3 DEF SuspensionAdded, Suspended, Running
<1>5. \A u \in Users : u # user => (Suspended(u)' <=> Suspended(u))
  BY <1>3, RowsTyped DEF SuspensionAdded, Suspended
<1>6. \A s \in DOMAIN suspensions : Running(s) => suspensions[s].user # user
  BY RowsTyped DEF CardInv, EndIsCopied, Running, Suspended
<1>7. \A c \in DOMAIN cards : Counts(c)' => Counts(c) /\ cards[c].user # user
  BY DEF Grown, Counts
<1>8. ~Counts(new)'
  BY DEF Grown, Counts
<1>9. \A c \in DOMAIN cards' : Counts(c)' =>
        c \in DOMAIN cards /\ Counts(c) /\ cards[c].user # user
  BY <1>7, <1>8 DEF Grown
<1>10. CountsOnce'
  BY <1>9 DEF CardInv, CountsOnce, Grown
<1>11. NoneWhileSuspended'
  BY <1>5, <1>9, RowsTyped DEF CardInv, NoneWhileSuspended, Grown
<1>12. \A s \in DOMAIN suspensions : suspensions[s].cardIds \subseteq DOMAIN cards
  BY RowsTyped
<1>13. \A s \in DOMAIN suspensions : ~suspensions[s].lifted =>
         old \notin suspensions[s].cardIds /\ new \notin suspensions[s].cardIds
  BY <1>12 DEF CardInv, PairUsedUp, Grown
<1>14. ConsumedIsPaid'
  <2> SUFFICES ASSUME NEW c \in DOMAIN cards', cards'[c].status = "consumed"
               PROVE  \E s \in DOMAIN suspensions' :
                        c \in suspensions'[s].cardIds /\ ~suspensions'[s].lifted
    BY DEF ConsumedIsPaid
  <2>1. CASE c \in {old, new}
    BY <2>1 DEF SuspensionAdded
  <2>2. CASE c \notin {old, new}
    <3>1. c \in DOMAIN cards /\ cards[c].status = "consumed"
      BY <2>2 DEF Grown
    <3>2. PICK s \in DOMAIN suspensions :
            c \in suspensions[s].cardIds /\ ~suspensions[s].lifted
      BY <3>1 DEF CardInv, ConsumedIsPaid
    <3>3. QED
      BY <3>2 DEF SuspensionAdded
  <2>3. QED
    BY <2>1, <2>2
<1>15. PaidOnce'
  BY <1>13 DEF CardInv, PaidOnce, SuspensionAdded
<1>16. PairOfOwner'
  <2>1. \A s \in DOMAIN suspensions :
          /\ \E c, d \in DOMAIN cards' : c # d /\ suspensions[s].cardIds = {c, d}
          /\ \A c \in suspensions[s].cardIds : cards'[c].user = suspensions[s].user
    BY <1>12 DEF CardInv, PairOfOwner, Grown
  <2>2. /\ old # new /\ old \in DOMAIN cards' /\ new \in DOMAIN cards'
        /\ cards'[old].user = user /\ cards'[new].user = user
    BY DEF Grown
  <2>3. QED
    BY <2>1, <2>2 DEF PairOfOwner, SuspensionAdded
<1>17. PairUsedUp'
  <2>1. \A s \in DOMAIN suspensions : ~suspensions[s].lifted =>
          \A c \in suspensions[s].cardIds :
            /\ cards'[c].status = cards[c].status
            /\ cards[c].status \in {"consumed", "revoked"}
            /\ Running(s) => cards[c].status = "consumed"
    BY <1>12, <1>13 DEF CardInv, PairUsedUp, Grown
  <2>2. cards'[old].status = "consumed" /\ cards'[new].status = "consumed"
    BY DEF Grown
  <2>3. QED
    BY <1>2, <2>1, <2>2 DEF PairUsedUp, SuspensionAdded
<1>18. OneRuns'
  BY <1>2, <1>6 DEF CardInv, OneRuns, SuspensionAdded
<1>19. EndIsCopied'
  <2>1. \A s \in DOMAIN suspensions : Running(s) =>
          suspendedUntil'[suspensions[s].user] = suspensions[s].endsAt
    BY <1>6, RowsTyped DEF CardInv, EndIsCopied, SuspensionAdded
  <2>2. QED
    BY <1>2, <1>3, <2>1 DEF EndIsCopied, SuspensionAdded
<1>20. SuspendedByOne'
  BY <1>2, <1>4, <1>5 DEF CardInv, SuspendedByOne, SuspensionAdded
<1>21. UpheldIsRevoked'
  BY DEF CardInv, UpheldIsRevoked, Grown
<1>22. QED
  BY <1>1, <1>10, <1>11, <1>14, <1>15, <1>16, <1>17, <1>18, <1>19, <1>20, <1>21
     DEF CardInv

LEMMA ConfirmCardKeeps ==
  ASSUME CardInv, NEW user \in Users, NEW check \in Nat, ConfirmCard(user, check),
         now' = now
  PROVE  CardInv'
<1>1. CASE UNCHANGED cardVars
  BY <1>1, UnchangedKeeps DEF cardVars
<1>2. CASE ~Suspended(user)
           /\ Count(WithCard(user, check), user)
  <2> DEFINE rows == WithCard(user, check)
             new == Len(cards) + 1
             active == Active(rows, user)
  <2>1. /\ rows \in Seq(Card) /\ Len(rows) = new
        /\ \A c \in 1 .. Len(cards) :
             /\ rows[c].user = cards[c].user /\ rows[c].expiresAt = cards[c].expiresAt
             /\ rows[c].appeal = cards[c].appeal
             /\ \/ rows[c].status = cards[c].status
                \/ rows[c].status = "expired" /\ cards[c].status = "active"
        /\ rows[new] = NewCard(user, check)
    BY <1>2, NewCardEffect
  <2>2. /\ rows[new].user = user /\ rows[new].status = "active"
        /\ rows[new].expiresAt > now /\ rows[new].appeal = "none"
    BY <2>1, RowsTyped, ClockAssumption DEF NewCard
  <2>3. /\ Len(cards) \in Nat /\ DOMAIN cards = 1 .. Len(cards)
        /\ new \notin DOMAIN cards /\ DOMAIN rows = DOMAIN cards \cup {new}
        /\ \A c \in DOMAIN cards : c < new
    BY <2>1, RowsTyped
  <2>4. \A c : c \in active <=> /\ c \in DOMAIN cards \cup {new}
                                /\ rows[c].user = user /\ rows[c].status = "active"
                                /\ rows[c].expiresAt > now
    BY <2>3 DEF Active
  <2> HIDE DEF rows, new, active
  <2>5. new \in active
    BY <2>2, <2>4
  <2>6. \A c \in active : c # new => c \in DOMAIN cards /\ cards[c].user = user /\ Counts(c)
    BY <2>1, <2>3, <2>4 DEF Counts
  <2>7. \A c, d \in active : c # new /\ d # new => c = d
    BY <2>6 DEF CardInv, CountsOnce
  <2>8. CASE /\ \A a, b \in active : a = b
             /\ cards' = rows /\ UNCHANGED <<suspensions, suspendedUntil>>
    <3>1. \A c \in DOMAIN cards : cards[c].user = user => ~Counts(c)'
      BY <2>1, <2>3, <2>4, <2>5, <2>8 DEF Counts
    <3>2. Grown(user, new, {})
      BY <2>1, <2>2, <2>3, <2>8, <3>1 DEF Grown
    <3>3. QED
      BY <1>2, <2>8, <3>2, FirstCardKeeps
  <2>9. CASE /\ \E a, b \in active : a # b
             /\ cards' = SetStatus(rows, OldestTwo(active), "consumed")
             /\ suspensions' = Append(suspensions,
                  [user |-> user, cardIds |-> OldestTwo(active),
                   endsAt |-> now + SuspensionMs, lifted |-> FALSE])
             /\ suspendedUntil' = [suspendedUntil EXCEPT ![user] = now + SuspensionMs]
    <3>1. PICK old \in active : old # new
      BY <2>5, <2>9
    <3>2. old \in DOMAIN cards /\ cards[old].user = user /\ cards[old].status = "active"
      BY <2>6, <3>1 DEF Counts
    <3>3. active = {old, new}
      BY <2>5, <2>7, <3>1
    <3>4. OldestTwo(active) = {old, new}
      <4>1. old < new /\ ~(new < old) /\ ~(old < old) /\ ~(new < new)
        BY <2>3, <3>2, <3>3 DEF new
      <4>2. QED
        BY <3>3, <4>1 DEF OldestTwo
    <3>5. /\ cards' \in Seq(Card) /\ Len(cards') = Len(rows)
          /\ \A c \in DOMAIN rows :
               /\ cards'[c].user = rows[c].user /\ cards'[c].expiresAt = rows[c].expiresAt
               /\ cards'[c].appeal = rows[c].appeal
               /\ cards'[c].status = IF c \in {old, new} THEN "consumed" ELSE rows[c].status
      <4>1. cards' = SetStatus(rows, {old, new}, "consumed")
        BY <2>9, <3>4
      <4>2. PICK paid : paid = {old, new}
        OBVIOUS
      <4>3. rows \in Seq(Card) /\ cards' = SetStatus(rows, paid, "consumed")
        BY <2>1, <4>1, <4>2
      <4>4. /\ cards' \in Seq(Card) /\ Len(cards') = Len(rows)
            /\ \A c \in DOMAIN rows :
                 /\ cards'[c].user = rows[c].user /\ cards'[c].expiresAt = rows[c].expiresAt
                 /\ cards'[c].appeal = rows[c].appeal
                 /\ cards'[c].status = IF c \in paid THEN "consumed" ELSE rows[c].status
        BY ONLY <4>3, ConsumedEffect
      <4>5. QED
        BY <4>2, <4>4, Zenon
    <3>6. DOMAIN cards' = DOMAIN rows
      BY <2>1, <3>5
    <3>7. \A c \in DOMAIN cards : cards[c].user = user => ~Counts(c)'
      BY <2>1, <2>3, <2>4, <3>3, <3>5 DEF Counts
    <3>8. Grown(user, new, {old, new})
      BY <2>1, <2>2, <2>3, <3>5, <3>6, <3>7 DEF Grown
    <3> DEFINE suspension == [user |-> user, cardIds |-> {old, new},
                              endsAt |-> now + SuspensionMs, lifted |-> FALSE]
               last == Len(suspensions) + 1
    <3>9. suspension \in Suspension
      BY <2>3, <3>2, RowsTyped, ClockAssumption DEF Suspension, new
    <3>10. suspensions' = Append(suspensions, suspension)
      BY <2>9, <3>4
    <3>11. SuspensionAdded(user, last, {old, new})
      <4>1. suspensions \in Seq(Suspension) /\ Len(suspensions) \in Nat
            /\ DOMAIN suspensions = 1 .. Len(suspensions)
        BY RowsTyped
      <4>2. /\ suspensions' \in Seq(Suspension) /\ Len(suspensions') = last
            /\ \A s \in 1 .. Len(suspensions) : suspensions'[s] = suspensions[s]
            /\ suspensions'[last] = suspension
        BY <3>9, <3>10, <4>1, AppendProperties
      <4>3. last \notin DOMAIN suspensions /\ DOMAIN suspensions' = DOMAIN suspensions \cup {last}
        BY <4>1, <4>2
      <4>4. QED
        BY <2>9, <4>1, <4>2, <4>3 DEF SuspensionAdded
    <3>12. QED
      BY <1>2, <3>2, <3>8, <3>11, SecondCardKeeps
  <2>10. Count(rows, user)
    BY <1>2 DEF rows
  <2>11. QED
    BY <2>8, <2>9, <2>10 DEF Count, active
<1>3. QED
  BY <1>1, <1>2 DEF ConfirmCard, WithCard

-----------------------------------------------------------------------------
(* A card is revoked while its suspension runs.                            *)

LEMMA ReleasedEffect ==
  ASSUME NEW card \in Card, card.status = "consumed"
  PROVE  /\ Released(card) \in Card
         /\ Released(card).user = card.user /\ Released(card).expiresAt = card.expiresAt
         /\ Released(card).appeal = card.appeal
         /\ Released(card).status \in {"active", "expired"}
<1>1. /\ [card EXCEPT !.status = "active"] \in Card
      /\ [card EXCEPT !.status = "expired"] \in Card
  BY DEF Card
<1>2. QED
  BY <1>1 DEF Released, Card

LEMMA LiftKeeps ==
  ASSUME CardInv, NEW c \in DOMAIN cards, RevokeCard(c), Affected(c) # {}
  PROVE  CardInv'
<1>1. PICK s \in Affected(c) :
        /\ suspensions' = [suspensions EXCEPT ![s].lifted = TRUE]
        /\ suspendedUntil' = [suspendedUntil EXCEPT ![cards[c].user] = 0]
        /\ cards' = [d \in DOMAIN cards |->
             IF d = c THEN Upheld(cards[d])
             ELSE IF d \in suspensions[s].cardIds THEN Released(cards[d])
             ELSE cards[d]]
        /\ now' = now
  BY DEF RevokeCard
<1>30. PICK user \in Users : cards[c].user = user
  BY RowsTyped
<1>2. /\ s \in DOMAIN suspensions /\ suspensions[s].user = user
      /\ ~suspensions[s].lifted /\ Running(s) /\ c \in suspensions[s].cardIds
  BY <1>30, RowsTyped DEF Affected, Running
<1>3. PICK e \in DOMAIN cards : e # c /\ suspensions[s].cardIds = {c, e}
  BY <1>2 DEF CardInv, PairOfOwner
<1>4. /\ cards[c].status = "consumed" /\ cards[e].status = "consumed"
      /\ cards[c].user = user /\ cards[e].user = user
  BY <1>2, <1>3, <1>30 DEF CardInv, PairOfOwner, PairUsedUp
<1>5. \A d \in DOMAIN cards : cards[d] \in Card
  BY RowsTyped
<1>6. \A d \in DOMAIN cards :
        cards'[d] = IF d = c THEN Upheld(cards[c])
                    ELSE IF d = e THEN Released(cards[e]) ELSE cards[d]
  BY <1>1, <1>3
<1>7. /\ DOMAIN cards' = DOMAIN cards
      /\ \A d \in DOMAIN cards :
           /\ cards'[d].user = cards[d].user /\ cards'[d].expiresAt = cards[d].expiresAt
           /\ d # c => cards'[d].appeal = cards[d].appeal
           /\ d \notin {c, e} => cards'[d].status = cards[d].status
      /\ cards'[c].status = "revoked"
      /\ cards'[e].status \in {"active", "expired"}
  <2>1. DOMAIN cards' = DOMAIN cards
    BY <1>1
  <2>2. QED
    BY <1>3, <1>4, <1>5, <1>6, <2>1, UpheldEffect, ReleasedEffect
<1>8. cards' \in Seq(Card)
  <2>1. \A d \in DOMAIN cards : cards'[d] \in Card
    BY <1>4, <1>5, <1>6, UpheldEffect, ReleasedEffect
  <2>2. cards' \in [1 .. Len(cards) -> Card] /\ Len(cards) \in Nat
    BY <1>1, <2>1, RowsTyped
  <2>3. QED
    BY <2>2
<1>9. /\ suspensions' \in Seq(Suspension) /\ DOMAIN suspensions' = DOMAIN suspensions
      /\ \A t \in DOMAIN suspensions :
           /\ suspensions'[t].user = suspensions[t].user
           /\ suspensions'[t].cardIds = suspensions[t].cardIds
           /\ suspensions'[t].endsAt = suspensions[t].endsAt
           /\ suspensions'[t].lifted = IF t = s THEN TRUE ELSE suspensions[t].lifted
  <2>1. \A t \in DOMAIN suspensions : suspensions[t] \in Suspension
    BY RowsTyped
  <2>2. [suspensions[s] EXCEPT !.lifted = TRUE] \in Suspension
    BY <1>2, <2>1 DEF Suspension
  <2>3. suspensions' = [suspensions EXCEPT ![s] = [suspensions[s] EXCEPT !.lifted = TRUE]]
    BY <1>1, <1>2, RowsTyped
  <2>4. /\ suspensions' \in Seq(Suspension) /\ DOMAIN suspensions' = DOMAIN suspensions
        /\ \A t \in DOMAIN suspensions :
             suspensions'[t] = IF t = s THEN [suspensions[s] EXCEPT !.lifted = TRUE]
                               ELSE suspensions[t]
    BY <1>2, <2>2, <2>3, RowsTyped
  <2>5. QED
    BY <1>2, <2>1, <2>4 DEF Suspension
<1>10. /\ suspendedUntil' \in [Users -> Nat] /\ suspendedUntil'[user] = 0
       /\ \A u \in Users : u # user => suspendedUntil'[u] = suspendedUntil[u]
  BY <1>1, <1>30, RowsTyped
<1>29. now' = now
  BY <1>1
<1>11. CardsTypeOK'
  BY <1>1, <1>8, <1>9, <1>10 DEF CardInv, CardsTypeOK
<1>12. ~Running(s)' /\ \A t \in DOMAIN suspensions : t # s => (Running(t)' <=> Running(t))
  BY <1>2, <1>9, <1>29 DEF Running
<1>13. ~Suspended(user)' /\ \A u \in Users : u # user => (Suspended(u)' <=> Suspended(u))
  BY <1>2, <1>10, <1>29, RowsTyped DEF Suspended
<1>14. \A t \in DOMAIN suspensions : Running(t) /\ suspensions[t].user = user => t = s
  BY <1>2 DEF CardInv, OneRuns
<1>15. Suspended(user)
  BY <1>2, RowsTyped DEF CardInv, EndIsCopied, Running, Suspended
<1>16. \A d \in DOMAIN cards : Counts(d)' => d = e \/ (Counts(d) /\ cards[d].user # user)
  BY <1>7, <1>15, <1>29 DEF CardInv, NoneWhileSuspended, Counts
<1>17. CountsOnce'
  BY <1>4, <1>7, <1>16 DEF CardInv, CountsOnce
<1>18. NoneWhileSuspended'
  <2> SUFFICES ASSUME NEW d \in DOMAIN cards, Counts(d)' PROVE ~Suspended(cards[d].user)'
    BY <1>7 DEF NoneWhileSuspended
  <2>1. CASE d = e
    BY <1>4, <1>7, <1>13, <2>1
  <2>2. CASE Counts(d) /\ cards[d].user # user
    BY <1>7, <1>13, <2>2, RowsTyped DEF CardInv, NoneWhileSuspended
  <2>3. QED
    BY <1>16, <2>1, <2>2
<1>19. \A t \in DOMAIN suspensions : t # s /\ ~suspensions[t].lifted =>
         c \notin suspensions[t].cardIds /\ e \notin suspensions[t].cardIds
  BY <1>2, <1>3 DEF CardInv, PaidOnce
<1>20. ConsumedIsPaid'
  <2> SUFFICES ASSUME NEW d \in DOMAIN cards, cards'[d].status = "consumed"
               PROVE  \E t \in DOMAIN suspensions :
                        d \in suspensions'[t].cardIds /\ ~suspensions'[t].lifted
    BY <1>7, <1>9 DEF ConsumedIsPaid
  <2>1. d \notin {c, e} /\ cards[d].status = "consumed"
    BY <1>7
  <2>2. PICK t \in DOMAIN suspensions : d \in suspensions[t].cardIds /\ ~suspensions[t].lifted
    BY <2>1 DEF CardInv, ConsumedIsPaid
  <2>3. QED
    BY <1>3, <1>9, <2>1, <2>2
<1>21. PaidOnce'
  BY <1>9 DEF CardInv, PaidOnce
<1>22. PairOfOwner'
  <2>1. \A t \in DOMAIN suspensions : suspensions[t].cardIds \subseteq DOMAIN cards
    BY RowsTyped
  <2>2. ASSUME NEW t \in DOMAIN suspensions
        PROVE  /\ \E a, b \in DOMAIN cards : a # b /\ suspensions[t].cardIds = {a, b}
               /\ \A d \in suspensions[t].cardIds : cards'[d].user = suspensions[t].user
    BY <1>7, <2>1 DEF CardInv, PairOfOwner
  <2>3. /\ DOMAIN cards' = DOMAIN cards /\ DOMAIN suspensions' = DOMAIN suspensions
        /\ \A t \in DOMAIN suspensions : /\ suspensions'[t].user = suspensions[t].user
                                         /\ suspensions'[t].cardIds = suspensions[t].cardIds
    BY <1>7, <1>9
  <2>4. QED
    BY <2>2, <2>3 DEF PairOfOwner
<1>23. PairUsedUp'
  <2> SUFFICES ASSUME NEW t \in DOMAIN suspensions, ~suspensions'[t].lifted,
                      NEW d \in suspensions'[t].cardIds
               PROVE  /\ cards'[d].status \in {"consumed", "revoked"}
                      /\ Running(t)' => cards'[d].status = "consumed"
    BY <1>9 DEF PairUsedUp
  <2>1. t # s /\ ~suspensions[t].lifted /\ d \in suspensions[t].cardIds
        /\ d \in DOMAIN cards /\ d \notin {c, e}
    BY <1>9, <1>19, RowsTyped
  <2>2. QED
    BY <1>7, <1>12, <2>1 DEF CardInv, PairUsedUp
<1>24. OneRuns'
  BY <1>9, <1>12 DEF CardInv, OneRuns
<1>25. EndIsCopied'
  <2> SUFFICES ASSUME NEW t \in DOMAIN suspensions, Running(t)'
               PROVE  suspendedUntil'[suspensions[t].user] = suspensions[t].endsAt
    BY <1>9 DEF EndIsCopied
  <2>1. t # s /\ Running(t) /\ suspensions[t].user # user /\ suspensions[t].user \in Users
    BY <1>12, <1>14, RowsTyped
  <2>2. QED
    BY <1>10, <2>1 DEF CardInv, EndIsCopied
<1>26. SuspendedByOne'
  <2> SUFFICES ASSUME NEW u \in Users, Suspended(u)'
               PROVE  \E t \in DOMAIN suspensions' : Running(t)' /\ suspensions'[t].user = u
    BY DEF SuspendedByOne
  <2>1. u # user /\ Suspended(u)
    BY <1>13
  <2>2. PICK t \in DOMAIN suspensions : Running(t) /\ suspensions[t].user = u
    BY <2>1 DEF CardInv, SuspendedByOne
  <2>3. QED
    BY <1>2, <1>9, <1>12, <2>1, <2>2
<1>27. UpheldIsRevoked'
  BY <1>4, <1>7 DEF CardInv, UpheldIsRevoked
<1>28. QED
  BY <1>11, <1>17, <1>18, <1>20, <1>21, <1>22, <1>23, <1>24, <1>25, <1>26, <1>27
     DEF CardInv

LEMMA CardsNextKeeps ==
  ASSUME CardInv, CardsNext
  PROVE  CardInv'
<1>1. ASSUME NEW user \in Users, Summary(user) PROVE CardInv'
  BY <1>1, SummaryIsQuiet, QuietKeeps
<1>2. ASSUME NEW c \in DOMAIN cards, CreateAppeal(c) \/ RejectAppeal(c) PROVE CardInv'
  BY <1>2, AppealIsQuiet, QuietKeeps
<1>3. ASSUME NEW c \in DOMAIN cards, RevokeCard(c) PROVE CardInv'
  BY <1>3, LateRevocationIsQuiet, QuietKeeps, LiftKeeps
<1>4. CASE Tick
  BY <1>4, TickKeeps
<1>5. QED
  BY <1>1, <1>2, <1>3, <1>4 DEF CardsNext
=============================================================================
