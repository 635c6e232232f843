--------------------------- MODULE ProposalProofs ---------------------------
(***************************************************************************)
(* Safety of Proposals.tla, and through it of YellowCards.tla, proved for  *)
(* every value of their constants.                                         *)
(***************************************************************************)
EXTENDS Proposals, CardProofs

-----------------------------------------------------------------------------
(* The inductive invariant.                                                *)

\* The latest change of all, and of an author's, is that of some proposal: the
\* tables are finite.
LatestExists ==
  /\ DOMAIN proposals # {} => \E p \in DOMAIN proposals :
       \A q \in DOMAIN proposals : proposals[q].changedAt <= proposals[p].changedAt
  /\ \A user \in Users : Of(user) # {} => \E p \in Of(user) :
       \A q \in Of(user) : proposals[q].changedAt <= proposals[p].changedAt

\* A judgement is of a proposal, and of the AI only where the check lets it.
JudgementsSound ==
  \A j \in DOMAIN judgements :
    /\ judgements[j].proposal \in DOMAIN proposals
    /\ judgements[j].decidedBy = "ai" => checks[judgements[j].proposal] = "pass"

\* DecisionStands and NobodyForgotten, of one proposal.
Stands(p) ==
  LET status == proposals[p].status
  IN  /\ DecisionsOf(p) = {} <=> status = "screening"
      /\ p \in jobs <=> status \in {"implementing", "released", "failed"}
      /\ \A j, k \in DecisionsOf(p) : judgements[j].source = judgements[k].source => j = k
      /\ \A j \in DecisionsOf(p) :
           LET source == judgements[j].source
           IN  IF status = "rejected"
               THEN /\ judgements[j].verdict = "reject"
                    /\ \/ source = NoSource /\ Blocks(checks[p])
                       \/ source \in LatestAi(p) /\ checks[p] = "pass"
               ELSE /\ judgements[j].verdict = "approve"
                    /\ checks[p] = "pass"
                    /\ source \in LatestAi(p) \cup {k \in DecisionsOf(p) : k < j}

Approved(p) == p \in jobs => ApprovedJudgement(p) # {}

\* What an author has seen, or is about to report as seen, does not go beyond
\* what his proposals went through, and was shown to him.
NewsSound ==
  /\ \A p \in DOMAIN proposals : proposals[p].changedAt > 0
  /\ \A user \in Users :
       /\ asked[user] = 0 \/ \E p \in Of(user) : asked[user] <= proposals[p].changedAt
       /\ seenAt[user] = 0 \/ \E p \in Of(user) : seenAt[user] <= proposals[p].changedAt
  /\ \A p \in DOMAIN proposals :
       proposals[p].changedAt <= asked[proposals[p].author] =>
         shown[p] = proposals[p].changedAt
  /\ \A p \in ProposalIds :
       \/ claimed[p] = 0
       \/ p \in DOMAIN proposals /\ claimed[p] <= seenAt[proposals[p].author]
  /\ UnreadTillShown

Inv ==
  /\ TypeOK
  /\ CardInv
  /\ LatestExists
  /\ JudgementsSound
  /\ \A p \in DOMAIN proposals : Stands(p) /\ Approved(p)
  /\ NewsSound

-----------------------------------------------------------------------------
(* What follows from it.                                                   *)

LEMMA StandsIsDecision == DecisionStands <=> \A p \in DOMAIN proposals : Stands(p)
BY DEF DecisionStands, Stands

LEMMA Typed ==
  ASSUME TypeOK
  PROVE  /\ proposals \in Seq(Proposal) /\ judgements \in Seq(Judgement)
         /\ Len(proposals) \in Nat /\ DOMAIN proposals = 1 .. Len(proposals)
         /\ Len(judgements) \in Nat /\ DOMAIN judgements = 1 .. Len(judgements)
         /\ DOMAIN proposals \subseteq ProposalIds
         /\ \A p \in DOMAIN proposals :
              /\ proposals[p] \in Proposal
              /\ proposals[p].author \in Users /\ proposals[p].status \in Statuses
              /\ proposals[p].changedAt \in Nat
         /\ \A j \in DOMAIN judgements :
              /\ judgements[j] \in Judgement
              /\ judgements[j].decidedBy \in {"ai", "developer"}
              /\ judgements[j].source \in Nat
         /\ now \in Nat /\ now > 0
<1>1. /\ proposals \in Seq(Proposal) /\ Len(proposals) <= MaxProposals
      /\ judgements \in Seq(Judgement) /\ now \in Nat \ {0}
  BY DEF TypeOK, CardsTypeOK
<1>2. /\ Len(proposals) \in Nat /\ DOMAIN proposals = 1 .. Len(proposals)
      /\ Len(judgements) \in Nat /\ DOMAIN judgements = 1 .. Len(judgements)
      /\ \A p \in DOMAIN proposals : proposals[p] \in Proposal
      /\ \A j \in DOMAIN judgements : judgements[j] \in Judgement
  BY <1>1
<1>3. DOMAIN proposals \subseteq ProposalIds
  BY <1>1, <1>2, ProposalBounds DEF ProposalIds
<1>4. QED
  BY <1>1, <1>2, <1>3 DEF Proposal, Judgement

LEMMA InvImpliesForgotten == Inv => NobodyForgotten
<1> SUFFICES ASSUME Inv, NEW p \in DOMAIN proposals
             PROVE  /\ Screening(p) =>
                         \/ p \in PendingScreening \cup PendingConfirmations
                         \/ \A version \in Versions : p \in PendingCx(version)
                    /\ p \in jobs => ApprovedJudgement(p) # {}
  BY DEF NobodyForgotten
<1>1. ASSUME Screening(p)
      PROVE  \/ p \in PendingScreening \cup PendingConfirmations
             \/ \A version \in Versions : p \in PendingCx(version)
  <2>1. \A source : ~Confirmed(p, source)
    BY <1>1 DEF Inv, Stands, Screening, Confirmed
  <2>2. checks[p] \in {"none", "pass", "block_soft", "block_card"}
    BY Typed DEF Inv, TypeOK, CheckVerdicts
  <2>3. CASE checks[p] = "none"
    BY <1>1, <2>3 DEF PendingScreening
  <2>4. CASE checks[p] \in {"block_soft", "block_card"}
    BY <1>1, <2>1, <2>4 DEF PendingConfirmations, Blocks
  <2>5. CASE checks[p] = "pass" /\ LatestAi(p) # {}
    BY <1>1, <2>1, <2>5 DEF PendingConfirmations
  <2>6. CASE checks[p] = "pass" /\ LatestAi(p) = {}
    BY <1>1, <2>6 DEF PendingCx
  <2>7. QED
    BY <2>2, <2>3, <2>4, <2>5, <2>6
<1>2. p \in jobs => ApprovedJudgement(p) # {}
  BY DEF Inv, Approved
<1>3. QED
  BY <1>1, <1>2

-----------------------------------------------------------------------------
(* What the helpers do to the tables.                                      *)

LEMMA StatusTimestampEffect ==
  ASSUME TypeOK, LatestExists
  PROVE  /\ NextStatusTimestamp \in Nat
         /\ NextStatusTimestamp >= now
         /\ \A p \in DOMAIN proposals : NextStatusTimestamp > proposals[p].changedAt
<1> DEFINE times == {now} \cup {proposals[p].changedAt + 1 : p \in DOMAIN proposals}
           Fits(t) == t >= now /\ \A p \in DOMAIN proposals : t > proposals[p].changedAt
<1>1. now \in Nat /\ \A p \in DOMAIN proposals : proposals[p].changedAt \in Nat
  BY Typed
<1>2. \A t \in times : t \in Nat
  BY <1>1
<1>3. \E t \in times : Fits(t)
  <2>1. CASE \A p \in DOMAIN proposals : now > proposals[p].changedAt
    BY <1>1, <2>1
  <2>2. CASE \E p \in DOMAIN proposals : ~(now > proposals[p].changedAt)
    <3>1. PICK p \in DOMAIN proposals :
            \A q \in DOMAIN proposals : proposals[q].changedAt <= proposals[p].changedAt
      BY <2>2 DEF LatestExists
    <3>2. proposals[p].changedAt + 1 \in times
      OBVIOUS
    <3>3. Fits(proposals[p].changedAt + 1)
      BY <1>1, <2>2, <3>1
    <3>4. QED
      BY <3>2, <3>3
  <2>3. QED
    BY <2>1, <2>2
<1>4. NextStatusTimestamp = CHOOSE t \in times : Fits(t)
  BY DEF NextStatusTimestamp
<1> HIDE DEF times
<1>5. NextStatusTimestamp \in times /\ Fits(NextStatusTimestamp)
  <2> HIDE DEF Fits
  <2>1. QED
    BY <1>3, <1>4
<1>6. QED
  BY <1>2, <1>5

LEMMA LatestEffect ==
  ASSUME NEW times, \A t \in times : t \in Nat,
         times # {} => \E t \in times : \A u \in times : u <= t
  PROVE  /\ Latest(times) \in {0} \cup times
         /\ \A u \in times : u <= Latest(times)
<1>1. \E t \in {0} \cup times : \A u \in times : u <= t
  OBVIOUS
<1>2. QED
  BY <1>1 DEF Latest

LEMMA LatestChangeEffect ==
  ASSUME TypeOK, LatestExists, NEW user \in Users,
         NEW latest, latest = Latest({proposals[p].changedAt : p \in Of(user)})
  PROVE  /\ latest \in Nat
         /\ latest = 0 \/ \E p \in Of(user) : latest = proposals[p].changedAt
         /\ \A p \in Of(user) : proposals[p].changedAt <= latest
<1> DEFINE times == {proposals[p].changedAt : p \in Of(user)}
<1>1. \A t \in times : t \in Nat
  BY Typed DEF Of
<1>2. times # {} => \E t \in times : \A u \in times : u <= t
  <2>1. SUFFICES ASSUME Of(user) # {} PROVE \E t \in times : \A u \in times : u <= t
    OBVIOUS
  <2>2. PICK p \in Of(user) :
          \A q \in Of(user) : proposals[q].changedAt <= proposals[p].changedAt
    BY <2>1 DEF LatestExists
  <2>3. proposals[p].changedAt \in times /\ \A u \in times : u <= proposals[p].changedAt
    BY <2>2
  <2>4. QED
    BY <2>3
<1>3. /\ Latest(times) \in {0} \cup times
      /\ \A u \in times : u <= Latest(times)
  <2> HIDE DEF times
  <2>1. QED
    BY <1>1, <1>2, LatestEffect
<1>4. QED
  BY <1>1, <1>3

\* Proposal p is new, or its row has changed just now.
Stamped(p) ==
  /\ proposals' \in Seq(Proposal) /\ Len(proposals') <= MaxProposals
  /\ DOMAIN proposals' = DOMAIN proposals \cup {p}
  /\ p \in DOMAIN proposals => proposals'[p].author = proposals[p].author
  /\ \A q \in DOMAIN proposals : q # p => proposals'[q] = proposals[q]
  /\ proposals'[p].changedAt > 0
  /\ \A q \in DOMAIN proposals : proposals'[p].changedAt > proposals[q].changedAt

LEMMA TransitionEffect ==
  ASSUME TypeOK, LatestExists, NEW p \in DOMAIN proposals, NEW from,
         NEW to \in Statuses, TransitionProposal(p, from, to)
  PROVE  /\ Stamped(p) /\ DOMAIN proposals' = DOMAIN proposals
         /\ proposals[p].status = from /\ proposals'[p].status = to
<1> DEFINE stamp == NextStatusTimestamp
           row == [proposals[p] EXCEPT !.status = to, !.changedAt = stamp,
                                       !.attempts = IF to = "failed" THEN 1 ELSE @]
<1>1. /\ stamp \in Nat /\ stamp > 0
      /\ \A q \in DOMAIN proposals : stamp > proposals[q].changedAt
  BY StatusTimestampEffect, Typed
<1> HIDE DEF stamp
<1>2. proposals[p] \in Proposal /\ p \in 1 .. Len(proposals) /\ proposals \in Seq(Proposal)
  BY Typed
<1>3. /\ row \in Proposal /\ row.status = to /\ row.changedAt = stamp
      /\ row.author = proposals[p].author
  BY <1>1, <1>2 DEF Proposal
<1>4. proposals' = [proposals EXCEPT ![p] = row] /\ proposals[p].status = from
  BY DEF TransitionProposal, stamp
<1> HIDE DEF row
<1>5. /\ proposals' \in Seq(Proposal) /\ Len(proposals') = Len(proposals)
      /\ \A q \in 1 .. Len(proposals) :
           proposals'[q] = IF q = p THEN row ELSE proposals[q]
  BY <1>2, <1>3, <1>4, ExceptSeq
<1>6. DOMAIN proposals' = DOMAIN proposals /\ Len(proposals) <= MaxProposals
  BY <1>5, Typed DEF TypeOK
<1>7. QED
  BY <1>1, <1>2, <1>3, <1>4, <1>5, <1>6, Typed DEF Stamped

LEMMA StampKeeps ==
  ASSUME TypeOK, LatestExists, NEW p, Stamped(p)
  PROVE  LatestExists'
<1>1. \A q \in DOMAIN proposals' :
        /\ proposals'[q].author \in Users /\ proposals'[q].changedAt \in Nat
        /\ proposals'[q].changedAt <= proposals'[p].changedAt
  <2>1. \A q \in DOMAIN proposals' : proposals'[q] \in Proposal
    BY DEF Stamped
  <2>2. QED
    BY <2>1, Typed DEF Stamped, Proposal
<1>2. p \in DOMAIN proposals'
  BY DEF Stamped
<1>3. ASSUME NEW user \in Users, Of(user)' # {}
      PROVE  \E r \in Of(user)' : \A q \in Of(user)' :
               proposals'[q].changedAt <= proposals'[r].changedAt
  <2>1. CASE p \in Of(user)'
    BY <1>1, <2>1 DEF Of
  <2>2. CASE p \notin Of(user)'
    <3>1. Of(user)' = Of(user)
      BY <1>2, <2>2 DEF Of, Stamped
    <3>2. \A q \in Of(user) : proposals'[q] = proposals[q]
      BY <2>2, <3>1 DEF Of, Stamped
    <3>3. QED
      BY <1>3, <3>1, <3>2 DEF LatestExists
  <2>3. QED
    BY <2>1, <2>2
<1>4. QED
  BY <1>1, <1>2, <1>3 DEF LatestExists

LEMMA StampIsNews ==
  ASSUME TypeOK, NewsSound, NEW p, Stamped(p), UNCHANGED authorVars
  PROVE  NewsSound'
<1> USE DEF authorVars
<1>1. \A q \in DOMAIN proposals' :
        proposals'[q].author \in Users /\ proposals'[q].changedAt \in Nat
  <2>1. proposals' \in Seq(Proposal)
    BY DEF Stamped
  <2>2. \A q \in DOMAIN proposals' : proposals'[q] \in Proposal
    BY ONLY <2>1
  <2>3. QED
    BY <2>2 DEF Proposal
<1>2. \A user \in Users : \A r \in Of(user) :
        r \in Of(user)' /\ proposals[r].changedAt <= proposals'[r].changedAt
  BY <1>1, Typed DEF Of, Stamped
<1>3. \A user \in Users :
        /\ asked[user] \in Nat /\ seenAt[user] \in Nat
        /\ asked[user] = 0 \/ \E r \in Of(user) : asked[user] <= proposals[r].changedAt
        /\ seenAt[user] = 0 \/ \E r \in Of(user) : seenAt[user] <= proposals[r].changedAt
  BY DEF TypeOK, NewsSound
<1>4. \A user \in Users :
        /\ asked[user] < proposals'[p].changedAt
        /\ seenAt[user] < proposals'[p].changedAt
  <2>1. p \in DOMAIN proposals' /\ proposals'[p].changedAt > 0
        /\ \A r \in DOMAIN proposals : proposals'[p].changedAt > proposals[r].changedAt
    BY DEF Stamped
  <2>2. QED
    BY <1>1, <1>3, <2>1, Typed DEF Of
<1>5. \A user \in Users :
        /\ asked[user] = 0 \/ \E r \in Of(user)' : asked[user] <= proposals'[r].changedAt
        /\ seenAt[user] = 0 \/ \E r \in Of(user)' : seenAt[user] <= proposals'[r].changedAt
  <2> SUFFICES ASSUME NEW user \in Users
               PROVE  /\ asked[user] = 0
                         \/ \E r \in Of(user)' : asked[user] <= proposals'[r].changedAt
                      /\ seenAt[user] = 0
                         \/ \E r \in Of(user)' : seenAt[user] <= proposals'[r].changedAt
    OBVIOUS
  <2>1. \A r \in Of(user) : proposals[r].changedAt \in Nat /\ proposals'[r].changedAt \in Nat
    BY <1>1, <1>2, Typed DEF Of
  <2>2. QED
    BY <1>2, <1>3, <2>1
<1>6. ASSUME NEW q \in DOMAIN proposals'
      PROVE  /\ proposals'[q].changedAt > 0
             /\ proposals'[q].changedAt <= asked[proposals'[q].author] =>
                  shown[q] = proposals'[q].changedAt
             /\ proposals'[q].changedAt <= seenAt[proposals'[q].author] =>
                  proposals'[q].changedAt \in {shown[q], claimed[q]}
  <2>1. CASE q = p
    BY <1>1, <1>3, <1>4, <2>1 DEF Stamped
  <2>2. CASE q # p
    <3>1. q \in DOMAIN proposals /\ proposals'[q] = proposals[q]
      BY <2>2 DEF Stamped
    <3>2. seenAt[proposals[q].author] \in Nat /\ proposals[q].changedAt \in Nat
      BY <1>3, <3>1, Typed
    <3>3. QED
      BY <3>1, <3>2 DEF NewsSound, UnreadTillShown, Unread
  <2>3. QED
    BY <2>1, <2>2
<1>7. ASSUME NEW q \in ProposalIds
      PROVE  \/ claimed[q] = 0
             \/ q \in DOMAIN proposals' /\ claimed[q] <= seenAt[proposals'[q].author]
  BY DEF NewsSound, Stamped
<1>8. UnreadTillShown'
  <2> SUFFICES ASSUME NEW q \in DOMAIN proposals'
               PROVE  /\ ~Unread(q)' => proposals'[q].changedAt \in {shown[q], claimed[q]}
                      /\ proposals'[q].changedAt = claimed[q] => ~Unread(q)'
    BY DEF UnreadTillShown
  <2>1. Unread(q)' <=> ~(proposals'[q].changedAt <= seenAt[proposals'[q].author])
    BY <1>1, <1>3 DEF Unread
  <2>2. q \in ProposalIds /\ proposals'[q].changedAt > 0
    <3>1. /\ proposals' \in Seq(Proposal) /\ Len(proposals') <= MaxProposals
          /\ MaxProposals \in Nat
      BY ProposalBounds DEF Stamped
    <3>2. DOMAIN proposals' \subseteq ProposalIds
      BY ONLY <3>1 DEF ProposalIds
    <3>3. QED
      BY <1>6, <3>2
  <2>3. QED
    BY <1>6, <1>7, <2>1, <2>2
<1>9. QED
  BY <1>5, <1>6, <1>7, <1>8 DEF NewsSound

\* Judgement j is added.
Judged(j, judgement) ==
  /\ judgements' \in Seq(Judgement)
  /\ j \notin DOMAIN judgements /\ DOMAIN judgements' = DOMAIN judgements \cup {j}
  /\ \A k \in DOMAIN judgements : k < j /\ k <= j /\ ~(j <= k) /\ judgements'[k] = judgements[k]
  /\ judgements'[j] = judgement
  /\ j <= j

LEMMA InsertJudgementEffect ==
  ASSUME TypeOK, NEW p \in DOMAIN proposals, NEW decidedBy \in {"ai", "developer"},
         NEW verdict \in Verdicts, NEW source \in Nat, NEW run \in Runs \cup {NoRun},
         InsertJudgement(p, decidedBy, verdict, source, run)
  PROVE  \E j \in Nat :
           Judged(j, [proposal |-> p, decidedBy |-> decidedBy, verdict |-> verdict,
                      source |-> source, run |-> run])
<1> DEFINE judgement == [proposal |-> p, decidedBy |-> decidedBy, verdict |-> verdict,
                         source |-> source, run |-> run]
           new == Len(judgements) + 1
<1>1. judgement \in Judgement
  BY Typed DEF Judgement
<1>2. judgements' = Append(judgements, judgement) /\ judgements \in Seq(Judgement)
  BY Typed DEF InsertJudgement
<1> HIDE DEF judgement
<1>3. /\ judgements' \in Seq(Judgement) /\ Len(judgements') = new
      /\ \A k \in 1 .. Len(judgements) : judgements'[k] = judgements[k]
      /\ judgements'[new] = judgement
  BY <1>1, <1>2, AppendProperties
<1>4. Judged(new, judgement) /\ new \in Nat
  BY <1>3, Typed DEF Judged
<1>5. QED
  BY <1>4 DEF judgement

\* A decision is added to those of its proposal; what the AI said stays.
LEMMA DecisionAdded ==
  ASSUME TypeOK, NEW j, NEW judgement, Judged(j, judgement),
         judgement.decidedBy = "developer"
  PROVE  /\ \A p : AiOf(p)' = AiOf(p) /\ LatestAi(p)' = LatestAi(p)
         /\ \A p : DecisionsOf(p)' =
              IF p = judgement.proposal THEN DecisionsOf(p) \cup {j} ELSE DecisionsOf(p)
<1>1. \A p : AiOf(p)' = AiOf(p)
  BY DEF AiOf, Judged
<1>2. \A p : LatestAi(p)' = LatestAi(p)
  BY <1>1 DEF LatestAi
<1>3. \A p : DecisionsOf(p)' =
        IF p = judgement.proposal THEN DecisionsOf(p) \cup {j} ELSE DecisionsOf(p)
  BY DEF DecisionsOf, Judged
<1>4. QED
  BY <1>1, <1>2, <1>3

\* A judgement of the AI leaves the decisions and the other proposals alone.
LEMMA AiAdded ==
  ASSUME TypeOK, NEW j, NEW judgement, Judged(j, judgement), judgement.decidedBy = "ai"
  PROVE  /\ \A p : DecisionsOf(p)' = DecisionsOf(p)
         /\ \A p : p # judgement.proposal => LatestAi(p)' = LatestAi(p)
<1>1. \A p : DecisionsOf(p)' = DecisionsOf(p)
  BY DEF DecisionsOf, Judged
<1>2. \A p : p # judgement.proposal => AiOf(p)' = AiOf(p)
  BY DEF AiOf, Judged
<1>3. \A p : p # judgement.proposal => LatestAi(p)' = LatestAi(p)
  BY <1>2 DEF LatestAi
<1>4. QED
  BY <1>1, <1>3

-----------------------------------------------------------------------------
(* What a step leaves alone.                                               *)

LEMMA OthersStand ==
  ASSUME NEW p, Stands(p), proposals'[p].status = proposals[p].status,
         checks'[p] = checks[p], p \in jobs' <=> p \in jobs,
         DecisionsOf(p)' = DecisionsOf(p), LatestAi(p)' = LatestAi(p),
         \A j \in DecisionsOf(p) : judgements'[j] = judgements[j]
  PROVE  Stands(p)'
BY DEF Stands

LEMMA OthersApproved ==
  ASSUME TypeOK, NEW p, Approved(p), checks'[p] = checks[p], p \in jobs' <=> p \in jobs,
         NEW j, NEW judgement, Judged(j, judgement), judgement.proposal # p
  PROVE  Approved(p)'
BY DEF Approved, ApprovedJudgement, Judged

LEMMA TablesAlone ==
  ASSUME Inv, UNCHANGED tableVars
  PROVE  /\ LatestExists' /\ JudgementsSound'
         /\ \A p \in DOMAIN proposals' : Stands(p)' /\ Approved(p)'
<1> USE DEF tableVars
<1>1. \A p : Of(p)' = Of(p)
  BY DEF Of
<1>2. LatestExists' /\ JudgementsSound'
  BY <1>1 DEF Inv, LatestExists, JudgementsSound
<1>3. \A p : /\ DecisionsOf(p)' = DecisionsOf(p) /\ AiOf(p)' = AiOf(p)
             /\ ApprovedJudgement(p)' = ApprovedJudgement(p)
  BY DEF DecisionsOf, AiOf, ApprovedJudgement
<1>4. \A p : LatestAi(p)' = LatestAi(p)
  BY <1>3 DEF LatestAi
<1>5. \A p \in DOMAIN proposals : Stands(p)' /\ Approved(p)'
  BY <1>3, <1>4 DEF Inv, Stands, Approved
<1>6. QED
  BY <1>2, <1>5

LEMMA CardsAlone == Inv /\ UNCHANGED <<now, cardVars>> => CardInv' /\ CardsTypeOK'
BY UnchangedKeeps DEF Inv, CardInv, cardVars

LEMMA NewsAlone == NewsSound /\ UNCHANGED <<proposals, authorVars>> => NewsSound'
BY DEF NewsSound, UnreadTillShown, Unread, Of, authorVars

-----------------------------------------------------------------------------
(* The steps.                                                              *)

LEMMA SubmitKeeps ==
  ASSUME Inv, NEW user \in Users, NEW content \in Contents, Submit(user, content),
         scene' = scene
  PROVE  Inv'
<1> DEFINE row == [author |-> user, content |-> content, status |-> "screening",
                   changedAt |-> NextStatusTimestamp, attempts |-> 0]
<1>18. PICK new : new = Len(proposals) + 1
  OBVIOUS
<1>1. /\ NextStatusTimestamp \in Nat /\ NextStatusTimestamp > 0
      /\ \A p \in DOMAIN proposals : NextStatusTimestamp > proposals[p].changedAt
  BY StatusTimestampEffect, Typed DEF Inv
<1>2. row \in Proposal /\ row.changedAt = NextStatusTimestamp /\ row.status = "screening"
  BY <1>1 DEF Proposal, Statuses
<1>3. Len(proposals) < MaxProposals
  BY ProposalBounds, Typed DEF Inv, TypeOK, Submit
<1>4. proposals' = Append(proposals, row) /\ proposals \in Seq(Proposal)
  BY Typed DEF Inv, Submit
<1> HIDE DEF row
<1>5. /\ proposals' \in Seq(Proposal) /\ Len(proposals') = new
      /\ \A p \in 1 .. Len(proposals) : proposals'[p] = proposals[p]
      /\ proposals'[new] = row
  BY <1>2, <1>4, <1>18, AppendProperties
<1>6. /\ DOMAIN proposals' = DOMAIN proposals \cup {new} /\ new \notin DOMAIN proposals
      /\ \A p \in DOMAIN proposals : proposals'[p] = proposals[p]
  BY <1>5, <1>18, Typed DEF Inv
<1>7. Stamped(new)
  BY <1>1, <1>2, <1>3, <1>5, <1>6, <1>18, ProposalBounds, Typed DEF Inv, Stamped
<1>8. /\ UNCHANGED <<now, cardVars>> /\ UNCHANGED authorVars
      /\ checks' = checks /\ judgements' = judgements /\ jobs' = jobs
  BY DEF Submit
<1>9. CardInv' /\ CardsTypeOK'
  BY <1>8, CardsAlone
<1>10. LatestExists' /\ NewsSound'
  BY <1>7, <1>8, StampKeeps, StampIsNews DEF Inv
<1>11. TypeOK'
  BY <1>6, <1>7, <1>8, <1>9 DEF Inv, TypeOK, Stamped, authorVars
<1>12. JudgementsSound'
  BY <1>6, <1>8 DEF Inv, JudgementsSound
<1>13. \A p : /\ DecisionsOf(p)' = DecisionsOf(p) /\ AiOf(p)' = AiOf(p)
              /\ ApprovedJudgement(p)' = ApprovedJudgement(p)
  BY <1>8 DEF DecisionsOf, AiOf, ApprovedJudgement
<1>14. \A p : LatestAi(p)' = LatestAi(p)
  BY <1>13 DEF LatestAi
<1>15. \A p \in DOMAIN proposals : Stands(p)' /\ Approved(p)'
  BY <1>6, <1>8, <1>13, <1>14 DEF Inv, Stands, Approved
<1>16. Stands(new)' /\ Approved(new)'
  <2>1. DecisionsOf(new) = {}
    BY <1>6 DEF Inv, JudgementsSound, DecisionsOf
  <2>2. new \notin jobs
    BY <1>6 DEF Inv, TypeOK
  <2>3. QED
    BY <1>2, <1>5, <1>8, <1>13, <2>1, <2>2 DEF Stands, Approved
<1>17. QED
  BY <1>6, <1>9, <1>10, <1>11, <1>12, <1>15, <1>16 DEF Inv

LEMMA RegisterKeeps ==
  ASSUME Inv, NEW user \in Users, Register(user), scene' = scene
  PROVE  Inv'
<1>1. UNCHANGED tableVars /\ UNCHANGED <<now, cardVars>> /\ registered' = registered \cup {user}
      /\ UNCHANGED <<seenAt, asked, shown, claimed>>
  BY DEF Register
<1>2. TypeOK'
  BY <1>1, CardsAlone DEF Inv, TypeOK, tableVars
<1>3. NewsSound'
  BY <1>1 DEF Inv, NewsSound, UnreadTillShown, Unread, Of, tableVars
<1>4. QED
  BY <1>1, <1>2, <1>3, CardsAlone, TablesAlone DEF Inv

LEMMA MineKeeps ==
  ASSUME Inv, NEW user \in Users, Mine(user), scene' = scene
  PROVE  Inv'
<1>1. UNCHANGED tableVars /\ UNCHANGED <<now, cardVars>> /\ registered' = registered
      /\ seenAt' = seenAt /\ claimed' = claimed
  BY DEF Mine
<1>2. PICK latest : latest = Latest({proposals[p].changedAt : p \in Of(user)})
  OBVIOUS
<1>3. /\ latest \in Nat
      /\ latest = 0 \/ \E p \in Of(user) : latest = proposals[p].changedAt
  BY <1>2, LatestChangeEffect DEF Inv
<1>4. asked' = [asked EXCEPT ![user] = latest]
  BY <1>2 DEF Mine, StatusWatermark
<1>5. shown' = [p \in ProposalIds |->
        IF p \in Of(user) THEN proposals[p].changedAt ELSE shown[p]]
  BY DEF Mine
<1>6. /\ proposals' = proposals /\ \A u : Of(u)' = Of(u)
      /\ DOMAIN proposals \subseteq ProposalIds
      /\ \A p \in DOMAIN proposals :
           /\ proposals[p].author \in Users /\ proposals[p].changedAt \in Nat
           /\ proposals[p].author = user <=> p \in Of(user)
  BY <1>1, Typed DEF Inv, Of, tableVars
<1>7. TypeOK'
  <2>1. shown' \in [ProposalIds -> Nat] /\ asked' \in [Users -> Nat]
    BY <1>3, <1>4, <1>5, <1>6 DEF Inv, TypeOK, Of
  <2>2. QED
    BY <1>1, <2>1, CardsAlone DEF Inv, TypeOK, tableVars
<1>8. \A p \in DOMAIN proposals :
        /\ p \in Of(user) => shown'[p] = proposals[p].changedAt
        /\ p \notin Of(user) => /\ shown'[p] = shown[p]
                                /\ asked'[proposals[p].author] = asked[proposals[p].author]
  BY <1>4, <1>5, <1>6 DEF Inv, TypeOK
<1>9. NewsSound'
  <2>1. \A p \in DOMAIN proposals :
          /\ proposals[p].changedAt > 0
          /\ proposals[p].changedAt <= asked'[proposals[p].author] =>
               shown'[p] = proposals[p].changedAt
          /\ ~Unread(p) => proposals[p].changedAt \in {shown'[p], claimed[p]}
    BY <1>8 DEF Inv, NewsSound, UnreadTillShown
  <2>2. \A u \in Users :
          /\ asked'[u] = 0 \/ \E p \in Of(u) : asked'[u] <= proposals[p].changedAt
          /\ seenAt[u] = 0 \/ \E p \in Of(u) : seenAt[u] <= proposals[p].changedAt
    <3>1. /\ asked \in [Users -> Nat]
          /\ \A u \in Users :
               /\ asked[u] = 0 \/ \E p \in Of(u) : asked[u] <= proposals[p].changedAt
               /\ seenAt[u] = 0 \/ \E p \in Of(u) : seenAt[u] <= proposals[p].changedAt
      BY DEF Inv, TypeOK, NewsSound
    <3>2. asked'[user] = latest /\ \A u \in Users \ {user} : asked'[u] = asked[u]
      BY <1>4, <3>1
    <3>3. latest = 0 \/ \E p \in Of(user) : latest <= proposals[p].changedAt
      BY <1>3
    <3>4. QED
      BY <3>1, <3>2, <3>3
  <2>3. \A p \in DOMAIN proposals :
          /\ Unread(p)' <=> Unread(p)
          /\ proposals[p].changedAt = claimed[p] => ~Unread(p)
    BY <1>1, <1>6 DEF Unread, Inv, NewsSound, UnreadTillShown
  <2>4. \A p \in ProposalIds :
          \/ claimed[p] = 0
          \/ p \in DOMAIN proposals /\ claimed[p] <= seenAt[proposals[p].author]
    BY DEF Inv, NewsSound
  <2>5. UnreadTillShown'
    BY <1>1, <1>6, <2>1, <2>3 DEF UnreadTillShown
  <2>6. QED
    BY <1>1, <1>6, <2>1, <2>2, <2>4, <2>5 DEF NewsSound
<1>10. QED
  BY <1>1, <1>7, <1>9, CardsAlone, TablesAlone DEF Inv

\* Of the requests to mark changes as seen: the mark stays or is what was asked
\* for, which lies among the changes there are.
LEMMA SeenEffect ==
  ASSUME Inv, NEW user \in Users, NEW body \in Nat \cup {NoBody}, Seen(user, body)
  PROVE  \E through \in Nat :
           /\ through = SeenThrough(user, body)
           /\ through = 0 \/ \E p \in Of(user) : through <= proposals[p].changedAt
           /\ \E mark \in {seenAt[user], through} :
                /\ seenAt[user] <= mark /\ through <= mark
                /\ seenAt' = [seenAt EXCEPT ![user] = mark]
<1>1. PICK latest : latest = Latest({proposals[p].changedAt : p \in Of(user)})
  OBVIOUS
<1>2. /\ latest \in Nat
      /\ latest = 0 \/ \E p \in Of(user) : latest = proposals[p].changedAt
  BY <1>1, LatestChangeEffect DEF Inv
<1>3. PICK through : through = SeenThrough(user, body)
  OBVIOUS
<1>4. through \in Nat /\ through <= latest
  BY <1>1, <1>2, <1>3 DEF Seen, SeenThrough, StatusWatermark
<1>5. through = 0 \/ \E p \in Of(user) : through <= proposals[p].changedAt
  BY <1>2, <1>4
<1>6. PICK mark : mark = Latest({seenAt[user], through})
  OBVIOUS
<1>7. seenAt[user] \in Nat
  BY DEF Inv, TypeOK
<1>8. /\ mark \in {0} \cup {seenAt[user], through}
      /\ \A t \in {seenAt[user], through} : t <= mark
  <2>1. /\ \A t \in {seenAt[user], through} : t \in Nat
        /\ \E t \in {seenAt[user], through} : \A u \in {seenAt[user], through} : u <= t
    BY <1>4, <1>7
  <2>2. QED
    BY <1>6, <2>1, LatestEffect
<1>9. mark \in {seenAt[user], through}
  BY <1>4, <1>7, <1>8
<1>10. seenAt' = [seenAt EXCEPT ![user] = mark]
  BY <1>3, <1>6 DEF Seen
<1>11. QED
  BY <1>3, <1>4, <1>5, <1>8, <1>9, <1>10

LEMMA SeenOnScreenKeeps ==
  ASSUME Inv, NEW user \in Users, SeenOnScreen(user), scene' = scene
  PROVE  Inv'
<1>1. /\ UNCHANGED tableVars /\ UNCHANGED <<now, cardVars>> /\ registered' = registered
      /\ asked' = asked /\ shown' = shown /\ claimed' = claimed
  BY DEF SeenOnScreen, Seen
<1>2. /\ proposals' = proposals /\ \A u : Of(u)' = Of(u)
      /\ \A p \in DOMAIN proposals :
           proposals[p].author \in Users /\ proposals[p].changedAt \in Nat
      /\ asked \in [Users -> Nat] /\ seenAt \in [Users -> Nat]
      /\ claimed \in [ProposalIds -> Nat]
  BY <1>1, Typed DEF Inv, TypeOK, Of, tableVars
<1>3. SeenThrough(user, asked[user]) = asked[user] /\ asked[user] \in Nat
  BY <1>2 DEF SeenThrough, NoBody
<1>4. PICK mark \in {seenAt[user], asked[user]} :
        seenAt[user] <= mark /\ seenAt' = [seenAt EXCEPT ![user] = mark]
  BY <1>3, SeenEffect DEF SeenOnScreen
<1>5. \A u \in Users : /\ seenAt'[u] = seenAt[u] \/ seenAt'[u] = asked[u]
                       /\ seenAt[u] <= seenAt'[u] /\ seenAt'[u] \in Nat
  BY <1>2, <1>4
<1>6. TypeOK'
  BY <1>1, <1>2, <1>4, CardsAlone DEF Inv, TypeOK, tableVars
<1>7. NewsSound'
  <2>1. ASSUME NEW p \in ProposalIds
        PROVE  \/ claimed[p] = 0
               \/ p \in DOMAIN proposals /\ claimed[p] <= seenAt'[proposals[p].author]
    <3>1. \/ claimed[p] = 0
          \/ p \in DOMAIN proposals /\ claimed[p] <= seenAt[proposals[p].author]
      BY DEF Inv, NewsSound
    <3>2. CASE p \in DOMAIN proposals /\ claimed[p] <= seenAt[proposals[p].author]
      <4>1. PICK author \in Users : author = proposals[p].author
        BY <1>2, <3>2
      <4>2. claimed[p] \in Nat /\ seenAt[author] \in Nat /\ seenAt'[author] \in Nat
            /\ seenAt[author] <= seenAt'[author] /\ claimed[p] <= seenAt[author]
        BY <1>2, <1>5, <3>2, <4>1
      <4>3. QED
        BY <3>2, <4>1, <4>2
    <3>3. QED
      BY <3>1, <3>2
  <2>2. UnreadTillShown'
    <3> SUFFICES ASSUME NEW p \in DOMAIN proposals
                 PROVE  /\ ~Unread(p)' => proposals[p].changedAt \in {shown[p], claimed[p]}
                        /\ proposals[p].changedAt = claimed[p] => ~Unread(p)'
      BY <1>1, <1>2 DEF UnreadTillShown
    <3>1. PICK author \in Users : author = proposals[p].author
      BY <1>2
    <3>2. /\ proposals[p].changedAt \in Nat /\ seenAt[author] \in Nat /\ seenAt'[author] \in Nat
          /\ seenAt'[author] = seenAt[author] \/ seenAt'[author] = asked[author]
          /\ seenAt[author] <= seenAt'[author]
      BY <1>2, <1>5
    <3>3. /\ Unread(p) <=> proposals[p].changedAt > seenAt[author]
          /\ Unread(p)' <=> proposals[p].changedAt > seenAt'[author]
      BY <1>2, <3>1 DEF Unread
    <3>4. /\ ~Unread(p) => proposals[p].changedAt \in {shown[p], claimed[p]}
          /\ proposals[p].changedAt = claimed[p] => ~Unread(p)
          /\ proposals[p].changedAt <= asked[author] => shown[p] = proposals[p].changedAt
      BY <3>1 DEF Inv, NewsSound, UnreadTillShown
    <3>5. QED
      BY <3>2, <3>3, <3>4
  <2>3. \A u \in Users :
          seenAt'[u] = 0 \/ \E p \in Of(u) : seenAt'[u] <= proposals[p].changedAt
    BY <1>5 DEF Inv, NewsSound
  <2>4. QED
    BY <1>1, <1>2, <2>1, <2>2, <2>3 DEF Inv, NewsSound
<1>8. QED
  BY <1>1, <1>6, <1>7, CardsAlone, TablesAlone DEF Inv

LEMMA SeenElsewhereKeeps ==
  ASSUME Inv, NEW user \in Users, NEW body \in Nat \cup {NoBody}, SeenElsewhere(user, body),
         scene' = scene
  PROVE  Inv'
<1>1. /\ UNCHANGED tableVars /\ UNCHANGED <<now, cardVars>> /\ registered' = registered
      /\ asked' = asked /\ shown' = shown
  BY DEF SeenElsewhere, Seen
<1>2. /\ proposals' = proposals /\ \A u : Of(u)' = Of(u)
      /\ DOMAIN proposals \subseteq ProposalIds
      /\ \A p \in DOMAIN proposals :
           /\ proposals[p].author \in Users /\ proposals[p].changedAt \in Nat
           /\ proposals[p].author = user <=> p \in Of(user)
      /\ seenAt \in [Users -> Nat] /\ claimed \in [ProposalIds -> Nat]
  BY <1>1, Typed DEF Inv, TypeOK, Of, tableVars
<1>3. PICK through \in Nat :
        /\ through = SeenThrough(user, body)
        /\ through = 0 \/ \E p \in Of(user) : through <= proposals[p].changedAt
        /\ \E mark \in {seenAt[user], through} :
             /\ seenAt[user] <= mark /\ through <= mark
             /\ seenAt' = [seenAt EXCEPT ![user] = mark]
  BY SeenEffect DEF SeenElsewhere
<1>4. PICK mark \in {seenAt[user], through} :
        /\ seenAt[user] <= mark /\ through <= mark
        /\ seenAt' = [seenAt EXCEPT ![user] = mark]
  BY <1>3
<1>5. mark \in Nat /\ \A u \in Users : seenAt'[u] = IF u = user THEN mark ELSE seenAt[u]
  BY <1>2, <1>4
<1>6. claimed' = [p \in ProposalIds |->
        IF p \in Of(user) /\ proposals[p].changedAt <= through
        THEN proposals[p].changedAt ELSE claimed[p]]
  BY <1>3 DEF SeenElsewhere
<1>7. TypeOK'
  <2>1. claimed' \in [ProposalIds -> Nat]
    BY <1>2, <1>6 DEF Of
  <2>2. seenAt' \in [Users -> Nat]
    BY <1>2, <1>4, <1>5
  <2>3. QED
    BY <1>1, <2>1, <2>2, CardsAlone DEF Inv, TypeOK, tableVars
<1>8. ASSUME NEW p \in DOMAIN proposals
      PROVE  /\ claimed'[p] <= seenAt'[proposals[p].author]
             /\ ~Unread(p)' => proposals[p].changedAt \in {shown[p], claimed'[p]}
             /\ proposals[p].changedAt = claimed'[p] => ~Unread(p)'
  <2>1. PICK author \in Users : author = proposals[p].author
    BY <1>2
  <2>2. /\ p \in ProposalIds /\ proposals[p].changedAt \in Nat /\ claimed[p] \in Nat
        /\ seenAt[author] \in Nat /\ seenAt'[author] \in Nat
    BY <1>2, <1>5
  <2>3. /\ Unread(p) <=> proposals[p].changedAt > seenAt[author]
        /\ Unread(p)' <=> proposals[p].changedAt > seenAt'[author]
    BY <1>2, <2>1 DEF Unread
  <2>4. /\ ~Unread(p) => proposals[p].changedAt \in {shown[p], claimed[p]}
        /\ claimed[p] <= seenAt[author]
    <3>1. ~Unread(p) => proposals[p].changedAt \in {shown[p], claimed[p]}
      BY DEF Inv, NewsSound, UnreadTillShown
    <3>2. claimed[p] = 0 \/ claimed[p] <= seenAt[author]
      BY <2>1, <2>2 DEF Inv, NewsSound
    <3>3. QED
      BY <2>2, <3>1, <3>2
  <2>5. claimed'[p] = IF author = user /\ proposals[p].changedAt <= through
                      THEN proposals[p].changedAt ELSE claimed[p]
    BY <1>2, <1>6, <2>1, <2>2
  <2>6. author = user => /\ seenAt'[author] = mark
                         /\ seenAt[author] <= mark /\ through <= mark
                         /\ mark = seenAt[author] \/ mark = through
    BY <1>4, <1>5
  <2>7. author # user => seenAt'[author] = seenAt[author]
    BY <1>5
  <2>8. claimed'[p] <= seenAt'[author]
    BY <1>5, <2>2, <2>4, <2>5, <2>6, <2>7
  <2>9. ~Unread(p)' => proposals[p].changedAt \in {shown[p], claimed'[p]}
    BY <1>5, <2>2, <2>3, <2>4, <2>5, <2>6, <2>7
  <2>10. proposals[p].changedAt = claimed'[p] => ~Unread(p)'
    BY <2>2, <2>3, <2>8
  <2>11. QED
    BY <2>1, <2>8, <2>9, <2>10
<1>9. NewsSound'
  <2>1. \A p \in ProposalIds :
          \/ claimed'[p] = 0
          \/ p \in DOMAIN proposals /\ claimed'[p] <= seenAt'[proposals[p].author]
    <3> SUFFICES ASSUME NEW p \in ProposalIds, p \notin DOMAIN proposals
                 PROVE  claimed'[p] = 0
      BY <1>8
    <3>1. claimed[p] = 0
      BY DEF Inv, NewsSound
    <3>2. QED
      BY <1>6, <3>1 DEF Of
  <2>2. UnreadTillShown'
    BY <1>1, <1>2, <1>8 DEF UnreadTillShown
  <2>3. \A u \in Users :
          seenAt'[u] = 0 \/ \E p \in Of(u) : seenAt'[u] <= proposals[p].changedAt
    BY <1>3, <1>4, <1>5 DEF Inv, NewsSound
  <2>4. QED
    BY <1>1, <1>2, <2>1, <2>2, <2>3 DEF Inv, NewsSound
<1>10. QED
  BY <1>1, <1>7, <1>9, CardsAlone, TablesAlone DEF Inv

LEMMA RecordVerdictKeeps ==
  ASSUME Inv, NEW p \in DOMAIN proposals, NEW verdict \in CheckVerdicts,
         RecordVerdict(p, verdict), scene' = scene
  PROVE  Inv'
<1>1. /\ UNCHANGED <<now, cardVars>> /\ UNCHANGED authorVars
      /\ proposals' = proposals /\ judgements' = judgements /\ jobs' = jobs
      /\ checks' = [checks EXCEPT ![p] = verdict] /\ checks[p] = "none" /\ Screening(p)
  BY DEF RecordVerdict
<1>2. p \in ProposalIds /\ checks \in [ProposalIds -> CheckVerdicts \cup {"none"}]
  BY Typed DEF Inv, TypeOK
<1>3. TypeOK'
  BY <1>1, <1>2, CardsAlone DEF Inv, TypeOK, authorVars
<1>4. LatestExists'
  BY <1>1 DEF Inv, LatestExists, Of
<1>5. \A q : q # p => checks'[q] = checks[q]
  BY <1>1, <1>2
<1>6. JudgementsSound'
  BY <1>1, <1>5 DEF Inv, JudgementsSound
<1>7. \A q : /\ DecisionsOf(q)' = DecisionsOf(q) /\ AiOf(q)' = AiOf(q)
             /\ q # p => ApprovedJudgement(q)' = ApprovedJudgement(q)
  BY <1>1, <1>5 DEF DecisionsOf, AiOf, ApprovedJudgement
<1>8. \A q : LatestAi(q)' = LatestAi(q)
  BY <1>7 DEF LatestAi
<1>9. \A q \in DOMAIN proposals : q # p => Stands(q)' /\ Approved(q)'
  BY <1>1, <1>5, <1>7, <1>8 DEF Inv, Stands, Approved
<1>10. Stands(p)' /\ Approved(p)'
  BY <1>1, <1>7 DEF Inv, Stands, Approved, Screening
<1>11. QED
  BY <1>1, <1>3, <1>4, <1>6, <1>9, <1>10, CardsAlone, NewsAlone DEF Inv

LEMMA RecordAiKeeps ==
  ASSUME Inv, NEW p \in DOMAIN proposals, NEW run \in Runs, NEW verdict \in Verdicts,
         RecordAi(p, run, verdict), scene' = scene
  PROVE  Inv'
<1>1. /\ UNCHANGED <<now, cardVars>> /\ UNCHANGED authorVars
      /\ proposals' = proposals /\ checks' = checks /\ jobs' = jobs
      /\ Screening(p) /\ checks[p] = "pass"
      /\ InsertJudgement(p, "ai", verdict, NoSource, run)
  BY DEF RecordAi
<1>2. PICK j \in Nat :
        Judged(j, [proposal |-> p, decidedBy |-> "ai", verdict |-> verdict,
                   source |-> NoSource, run |-> run])
  BY <1>1, InsertJudgementEffect DEF Inv, NoSource
<1>3. PICK judgement : /\ Judged(j, judgement) /\ judgement.decidedBy = "ai"
                       /\ judgement.proposal = p
  BY <1>2
<1>4. TypeOK'
  BY <1>1, <1>3, CardsAlone DEF Inv, TypeOK, Judged, authorVars
<1>5. LatestExists'
  BY <1>1 DEF Inv, LatestExists, Of
<1>6. JudgementsSound'
  BY <1>1, <1>3 DEF Inv, JudgementsSound, Judged
<1>7. /\ \A q : DecisionsOf(q)' = DecisionsOf(q)
      /\ \A q : q # p => LatestAi(q)' = LatestAi(q)
  BY <1>3, AiAdded DEF Inv
<1>8. \A q : \A k \in DecisionsOf(q) : judgements'[k] = judgements[k]
  BY <1>3 DEF DecisionsOf, Judged
<1>9. \A q \in DOMAIN proposals : q # p => Stands(q)'
  BY <1>1, <1>7, <1>8, OthersStand DEF Inv
<1>10. \A q \in DOMAIN proposals : q # p => Approved(q)'
  BY <1>1, <1>3, OthersApproved DEF Inv
<1>11. Stands(p)' /\ Approved(p)'
  BY <1>1, <1>7 DEF Inv, Stands, Approved, Screening
<1>12. QED
  BY <1>1, <1>4, <1>5, <1>6, <1>9, <1>10, <1>11, CardsAlone, NewsAlone DEF Inv

\* The developer's decision on a proposal that was not decided.
LEMMA DecisionKeeps ==
  ASSUME Inv, NEW p \in DOMAIN proposals, CardInv', CardsTypeOK',
         NEW source \in Nat, NEW verdict \in {"reject", "approve"}, NEW to \in Statuses,
         TransitionProposal(p, "screening", to),
         InsertJudgement(p, "developer", verdict, source, NoRun),
         checks' = checks, UNCHANGED authorVars, scene' = scene,
         \/ /\ verdict = "reject" /\ to = "rejected" /\ jobs' = jobs
            /\ \/ source = NoSource /\ Blocks(checks[p])
               \/ source \in LatestAi(p)
         \/ /\ verdict = "approve" /\ to = "implementing" /\ jobs' = jobs \cup {p}
            /\ source \in LatestAi(p)
  PROVE  Inv'
<1>1. /\ Stamped(p) /\ DOMAIN proposals' = DOMAIN proposals
      /\ proposals[p].status = "screening" /\ proposals'[p].status = to
  BY TransitionEffect DEF Inv
<1>2. PICK j \in Nat :
        Judged(j, [proposal |-> p, decidedBy |-> "developer", verdict |-> verdict,
                   source |-> source, run |-> NoRun])
  BY InsertJudgementEffect DEF Inv, Verdicts
<1>3. PICK judgement :
        /\ Judged(j, judgement) /\ judgement.decidedBy = "developer"
        /\ judgement.proposal = p /\ judgement.verdict = verdict
        /\ judgement.source = source
  BY <1>2
<1>4. TypeOK'
  <2>1. jobs' \subseteq DOMAIN proposals
    BY DEF Inv, TypeOK
  <2>2. QED
    BY <1>1, <1>3, <2>1 DEF Inv, TypeOK, Judged, Stamped, authorVars
<1>5. LatestExists' /\ NewsSound'
  BY <1>1, StampKeeps, StampIsNews DEF Inv
<1>6. JudgementsSound'
  BY <1>1, <1>3 DEF Inv, JudgementsSound, Judged
<1>7. /\ \A q : LatestAi(q)' = LatestAi(q)
      /\ \A q : q # p => DecisionsOf(q)' = DecisionsOf(q)
      /\ DecisionsOf(p)' = DecisionsOf(p) \cup {j}
  BY <1>3, DecisionAdded DEF Inv
<1>8. \A q : \A k \in DecisionsOf(q) : judgements'[k] = judgements[k]
  BY <1>3 DEF DecisionsOf, Judged
<1>9. ASSUME NEW q \in DOMAIN proposals, q # p PROVE Stands(q)' /\ Approved(q)'
  <2>1. /\ proposals'[q] = proposals[q] /\ checks'[q] = checks[q]
        /\ q \in jobs' <=> q \in jobs
    BY <1>1, <1>9 DEF Stamped
  <2>2. Stands(q)'
    BY <1>7, <1>8, <1>9, <2>1, OthersStand DEF Inv
  <2>3. Approved(q)'
    BY <1>3, <1>9, <2>1, OthersApproved DEF Inv
  <2>4. QED
    BY <2>2, <2>3
<1>10. DecisionsOf(p) = {} /\ p \notin jobs /\ DecisionsOf(p)' = {j}
  BY <1>1, <1>7 DEF Inv, Stands
<1>11. judgements'[j] = judgement
  BY <1>3 DEF Judged
<1>12. source \in LatestAi(p) => checks[p] = "pass"
  BY DEF Inv, JudgementsSound, LatestAi, AiOf
<1>13. Stands(p)'
  BY <1>1, <1>3, <1>7, <1>10, <1>11, <1>12 DEF Stands
<1>14. Approved(p)'
  <2>1. CASE verdict = "reject"
    BY <1>10, <2>1 DEF Approved
  <2>2. CASE verdict = "approve"
    <3>1. j \in ApprovedJudgement(p)'
      BY <1>3, <1>11, <1>12, <2>2 DEF ApprovedJudgement, Judged
    <3>2. QED
      BY <3>1 DEF Approved
  <2>3. QED
    BY <2>1, <2>2
<1>15. QED
  BY <1>1, <1>4, <1>5, <1>6, <1>9, <1>13, <1>14 DEF Inv

LEMMA ConfirmE6RejectionKeeps ==
  ASSUME Inv, NEW p \in DOMAIN proposals, ConfirmE6Rejection(p), scene' = scene
  PROVE  Inv'
<1>1. /\ Blocks(checks[p]) /\ Reject(p, NoSource)
      /\ \/ ConfirmCard(proposals[p].author, p)
         \/ UNCHANGED cardVars
  BY DEF ConfirmE6Rejection
<1>2. now' = now /\ proposals[p].author \in Users /\ p \in Nat /\ NoSource \in Nat
  BY <1>1, Typed DEF Inv, Reject, NoSource
<1>3. CardInv'
  BY <1>1, <1>2, ConfirmCardKeeps, UnchangedKeeps DEF Inv, cardVars
<1>4. CardsTypeOK'
  BY <1>3 DEF CardInv
<1>5. QED
  BY <1>1, <1>2, <1>3, <1>4, DecisionKeeps DEF Reject, Statuses

LEMMA ConfirmCxRejectionKeeps ==
  ASSUME Inv, NEW p \in DOMAIN proposals, NEW source \in DOMAIN judgements,
         NEW manualReview, ConfirmCxRejection(p, source, manualReview), scene' = scene
  PROVE  Inv'
<1>1. source \in LatestAi(p) /\ Reject(p, source) /\ UNCHANGED cardVars
  BY DEF ConfirmCxRejection
<1>2. UNCHANGED <<now, cardVars>> /\ source \in Nat
  BY <1>1, Typed DEF Inv, Reject
<1>3. CardInv' /\ CardsTypeOK'
  BY <1>2, CardsAlone
<1>4. QED
  BY <1>1, <1>2, <1>3, DecisionKeeps DEF Reject, Statuses

LEMMA ApproveSpecKeeps ==
  ASSUME Inv, NEW p \in DOMAIN proposals, NEW source \in DOMAIN judgements,
         ApproveSpec(p, source), scene' = scene
  PROVE  Inv'
<1>1. UNCHANGED <<now, cardVars>> /\ source \in Nat
  BY Typed DEF Inv, ApproveSpec
<1>2. CardInv' /\ CardsTypeOK'
  BY <1>1, CardsAlone
<1>3. QED
  BY <1>1, <1>2, DecisionKeeps DEF ApproveSpec, Statuses

LEMMA AmendSpecKeeps ==
  ASSUME Inv, NEW p \in DOMAIN proposals, NEW source \in DOMAIN judgements,
         AmendSpec(p, source), scene' = scene
  PROVE  Inv'
<1>1. /\ UNCHANGED <<now, cardVars>> /\ UNCHANGED authorVars
      /\ proposals' = proposals /\ checks' = checks /\ jobs' = jobs
      /\ p \in jobs /\ proposals[p].status = "implementing"
      /\ ~Confirmed(p, source) /\ source \in ApprovedJudgement(p) /\ source \in Nat
      /\ InsertJudgement(p, "developer", "approve", source, NoRun)
  BY Typed DEF Inv, AmendSpec
<1>2. PICK j \in Nat :
        Judged(j, [proposal |-> p, decidedBy |-> "developer", verdict |-> "approve",
                   source |-> source, run |-> NoRun])
  BY <1>1, InsertJudgementEffect DEF Inv, Verdicts
<1>3. PICK judgement :
        /\ Judged(j, judgement) /\ judgement.decidedBy = "developer"
        /\ judgement.proposal = p /\ judgement.verdict = "approve"
        /\ judgement.source = source
  BY <1>2
<1>4. TypeOK'
  BY <1>1, <1>3, CardsAlone DEF Inv, TypeOK, Judged, authorVars
<1>5. LatestExists'
  BY <1>1 DEF Inv, LatestExists, Of
<1>6. JudgementsSound'
  BY <1>1, <1>3 DEF Inv, JudgementsSound, Judged
<1>7. /\ \A q : LatestAi(q)' = LatestAi(q)
      /\ \A q : q # p => DecisionsOf(q)' = DecisionsOf(q)
      /\ DecisionsOf(p)' = DecisionsOf(p) \cup {j}
  BY <1>3, DecisionAdded DEF Inv
<1>8. \A q : \A k \in DecisionsOf(q) : judgements'[k] = judgements[k] /\ k < j
  BY <1>3 DEF DecisionsOf, Judged
<1>9. \A q \in DOMAIN proposals : q # p => Stands(q)'
  BY <1>1, <1>7, <1>8, OthersStand DEF Inv
<1>10. \A q \in DOMAIN proposals : q # p => Approved(q)'
  BY <1>1, <1>3, OthersApproved DEF Inv
<1>11. judgements'[j] = judgement /\ j \notin DecisionsOf(p)
  BY <1>3 DEF Judged, DecisionsOf
<1>12. source \in DecisionsOf(p) /\ checks[p] = "pass" /\ source < j
  BY <1>1, <1>3 DEF ApprovedJudgement, DecisionsOf, Judged
<1>13. \A k \in DecisionsOf(p) : judgements[k].source # source
  BY <1>1 DEF Confirmed
<1>14. Stands(p)'
  <2>1. /\ p \in jobs /\ DecisionsOf(p) # {}
        /\ \A k, l \in DecisionsOf(p) : judgements[k].source = judgements[l].source => k = l
        /\ \A k \in DecisionsOf(p) :
             /\ judgements[k].verdict = "approve"
             /\ judgements[k].source \in LatestAi(p) \cup {l \in DecisionsOf(p) : l < k}
    BY <1>1, <1>12 DEF Inv, Stands
  <2>2. \A k, l \in DecisionsOf(p)' : judgements'[k].source = judgements'[l].source => k = l
    BY <1>3, <1>7, <1>8, <1>11, <1>13, <2>1
  <2>3. \A k \in DecisionsOf(p)' :
          /\ judgements'[k].verdict = "approve"
          /\ judgements'[k].source \in LatestAi(p)' \cup {l \in DecisionsOf(p)' : l < k}
    BY <1>3, <1>7, <1>8, <1>11, <1>12, <2>1
  <2>4. QED
    BY <1>1, <1>7, <1>12, <2>1, <2>2, <2>3 DEF Stands
<1>15. Approved(p)'
  <2>1. j \in ApprovedJudgement(p)'
    BY <1>1, <1>3, <1>11, <1>12 DEF ApprovedJudgement, Judged
  <2>2. QED
    BY <2>1 DEF Approved
<1>16. QED
  BY <1>1, <1>4, <1>5, <1>6, <1>9, <1>10, <1>14, <1>15, CardsAlone, NewsAlone DEF Inv

LEMMA FinishKeeps ==
  ASSUME Inv, NEW p \in DOMAIN proposals, NEW to \in {"released", "failed"}, Finish(p, to),
         scene' = scene
  PROVE  Inv'
<1>1. /\ UNCHANGED <<now, cardVars>> /\ UNCHANGED authorVars
      /\ checks' = checks /\ judgements' = judgements /\ jobs' = jobs /\ p \in jobs
      /\ TransitionProposal(p, "implementing", to)
  BY DEF Finish
<1>2. /\ Stamped(p) /\ DOMAIN proposals' = DOMAIN proposals
      /\ proposals[p].status = "implementing" /\ proposals'[p].status = to
  BY <1>1, TransitionEffect DEF Inv, Statuses
<1>3. TypeOK'
  BY <1>1, <1>2, CardsAlone DEF Inv, TypeOK, Stamped, authorVars
<1>4. LatestExists' /\ NewsSound'
  BY <1>1, <1>2, StampKeeps, StampIsNews DEF Inv
<1>5. JudgementsSound'
  BY <1>1, <1>2 DEF Inv, JudgementsSound
<1>6. \A q : /\ DecisionsOf(q)' = DecisionsOf(q) /\ AiOf(q)' = AiOf(q)
             /\ ApprovedJudgement(q)' = ApprovedJudgement(q)
  BY <1>1 DEF DecisionsOf, AiOf, ApprovedJudgement
<1>7. \A q : LatestAi(q)' = LatestAi(q)
  BY <1>6 DEF LatestAi
<1>8. \A q \in DOMAIN proposals : Approved(q)'
  BY <1>1, <1>6 DEF Inv, Approved
<1>9. \A q \in DOMAIN proposals : q # p => Stands(q)'
  BY <1>1, <1>2, <1>6, <1>7, OthersStand DEF Inv, Stamped
<1>10. Stands(p)'
  BY <1>1, <1>2, <1>6, <1>7 DEF Inv, Stands
<1>11. QED
  BY <1>1, <1>2, <1>3, <1>4, <1>5, <1>8, <1>9, <1>10, CardsAlone DEF Inv

LEMMA CardsKeep ==
  ASSUME Inv, CardsNext, UNCHANGED <<tableVars, authorVars>>, scene' = scene
  PROVE  Inv'
<1>1. CardInv'
  BY CardsNextKeeps DEF Inv
<1>2. TypeOK'
  BY <1>1 DEF Inv, TypeOK, CardInv, tableVars, authorVars
<1>3. NewsSound'
  BY NewsAlone DEF Inv, tableVars
<1>4. QED
  BY <1>1, <1>2, <1>3, TablesAlone DEF Inv

-----------------------------------------------------------------------------
LEMMA InvInit == Init => Inv
<1> SUFFICES ASSUME Init PROVE Inv
  OBVIOUS
<1>1. /\ proposals = <<>> /\ judgements = <<>> /\ DOMAIN proposals = {}
      /\ DOMAIN judgements = {}
  BY DEF Init
<1>2. CardInv
  BY CardInvInit DEF Init
<1>3. TypeOK
  BY <1>1, <1>2, ProposalBounds DEF Init, TypeOK, CardInv, ProposalIds
<1>4. LatestExists /\ JudgementsSound /\ NewsSound
  BY <1>1 DEF Init, LatestExists, JudgementsSound, NewsSound, UnreadTillShown, Of
<1>5. QED
  BY <1>1, <1>2, <1>3, <1>4 DEF Inv

LEMMA InvNext == Inv /\ [Next]_vars => Inv'
<1> SUFFICES ASSUME Inv, [Next]_vars PROVE Inv'
  OBVIOUS
<1>1. CASE UNCHANGED vars
  <2>1. /\ UNCHANGED tableVars /\ UNCHANGED authorVars /\ UNCHANGED <<now, cardVars>>
        /\ scene' = scene
    BY <1>1 DEF vars
  <2>2. TypeOK' /\ NewsSound'
    BY <2>1, CardsAlone, NewsAlone DEF Inv, TypeOK, tableVars, authorVars
  <2>3. QED
    BY <2>1, <2>2, CardsAlone, TablesAlone DEF Inv
<1>2. CASE Next
  <2>1. scene' = scene /\ scene.users \subseteq Users /\ scene.checks \subseteq CheckVerdicts
    BY <1>2, ProposalBounds DEF Next, Inv, TypeOK
  <2>2. ASSUME NEW user \in scene.users, Author(user) PROVE Inv'
    <3>1. user \in Users
      BY <2>1, <2>2
    <3>2. ASSUME NEW body \in {NoBody} \cup 0 .. StatusWatermark(user),
                 SeenElsewhere(user, body)
          PROVE  Inv'
      <4>1. StatusWatermark(user) \in Nat
        BY <3>1, LatestChangeEffect DEF Inv, StatusWatermark
      <4>2. body \in Nat \cup {NoBody}
        BY <4>1
      <4>3. QED
        BY <2>1, <3>1, <3>2, <4>2, SeenElsewhereKeeps
    <3>3. QED
      BY <2>1, <2>2, <3>1, <3>2, SubmitKeeps, RegisterKeeps, MineKeeps, SeenOnScreenKeeps
      DEF Author
  <2>3. ASSUME NEW p \in DOMAIN proposals, Judge(p) PROVE Inv'
    BY <2>1, <2>3, RecordVerdictKeeps, RecordAiKeeps DEF Judge
  <2>4. ASSUME NEW p \in DOMAIN proposals, Decide(p) PROVE Inv'
    BY <2>1, <2>4, ConfirmE6RejectionKeeps, ConfirmCxRejectionKeeps, ApproveSpecKeeps,
       AmendSpecKeeps, FinishKeeps DEF Decide
  <2>5. CASE CardsNext /\ UNCHANGED <<tableVars, authorVars>>
    BY <2>1, <2>5, CardsKeep
  <2>6. QED
    BY <1>2, <2>2, <2>3, <2>4, <2>5 DEF Next
<1>3. QED
  BY <1>1, <1>2

LEMMA InvAlways == Spec => []Inv
BY InvInit, InvNext, PTL DEF Spec

(* All variables always have their types (proposals, checks, judgements,   *)
(* cards and suspensions as the tables declare them).                      *)
THEOREM TypeCorrect == Spec => []TypeOK
<1>1. Inv => TypeOK
  BY DEF Inv
<1>2. QED
  BY <1>1, InvAlways, PTL

(* However late and often tools and developer send their requests, a       *)
(* decision is made once, on what was last said, and stands                *)
(* (JudgementService, transitionProposal).                                 *)
THEOREM Decisions == Spec => []DecisionStands
<1>1. Inv => DecisionStands
  BY StandsIsDecision DEF Inv
<1>2. QED
  BY <1>1, InvAlways, PTL

(* A proposal not decided is on a list that somebody works through, and an *)
(* approved one is found by the job that implements it (pendingCx,         *)
(* pendingConfirmations, implementation).                                  *)
THEOREM Forgotten == Spec => []NobodyForgotten
<1>1. QED
  BY InvImpliesForgotten, InvAlways, PTL

(* A change is unread until the author's screen showed it or another client *)
(* had it marked, and then read, however late and often their requests come *)
(* (seen, markSeen, #nextStatusTimestamp).                                  *)
THEOREM NewsUnread == Spec => []UnreadTillShown
<1>1. Inv => UnreadTillShown
  BY DEF Inv, NewsSound
<1>2. QED
  BY <1>1, InvAlways, PTL

(* Cards, suspensions and the copied date of the end of a suspension agree *)
(* (injection/repository.ts), whatever becomes of the proposals.           *)
THEOREM CardsAgree == Spec => []CardsAddUp
<1>1. Inv => CardsAddUp
  BY CardInvImplies DEF Inv
<1>2. QED
  BY <1>1, InvAlways, PTL
=============================================================================
