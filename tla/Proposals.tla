------------------------------ MODULE Proposals ------------------------------
(***************************************************************************)
(* A proposed rule from its submission to the decision about it and to the *)
(* news of it that reaches its author: proposal/submission.ts,             *)
(* proposal/repository.ts, injection/local-screening.ts and the judgement  *)
(* service of pipeline/service.ts with its tables.                         *)
(*                                                                         *)
(* The tools that screen and judge proposals, and the developer who        *)
(* decides, work on lists they read earlier and repeat requests that were  *)
(* not answered: whatever request fits the tables at some time may arrive  *)
(* at any later time, and more than once.  A request that is refused, or   *)
(* answered with what is already there, changes nothing.                   *)
(***************************************************************************)
EXTENDS YellowCards, FiniteSets

CONSTANTS
  Contents,     \* the texts of proposals (content_hash)
  Runs,         \* the runs of the judging tool
  Versions,     \* the versions of its prompt
  VersionOf,    \* the version that a run uses
  MaxProposals, \* bound
  Scenes        \* bounds, one of which a behaviour keeps to

CheckVerdicts == {"pass", "block_soft", "block_card"}

ASSUME ProposalBounds ==
  /\ VersionOf \in [Runs -> Versions]
  /\ MaxProposals \in Nat
  /\ Scenes \subseteq
       [users : SUBSET Users, proposals : 0 .. MaxProposals, judgements : Nat,
        appeals : Nat, now : Nat, checks : SUBSET CheckVerdicts, reading : BOOLEAN]

VARIABLES
  scene,       \* how many proposals, judgements, appeals there may be, how long,
               \* what checks may say, and whether authors look at their lists
  proposals,   \* the rows of proposals
  checks,      \* proposal_checks.final_verdict
  judgements,  \* the rows of judgements
  jobs,        \* the proposals with a row in pipeline_jobs
  registered,  \* the users with a google_sub
  seenAt,      \* users.proposals_seen_at
  asked,       \* what an open screen asks to have marked as seen; 0: nothing
  shown,       \* status_changed_at of a proposal when last shown to its author
  claimed      \* and when a client without this screen last had it marked as seen

tableVars == <<proposals, checks, judgements, jobs>>
authorVars == <<registered, seenAt, asked, shown, claimed>>
vars == <<scene, now, cardVars, tableVars, authorVars>>

ProposalIds == 1 .. MaxProposals
NoSource == 0  \* source_judgement_id of a decision on a check
NoRun == "none"

Statuses == {"screening", "implementing", "released", "rejected", "failed"}
Proposal == [author : Users, content : Contents, status : Statuses,
             changedAt : Nat, attempts : {0, 1}]
Verdicts == {"approve", "reject", "needs_review"}
Judgement == [proposal : ProposalIds, decidedBy : {"ai", "developer"},
              verdict : Verdicts, source : Nat, run : Runs \cup {NoRun}]

TypeOK ==
  /\ CardsTypeOK
  /\ scene \in Scenes
  /\ proposals \in Seq(Proposal) /\ Len(proposals) <= MaxProposals
  /\ checks \in [ProposalIds -> CheckVerdicts \cup {"none"}]
  /\ judgements \in Seq(Judgement)
  /\ jobs \subseteq DOMAIN proposals
  /\ registered \subseteq Users
  /\ seenAt \in [Users -> Nat]
  /\ asked \in [Users -> Nat]
  /\ shown \in [ProposalIds -> Nat]
  /\ claimed \in [ProposalIds -> Nat]

Init ==
  /\ CardsInit
  /\ scene \in Scenes
  /\ proposals = <<>>
  /\ checks = [p \in ProposalIds |-> "none"]
  /\ judgements = <<>>
  /\ jobs = {}
  /\ registered = {}
  /\ seenAt = [user \in Users |-> 0]
  /\ asked = [user \in Users |-> 0]
  /\ shown = [p \in ProposalIds |-> 0]
  /\ claimed = [p \in ProposalIds |-> 0]

-----------------------------------------------------------------------------
(* The table of proposals.                                                 *)

Of(user) == {p \in DOMAIN proposals : proposals[p].author = user}

\* The predicate of hasInflight, findInflight and the unique index.
InFlight(p) ==
  \/ proposals[p].status \in {"screening", "implementing"}
  \/ proposals[p].status = "failed" /\ proposals[p].attempts = 0

\* Fault: the time of a change is the time of day.
StatusTimestampOfDay == now

\* #nextStatusTimestamp: later than any other, be the clock as it may.
NextStatusTimestamp ==
  CHOOSE t \in {now} \cup {proposals[p].changedAt + 1 : p \in DOMAIN proposals} :
    t >= now /\ \A p \in DOMAIN proposals : t > proposals[p].changedAt

\* transitionProposal, where it does change the row.
TransitionProposal(p, from, to) ==
  /\ proposals[p].status = from
  /\ proposals' = [proposals EXCEPT
       ![p].status = to,
       ![p].changedAt = NextStatusTimestamp,
       ![p].attempts = IF to = "failed" THEN 1 ELSE @]

\* submit, where it does create a proposal: with the signals of its text.
Submit(user, content) ==
  /\ Len(proposals) < scene.proposals
  /\ ~Suspended(user)
  /\ \A p \in Of(user) : InFlight(p) =>
       user \in registered /\ proposals[p].content # content
  /\ proposals' = Append(proposals,
       [author |-> user, content |-> content, status |-> "screening",
        changedAt |-> NextStatusTimestamp, attempts |-> 0])
  /\ UNCHANGED <<now, cardVars, checks, judgements, jobs, authorVars>>

\* The account is linked with one of Google.
Register(user) ==
  /\ user \notin registered
  /\ registered' = registered \cup {user}
  /\ UNCHANGED <<now, cardVars, tableVars, seenAt, asked, shown, claimed>>

-----------------------------------------------------------------------------
(* Screening and judgement.                                                *)

Screening(p) == p \in DOMAIN proposals /\ proposals[p].status = "screening"
Blocks(verdict) == verdict \in {"block_soft", "block_card"}

AiOf(p) == {j \in DOMAIN judgements :
              judgements[j].proposal = p /\ judgements[j].decidedBy = "ai"}
LatestAi(p) == {j \in AiOf(p) : \A k \in AiOf(p) : k <= j}

DecisionsOf(p) == {j \in DOMAIN judgements :
  judgements[j].proposal = p /\ judgements[j].decidedBy = "developer"}
\* developerConfirmation, of judgement `source` or of the check.
Confirmed(p, source) == \E j \in DecisionsOf(p) : judgements[j].source = source

\* LocalScreeningService.record: a proposal is checked once.
RecordVerdict(p, verdict) ==
  /\ Screening(p)
  /\ checks[p] = "none"
  /\ checks' = [checks EXCEPT ![p] = verdict]
  /\ UNCHANGED <<now, cardVars, proposals, judgements, jobs, authorVars>>

InsertJudgement(p, decidedBy, verdict, source, run) ==
  /\ Len(judgements) < scene.judgements
  /\ judgements' = Append(judgements,
       [proposal |-> p, decidedBy |-> decidedBy, verdict |-> verdict,
        source |-> source, run |-> run])

\* Fault: the proposal was still undecided when the run began.
RecordAiLate(p, run, verdict) ==
  /\ checks[p] = "pass"
  /\ \A j \in AiOf(p) : judgements[j].run # run
  /\ \A j \in LatestAi(p) : VersionOf[judgements[j].run] # VersionOf[run]
  /\ InsertJudgement(p, "ai", verdict, NoSource, run)
  /\ UNCHANGED <<now, cardVars, proposals, checks, jobs, authorVars>>

\* recordAi: a run judges a proposal once, and not after one of its version.
RecordAi(p, run, verdict) ==
  /\ Screening(p)
  /\ checks[p] = "pass"
  /\ \A j \in AiOf(p) : judgements[j].run # run
  /\ \A j \in LatestAi(p) : VersionOf[judgements[j].run] # VersionOf[run]
  /\ InsertJudgement(p, "ai", verdict, NoSource, run)
  /\ UNCHANGED <<now, cardVars, proposals, checks, jobs, authorVars>>

Reject(p, source) ==
  /\ TransitionProposal(p, "screening", "rejected")
  /\ InsertJudgement(p, "developer", "reject", source, NoRun)
  /\ UNCHANGED <<now, checks, jobs, authorVars>>

\* confirmE6Rejection: what the check blocks is rejected, perhaps with a card.
ConfirmE6Rejection(p) ==
  /\ Screening(p)
  /\ ~Confirmed(p, NoSource)
  /\ Blocks(checks[p])
  /\ \/ checks[p] = "block_card" /\ ConfirmCard(proposals[p].author, p)
     \/ checks[p] # "block_card" /\ UNCHANGED cardVars
  /\ Reject(p, NoSource)

\* Fault: the judgement need not be the latest.
ConfirmAnyCxRejection(p, source, manualReview) ==
  /\ Screening(p)
  /\ ~Confirmed(p, source)
  /\ source \in AiOf(p)
  /\ judgements[source].verdict = "reject" \/ manualReview
  /\ Reject(p, source)
  /\ UNCHANGED cardVars

\* confirmCxRejection, on judgement `source`; with a review of his own the
\* developer rejects whatever it says.
ConfirmCxRejection(p, source, manualReview) ==
  /\ Screening(p)
  /\ ~Confirmed(p, source)
  /\ source \in LatestAi(p)
  /\ judgements[source].verdict = "reject" \/ manualReview
  /\ Reject(p, source)
  /\ UNCHANGED cardVars

\* approveSpec: the judgement, the job and the new status at once.
ApproveSpec(p, source) ==
  /\ Screening(p)
  /\ source \in LatestAi(p)
  /\ judgements[source].verdict \in {"approve", "needs_review"}
  /\ InsertJudgement(p, "developer", "approve", source, NoRun)
  /\ jobs' = jobs \cup {p}
  /\ TransitionProposal(p, "screening", "implementing")
  /\ UNCHANGED <<now, cardVars, checks, authorVars>>

\* The approval that the job goes by (implementation).
ApprovedJudgement(p) == {j \in DOMAIN judgements :
  /\ judgements[j].proposal = p /\ checks[p] = "pass"
  /\ \A k \in DOMAIN judgements : judgements[k].proposal = p => k <= j
  /\ judgements[j].decidedBy = "developer" /\ judgements[j].verdict = "approve"}

\* amendSpec, while the job is not merged.
AmendSpec(p, source) ==
  /\ p \in jobs
  /\ proposals[p].status = "implementing"
  /\ ~Confirmed(p, source)
  /\ source \in ApprovedJudgement(p)
  /\ InsertJudgement(p, "developer", "approve", source, NoRun)
  /\ UNCHANGED <<now, cardVars, proposals, checks, jobs, authorVars>>

\* The rule is enabled, or its implementation is given up.
Finish(p, to) ==
  /\ p \in jobs
  /\ TransitionProposal(p, "implementing", to)
  /\ UNCHANGED <<now, cardVars, checks, judgements, jobs, authorVars>>

-----------------------------------------------------------------------------
(* The author's screen (web, MyProposalsScreen).                           *)

Latest(times) == CHOOSE t \in {0} \cup times : \A u \in times : u <= t

\* statusWatermark
StatusWatermark(user) == Latest({proposals[p].changedAt : p \in Of(user)})

\* mine: the screen shows the list and will have marked what it shows.
Mine(user) ==
  /\ shown' = [p \in ProposalIds |->
       IF p \in Of(user) THEN proposals[p].changedAt ELSE shown[p]]
  /\ asked' = [asked EXCEPT ![user] = StatusWatermark(user)]
  /\ UNCHANGED <<now, cardVars, tableVars, registered, seenAt, claimed>>

NoBody == -1  \* a request without a body

\* What a request asks to have marked: without a body, all there is by now.
SeenThrough(user, body) == IF body = NoBody THEN StatusWatermark(user) ELSE body

\* seen and markSeen; what lies beyond the latest change is refused.
Seen(user, body) ==
  /\ SeenThrough(user, body) <= StatusWatermark(user)
  /\ seenAt' = [seenAt EXCEPT ![user] = Latest({@, SeenThrough(user, body)})]
  /\ UNCHANGED <<now, cardVars, tableVars, registered, asked, shown>>

\* The request of the screen, which may arrive late and again.
SeenOnScreen(user) == Seen(user, asked[user]) /\ UNCHANGED claimed

\* The request of any other client, without a body (the contract before the screen
\* sent one, which is kept) or with a seenThrough of its own: its word is taken
\* that the author knows of all it covers when it arrives.
SeenElsewhere(user, body) ==
  /\ Seen(user, body)
  /\ claimed' = [p \in ProposalIds |->
       IF p \in Of(user) /\ proposals[p].changedAt <= SeenThrough(user, body)
       THEN proposals[p].changedAt ELSE claimed[p]]

Unread(p) == proposals[p].changedAt > seenAt[proposals[p].author]

-----------------------------------------------------------------------------
(* The lists the tools and the developer work from, without their limits.  *)

PendingScreening == {p \in DOMAIN proposals : Screening(p) /\ checks[p] = "none"}

PendingCx(version) == {p \in DOMAIN proposals :
  /\ Screening(p)
  /\ checks[p] = "pass"
  /\ \A j \in LatestAi(p) : VersionOf[judgements[j].run] # version /\ ~Confirmed(p, j)}

PendingConfirmations == {p \in DOMAIN proposals :
  /\ Screening(p)
  /\ \/ Blocks(checks[p]) /\ ~Confirmed(p, NoSource)
     \/ checks[p] = "pass" /\ \E j \in LatestAi(p) : ~Confirmed(p, j)}

-----------------------------------------------------------------------------
Decide(p) ==
  \/ ConfirmE6Rejection(p)
  \/ \E source \in DOMAIN judgements :
       \/ \E manualReview \in BOOLEAN : ConfirmCxRejection(p, source, manualReview)
       \/ ApproveSpec(p, source)
       \/ AmendSpec(p, source)
  \/ \E to \in {"released", "failed"} : Finish(p, to)

Judge(p) ==
  \/ \E verdict \in scene.checks : RecordVerdict(p, verdict)
  \/ \E run \in Runs, verdict \in Verdicts : RecordAi(p, run, verdict)

Author(user) ==
  \/ \E content \in Contents : Submit(user, content)
  \/ Register(user)
  \/ scene.reading /\ (Mine(user) \/ SeenOnScreen(user))
  \/ \E body \in {NoBody} \cup 0 .. StatusWatermark(user) :
       scene.reading /\ SeenElsewhere(user, body)

\* The bounds on time and on appeals.
InScene ==
  /\ now <= scene.now
  /\ Cardinality({c \in DOMAIN cards : cards[c].appeal # "none"}) <= scene.appeals

Next ==
  /\ UNCHANGED scene
  /\ \/ \E user \in scene.users : Author(user)
     \/ \E p \in DOMAIN proposals : Judge(p) \/ Decide(p)
     \/ CardsNext /\ InScene' /\ UNCHANGED <<tableVars, authorVars>>

Spec == Init /\ [][Next]_vars

-----------------------------------------------------------------------------
(* The decision about a proposal is the developer's, is made once and      *)
(* stands: whatever tools and requests did in between, it is rejected on   *)
(* what blocks it or on the latest word of the AI, or goes to work with a  *)
(* job on the latest word of the AI and then, amendment by amendment, on   *)
(* his own.                                                                *)
DecisionStands ==
  \A p \in DOMAIN proposals :
    LET status == proposals[p].status
    IN  /\ DecisionsOf(p) = {} <=> status = "screening"
        /\ p \in jobs <=> status \in {"implementing", "released", "failed"}
        /\ \A j, k \in DecisionsOf(p) : judgements[j].source = judgements[k].source => j = k
        /\ \A j \in DecisionsOf(p) :
             LET source == judgements[j].source
             IN  IF status = "rejected"
                 THEN /\ judgements[j].verdict = "reject"
                      /\ \/ source = NoSource /\ Blocks(checks[p])
                         \/ source \in LatestAi(p) /\ checks[p] = "pass"
                 ELSE /\ judgements[j].verdict = "approve"
                      /\ checks[p] = "pass"
                      /\ source \in LatestAi(p) \cup {k \in DecisionsOf(p) : k < j}

(* No proposal waits in vain: one that is not decided is on the list of    *)
(* those who are to take it on, and the job of one that is to be           *)
(* implemented finds the approval it is handed out with.                   *)
NobodyForgotten ==
  \A p \in DOMAIN proposals :
    /\ Screening(p) =>
         \/ p \in PendingScreening \cup PendingConfirmations
         \/ \A version \in Versions : p \in PendingCx(version)
    /\ p \in jobs => ApprovedJudgement(p) # {}

(* A change of status is unread until the author's screen showed it, or a   *)
(* client that does not say what it showed had it marked, however late and *)
(* often requests come; and what a client had marked stays read.           *)
UnreadTillShown ==
  \A p \in DOMAIN proposals :
    /\ ~Unread(p) => proposals[p].changedAt \in {shown[p], claimed[p]}
    /\ proposals[p].changedAt = claimed[p] => ~Unread(p)
=============================================================================
