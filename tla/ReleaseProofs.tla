---------------------------- MODULE ReleaseProofs ----------------------------
(***************************************************************************)
(* Safety of Release.tla, and through it of Pipeline.tla, proved for every *)
(* value of their constants, and that Release implements RuleDelivery.     *)
(***************************************************************************)
EXTENDS Release, SequenceTheorems, TLAPS

-----------------------------------------------------------------------------
(* The inductive invariant.  Types alone are not inductive: a commit on    *)
(* top of NoCommit would be none, and so would one beyond MaxWorks; main,  *)
(* the job and a command name pull requests, which must exist.             *)

HistorySound ==
  /\ \A i \in DOMAIN main :
       main[i] # 0 => main[i] \in DOMAIN prs /\ prs[main[i]].state = "MERGED"
  /\ \A n \in images : n <= Len(main)

WorkspaceSound ==
  workspace.edited => workspace.head # NoCommit /\ workspace.head.work < MaxWorks

JobSound ==
  /\ job.phase = "queued" => job.branch = 0
  /\ job.branch = 0 => job.headSha = NoCommit
  /\ job.headSha # NoCommit => ScaffoldOf(job.headSha) = job.scaffoldSha
  /\ job.prNumber # 0 => job.prNumber \in DOMAIN prs
  /\ job.mergeSha # 0 => job.phase \in {"merged", "done", "failed"}
  /\ job.phase \in {"merged", "done"} => job.mergeSha # 0

\* What a command has read still is what the job says, but for the phase, and
\* what it has checked or found still holds.
CommandSound ==
  /\ cli.at # "idle" => job = [cli.job EXCEPT !.phase = job.phase]
  /\ cli.at \in {"push", "open", "record"} =>
       /\ cli.job.branch # 0 /\ workspace.head # NoCommit
       /\ ScaffoldOf(workspace.head) = cli.job.scaffoldSha
  /\ cli.at = "record" => cli.pr \in DOMAIN prs
  /\ cli.at = "merged" => cli.job.prNumber # 0
  /\ cli.at \in {"close", "delete", "retry"} => cli.job.branch # 0

TypeInv == TypeOK /\ HistorySound /\ WorkspaceSound /\ JobSound /\ CommandSound

\* As long as only pull requests on record are merged: what is on main is the
\* job's, and no retry is under way.
MainIsOfJob ==
  \A i \in DOMAIN main : main[i] # 0 =>
    /\ main[i] = job.prNumber
    /\ job.phase \in {"pr_open", "merged", "done", "failed"}
    /\ NoRetryRunning

-----------------------------------------------------------------------------
(* What the helpers do to the job and to the pull requests.                *)

Patch ==
  [branch : 0 .. MaxAttempts, prNumber : 0 .. MaxPrs,
   headSha : Commit \cup {NoCommit}, mergeSha : 0 .. MaxPrs,
   scaffoldSha : Commit \cup {NoCommit}]

LEMMA ConstantsTyped ==
  /\ NoCommit \notin Commit
  /\ NewJob \in Job
  /\ NoPatch \in Patch
  /\ NoWorkspace \in Workspace
  /\ Idle \in Command
BY FailureLimitAssumption, PipelineBounds
   DEF NoCommit, Commit, NewJob, Job, Phases, NoPatch, Patch, NoWorkspace,
       Workspace, Idle, Command

LEMMA TransitionEffect ==
  ASSUME job \in Job, NEW from, NEW to \in Phases, NEW patch \in Patch,
         TransitionJob(from, to, patch)
  PROVE  /\ job' \in Job
         /\ job'.phase = to
         /\ job'.attempt = job.attempt
         /\ job'.implementationAttempt = job.implementationAttempt
         /\ job'.branch = Coalesce(patch.branch, 0, job.branch)
         /\ job'.prNumber = Coalesce(patch.prNumber, 0, job.prNumber)
         /\ job'.headSha = Coalesce(patch.headSha, NoCommit, job.headSha)
         /\ job'.mergeSha = Coalesce(patch.mergeSha, 0, job.mergeSha)
         /\ job'.scaffoldSha = Coalesce(patch.scaffoldSha, NoCommit, job.scaffoldSha)
<1> DEFINE branch == Coalesce(patch.branch, 0, job.branch)
           prNumber == Coalesce(patch.prNumber, 0, job.prNumber)
           headSha == Coalesce(patch.headSha, NoCommit, job.headSha)
           mergeSha == Coalesce(patch.mergeSha, 0, job.mergeSha)
           scaffoldSha == Coalesce(patch.scaffoldSha, NoCommit, job.scaffoldSha)
<1>1. job' = [job EXCEPT !.phase = to, !.branch = branch, !.prNumber = prNumber,
                         !.headSha = headSha, !.mergeSha = mergeSha,
                         !.scaffoldSha = scaffoldSha]
  BY DEF TransitionJob
<1>2. /\ branch \in 0 .. MaxAttempts
      /\ prNumber \in 0 .. MaxPrs
      /\ headSha \in Commit \cup {NoCommit}
      /\ mergeSha \in 0 .. MaxPrs
      /\ scaffoldSha \in Commit \cup {NoCommit}
  <2>1. \A C, none, old, new : old \in C /\ new \in C => Coalesce(new, none, old) \in C
    BY DEF Coalesce
  <2>2. QED
    BY <2>1, Zenon DEF Job, Patch
<1> HIDE DEF branch, prNumber, headSha, mergeSha, scaffoldSha
<1>3. job' \in Job
  BY <1>1, <1>2 DEF Job
<1>4. /\ job'.phase = to
      /\ job'.attempt = job.attempt
      /\ job'.implementationAttempt = job.implementationAttempt
      /\ job'.branch = branch
      /\ job'.prNumber = prNumber
      /\ job'.headSha = headSha
      /\ job'.mergeSha = mergeSha
      /\ job'.scaffoldSha = scaffoldSha
  BY <1>1 DEF Job
<1>5. QED
  BY <1>3, <1>4 DEF branch, prNumber, headSha, mergeSha, scaffoldSha

LEMMA PlainTransition ==
  ASSUME job \in Job, NEW from, NEW to \in Phases, TransitionJob(from, to, NoPatch)
  PROVE  job' = [job EXCEPT !.phase = to] /\ job' \in Job
<1>1. /\ NoPatch.branch = 0 /\ NoPatch.prNumber = 0 /\ NoPatch.headSha = NoCommit
      /\ NoPatch.mergeSha = 0 /\ NoPatch.scaffoldSha = NoCommit
  BY DEF NoPatch
<1>2. job' = [job EXCEPT
         !.phase = to, !.branch = job.branch, !.prNumber = job.prNumber,
         !.headSha = job.headSha, !.mergeSha = job.mergeSha,
         !.scaffoldSha = job.scaffoldSha]
  BY <1>1 DEF TransitionJob, Coalesce
<1>3. QED
  BY <1>2 DEF Job

\* Pull requests are added and change while they are open; main only grows.
MergedKept ==
  \A n \in DOMAIN prs :
    /\ n \in DOMAIN prs'
    /\ prs[n].state = "MERGED" => prs'[n].state = "MERGED" /\ prs'[n].head = prs[n].head

MainKept == Len(main) <= Len(main') /\ \A i \in DOMAIN main : main'[i] = main[i]

LEMMA PushedEffect ==
  ASSUME prs \in Seq(PullRequest), Len(prs) <= MaxPrs,
         remote \in [1 .. MaxAttempts -> Commit \cup {NoCommit}],
         NEW branch \in 1 .. MaxAttempts, NEW head \in Commit, Pushed(branch, head)
  PROVE  /\ prs' \in Seq(PullRequest) /\ Len(prs') = Len(prs)
         /\ remote' \in [1 .. MaxAttempts -> Commit \cup {NoCommit}]
         /\ MergedKept
<1>1. \A n \in DOMAIN prs : prs[n] \in PullRequest
  OBVIOUS
<1>2. prs' = [n \in 1 .. Len(prs) |->
         IF n \in OpenPrOf(branch) THEN [prs[n] EXCEPT !.head = head] ELSE prs[n]]
  BY DEF Pushed
<1>3. \A n \in 1 .. Len(prs) :
        (IF n \in OpenPrOf(branch) THEN [prs[n] EXCEPT !.head = head] ELSE prs[n])
          \in PullRequest
  BY <1>1 DEF PullRequest
<1>4. prs' \in Seq(PullRequest) /\ Len(prs') = Len(prs)
  BY <1>2, <1>3, IsASeq
<1>5. MergedKept
  BY <1>1, <1>2, <1>4 DEF MergedKept, OpenPrOf, PullRequest
<1>6. remote' \in [1 .. MaxAttempts -> Commit \cup {NoCommit}]
  BY DEF Pushed
<1>7. QED
  BY <1>4, <1>5, <1>6

-----------------------------------------------------------------------------
(* A step of the pipeline.                                                 *)

LEMMA Writers ==
  ASSUME PipelineNext
  PROVE  /\ UNCHANGED proposal \/ Fail
         /\ UNCHANGED approved \/ AmendSpec
         /\ \/ UNCHANGED job
            \/ Fail \/ Claim \/ RecordOpened \/ RecordMerged \/ RecordRetry
         /\ UNCHANGED remote \/ Publish \/ PushWork \/ DeleteOldBranch
         /\ \/ UNCHANGED prs
            \/ MergePr \/ ClosePr \/ Publish \/ PushWork \/ OpenPr
            \/ CloseOldPr \/ DeleteOldBranch
         /\ UNCHANGED main \/ MergePr \/ RevertOnMain
         /\ UNCHANGED scaffolds \/ Publish
         /\ UNCHANGED workspace \/ Publish \/ Edit \/ PushWork \/ RecordOpened
BY DEF PipelineNext, AmendSpec, Fail, MergePr, ClosePr, RevertOnMain, BeginPrepare, Begin,
       Publish, Claim, Edit, BeginSubmit, PushWork, OpenPr, RecordOpened, BeginMerged,
       RecordMerged, BeginRetry, CloseOldPr, DeleteOldBranch, RecordRetry, Abandon

\* What a command has in hand.
LEMMA BranchInHand ==
  ASSUME TypeInv, cli.at \in {"push", "open", "record"}
  PROVE  cli.job.branch \in 1 .. MaxAttempts /\ workspace.head \in Commit
<1>1. cli.job.branch \in 0 .. MaxAttempts /\ cli.job.branch # 0 /\ workspace.head # NoCommit
  BY DEF TypeInv, TypeOK, PipelineTypeOK, CommandSound, Command, Job
<1>2. workspace.head \in Commit
  BY <1>1 DEF TypeInv, TypeOK, PipelineTypeOK, Workspace
<1>3. QED
  BY <1>1, <1>2

\* The job is as the command has read it.
LEMMA JobAsRead ==
  ASSUME TypeInv, cli.at # "idle"
  PROVE  /\ job.attempt = cli.job.attempt
         /\ job.branch = cli.job.branch
         /\ job.prNumber = cli.job.prNumber
         /\ job.headSha = cli.job.headSha
         /\ job.scaffoldSha = cli.job.scaffoldSha
<1>1. job = [cli.job EXCEPT !.phase = job.phase]
  BY DEF TypeInv, CommandSound
<1>2. cli.job \in Job
  BY DEF TypeInv, TypeOK, PipelineTypeOK, Command
<1>3. QED
  BY <1>1, <1>2 DEF Job

LEMMA ReadJobPr ==
  ASSUME TypeInv, cli.at # "idle", cli.job.prNumber # 0
  PROVE  cli.job.prNumber = job.prNumber /\ job.prNumber \in DOMAIN prs
BY JobAsRead DEF TypeInv, JobSound

LEMMA PushWorkHead ==
  ASSUME TypeInv, cli.at = "push"
  PROVE  [workspace.head EXCEPT !.work = @ + (IF workspace.edited THEN 1 ELSE 0)] \in Commit
<1>1. workspace.edited \in BOOLEAN /\ (workspace.edited => workspace.head.work < MaxWorks)
  BY DEF TypeInv, TypeOK, PipelineTypeOK, Workspace, WorkspaceSound
<1>2. QED
  BY <1>1, BranchInHand, PipelineBounds DEF Commit

LEMMA ScaffoldCommit ==
  ASSUME TypeInv, scaffolds < MaxScaffolds
  PROVE  /\ [scaffold |-> scaffolds + 1, spec |-> cli.spec, work |-> 0] \in Commit
         /\ scaffolds + 1 \in 0 .. MaxScaffolds
BY PipelineBounds DEF TypeInv, TypeOK, PipelineTypeOK, Command, Commit

LEMMA StateSetEffect ==
  ASSUME prs \in Seq(PullRequest), Len(prs) <= MaxPrs,
         NEW n \in DOMAIN prs, prs[n].state = "OPEN", NEW state \in {"MERGED", "CLOSED"},
         prs' = [prs EXCEPT ![n].state = state]
  PROVE  /\ prs' \in Seq(PullRequest) /\ Len(prs') = Len(prs)
         /\ MergedKept
<1>1. prs[n] \in PullRequest
  OBVIOUS
<1>2. [prs[n] EXCEPT !.state = state] \in PullRequest
  BY <1>1 DEF PullRequest
<1>3. prs' \in Seq(PullRequest) /\ Len(prs') = Len(prs)
  BY <1>2
<1>4. QED
  BY <1>3 DEF MergedKept

LEMMA GitHubStep ==
  ASSUME TypeInv, PipelineNext
  PROVE  /\ prs' \in Seq(PullRequest) /\ Len(prs') <= MaxPrs
         /\ remote' \in [1 .. MaxAttempts -> Commit \cup {NoCommit}]
         /\ MergedKept
<1> DEFINE Goal == /\ prs' \in Seq(PullRequest) /\ Len(prs') <= MaxPrs
                   /\ remote' \in [1 .. MaxAttempts -> Commit \cup {NoCommit}]
                   /\ MergedKept
<1>1. /\ prs \in Seq(PullRequest) /\ Len(prs) <= MaxPrs
      /\ remote \in [1 .. MaxAttempts -> Commit \cup {NoCommit}]
      /\ cli \in Command
  BY DEF TypeInv, TypeOK, PipelineTypeOK
<1>2. \A n \in DOMAIN prs : prs[n] \in PullRequest
  BY <1>1
<1>3. CASE UNCHANGED <<prs, remote>>
  BY <1>1, <1>3 DEF MergedKept
<1>4. CASE MergePr
  <2>1. PICK n \in DOMAIN prs : prs[n].state = "OPEN"
                                 /\ prs' = [prs EXCEPT ![n].state = "MERGED"]
    BY <1>4 DEF MergePr
  <2>2. QED
    BY <1>1, <1>4, <2>1, StateSetEffect DEF MergePr
<1>5. CASE ClosePr
  <2>1. PICK n \in DOMAIN prs : prs[n].state = "OPEN"
                                 /\ prs' = [prs EXCEPT ![n].state = "CLOSED"]
    BY <1>5 DEF ClosePr
  <2>2. QED
    BY <1>1, <1>5, <2>1, StateSetEffect DEF ClosePr
<1>6. CASE Publish
  <2>1. CASE AdoptBranch(cli.job.attempt)
    BY <1>3, <2>1 DEF AdoptBranch
  <2>2. CASE PushScaffold(cli.job.attempt)
    BY <1>1, <2>2, ScaffoldCommit, PushedEffect DEF PushScaffold, Command, Job
  <2>3. QED
    BY <1>6, <2>1, <2>2 DEF Publish
<1>7. CASE PushWork
  BY <1>1, <1>7, BranchInHand, PushWorkHead, PushedEffect DEF PushWork
<1>8. CASE OpenPr
  <2>1. cli.job.branch \in 1 .. MaxAttempts /\ workspace.head \in Commit
    BY <1>8, BranchInHand DEF OpenPr
  <2>2. CASE UNCHANGED prs
    BY <1>3, <1>8, <2>2 DEF OpenPr
  <2>3. ASSUME NEW new \in PullRequest, prs' = Append(prs, new), Len(prs) < MaxPrs
        PROVE  Goal
    <3>1. prs' \in Seq(PullRequest) /\ Len(prs') <= MaxPrs
      BY <1>1, <2>3, PipelineBounds
    <3>2. \A n \in DOMAIN prs : n \in DOMAIN prs' /\ prs'[n] = prs[n]
      BY <1>1, <2>3
    <3>3. MergedKept
      BY <3>2 DEF MergedKept
    <3>4. UNCHANGED remote
      BY <1>8 DEF OpenPr
    <3>5. QED
      BY <1>1, <3>1, <3>3, <3>4
  <2>4. [branch |-> cli.job.branch, head |-> workspace.head, state |-> "OPEN"] \in PullRequest
    BY <2>1 DEF PullRequest
  <2>5. QED
    BY <1>8, <2>2, <2>3, <2>4 DEF OpenPr
<1>9. CASE CloseOldPr
  <2>1. UNCHANGED remote
    BY <1>9 DEF CloseOldPr
  <2>2. CASE UNCHANGED prs
    BY <1>3, <2>1, <2>2
  <2>3. CASE ~UNCHANGED prs
    <3>1. /\ cli.job.prNumber # 0 /\ prs[cli.job.prNumber].state = "OPEN"
          /\ prs' = [prs EXCEPT ![cli.job.prNumber].state = "CLOSED"]
      BY <1>9, <2>3 DEF CloseOldPr
    <3>2. cli.job.prNumber \in DOMAIN prs
      BY <1>9, <3>1, ReadJobPr DEF CloseOldPr
    <3>3. QED
      BY <1>1, <2>1, <3>1, <3>2, StateSetEffect
  <2>4. QED
    BY <2>2, <2>3
<1>10. CASE DeleteOldBranch
  <2>1. prs' = [n \in 1 .. Len(prs) |->
           IF n \in OpenPrOf(cli.job.branch) THEN [prs[n] EXCEPT !.state = "CLOSED"]
           ELSE prs[n]]
    BY <1>1, <1>10 DEF DeleteOldBranch
  <2>2. \A n \in 1 .. Len(prs) :
          (IF n \in OpenPrOf(cli.job.branch) THEN [prs[n] EXCEPT !.state = "CLOSED"]
           ELSE prs[n]) \in PullRequest
    BY <1>1, <1>2 DEF PullRequest
  <2>3. prs' \in Seq(PullRequest) /\ Len(prs') = Len(prs)
    BY <1>1, <2>1, <2>2, IsASeq
  <2>4. MergedKept
    BY <1>1, <1>2, <2>1, <2>3 DEF MergedKept, OpenPrOf, PullRequest
  <2>5. remote' \in [1 .. MaxAttempts -> Commit \cup {NoCommit}]
    BY <1>1, <1>10 DEF DeleteOldBranch
  <2>6. QED
    BY <1>1, <2>3, <2>4, <2>5
<1>11. QED
  BY <1>3, <1>4, <1>5, <1>6, <1>7, <1>8, <1>9, <1>10, Writers

LEMMA MainStep ==
  ASSUME TypeInv, PipelineNext
  PROVE  /\ main' \in Seq(0 .. MaxPrs) /\ Len(main') <= MaxMain
         /\ MainKept
         /\ \A i \in DOMAIN main' :
              main'[i] # 0 => main'[i] \in DOMAIN prs' /\ prs'[main'[i]].state = "MERGED"
<1>1. /\ main \in Seq(0 .. MaxPrs) /\ Len(main) <= MaxMain
      /\ prs \in Seq(PullRequest) /\ Len(prs) <= MaxPrs
      /\ \A i \in DOMAIN main :
           main[i] # 0 => main[i] \in DOMAIN prs /\ prs[main[i]].state = "MERGED"
  BY DEF TypeInv, TypeOK, PipelineTypeOK, HistorySound
<1>2. MergedKept
  BY GitHubStep
<1>3. CASE UNCHANGED main
  BY <1>1, <1>2, <1>3 DEF MainKept, MergedKept
<1>4. CASE MergePr
  <2>1. PICK n \in DOMAIN prs :
          /\ Len(main) < MaxMain
          /\ prs' = [prs EXCEPT ![n].state = "MERGED"]
          /\ main' = Append(main, n)
    BY <1>4 DEF MergePr
  <2>2. n \in 1 .. MaxPrs /\ n \in DOMAIN prs' /\ prs'[n].state = "MERGED"
    <3>1. prs[n] \in PullRequest
      BY <1>1
    <3>2. QED
      BY <1>1, <2>1, <3>1, PipelineBounds DEF PullRequest
  <2>3. main' \in Seq(0 .. MaxPrs) /\ Len(main') <= MaxMain /\ MainKept
    BY <1>1, <2>1, <2>2, PipelineBounds DEF MainKept
  <2>4. \A i \in DOMAIN main' :
          (i \in DOMAIN main /\ main'[i] = main[i]) \/ main'[i] = n
    BY <1>1, <2>1
  <2>5. QED
    BY <1>1, <1>2, <2>2, <2>3, <2>4 DEF MergedKept
<1>5. CASE RevertOnMain
  <2>1. main' \in Seq(0 .. MaxPrs) /\ Len(main') <= MaxMain /\ MainKept
    BY <1>1, <1>5, PipelineBounds DEF RevertOnMain, MainKept
  <2>2. \A i \in DOMAIN main' :
          (i \in DOMAIN main /\ main'[i] = main[i]) \/ main'[i] = 0
    BY <1>1, <1>5 DEF RevertOnMain
  <2>3. QED
    BY <1>1, <1>2, <2>1, <2>2 DEF MergedKept
<1>6. QED
  BY <1>3, <1>4, <1>5, Writers

\* The job, its commands and what is known of them.
LEMMA JobTyped == TypeInv => job \in Job /\ cli \in Command /\ JobSound
BY DEF TypeInv, TypeOK, PipelineTypeOK

\* What a command reports, as the job takes it.
LEMMA ClaimEffect ==
  ASSUME TypeInv, Claim, ~UNCHANGED job
  PROVE  /\ job.branch = 0 /\ job.phase \in {"queued", "implementing"}
         /\ job' \in Job /\ job'.phase = "implementing" /\ job'.branch # 0
         /\ job'.prNumber = job.prNumber /\ job'.headSha = job.headSha
         /\ job'.mergeSha = job.mergeSha
<1> DEFINE patch == [NoPatch EXCEPT !.branch = cli.job.attempt, !.scaffoldSha = cli.scaffold]
<1>1. /\ patch \in Patch /\ patch.branch = cli.job.attempt /\ patch.branch # 0
      /\ patch.prNumber = 0 /\ patch.headSha = NoCommit /\ patch.mergeSha = 0
      /\ patch.scaffoldSha = cli.scaffold
  <2>1. cli.job.attempt \in 1 .. MaxAttempts /\ cli.scaffold \in Commit \cup {NoCommit}
    BY JobTyped DEF Command, Job
  <2>2. patch \in Patch
    <3>1. cli.job.attempt \in 0 .. MaxAttempts
      BY <2>1, PipelineBounds
    <3>2. QED
      BY <2>1, <3>1, ConstantsTyped DEF Patch
  <2>3. /\ patch.branch = cli.job.attempt /\ patch.scaffoldSha = cli.scaffold
        /\ patch.prNumber = 0 /\ patch.headSha = NoCommit /\ patch.mergeSha = 0
    BY DEF NoPatch
  <2>4. cli.job.attempt # 0
    BY <2>1, PipelineBounds
  <2>5. QED
    BY <2>2, <2>3, <2>4, Zenon
<1> HIDE DEF patch
<1>2. /\ \/ Update("queued", "implementing", patch)
         \/ Update("implementing", "implementing", patch)
      /\ cli.at = "claim"
  BY DEF Claim, patch
<1>3. /\ job.branch = 0
      /\ \/ TransitionJob("queued", "implementing", patch)
         \/ TransitionJob("implementing", "implementing", patch)
      /\ job.phase \in {"queued", "implementing"}
  BY JobTyped, <1>2 DEF Update, FieldsPresent, JobSound, TransitionJob
<1>4. /\ job' \in Job /\ job'.phase = "implementing"
      /\ job'.branch = patch.branch /\ job'.prNumber = job.prNumber
      /\ job'.headSha = job.headSha /\ job'.mergeSha = job.mergeSha
  <2>1. "implementing" \in Phases
    BY DEF Phases
  <2>2. QED
    BY JobTyped, <1>1, <1>3, <2>1, TransitionEffect DEF Coalesce
<1>5. QED
  BY <1>1, <1>3, <1>4

LEMMA RecordOpenedEffect ==
  ASSUME TypeInv, RecordOpened
  PROVE  /\ job.phase \in {"implementing", "pr_open"} /\ job' \in Job
         /\ job'.phase = "pr_open" /\ job'.branch = job.branch /\ job'.branch # 0
         /\ job'.prNumber = cli.pr /\ cli.pr \in DOMAIN prs
         /\ job'.headSha = workspace.head /\ workspace.head \in Commit
         /\ job'.mergeSha = job.mergeSha /\ job'.scaffoldSha = job.scaffoldSha
         /\ ScaffoldOf(workspace.head) = job.scaffoldSha
         /\ job.phase = "pr_open" => job'.prNumber = job.prNumber
<1> DEFINE patch == [NoPatch EXCEPT !.prNumber = cli.pr, !.headSha = workspace.head]
<1>1. /\ patch \in Patch /\ patch.branch = 0 /\ patch.prNumber = cli.pr
      /\ patch.headSha = workspace.head /\ patch.headSha # NoCommit
      /\ patch.mergeSha = 0 /\ patch.scaffoldSha = NoCommit
  BY JobTyped, ConstantsTyped, BranchInHand
     DEF RecordOpened, Command, Patch, NoPatch
<1> HIDE DEF patch
<1>2. /\ cli.pr \in DOMAIN prs /\ cli.pr # 0
      /\ job.branch # 0 /\ ScaffoldOf(workspace.head) = job.scaffoldSha
  <2>1. cli.at = "record" /\ cli.pr \in DOMAIN prs /\ cli.job.branch # 0
        /\ ScaffoldOf(workspace.head) = cli.job.scaffoldSha
    BY DEF RecordOpened, TypeInv, CommandSound
  <2>2. prs \in Seq(PullRequest)
    BY DEF TypeInv, TypeOK, PipelineTypeOK
  <2>3. QED
    BY <2>1, <2>2, JobAsRead
<1>3. Update(cli.job.phase, "pr_open", patch)
  BY DEF RecordOpened, patch
<1>4. /\ TransitionJob(cli.job.phase, "pr_open", patch)
      /\ job.phase \in {"implementing", "pr_open"}
  BY <1>3 DEF Update, Transitions, TransitionJob
<1>5. /\ job' \in Job /\ job'.phase = "pr_open"
      /\ job'.branch = job.branch /\ job'.prNumber = cli.pr
      /\ job'.headSha = workspace.head /\ job'.mergeSha = job.mergeSha
      /\ job'.scaffoldSha = job.scaffoldSha
  <2>1. "pr_open" \in Phases
    BY DEF Phases
  <2>2. QED
    BY JobTyped, <1>1, <1>2, <1>4, <2>1, TransitionEffect DEF Coalesce
<1>6. job.phase = "pr_open" => cli.pr = job.prNumber
  BY <1>1, <1>3, <1>4 DEF Update, FieldsPresent, TransitionJob
<1>7. QED
  BY BranchInHand, <1>2, <1>4, <1>5, <1>6 DEF RecordOpened

LEMMA RecordMergedEffect ==
  ASSUME TypeInv, RecordMerged
  PROVE  /\ job.phase = "pr_open" /\ job' \in Job /\ job'.phase = "merged"
         /\ job'.branch = job.branch /\ job'.prNumber = job.prNumber
         /\ job'.headSha = job.headSha /\ job'.scaffoldSha = job.scaffoldSha
         /\ job'.mergeSha = job.prNumber /\ job'.mergeSha # 0
         /\ prs[job.prNumber].state = "MERGED" /\ prs[job.prNumber].head = job.headSha
<1> DEFINE patch == [NoPatch EXCEPT !.mergeSha = cli.job.prNumber]
<1>1. /\ patch \in Patch /\ patch.branch = 0 /\ patch.prNumber = 0
      /\ patch.headSha = NoCommit /\ patch.mergeSha = cli.job.prNumber
      /\ patch.scaffoldSha = NoCommit
  BY JobTyped, ConstantsTyped DEF Command, Job, Patch, NoPatch
<1> HIDE DEF patch
<1>2. Update("pr_open", "merged", patch)
  BY DEF RecordMerged, patch
<1>3. TransitionJob("pr_open", "merged", patch) /\ job.phase = "pr_open"
      /\ patch.mergeSha # 0
  BY <1>2 DEF Update, FieldsPresent, TransitionJob
<1>4. /\ job' \in Job /\ job'.phase = "merged"
      /\ job'.branch = job.branch /\ job'.prNumber = job.prNumber
      /\ job'.headSha = job.headSha /\ job'.mergeSha = patch.mergeSha
      /\ job'.scaffoldSha = job.scaffoldSha
  <2>1. "merged" \in Phases
    BY DEF Phases
  <2>2. QED
    BY JobTyped, <1>1, <1>3, <2>1, TransitionEffect DEF Coalesce
<1>5. /\ cli.job.prNumber = job.prNumber /\ cli.job.headSha = job.headSha
      /\ prs[cli.job.prNumber].state = "MERGED"
      /\ prs[cli.job.prNumber].head = cli.job.headSha
  BY JobAsRead DEF RecordMerged
<1>6. QED
  BY <1>1, <1>3, <1>4, <1>5

LEMMA RecordRetryEffect ==
  ASSUME TypeInv, RecordRetry
  PROVE  /\ cli.at = "retry" /\ job.phase \in {"implementing", "pr_open"} /\ job' \in Job
         /\ job'.phase = "implementing" /\ job'.branch = 0 /\ job'.headSha = NoCommit
         /\ job'.prNumber = 0 /\ job'.mergeSha = 0
<1>1. /\ job.attempt < MaxAttempts
      /\ cli.kind = "failure" => job.implementationAttempt < FailureLimit
      /\ job' = [NewJob EXCEPT
           !.phase = "implementing", !.attempt = job.attempt + 1,
           !.implementationAttempt =
             job.implementationAttempt + (IF cli.kind = "failure" THEN 1 ELSE 0)]
  BY DEF RecordRetry, RetryJob
<1>2. /\ job.attempt + 1 \in 1 .. MaxAttempts
      /\ job.implementationAttempt + (IF cli.kind = "failure" THEN 1 ELSE 0)
           \in 1 .. FailureLimit
  BY JobTyped, <1>1, PipelineBounds, FailureLimitAssumption DEF Job
<1>3. /\ job'.phase = "implementing" /\ job'.branch = 0 /\ job'.headSha = NoCommit
      /\ job'.prNumber = 0 /\ job'.mergeSha = 0
  BY <1>1 DEF NewJob
<1>4. job' \in Job
  BY <1>1, <1>2, ConstantsTyped DEF NewJob, Job, Phases
<1>5. cli.at = "retry" /\ job.phase \in {"implementing", "pr_open"}
  BY DEF RecordRetry, RetryJob
<1>6. QED
  BY <1>3, <1>4, <1>5

LEMMA FailEffect ==
  ASSUME TypeInv, Fail
  PROVE  /\ job.phase \in {"queued", "implementing", "pr_open", "merged"}
         /\ job' = [job EXCEPT !.phase = "failed"] /\ job' \in Job /\ job'.phase = "failed"
         /\ job'.branch = job.branch /\ job'.prNumber = job.prNumber
         /\ job'.headSha = job.headSha /\ job'.mergeSha = job.mergeSha
         /\ job'.scaffoldSha = job.scaffoldSha
<1>1. job' = [job EXCEPT !.phase = "failed"] /\ job' \in Job
  BY JobTyped, PlainTransition DEF Fail, Phases
<1>2. QED
  BY <1>1, JobTyped DEF Fail, Job

LEMMA JobStep ==
  ASSUME TypeInv, PipelineNext
  PROVE  job' \in Job /\ JobSound'
<1>1. \A n \in DOMAIN prs : n \in DOMAIN prs'
  BY GitHubStep DEF MergedKept
<1>2. CASE UNCHANGED job
  BY <1>1, <1>2, JobTyped DEF JobSound
<1>3. CASE Fail
  BY <1>1, <1>3, JobTyped, FailEffect DEF JobSound
<1>4. CASE Claim /\ ~UNCHANGED job
  BY <1>1, <1>4, JobTyped, ClaimEffect DEF JobSound
<1>5. CASE RecordOpened
  BY <1>1, <1>5, JobTyped, RecordOpenedEffect DEF JobSound
<1>6. CASE RecordMerged
  BY <1>1, <1>6, JobTyped, RecordMergedEffect DEF JobSound
<1>7. CASE RecordRetry
  BY RecordRetryEffect, <1>7 DEF JobSound
<1>8. QED
  BY <1>2, <1>3, <1>4, <1>5, <1>6, <1>7, Writers

LEMMA WorkspaceStep ==
  ASSUME TypeInv, PipelineNext
  PROVE  workspace' \in Workspace /\ WorkspaceSound' /\ scaffolds' \in 0 .. MaxScaffolds
<1>1. /\ workspace \in Workspace /\ WorkspaceSound /\ scaffolds \in 0 .. MaxScaffolds
      /\ remote \in [1 .. MaxAttempts -> Commit \cup {NoCommit}] /\ cli.job \in Job
  BY DEF TypeInv, TypeOK, PipelineTypeOK, Command
<1>2. CASE UNCHANGED <<workspace, scaffolds>>
  BY <1>1, <1>2 DEF WorkspaceSound
<1>3. CASE Publish
  <2>1. CASE AdoptBranch(cli.job.attempt)
    <3>1. remote[cli.job.attempt] \in Commit \cup {NoCommit}
      BY <1>1 DEF Job
    <3>2. QED
      BY <1>1, <2>1, <3>1 DEF AdoptBranch, Workspace, WorkspaceSound
  <2>2. CASE PushScaffold(cli.job.attempt)
    BY <1>1, <2>2, ScaffoldCommit DEF PushScaffold, Workspace, WorkspaceSound
  <2>3. QED
    BY <1>3, <2>1, <2>2 DEF Publish
<1>4. CASE Edit
  BY <1>1, <1>4 DEF Edit, Workspace, WorkspaceSound
<1>5. CASE PushWork
  BY <1>1, <1>5, PushWorkHead DEF PushWork, Workspace, WorkspaceSound
<1>6. CASE RecordOpened
  BY <1>1, <1>6, ConstantsTyped DEF RecordOpened, NoWorkspace, WorkspaceSound
<1>7. QED
  BY <1>2, <1>3, <1>4, <1>5, <1>6, Writers

LEMMA BeginEffect ==
  ASSUME TypeInv, NEW kind \in {"administrative", "failure"},
         NEW step \in {"publish", "push", "merged", "close"}, Begin(step, kind)
  PROVE  /\ cli' \in Command
         /\ cli'.at = step /\ cli'.job = job /\ UNCHANGED <<job, prs, workspace>>
         /\ job = [job EXCEPT !.phase = job.phase]
<1>1. job \in Job /\ approved \in 1 .. MaxSpecs
  BY DEF TypeInv, TypeOK, PipelineTypeOK
<1>2. cli' = [at |-> step, job |-> job, spec |-> approved, kind |-> kind,
              scaffold |-> NoCommit, pr |-> 0]
  BY DEF Begin, Idle
<1>3. cli' \in Command
  BY <1>1, <1>2, PipelineBounds DEF Command
<1>4. job = [job EXCEPT !.phase = job.phase]
  BY <1>1 DEF Job
<1>5. QED
  BY <1>2, <1>3, <1>4 DEF Begin

LEMMA CommandStep ==
  ASSUME TypeInv, PipelineNext
  PROVE  cli' \in Command /\ CommandSound'
<1>1. /\ cli \in Command /\ CommandSound /\ job \in Job
      /\ workspace \in Workspace /\ prs \in Seq(PullRequest) /\ Len(prs) <= MaxPrs
  BY DEF TypeInv, TypeOK, PipelineTypeOK
<1>2. \A n \in DOMAIN prs : n \in DOMAIN prs'
  BY GitHubStep DEF MergedKept
<1>3. CASE UNCHANGED <<cli, job, workspace>>
  BY <1>1, <1>2, <1>3 DEF CommandSound
<1>4. CASE cli' = Idle
  BY <1>4, ConstantsTyped DEF CommandSound, Idle
<1>5. CASE Fail
  <2>1. job' = [job EXCEPT !.phase = "failed"]
    BY <1>1, <1>5, PlainTransition DEF Fail, Phases
  <2>2. UNCHANGED <<cli, workspace>>
    BY <1>5 DEF Fail
  <2>3. cli.at # "idle" => job' = [cli.job EXCEPT !.phase = job'.phase]
    BY <1>1, <2>1 DEF CommandSound, Command, Job
  <2>4. QED
    BY <1>1, <1>2, <2>2, <2>3 DEF CommandSound
<1>6. CASE BeginPrepare
  BY <1>6, BeginEffect DEF BeginPrepare, CommandSound
<1>7. CASE BeginSubmit
  <2>1. Begin("push", "administrative")
    BY <1>7 DEF BeginSubmit
  <2>2. /\ job.branch # 0 /\ ScaffoldOf(workspace.head) = job.scaffoldSha
        /\ job.scaffoldSha # NoCommit
    BY <1>7 DEF BeginSubmit
  <2>3. workspace.head # NoCommit
    BY <2>2 DEF ScaffoldOf, NoCommit
  <2>4. QED
    BY <2>1, <2>2, <2>3, BeginEffect DEF CommandSound
<1>8. CASE BeginMerged
  BY <1>8, BeginEffect DEF BeginMerged, CommandSound
<1>9. CASE \E kind \in {"administrative", "failure"} : BeginRetry(kind)
  BY <1>9, BeginEffect DEF BeginRetry, CommandSound
<1>10. CASE Publish
  <2>1. UNCHANGED job
    BY <1>10 DEF Publish
  <2>2. PICK scaffold \in Commit \cup {NoCommit} :
          cli' = [cli EXCEPT !.at = "claim", !.scaffold = scaffold]
    <3>1. remote[cli.job.attempt] \in Commit \cup {NoCommit}
      BY <1>1 DEF Command, Job, TypeInv, TypeOK, PipelineTypeOK
    <3>2. cli.job.scaffoldSha \in Commit \cup {NoCommit}
      BY <1>1 DEF Command, Job
    <3>3. CASE AdoptBranch(cli.job.attempt)
      BY <3>1, <3>2, <3>3 DEF AdoptBranch
    <3>4. CASE PushScaffold(cli.job.attempt)
      BY <3>4, ScaffoldCommit DEF PushScaffold
    <3>5. QED
      BY <1>10, <3>3, <3>4 DEF Publish
  <2>3. cli' \in Command /\ cli'.at = "claim" /\ cli'.job = cli.job
    BY <1>1, <2>2 DEF Command
  <2>4. cli.at = "publish"
    BY <1>10 DEF Publish
  <2>5. QED
    BY <1>1, <2>1, <2>3, <2>4 DEF CommandSound
<1>11. CASE Edit
  BY <1>1, <1>11 DEF Edit, CommandSound
<1>12. CASE PushWork
  <2>1. cli.at = "push" /\ cli' = [cli EXCEPT !.at = "open"] /\ UNCHANGED job
    BY <1>12 DEF PushWork, Onward
  <2>2. cli' \in Command /\ cli'.at = "open" /\ cli'.job = cli.job
    BY <1>1, <2>1 DEF Command
  <2>3. /\ workspace'.head \in Commit
        /\ ScaffoldOf(workspace'.head) = ScaffoldOf(workspace.head)
    <3>1. workspace'.head = [workspace.head EXCEPT !.work =
                               @ + (IF workspace.edited THEN 1 ELSE 0)]
      BY <1>12 DEF PushWork
    <3>2. workspace.head \in Commit
      BY <2>1, BranchInHand
    <3>3. QED
      BY <2>1, <3>1, <3>2, PushWorkHead DEF ScaffoldOf, Commit
  <2>4. QED
    BY <1>1, <2>1, <2>2, <2>3, ConstantsTyped DEF CommandSound
<1>13. CASE OpenPr
  <2>1. cli.at = "open" /\ UNCHANGED <<job, workspace>>
    BY <1>13 DEF OpenPr
  <2>2. PICK n \in 1 .. MaxPrs :
          cli' = [cli EXCEPT !.at = "record", !.pr = n] /\ n \in DOMAIN prs'
    <3>1. CASE \E n \in OpenPrOf(cli.job.branch) :
                 cli' = [cli EXCEPT !.at = "record", !.pr = n]
      <4>1. \A n \in OpenPrOf(cli.job.branch) : n \in DOMAIN prs /\ n \in 1 .. MaxPrs
        BY <1>1, PipelineBounds DEF OpenPrOf
      <4>2. QED
        BY <1>2, <3>1, <4>1
    <3>2. ASSUME NEW new \in PullRequest, prs' = Append(prs, new), Len(prs) < MaxPrs,
                 cli' = [cli EXCEPT !.at = "record", !.pr = Len(prs) + 1]
          PROVE  \E n \in 1 .. MaxPrs :
                   cli' = [cli EXCEPT !.at = "record", !.pr = n] /\ n \in DOMAIN prs'
      <4>1. Len(prs) + 1 \in 1 .. MaxPrs /\ Len(prs) + 1 \in DOMAIN prs'
        BY <1>1, <3>2, PipelineBounds
      <4>2. QED
        BY <3>2, <4>1
    <3>3. [branch |-> cli.job.branch, head |-> workspace.head, state |-> "OPEN"]
            \in PullRequest
      BY <2>1, BranchInHand DEF PullRequest
    <3>4. QED
      BY <1>13, <3>1, <3>2, <3>3 DEF OpenPr
  <2>3. cli' \in Command /\ cli'.at = "record" /\ cli'.job = cli.job /\ cli'.pr = n
    <3>1. n \in 0 .. MaxPrs
      BY PipelineBounds
    <3>2. QED
      BY <1>1, <2>2, <3>1 DEF Command
  <2>4. QED
    BY <1>1, <2>1, <2>2, <2>3 DEF CommandSound
<1>14. CASE CloseOldPr \/ DeleteOldBranch
  <2>1. PICK step \in {"delete", "retry"} : cli' = [cli EXCEPT !.at = step]
    BY <1>14 DEF CloseOldPr, DeleteOldBranch, Onward
  <2>2. cli.at \in {"close", "delete"} /\ UNCHANGED <<job, workspace>>
    BY <1>14 DEF CloseOldPr, DeleteOldBranch
  <2>3. cli' \in Command /\ cli'.at = step /\ cli'.job = cli.job
    BY <1>1, <2>1 DEF Command
  <2>4. QED
    BY <1>1, <2>2, <2>3 DEF CommandSound
<1>15. CASE RecordRetry
  <2>1. job' \in Job /\ cli' = [cli EXCEPT !.at = "publish", !.job = job']
    BY <1>15, JobStep DEF RecordRetry
  <2>2. cli' \in Command /\ cli'.at = "publish" /\ cli'.job = job'
    BY <1>1, <2>1 DEF Command
  <2>3. job' = [job' EXCEPT !.phase = job'.phase]
    BY <2>1 DEF Job
  <2>4. QED
    BY <2>2, <2>3 DEF CommandSound
<1>16. cli' = Idle \/ UNCHANGED <<cli, job, workspace>>
       \/ Fail \/ BeginPrepare \/ BeginSubmit \/ BeginMerged
       \/ (\E kind \in {"administrative", "failure"} : BeginRetry(kind))
       \/ Publish \/ Edit \/ PushWork \/ OpenPr \/ CloseOldPr \/ DeleteOldBranch
       \/ RecordRetry
  BY DEF PipelineNext, AmendSpec, MergePr, ClosePr, RevertOnMain, Claim, RecordOpened,
         RecordMerged, Abandon
<1>17. QED
  BY <1>3, <1>4, <1>5, <1>6, <1>7, <1>8, <1>9, <1>10, <1>11, <1>12, <1>13, <1>14, <1>15,
     <1>16

LEMMA PipelineStep ==
  ASSUME TypeInv, PipelineNext
  PROVE  /\ PipelineTypeOK' /\ MergedKept /\ MainKept
         /\ WorkspaceSound' /\ JobSound' /\ CommandSound'
<1>1. proposal' \in {"implementing", "released", "failed"}
  BY Writers DEF Fail, TypeInv, TypeOK, PipelineTypeOK
<1>2. approved' \in 1 .. MaxSpecs
  BY Writers, PipelineBounds DEF AmendSpec, TypeInv, TypeOK, PipelineTypeOK
<1>3. QED
  BY <1>1, <1>2, GitHubStep, MainStep, JobStep, WorkspaceStep, CommandStep
     DEF PipelineTypeOK

-----------------------------------------------------------------------------
(* A step of the release.                                                  *)

LEMMA BundleTyped ==
  ASSUME TypeInv, NEW n \in images
  PROVE  BundleAt(n) \in Commit \cup {NoCommit}
<1>1. /\ prs \in Seq(PullRequest) /\ main \in Seq(0 .. MaxPrs) /\ n \in 0 .. MaxMain
      /\ n <= Len(main)
      /\ \A i \in DOMAIN main : main[i] # 0 => main[i] \in DOMAIN prs
  BY PipelineBounds
     DEF TypeInv, TypeOK, PipelineTypeOK, ReleaseTypeOK, HistorySound
<1>2. CASE CodeAt(n) = 0
  BY <1>2 DEF BundleAt
<1>3. CASE CodeAt(n) # 0
  <2>1. n \in DOMAIN main /\ CodeAt(n) = main[n]
    BY <1>1, <1>3, PipelineBounds DEF CodeAt
  <2>2. prs[CodeAt(n)] \in PullRequest
    BY <1>1, <1>3, <2>1
  <2>3. QED
    BY <1>3, <2>2 DEF BundleAt, PullRequest
<1>4. QED
  BY <1>2, <1>3

\* The rule is registered, taken out, or left alone.
LEMMA SynchronizeEffect ==
  ASSUME NEW bundle, Synchronize(bundle)
  PROVE  \/ /\ bundle # NoCommit /\ SourceReady /\ version.state = "none"
            /\ rule' = IF rule = NoRule THEN Disabled("pending_enable") ELSE rule
            /\ version' = [state |-> "current", prNumber |-> job.prNumber,
                           mergeSha |-> job.mergeSha, bundle |-> bundle]
         \/ /\ bundle = NoCommit /\ version.state = "current"
            /\ rule' = IF rule = Removed THEN rule ELSE Disabled("rollback")
            /\ version' = [version EXCEPT !.state = "reverted"]
         \/ UNCHANGED <<rule, version>>
BY DEF Synchronize

LEMMA SynchronizeTyped ==
  ASSUME TypeInv, NEW bundle \in Commit \cup {NoCommit}, Synchronize(bundle)
  PROVE  /\ rule' \in {NoRule, Active, Removed} \cup {Disabled(reason) : reason \in Reasons}
         /\ version' \in Version
<1>1. /\ rule \in {NoRule, Active, Removed} \cup {Disabled(reason) : reason \in Reasons}
      /\ version \in Version /\ job.prNumber \in 0 .. MaxPrs /\ job.mergeSha \in 0 .. MaxPrs
  BY DEF TypeInv, TypeOK, PipelineTypeOK, ReleaseTypeOK, Job
<1>2. "pending_enable" \in Reasons /\ "rollback" \in Reasons
  BY DEF Reasons
<1>3. \/ rule' = rule \/ \E reason \in Reasons : rule' = Disabled(reason)
  BY <1>2, SynchronizeEffect
<1>4. version' \in Version
  <2>1. version' = version
        \/ version' = [state |-> "current", prNumber |-> job.prNumber,
                       mergeSha |-> job.mergeSha, bundle |-> bundle]
        \/ version' = [version EXCEPT !.state = "reverted"]
    BY SynchronizeEffect
  <2>2. QED
    BY <1>1, <2>1 DEF Version
<1>5. QED
  BY <1>1, <1>3, <1>4

LEMMA RuleStep ==
  ASSUME TypeInv, [Next]_vars
  PROVE  ReleaseTypeOK'
<1>1. ReleaseTypeOK
  BY DEF TypeInv, TypeOK
<1>2. /\ Disabled("manual") \in {Disabled(reason) : reason \in Reasons}
      /\ Disabled("rollback") \in {Disabled(reason) : reason \in Reasons}
      /\ Disabled("auto_incident") \in {Disabled(reason) : reason \in Reasons}
  BY DEF Reasons
<1>3. CASE UNCHANGED releaseVars
  BY <1>1, <1>3 DEF releaseVars, ReleaseTypeOK
<1>4. CASE PushRelease
  <2>1. Len(main) \in 0 .. MaxMain
    BY PipelineBounds DEF TypeInv, TypeOK, PipelineTypeOK
  <2>2. QED
    BY <1>1, <1>4, <2>1 DEF PushRelease, ReleaseTypeOK
<1>5. CASE StartServer
  BY <1>1, <1>5, BundleTyped, SynchronizeTyped DEF StartServer, ReleaseTypeOK
<1>6. CASE GetRule
  BY <1>1, <1>6, BundleTyped, SynchronizeTyped DEF GetRule, ReleaseTypeOK
<1>7. CASE Enable
  BY <1>1, <1>7 DEF Enable, ReleaseTypeOK
<1>8. CASE \E reason \in {"manual", "rollback"} : Disable(reason)
  BY <1>1, <1>2, <1>8 DEF Disable, ReleaseTypeOK
<1>9. CASE RecordIncident
  BY <1>1, <1>2, <1>9, IncidentAssumption DEF RecordIncident, ReleaseTypeOK
<1>10. CASE IncidentsLapse
  BY <1>1, <1>10, IncidentAssumption DEF IncidentsLapse, ReleaseTypeOK
<1>11. CASE Eliminate \/ Reinstate
  BY <1>1, <1>11 DEF Eliminate, Reinstate, ReleaseTypeOK
<1>12. QED
  BY <1>3, <1>4, <1>5, <1>6, <1>7, <1>8, <1>9, <1>10, <1>11 DEF Next, vars, releaseVars

\* Enabling a rule for the first time ends its job.
LEMMA EnableEffect ==
  ASSUME job \in Job, Enable
  PROVE  \/ /\ job.phase = "merged" /\ job' = [job EXCEPT !.phase = "done"]
            /\ proposal = "implementing" /\ proposal' = "released"
         \/ job.phase = "done" /\ proposal = "released" /\ UNCHANGED <<job, proposal>>
BY PlainTransition DEF Enable, Phases

LEMMA Step ==
  ASSUME TypeInv, [Next]_vars
  PROVE  TypeInv' /\ MergedKept /\ MainKept
<1>1. CASE PipelineNext /\ UNCHANGED releaseVars
  <2>1. /\ PipelineTypeOK' /\ MergedKept /\ MainKept
        /\ WorkspaceSound' /\ JobSound' /\ CommandSound'
    BY <1>1, PipelineStep
  <2>2. \A n \in images' : n <= Len(main')
    <3>1. \A n \in images : n \in Int /\ n <= Len(main)
      BY DEF TypeInv, HistorySound, TypeOK, ReleaseTypeOK
    <3>2. main \in Seq(0 .. MaxPrs) /\ main' \in Seq(0 .. MaxPrs)
      BY <2>1 DEF TypeInv, TypeOK, PipelineTypeOK
    <3>3. QED
      BY <1>1, <2>1, <3>1, <3>2 DEF releaseVars, MainKept
  <2>3. HistorySound'
    BY <1>1, <2>2, MainStep DEF HistorySound
  <2>4. QED
    BY <2>1, <2>3, RuleStep DEF TypeInv, TypeOK
<1>2. CASE /\ UNCHANGED <<approved, remote, prs, main, scaffolds, workspace, cli>>
           /\ UNCHANGED <<proposal, job>> \/ Enable
  <2>1. MergedKept /\ MainKept
    BY <1>2 DEF MergedKept, MainKept, TypeInv, TypeOK, PipelineTypeOK
  <2>2. HistorySound'
    <3>1. \A n \in images' : n \in images \/ n = Len(main)
      BY <1>2
         DEF Next, vars, releaseVars, PushRelease, StartServer, GetRule, Enable, Disable,
             RecordIncident, IncidentsLapse, Eliminate, Reinstate
    <3>2. QED
      BY <1>2, <3>1 DEF TypeInv, HistorySound, TypeOK, PipelineTypeOK
  <2>3. CASE UNCHANGED <<proposal, job>>
    <3>1. PipelineTypeOK' /\ WorkspaceSound' /\ JobSound' /\ CommandSound'
      BY <1>2, <2>3
         DEF TypeInv, TypeOK, PipelineTypeOK, WorkspaceSound, JobSound, CommandSound
    <3>2. QED
      BY <2>1, <2>2, <3>1, RuleStep DEF TypeInv, TypeOK
  <2>4. CASE Enable
    <3>1. job \in Job /\ cli \in Command /\ JobSound /\ CommandSound
      BY DEF TypeInv, TypeOK, PipelineTypeOK
    <3>2. CASE UNCHANGED <<proposal, job>>
      BY <2>3, <3>2
    <3>3. CASE /\ job.phase = "merged" /\ job' = [job EXCEPT !.phase = "done"]
               /\ proposal' = "released"
      <4>1. job' \in Job /\ JobSound'
        BY <1>2, <3>1, <3>3 DEF Job, Phases, JobSound
      <4>2. CommandSound'
        <5>1. cli.at # "idle" => job' = [cli.job EXCEPT !.phase = job'.phase]
          BY <3>1, <3>3 DEF CommandSound, Command, Job
        <5>2. QED
          BY <1>2, <3>1, <5>1 DEF CommandSound
      <4>3. PipelineTypeOK' /\ WorkspaceSound'
        BY <1>2, <3>3, <4>1 DEF TypeInv, TypeOK, PipelineTypeOK, WorkspaceSound
      <4>4. QED
        BY <2>1, <2>2, <4>1, <4>2, <4>3, RuleStep DEF TypeInv, TypeOK
    <3>4. QED
      BY <2>4, <3>1, <3>2, <3>3, EnableEffect
  <2>5. QED
    BY <1>2, <2>3, <2>4
<1>3. QED
  BY <1>1, <1>2 DEF Next, vars, pipelineVars, PushRelease, StartServer, GetRule, Enable,
     Disable, RecordIncident, IncidentsLapse, Eliminate, Reinstate

LEMMA Start == Init => TypeInv
<1> SUFFICES ASSUME Init PROVE TypeInv
  OBVIOUS
<1>1. PipelineTypeOK
  BY ConstantsTyped, PipelineBounds DEF Init, PipelineInit, PipelineTypeOK
<1>2. ReleaseTypeOK
  BY PipelineBounds, IncidentAssumption DEF Init, ReleaseTypeOK, NoVersion, Version
<1>3. HistorySound /\ WorkspaceSound /\ JobSound /\ CommandSound
  BY DEF Init, PipelineInit, HistorySound, WorkspaceSound, JobSound, CommandSound,
         NoWorkspace, NewJob, Idle
<1>4. QED
  BY <1>1, <1>2, <1>3 DEF TypeInv, TypeOK

LEMMA Invariance == Spec => []TypeInv
BY Start, Step, PTL DEF Spec

\* Every variable of the pipeline and of the release keeps its type.
THEOREM TypeCorrect == Spec => []TypeOK
<1>1. TypeInv => TypeOK
  BY DEF TypeInv
<1>2. QED
  BY <1>1, Invariance, PTL

-----------------------------------------------------------------------------
(* What the rows of job, proposal and rule have to do with one another.    *)

\* The job moves on step by step, and once merged only to its end.
LEMMA JobMoves ==
  ASSUME TypeInv, [Next]_vars
  PROVE  \/ UNCHANGED <<job, proposal>>
         \/ Fail
         \/ /\ job.phase \in {"queued", "implementing", "pr_open"} /\ UNCHANGED proposal
            /\ \/ job'.phase \in {"implementing", "pr_open"} /\ job'.mergeSha = 0
               \/ RecordMerged
         \/ Enable /\ job.phase = "merged" /\ job' = [job EXCEPT !.phase = "done"]
<1>1. CASE PipelineNext
  <2>1. job.phase \in {"queued", "implementing", "pr_open"} => job.mergeSha = 0
    BY JobTyped DEF JobSound
  <2>2. UNCHANGED proposal \/ Fail
    BY <1>1, Writers
  <2>3. UNCHANGED job \/ Fail \/ (Claim /\ ~UNCHANGED job)
        \/ RecordOpened \/ RecordMerged \/ RecordRetry
    BY <1>1, Writers
  <2>4. QED
    BY <2>1, <2>2, <2>3, ClaimEffect, RecordOpenedEffect, RecordMergedEffect,
       RecordRetryEffect
<1>2. CASE Enable
  BY <1>2, JobTyped, EnableEffect
<1>3. QED
  BY <1>1, <1>2 DEF Next, vars, pipelineVars, PushRelease, StartServer, GetRule, Disable,
     RecordIncident, IncidentsLapse, Eliminate, Reinstate

LEMMA MergedStep ==
  ASSUME TypeInv, MergedAsReviewed, [Next]_vars
  PROVE  MergedAsReviewed'
<1>1. \A n \in DOMAIN prs : prs[n].state = "MERGED" =>
        prs'[n].state = "MERGED" /\ prs'[n].head = prs[n].head
  BY Step DEF MergedKept
<1>2. job \in Job /\ JobSound
  BY JobTyped
<1>3. CASE /\ job'.prNumber = job.prNumber /\ job'.headSha = job.headSha
           /\ job'.mergeSha = job.mergeSha /\ job'.scaffoldSha = job.scaffoldSha
  BY <1>1, <1>2, <1>3 DEF MergedAsReviewed, JobSound
<1>4. CASE job'.mergeSha = 0
  BY <1>4 DEF MergedAsReviewed
<1>5. CASE RecordMerged
  <2>1. ScaffoldOf(job'.headSha) = job'.scaffoldSha
    <3>1. job.headSha # NoCommit
      BY <1>5 DEF RecordMerged, Update, FieldsPresent
    <3>2. QED
      BY <1>2, <1>5, <3>1, RecordMergedEffect DEF JobSound
  <2>2. job.prNumber \in DOMAIN prs
    BY <1>2, <1>5, RecordMergedEffect DEF JobSound
  <2>3. QED
    BY <1>1, <1>5, <2>1, <2>2, RecordMergedEffect DEF MergedAsReviewed
<1>6. CASE Enable /\ job' = [job EXCEPT !.phase = "done"]
  BY <1>2, <1>3, <1>6 DEF Job
<1>7. QED
  BY <1>3, <1>4, <1>5, <1>6, JobMoves, FailEffect

LEMMA StatusStep ==
  ASSUME TypeInv, StatusesAgree, [Next]_vars
  PROVE  StatusesAgree'
<1> USE DEF StatusesAgree
<1>1. job \in Job
  BY JobTyped
<1>2. CASE PipelineNext /\ UNCHANGED releaseVars
  <2>1. CASE UNCHANGED <<job, proposal>>
    BY <1>2, <2>1 DEF releaseVars
  <2>2. CASE Fail
    BY <1>2, <2>2, FailEffect DEF releaseVars, Fail
  <2>3. CASE /\ job.phase \in {"queued", "implementing", "pr_open"} /\ UNCHANGED proposal
             /\ job'.phase \in {"implementing", "pr_open", "merged"}
    BY <1>2, <2>3 DEF releaseVars
  <2>4. CASE Enable /\ ~UNCHANGED <<job, proposal>>
    BY <1>1, <1>2, <2>4, EnableEffect DEF Enable, Active, releaseVars
  <2>5. QED
    BY <2>1, <2>2, <2>3, <2>4, JobMoves, RecordMergedEffect
<1>3. CASE UNCHANGED <<job, proposal, rule, version>>
  BY <1>3
<1>4. CASE StartServer \/ GetRule
  <2>1. UNCHANGED <<job, proposal>> /\ \E bundle : Synchronize(bundle)
    BY <1>4 DEF StartServer, GetRule, pipelineVars
  <2>2. QED
    BY <2>1, SynchronizeEffect DEF Disabled, Removed, NoRule, NoVersion
<1>5. CASE Enable
  <2>1. rule' = Active /\ rule.status = "disabled" /\ UNCHANGED version
    BY <1>5 DEF Enable
  <2>2. proposal' = "released" /\ job'.phase = "done"
    BY <1>1, <1>5, EnableEffect DEF Job
  <2>3. QED
    BY <2>1, <2>2 DEF Active, NoRule
<1>6. CASE \E reason \in {"manual", "rollback"} : Disable(reason)
  BY <1>6 DEF Disable, Disabled, NoRule, pipelineVars
<1>7. CASE RecordIncident
  BY <1>7 DEF RecordIncident, Disabled, NoRule, pipelineVars
<1>8. CASE Eliminate \/ Reinstate
  BY <1>8 DEF Eliminate, Reinstate, Active, Removed, NoRule, pipelineVars
<1>9. QED
  BY <1>2, <1>3, <1>4, <1>5, <1>6, <1>7, <1>8
     DEF Next, vars, pipelineVars, releaseVars, PushRelease, IncidentsLapse

LEMMA ProvenanceStep ==
  ASSUME TypeInv, ProvenanceKept, [Next]_vars
  PROVE  ProvenanceKept'
<1> USE DEF ProvenanceKept
<1>1. job \in Job
  BY JobTyped
<1>2. CASE UNCHANGED version
  BY <1>1, <1>2, JobMoves, FailEffect, RecordMergedEffect DEF Job
<1>3. CASE StartServer \/ GetRule
  <2>1. UNCHANGED job /\ \E bundle : Synchronize(bundle)
    BY <1>3 DEF StartServer, GetRule, pipelineVars
  <2>2. version \in Version
    BY DEF TypeInv, TypeOK, ReleaseTypeOK
  <2>3. QED
    BY <2>1, <2>2, SynchronizeEffect DEF SourceReady, NoVersion, Version
<1>4. QED
  BY <1>2, <1>3 DEF Next, vars, releaseVars, PushRelease, Enable, Disable, RecordIncident,
     IncidentsLapse, Eliminate, Reinstate

LEMMA RevertedStep ==
  [Next]_vars =>
    [version.state = "reverted" => version'.state = "reverted" /\ ~Offered']_vars
<1> SUFFICES ASSUME [Next]_vars, version.state = "reverted"
             PROVE  version'.state = "reverted" /\ ~Offered'
  OBVIOUS
<1>1. UNCHANGED version \/ \E bundle : Synchronize(bundle)
  BY DEF Next, vars, releaseVars, PushRelease, StartServer, GetRule, Enable, Disable,
         RecordIncident, IncidentsLapse, Eliminate, Reinstate
<1>2. version'.state = "reverted"
  BY <1>1, SynchronizeEffect
<1>3. QED
  BY <1>2 DEF Offered, VersionFits

\* A job on record as merged names what was merged, at the commit it has reviewed.
THEOREM Merged == Spec => []MergedAsReviewed
<1>1. Init => MergedAsReviewed
  BY DEF Init, PipelineInit, NewJob, MergedAsReviewed
<1>2. QED
  BY <1>1, MergedStep, Invariance, PTL DEF Spec

\* Proposal, job and rule are never at odds.
THEOREM Statuses == Spec => []StatusesAgree
<1>1. Init => StatusesAgree
  BY DEF Init, PipelineInit, NewJob, NoRule, NoVersion, StatusesAgree
<1>2. QED
  BY <1>1, StatusStep, Invariance, PTL DEF Spec

\* The origin of a registered rule is what its job has on record.
THEOREM Provenance == Spec => []ProvenanceKept
<1>1. Init => ProvenanceKept
  BY DEF Init, ProvenanceKept
<1>2. QED
  BY <1>1, ProvenanceStep, Invariance, PTL DEF Spec

\* A rule that has been taken out with its code stays out.
THEOREM Reverted == Spec => RevertedStaysOut
BY RevertedStep, PTL DEF Spec, RevertedStaysOut

-----------------------------------------------------------------------------
(* What is played is what was accepted, if only pull requests on record    *)
(* are merged: without that, main may hold another one's code.             *)

LEMMA MainIsOfJobStep ==
  ASSUME MergesOnRecord, TypeInv, MainIsOfJob, [Next]_vars
  PROVE  MainIsOfJob'
<1> DEFINE Settled == /\ job.phase \in {"pr_open", "merged", "done", "failed"}
                      /\ NoRetryRunning
<1>1. job \in Job /\ main \in Seq(0 .. MaxPrs)
  BY DEF TypeInv, TypeOK, PipelineTypeOK
<1>2. \A i \in DOMAIN main' : main'[i] # 0 =>
        \/ i \in DOMAIN main /\ main[i] = main'[i]
        \/ MergePr /\ main'[i] = job.prNumber /\ Settled
  <2>1. CASE UNCHANGED main
    BY <2>1
  <2>2. CASE MergePr
    <3>1. PICK n \in DOMAIN prs : /\ job.phase = "pr_open" /\ job.prNumber = n
                                  /\ NoRetryRunning /\ main' = Append(main, n)
      BY <2>2 DEF MergePr
    <3>2. n \in 0 .. MaxPrs
      BY <1>1, <3>1 DEF Job
    <3>3. QED
      BY <1>1, <2>2, <3>1, <3>2
  <2>3. CASE RevertOnMain
    BY <1>1, <2>3 DEF RevertOnMain
  <2>4. QED
    BY <2>1, <2>2, <2>3, Writers
       DEF Next, vars, pipelineVars, PushRelease, StartServer, GetRule, Enable, Disable,
           RecordIncident, IncidentsLapse, Eliminate, Reinstate
<1>3. CASE MergePr
  <2>1. UNCHANGED <<job, cli>>
    BY <1>3 DEF MergePr
  <2>2. QED
    BY <1>2, <2>1 DEF MainIsOfJob, NoRetryRunning
<1>4. CASE ~MergePr /\ \A i \in DOMAIN main : main[i] = 0
  BY <1>2, <1>4 DEF MainIsOfJob
<1>5. CASE ~MergePr /\ \E i \in DOMAIN main : main[i] # 0
  <2>1. /\ Settled /\ job.prNumber \in DOMAIN prs
        /\ prs[job.prNumber].state = "MERGED"
    BY <1>5 DEF MainIsOfJob, TypeInv, HistorySound
  <2>2. ~RecordRetry
    BY <2>1, RecordRetryEffect DEF NoRetryRunning
  <2>3. /\ job'.prNumber = job.prNumber
        /\ job'.phase \in {"pr_open", "merged", "done", "failed"}
    <3>1. CASE PipelineNext
      BY <1>1, <2>1, <2>2, <3>1, Writers, FailEffect, ClaimEffect, RecordOpenedEffect,
         RecordMergedEffect
    <3>2. CASE ~PipelineNext
      BY <1>1, <2>1, <3>2, EnableEffect
         DEF Next, vars, pipelineVars, PushRelease, StartServer, GetRule, Disable,
             RecordIncident, IncidentsLapse, Eliminate, Reinstate, Job
    <3>3. QED
      BY <3>1, <3>2
  <2>4. NoRetryRunning'
    <3>1. prs \in Seq(PullRequest)
      BY DEF TypeInv, TypeOK, PipelineTypeOK
    <3>2. job.prNumber # 0
      BY <2>1, <3>1
    <3>3. \A kind : ~BeginRetry(kind)
      BY <2>1, <3>2 DEF BeginRetry
    <3>4. cli \in Command /\ cli.at \notin {"close", "delete", "retry"}
      BY <2>1 DEF NoRetryRunning, TypeInv, TypeOK, PipelineTypeOK
    <3>5. CASE UNCHANGED cli
      BY <3>4, <3>5 DEF NoRetryRunning
    <3>6. CASE cli' = Idle
      BY <3>6 DEF Idle, NoRetryRunning
    <3>7. CASE BeginPrepare \/ BeginSubmit \/ BeginMerged
      BY <3>7, BeginEffect DEF BeginPrepare, BeginSubmit, BeginMerged, NoRetryRunning
    <3>8. CASE \E step \in {"claim", "open", "record"} : cli'.at = step
      BY <3>8 DEF NoRetryRunning
    <3>9. Publish \/ PushWork \/ OpenPr => \E step \in {"claim", "open", "record"} : cli'.at = step
      BY <3>4 DEF Publish, AdoptBranch, PushScaffold, PushWork, OpenPr, Onward, Command
    <3>10. QED
      BY <2>2, <3>3, <3>4, <3>5, <3>6, <3>7, <3>8, <3>9
         DEF Next, vars, pipelineVars, PipelineNext, AmendSpec, Fail, MergePr, ClosePr,
             RevertOnMain, Claim, Edit, RecordOpened, RecordMerged, CloseOldPr,
             DeleteOldBranch, Abandon, PushRelease, StartServer, GetRule, Enable, Disable,
             RecordIncident, IncidentsLapse, Eliminate, Reinstate
  <2>5. QED
    BY <1>2, <1>5, <2>3, <2>4 DEF MainIsOfJob
<1>6. QED
  BY <1>3, <1>4, <1>5

LEMMA MainInvariance == ASSUME MergesOnRecord PROVE Spec => []MainIsOfJob
<1>1. Init => MainIsOfJob
  BY DEF Init, PipelineInit, MainIsOfJob
<1>2. TypeInv /\ MainIsOfJob /\ [Next]_vars => MainIsOfJob'
  BY MainIsOfJobStep
<1>3. QED
  BY <1>1, <1>2, Invariance, PTL DEF Spec

LEMMA PlayedFromMain ==
  ASSUME TypeInv, MergedAsReviewed, MainIsOfJob
  PROVE  PlayedIsAccepted
<1> SUFFICES ASSUME Offered PROVE BundleAt(served) = prs[job.mergeSha].head
  BY DEF PlayedIsAccepted
<1>1. CodeAt(served) # 0 /\ BundleAt(served) = prs[CodeAt(served)].head
  BY DEF Offered, BundleAt
<1>2. job.phase = "done" /\ job.mergeSha = job.prNumber
  BY DEF Offered, TypeInv, JobSound, MergedAsReviewed
<1>3. served \in DOMAIN main /\ CodeAt(served) = main[served]
  BY <1>1, PipelineBounds
     DEF CodeAt, TypeInv, TypeOK, PipelineTypeOK, ReleaseTypeOK, HistorySound
<1>4. QED
  BY <1>1, <1>2, <1>3 DEF MainIsOfJob

\* New sets are given the code of the merge on record.
THEOREM Accepted == ASSUME MergesOnRecord PROVE Spec => []PlayedIsAccepted
BY PlayedFromMain, Invariance, Merged, MainInvariance, PTL

-----------------------------------------------------------------------------
(* The pipeline implements RuleDelivery.  A report of the worker is the    *)
(* step in which an implementation is presented or accepted; enabling the  *)
(* rule for the first time is going live.  From then on only inPlay        *)
(* changes, between none and the product.                                  *)

Product == IF job.mergeSha = 0 THEN NoCommit ELSE prs[job.mergeSha].head
InPlay == IF Offered THEN BundleAt(served) ELSE NoCommit

DeliveryReady ==
  TypeInv /\ MergedAsReviewed /\ StatusesAgree /\ MainIsOfJob /\ PlayedIsAccepted

LEMMA Stages ==
  /\ StageOf["queued"] = "approved" /\ StageOf["implementing"] = "making"
  /\ StageOf["pr_open"] = "review" /\ StageOf["merged"] = "accepted"
  /\ StageOf["done"] = "live" /\ StageOf["failed"] = "dropped"
BY DEF StageOf

LEMMA ProductKept ==
  ASSUME TypeInv, MergedAsReviewed, [Next]_vars, job'.mergeSha = job.mergeSha
  PROVE  Product' = Product
<1>1. job.mergeSha # 0 =>
        job.mergeSha \in DOMAIN prs /\ prs[job.mergeSha].state = "MERGED"
  BY JobTyped DEF MergedAsReviewed, JobSound
<1>2. QED
  BY <1>1, Step DEF Product, MergedKept

LEMMA NotInPlay == ASSUME job.phase # "done" PROVE InPlay = NoCommit
BY DEF InPlay, Offered

LEMMA DeliveryStep ==
  ASSUME DeliveryReady, DeliveryReady', [Next]_vars
  PROVE  [Delivery!Next]_(Delivery!vars)
<1> USE DEF DeliveryReady
<1>1. job \in Job /\ job' \in Job
  BY DEF TypeInv, TypeOK, PipelineTypeOK
<1>2. (job.phase # "done" => InPlay = NoCommit) /\ (job'.phase # "done" => InPlay' = NoCommit)
  BY DEF InPlay, Offered
<1>3. CASE UNCHANGED <<job, proposal>>
  <2>1. Product' = Product
    BY <1>3, ProductKept
  <2>2. CASE job.phase # "done"
    BY <1>2, <1>3, <2>1, <2>2 DEF Delivery!vars, Product, InPlay
  <2>3. CASE job.phase = "done"
    <3>1. InPlay' = NoCommit \/ InPlay' = Product'
      BY <1>3, <2>3, JobTyped DEF InPlay, Product, PlayedIsAccepted, TypeInv, JobSound
    <3>2. QED
      BY <1>3, <2>1, <2>3, <3>1, Stages
         DEF Delivery!Next, Delivery!Withdraw, Delivery!PutBack, Product, InPlay
  <2>4. QED
    BY <2>2, <2>3
<1>4. CASE Fail
  <2>1. Product' = Product
    BY <1>4, FailEffect, ProductKept
  <2>2. QED
    BY <1>2, <1>4, <2>1, FailEffect, Stages
       DEF Delivery!Next, Delivery!Drop, Delivery!Stages, Product, InPlay
<1>5. CASE Claim /\ ~UNCHANGED job
  <2>1. Product' = Product
    BY <1>5, ClaimEffect, ProductKept
  <2>2. QED
    BY <1>2, <1>5, <2>1, ClaimEffect, Stages
       DEF Delivery!Next, Delivery!Make, Delivery!vars, Product, InPlay
<1>6. CASE RecordOpened
  <2>1. Product' = Product
    BY <1>6, RecordOpenedEffect, ProductKept
  <2>2. Delivery!Present(workspace.head)
    BY <1>2, <1>6, <2>1, RecordOpenedEffect, Stages DEF Delivery!Present, Product, InPlay
  <2>3. QED
    BY <1>6, <2>2, RecordOpenedEffect DEF Delivery!Next
<1>7. CASE RecordMerged
  <2>1. Product' = job.headSha
    <3>1. job.prNumber \in DOMAIN prs
      BY <1>7, JobTyped, RecordMergedEffect DEF JobSound
    <3>2. QED
      BY <1>7, <3>1, Step, RecordMergedEffect DEF Product, MergedKept
  <2>2. QED
    BY <1>2, <1>7, <2>1, RecordMergedEffect, Stages
       DEF Delivery!Next, Delivery!Accept, Product, InPlay
<1>8. CASE RecordRetry
  <2>1. job.mergeSha = 0
    BY <1>8, JobTyped, RecordRetryEffect DEF JobSound
  <2>2. Product' = Product
    BY <1>8, <2>1, RecordRetryEffect, ProductKept
  <2>3. QED
    BY <1>2, <1>8, <2>2, RecordRetryEffect, Stages
       DEF Delivery!Next, Delivery!MakeAnew, Product, InPlay
<1>9. CASE Enable /\ job.phase = "merged" /\ job' = [job EXCEPT !.phase = "done"]
  <2>1. /\ job'.phase = "done" /\ job'.mergeSha = job.mergeSha
        /\ job'.headSha = job.headSha /\ job'.prNumber = job.prNumber
    BY <1>1, <1>9 DEF Job
  <2>2. Product' = Product
    BY <2>1, ProductKept
  <2>3. Offered'
    <3>1. /\ rule' = Active /\ BundleAt(served) # NoCommit /\ VersionFits
          /\ UNCHANGED <<prs, main, served, version>>
      BY <1>9 DEF Enable
    <3>2. UNCHANGED BundleAt(served)
      BY <3>1 DEF BundleAt, CodeAt
    <3>3. proposal' = "released"
      BY <2>1 DEF StatusesAgree
    <3>4. QED
      BY <2>1, <3>1, <3>2, <3>3 DEF Offered, VersionFits, Active
  <2>4. InPlay' = Product'
    BY <2>1, <2>3, JobTyped DEF InPlay, Product, PlayedIsAccepted, TypeInv, JobSound
  <2>5. QED
    BY <1>9, <2>1, <2>2, <2>4, Stages DEF Delivery!Next, Delivery!GoLive, Product, InPlay
<1>10. UNCHANGED <<job, proposal>> \/ Fail \/ (Claim /\ ~UNCHANGED job)
       \/ RecordOpened \/ RecordMerged \/ RecordRetry
       \/ (Enable /\ job.phase = "merged" /\ job' = [job EXCEPT !.phase = "done"])
  BY JobMoves, Writers, EnableEffect, <1>1
     DEF Next, vars, pipelineVars, PushRelease, StartServer, GetRule, Disable,
         RecordIncident, IncidentsLapse, Eliminate, Reinstate
<1>11. QED
  BY <1>3, <1>4, <1>5, <1>6, <1>7, <1>8, <1>9, <1>10

\* Release implements RuleDelivery: an implementation comes into play only after it
\* was presented and accepted, and stays that very one.
THEOREM Implements == ASSUME MergesOnRecord PROVE Spec => ImplementsDelivery
<1>1. Init => Delivery!Init
  BY NotInPlay, Stages DEF Init, PipelineInit, NewJob, Delivery!Init, Offered
<1>2. TypeInv /\ MergedAsReviewed /\ StatusesAgree /\ MainIsOfJob => DeliveryReady
  BY PlayedFromMain DEF DeliveryReady
<1>3. DeliveryReady /\ DeliveryReady' /\ [Next]_vars => [Delivery!Next]_(Delivery!vars)
  BY DeliveryStep
<1>4. QED
  BY <1>1, <1>2, <1>3, Invariance, Merged, Statuses, MainInvariance, PTL
     DEF Spec, ImplementsDelivery, Delivery!Spec
=============================================================================
