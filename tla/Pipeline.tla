------------------------------ MODULE Pipeline ------------------------------
(***************************************************************************)
(* The implementation of one approved proposal: its job on the server      *)
(* (pipeline/jobs.ts, pipeline/repository.ts and the amendment of its SPEC *)
(* in pipeline/service.ts), the commands the worker runs on the            *)
(* developer's machine (packages/pipeline) and the repository on GitHub.   *)
(*                                                                         *)
(* The server handles a request in one step.  A command of the worker is   *)
(* several: it reads the job, works on GitHub and reports back, and may be *)
(* broken off between any two of them.  There is one worker, as            *)
(* E07 section 2.3 has it, but the developer amends the SPEC, merges,      *)
(* closes and gives up whenever he likes.  A report whose answer is lost   *)
(* is a report after which the command breaks off.                         *)
(*                                                                         *)
(* A SPEC is the number of its approval, a commit its SPEC, the scaffold   *)
(* it builds on and how many commits lie on top of that, a merge commit    *)
(* the number of the pull request merged.                                  *)
(***************************************************************************)
EXTENDS Integers, Sequences

CONSTANTS
  FailureLimit,    \* implementation attempts, 2 in the code
  MergesOnRecord,  \* are only pull requests merged that the job has on record?
  MaxSpecs,        \* bound: SPECs approved
  MaxAttempts,     \* bound: scaffold revisions of the job
  MaxScaffolds,    \* bound: scaffold commits
  MaxWorks,        \* bound: commits on top of a scaffold
  MaxPrs,          \* bound: pull requests
  MaxMain          \* bound: changes of main

ASSUME FailureLimitAssumption == FailureLimit \in Nat \ {0}
ASSUME MergesAssumption == MergesOnRecord \in BOOLEAN
ASSUME PipelineBounds ==
  /\ MaxSpecs \in Nat \ {0} /\ MaxAttempts \in Nat \ {0}
  /\ MaxScaffolds \in Nat \ {0} /\ MaxWorks \in Nat \ {0}
  /\ MaxPrs \in Nat \ {0} /\ MaxMain \in Nat \ {0}

VARIABLES
  proposal,   \* proposals.status
  approved,   \* the latest judgement: the SPEC in force
  job,        \* the row of pipeline_jobs
  remote,     \* heads of the branches rule/<id> and rule/<id>-aN
  prs,        \* pull requests
  main,       \* what main has held of the rule: pull requests, 0 for a revert
  scaffolds,  \* scaffold commits made so far
  workspace,  \* the worker's clone: its HEAD, and has it been edited since?
  cli         \* the command the worker is running

pipelineVars ==
  <<proposal, approved, job, remote, prs, main, scaffolds, workspace, cli>>

NoCommit == [scaffold |-> 0, spec |-> 0, work |-> 0]
Commit == [scaffold : 1 .. MaxScaffolds, spec : 1 .. MaxSpecs, work : 0 .. MaxWorks]
ScaffoldOf(commit) == [commit EXCEPT !.work = 0]

Phases == {"queued", "implementing", "pr_open", "merged", "done", "failed"}

NewJob ==
  [phase |-> "queued", attempt |-> 1, implementationAttempt |-> 1, branch |-> 0,
   prNumber |-> 0, headSha |-> NoCommit, mergeSha |-> 0, scaffoldSha |-> NoCommit]

Job ==
  [phase : Phases, attempt : 1 .. MaxAttempts, implementationAttempt : 1 .. FailureLimit,
   branch : 0 .. MaxAttempts, prNumber : 0 .. MaxPrs,
   headSha : Commit \cup {NoCommit}, mergeSha : 0 .. MaxPrs,
   scaffoldSha : Commit \cup {NoCommit}]

PullRequest ==
  [branch : 1 .. MaxAttempts, head : Commit, state : {"OPEN", "CLOSED", "MERGED"}]

NoWorkspace == [head |-> NoCommit, edited |-> FALSE]
Workspace == [head : Commit \cup {NoCommit}, edited : BOOLEAN]

\* A command at work: the step it is at, the job and the SPEC it has read,
\* and what it has found or made on GitHub.
Idle == [at |-> "idle", job |-> NewJob, spec |-> 1, kind |-> "administrative",
         scaffold |-> NoCommit, pr |-> 0]
Command ==
  [at : {"idle", "publish", "claim", "push", "open", "record", "merged",
         "close", "delete", "retry"},
   job : Job, spec : 1 .. MaxSpecs, kind : {"administrative", "failure"},
   scaffold : Commit \cup {NoCommit}, pr : 0 .. MaxPrs]

PipelineTypeOK ==
  /\ proposal \in {"implementing", "released", "failed"}
  /\ approved \in 1 .. MaxSpecs
  /\ job \in Job
  /\ remote \in [1 .. MaxAttempts -> Commit \cup {NoCommit}]
  /\ prs \in Seq(PullRequest) /\ Len(prs) <= MaxPrs
  /\ main \in Seq(0 .. MaxPrs) /\ Len(main) <= MaxMain
  /\ scaffolds \in 0 .. MaxScaffolds
  /\ workspace \in Workspace
  /\ cli \in Command

-----------------------------------------------------------------------------
(* The job on the server.                                                  *)

Transitions ==
  {<<"queued", "implementing">>, <<"implementing", "implementing">>,
   <<"implementing", "pr_open">>, <<"pr_open", "pr_open">>, <<"pr_open", "merged">>,
   <<"merged", "merged">>, <<"merged", "done">>, <<"done", "done">>}

\* What an update may bring along; 0 and NoCommit are what it leaves out.
NoPatch == [branch |-> 0, prNumber |-> 0, headSha |-> NoCommit, mergeSha |-> 0,
            scaffoldSha |-> NoCommit]

FieldsPresent(from, to, patch) ==
  /\ from = "queued" =>
       patch.branch = 1 /\ patch.scaffoldSha # NoCommit
  /\ from = "implementing" /\ to = "implementing" =>
       /\ job.attempt >= 2 /\ job.branch = 0
       /\ patch.branch = job.attempt /\ patch.scaffoldSha # NoCommit
  /\ from = "implementing" /\ to = "pr_open" =>
       /\ patch.prNumber # 0 /\ patch.headSha # NoCommit
       /\ job.branch # 0 /\ job.scaffoldSha # NoCommit
  /\ from = "pr_open" /\ to = "pr_open" =>
       /\ patch.headSha # NoCommit
       /\ patch.prNumber = job.prNumber /\ job.prNumber # 0
       /\ job.scaffoldSha # NoCommit
  /\ from = "pr_open" /\ to = "merged" =>
       patch.mergeSha # 0 /\ job.headSha # NoCommit /\ job.prNumber # 0
  /\ from = to /\ from \in {"merged", "done"} =>
       /\ patch.mergeSha # 0 /\ job.mergeSha = 0
       /\ job.headSha # NoCommit /\ job.prNumber # 0

Coalesce(new, none, old) == IF new = none THEN old ELSE new

TransitionJob(from, to, patch) ==
  /\ job.phase = from
  /\ job' = [job EXCEPT
       !.phase = to,
       !.branch = Coalesce(patch.branch, 0, @),
       !.prNumber = Coalesce(patch.prNumber, 0, @),
       !.headSha = Coalesce(patch.headSha, NoCommit, @),
       !.mergeSha = Coalesce(patch.mergeSha, 0, @),
       !.scaffoldSha = Coalesce(patch.scaffoldSha, NoCommit, @)]

Update(from, to, patch) ==
  /\ <<from, to>> \in Transitions
  /\ FieldsPresent(from, to, patch)
  /\ TransitionJob(from, to, patch)

\* Fault: what is tried again for other reasons counts as a failed attempt, too.
RetryJobCounted(from, expected, kind) ==
  /\ from \in {"implementing", "pr_open"}
  /\ job.phase = from
  /\ job.attempt = expected.attempt
  /\ kind = "failure" => job.implementationAttempt < FailureLimit
  /\ job' = [NewJob EXCEPT
       !.phase = "implementing",
       !.attempt = job.attempt + 1,
       !.implementationAttempt = job.implementationAttempt + 1]

RetryJob(from, expected, kind) ==
  /\ from \in {"implementing", "pr_open"}
  /\ job.phase = from
  /\ job.attempt = expected.attempt
  /\ job.implementationAttempt = expected.implementationAttempt
  /\ kind = "failure" => job.implementationAttempt < FailureLimit
  /\ job' = [NewJob EXCEPT
       !.phase = "implementing",
       !.attempt = job.attempt + 1,
       !.implementationAttempt =
         job.implementationAttempt + (IF kind = "failure" THEN 1 ELSE 0)]

\* Fault: not only what is on its way is given up.
FailReleased ==
  /\ job.phase # "failed"
  /\ TransitionJob(job.phase, "failed", NoPatch)
  /\ proposal' = "failed"
  /\ UNCHANGED <<approved, remote, prs, main, scaffolds, workspace, cli>>

\* The developer gives the job up, and with it the proposal.
Fail ==
  /\ job.phase \in {"queued", "implementing", "pr_open", "merged"}
  /\ proposal = "implementing"
  /\ TransitionJob(job.phase, "failed", NoPatch)
  /\ proposal' = "failed"
  /\ UNCHANGED <<approved, remote, prs, main, scaffolds, workspace, cli>>

\* The developer amends the SPEC in force, as long as the rule is in review.
AmendSpec ==
  /\ proposal = "implementing"
  /\ job.phase \in {"queued", "implementing", "pr_open"}
  /\ approved < MaxSpecs
  /\ approved' = approved + 1
  /\ UNCHANGED <<proposal, job, remote, prs, main, scaffolds, workspace, cli>>

-----------------------------------------------------------------------------
(* GitHub.                                                                 *)

\* The pull request whose code a state of main holds, 0 if none.
CodeAt(n) == IF n = 0 THEN 0 ELSE main[n]
CodeOnMain == CodeAt(Len(main))

OpenPrOf(branch) == {n \in DOMAIN prs : prs[n].branch = branch /\ prs[n].state = "OPEN"}

\* Open pull requests follow their branch.
Pushed(branch, head) ==
  /\ remote' = [remote EXCEPT ![branch] = head]
  /\ prs' = [n \in DOMAIN prs |->
       IF n \in OpenPrOf(branch) THEN [prs[n] EXCEPT !.head = head] ELSE prs[n]]

\* No retry of the job is under way that is about to close its pull request.
NoRetryRunning == cli.at \notin {"close", "delete", "retry"}

\* A pull request may only add its rule to main: changing one is maintenance, a
\* path of its own (scripts/diff-guard.mjs).
MergePr ==
  \E n \in DOMAIN prs :
    /\ prs[n].state = "OPEN"
    /\ MergesOnRecord => job.phase = "pr_open" /\ job.prNumber = n /\ NoRetryRunning
    /\ CodeOnMain = 0 /\ Len(main) < MaxMain
    /\ prs' = [prs EXCEPT ![n].state = "MERGED"]
    /\ main' = Append(main, n)
    /\ UNCHANGED <<proposal, approved, job, remote, scaffolds, workspace, cli>>

ClosePr ==
  \E n \in DOMAIN prs :
    /\ prs[n].state = "OPEN"
    /\ prs' = [prs EXCEPT ![n].state = "CLOSED"]
    /\ UNCHANGED <<proposal, approved, job, remote, main, scaffolds, workspace, cli>>

RevertOnMain ==
  /\ CodeOnMain # 0 /\ Len(main) < MaxMain
  /\ main' = Append(main, 0)
  /\ UNCHANGED <<proposal, approved, job, remote, prs, scaffolds, workspace, cli>>

-----------------------------------------------------------------------------
(* The worker's commands.                                                  *)

\* What a command goes on with after a step.
Onward(step) == cli' = [cli EXCEPT !.at = step]

\* A command begins by reading the job and its SPEC.
Begin(step, kind) ==
  /\ cli.at = "idle"
  /\ job.phase # "failed"
  /\ cli' = [Idle EXCEPT !.at = step, !.job = job, !.spec = approved, !.kind = kind]
  /\ UNCHANGED <<proposal, approved, job, remote, prs, main, scaffolds, workspace>>

\* A command fails, is stopped, or loses the answer to its report.
Abandon ==
  /\ cli.at # "idle"
  /\ cli' = Idle
  /\ UNCHANGED <<proposal, approved, job, remote, prs, main, scaffolds, workspace>>

\* prepare and prepare-resume.
BeginPrepare == Begin("publish", "administrative")

\* The branch is there already: check it against the job and carry on from it.
AdoptBranch(branch) ==
  LET head == remote[branch]
      scaffold == IF cli.job.scaffoldSha = NoCommit THEN head ELSE cli.job.scaffoldSha
  IN  /\ head # NoCommit
      /\ CodeOnMain # 0 => prs[CodeOnMain].head.spec = cli.spec
      /\ head.spec = cli.spec /\ scaffold.spec = cli.spec
      /\ scaffold.scaffold = head.scaffold /\ scaffold.work = 0
      /\ workspace' = [head |-> head, edited |-> FALSE]
      /\ cli' = [cli EXCEPT !.at = "claim", !.scaffold = scaffold]
      /\ UNCHANGED <<remote, prs, scaffolds>>

\* It is not: commit a scaffold on top of main and push it.
PushScaffold(branch) ==
  LET scaffold == [scaffold |-> scaffolds + 1, spec |-> cli.spec, work |-> 0]
  IN  /\ remote[branch] = NoCommit
      /\ CodeOnMain = 0
      /\ scaffolds < MaxScaffolds
      /\ scaffolds' = scaffolds + 1
      /\ Pushed(branch, scaffold)
      /\ workspace' = [head |-> scaffold, edited |-> FALSE]
      /\ cli' = [cli EXCEPT !.at = "claim", !.scaffold = scaffold]

Publish ==
  /\ cli.at = "publish"
  /\ AdoptBranch(cli.job.attempt) \/ PushScaffold(cli.job.attempt)
  /\ UNCHANGED <<proposal, approved, job, main>>

\* Report the branch, unless the job has it on record.
Claim ==
  /\ cli.at = "claim"
  /\ LET seen == cli.job
         patch == [NoPatch EXCEPT !.branch = seen.attempt, !.scaffoldSha = cli.scaffold]
     IN  \/ /\ seen.phase = "queued"
            /\ Update("queued", "implementing", patch)
         \/ /\ seen.phase = "implementing" /\ seen.attempt > 1
            /\ seen.branch = 0 /\ seen.scaffoldSha = NoCommit
            /\ Update("implementing", "implementing", patch)
         \/ /\ seen.phase \in {"implementing", "pr_open"}
            /\ seen.branch = seen.attempt /\ seen.scaffoldSha = cli.scaffold
            /\ UNCHANGED job
  /\ cli' = Idle
  /\ UNCHANGED <<proposal, approved, remote, prs, main, scaffolds, workspace>>

\* The rule is written, or corrected, in the prepared workspace.
Edit ==
  /\ cli.at = "idle"
  /\ workspace.head # NoCommit /\ ~workspace.edited
  /\ workspace.head.work < MaxWorks
  /\ workspace' = [workspace EXCEPT !.edited = TRUE]
  /\ UNCHANGED <<proposal, approved, job, remote, prs, main, scaffolds, cli>>

\* submit: the workspace is inspected against the job and the SPEC in force.
BeginSubmit ==
  /\ job.phase \in {"implementing", "pr_open"}
  /\ job.branch # 0 /\ job.scaffoldSha # NoCommit
  /\ ScaffoldOf(workspace.head) = job.scaffoldSha
  /\ job.scaffoldSha.spec = approved
  /\ workspace.edited \/ workspace.head.work > 0
  /\ Begin("push", "administrative")

\* The push goes through only if it takes the branch forward.
PushWork ==
  /\ cli.at = "push"
  /\ LET branch == cli.job.branch
         head == [workspace.head EXCEPT !.work = @ + (IF workspace.edited THEN 1 ELSE 0)]
     IN  /\ remote[branch] \in {NoCommit, workspace.head}
         /\ Pushed(branch, head)
         /\ workspace' = [head |-> head, edited |-> FALSE]
  /\ Onward("open")
  /\ UNCHANGED <<proposal, approved, job, main, scaffolds>>

\* Use the open pull request of the branch, or open one.
OpenPr ==
  /\ cli.at = "open"
  /\ LET branch == cli.job.branch
         new == [branch |-> branch, head |-> workspace.head, state |-> "OPEN"]
     IN  \/ \E n \in OpenPrOf(branch) :
              /\ prs[n].head = workspace.head
              /\ cli' = [cli EXCEPT !.at = "record", !.pr = n]
              /\ UNCHANGED prs
         \/ /\ OpenPrOf(branch) = {} /\ Len(prs) < MaxPrs
            /\ prs' = Append(prs, new)
            /\ cli' = [cli EXCEPT !.at = "record", !.pr = Len(prs) + 1]
  /\ UNCHANGED <<proposal, approved, job, remote, main, scaffolds, workspace>>

\* Report the pull request; the workspace is then thrown away.
RecordOpened ==
  /\ cli.at = "record"
  /\ Update(cli.job.phase, "pr_open",
            [NoPatch EXCEPT !.prNumber = cli.pr, !.headSha = workspace.head])
  /\ workspace' = NoWorkspace
  /\ cli' = Idle
  /\ UNCHANGED <<proposal, approved, remote, prs, main, scaffolds>>

\* merged and await-merge.
BeginMerged ==
  /\ job.phase = "pr_open" /\ job.prNumber # 0 /\ job.headSha # NoCommit
  /\ Begin("merged", "administrative")

\* Fault: that the pull request is merged is taken for enough.
RecordMergedAnyHead ==
  /\ cli.at = "merged"
  /\ prs[cli.job.prNumber].state = "MERGED"
  /\ Update("pr_open", "merged", [NoPatch EXCEPT !.mergeSha = cli.job.prNumber])
  /\ cli' = Idle
  /\ UNCHANGED <<proposal, approved, remote, prs, main, scaffolds, workspace>>

RecordMerged ==
  /\ cli.at = "merged"
  /\ LET pr == prs[cli.job.prNumber]
     IN  pr.state = "MERGED" /\ pr.head = cli.job.headSha
  /\ Update("pr_open", "merged", [NoPatch EXCEPT !.mergeSha = cli.job.prNumber])
  /\ cli' = Idle
  /\ UNCHANGED <<proposal, approved, remote, prs, main, scaffolds, workspace>>

\* prepare-retry: close the pull request, delete the branch, start over.
BeginRetry(kind) ==
  /\ job.phase \in {"implementing", "pr_open"}
  /\ job.branch # 0
  /\ kind = "failure" => job.implementationAttempt < FailureLimit
  /\ MergesOnRecord /\ job.prNumber # 0 => prs[job.prNumber].state # "MERGED"
  /\ Begin("close", kind)

CloseOldPr ==
  /\ cli.at = "close"
  /\ LET n == cli.job.prNumber
     IN  prs' = IF n # 0 /\ prs[n].state = "OPEN" THEN [prs EXCEPT ![n].state = "CLOSED"]
                ELSE prs
  /\ Onward("delete")
  /\ UNCHANGED <<proposal, approved, job, remote, main, scaffolds, workspace>>

\* GitHub closes the open pull requests of a branch that is deleted.
DeleteOldBranch ==
  /\ cli.at = "delete"
  /\ LET branch == cli.job.branch
     IN  /\ remote' = [remote EXCEPT ![branch] = NoCommit]
         /\ prs' = [n \in DOMAIN prs |->
              IF n \in OpenPrOf(branch) THEN [prs[n] EXCEPT !.state = "CLOSED"] ELSE prs[n]]
  /\ Onward("retry")
  /\ UNCHANGED <<proposal, approved, job, main, scaffolds, workspace>>

\* The command goes on with the SPEC it read when it began.
RecordRetry ==
  /\ cli.at = "retry"
  /\ job.attempt < MaxAttempts
  /\ RetryJob(cli.job.phase, cli.job, cli.kind)
  /\ cli' = [cli EXCEPT !.at = "publish", !.job = job']
  /\ UNCHANGED <<proposal, approved, remote, prs, main, scaffolds, workspace>>

-----------------------------------------------------------------------------
PipelineInit ==
  /\ proposal = "implementing"
  /\ approved = 1
  /\ job = NewJob
  /\ remote = [branch \in 1 .. MaxAttempts |-> NoCommit]
  /\ prs = <<>>
  /\ main = <<>>
  /\ scaffolds = 0
  /\ workspace = NoWorkspace
  /\ cli = Idle

PipelineNext ==
  \/ AmendSpec
  \/ Fail
  \/ MergePr
  \/ ClosePr
  \/ RevertOnMain
  \/ BeginPrepare
  \/ Publish
  \/ Claim
  \/ Edit
  \/ BeginSubmit
  \/ PushWork
  \/ OpenPr
  \/ RecordOpened
  \/ BeginMerged
  \/ RecordMerged
  \/ \E kind \in {"administrative", "failure"} : BeginRetry(kind)
  \/ CloseOldPr
  \/ DeleteOldBranch
  \/ RecordRetry
  \/ Abandon

-----------------------------------------------------------------------------
(* A job on record as merged names a pull request that was merged at the   *)
(* very commit the job has on record as reviewed, and that commit builds   *)
(* on the scaffold the job was given: reports are checked one by one, and  *)
(* merges, pushes, retries and lost reports fall between them.             *)
MergedAsReviewed ==
  job.mergeSha # 0 =>
    /\ job.mergeSha = job.prNumber
    /\ prs[job.mergeSha].state = "MERGED"
    /\ prs[job.mergeSha].head = job.headSha
    /\ ScaffoldOf(job.headSha) = job.scaffoldSha
=============================================================================
