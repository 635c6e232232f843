------------------------------ MODULE Release ------------------------------
(***************************************************************************)
(* From main into the sets: images of the server, the registry of rules    *)
(* (rules/service.ts, rules/repository.ts), the switches the developer has *)
(* over a rule and its elimination by votes (evaluation/repository.ts),    *)
(* for the rule of one proposal.  Which votes there are is left open.      *)
(*                                                                         *)
(* The registry is synchronized with the code of the running image when    *)
(* the server starts and whenever the rule is looked up.  What the rule's  *)
(* row of rule_versions says of its origin is copied from the job.  The    *)
(* code of the rule carries the same version number in whatever pull       *)
(* request it comes, so that there is one such row.                        *)
(***************************************************************************)
EXTENDS Pipeline

CONSTANT IncidentThreshold  \* AUTO_DISABLE_SET_THRESHOLD

ASSUME IncidentAssumption == IncidentThreshold \in Nat \ {0}

VARIABLES
  rule,      \* the row of rules
  version,   \* the row of rule_versions
  images,    \* the lengths of main that were released
  served,    \* the one of the running image
  incidents  \* sets in which the rule failed within the last 24 hours

releaseVars == <<rule, version, images, served, incidents>>
vars == <<pipelineVars, releaseVars>>

\* The code of the rule in an image; what names it is its bundle hash.
BundleAt(n) == IF CodeAt(n) = 0 THEN NoCommit ELSE prs[CodeAt(n)].head

NoRule == [status |-> "absent", reason |-> "none"]
Disabled(reason) == [status |-> "disabled", reason |-> reason]
Active == [status |-> "active", reason |-> "none"]
Removed == [status |-> "removed", reason |-> "none"]
Reasons == {"pending_enable", "manual", "rollback", "auto_incident"}

NoVersion == [state |-> "none", prNumber |-> 0, mergeSha |-> 0, bundle |-> NoCommit]
Version == [state : {"none", "current", "reverted"}, prNumber : 0 .. MaxPrs,
            mergeSha : 0 .. MaxPrs, bundle : Commit \cup {NoCommit}]

ReleaseTypeOK ==
  /\ rule \in {NoRule, Active, Removed} \cup {Disabled(reason) : reason \in Reasons}
  /\ version \in Version
  /\ images \subseteq 0 .. MaxMain
  /\ served \in images
  /\ incidents \in 0 .. IncidentThreshold

-----------------------------------------------------------------------------
(* The registry.                                                           *)

\* Fault: a job on its way is source enough.
SourceReadyEarly ==
  \/ proposal = "implementing" /\ job.phase \in {"pr_open", "merged"}
  \/ proposal = "released" /\ job.phase = "done"

\* #releaseSourceIssue: the job says where the code comes from.
SourceReady ==
  \/ proposal = "implementing" /\ job.phase = "merged"
  \/ proposal = "released" /\ job.phase = "done"

\* versionIssue: the row, the job and the code that runs agree.
VersionFits ==
  /\ version.state = "current"
  /\ version.prNumber = job.prNumber /\ version.mergeSha = job.mergeSha
  /\ version.bundle = BundleAt(served)

\* availableRules: the rule is handed to new sets.
Offered ==
  /\ rule.status = "active"
  /\ BundleAt(served) # NoCommit
  /\ proposal = "released" /\ job.phase = "done"
  /\ VersionFits

\* Fault: code that comes back is registered again.
SynchronizeAgain(bundle) ==
  CASE bundle # NoCommit /\ SourceReady /\ version.state # "current" ->
         /\ rule' = IF rule = NoRule THEN Disabled("pending_enable") ELSE rule
         /\ version' = [state |-> "current", prNumber |-> job.prNumber,
                        mergeSha |-> job.mergeSha, bundle |-> bundle]
    [] bundle = NoCommit /\ version.state = "current" ->
         /\ rule' = IF rule = Removed THEN rule ELSE Disabled("rollback")
         /\ version' = [version EXCEPT !.state = "reverted"]
    [] OTHER -> UNCHANGED <<rule, version>>

\* synchronizeCodeRegistry, when the image holds the code of bundle.
Synchronize(bundle) ==
  CASE bundle # NoCommit /\ SourceReady /\ version.state = "none" ->
         /\ rule' = IF rule = NoRule THEN Disabled("pending_enable") ELSE rule
         /\ version' = [state |-> "current", prNumber |-> job.prNumber,
                        mergeSha |-> job.mergeSha, bundle |-> bundle]
    [] bundle = NoCommit /\ version.state = "current" ->
         /\ rule' = IF rule = Removed THEN rule ELSE Disabled("rollback")
         /\ version' = [version EXCEPT !.state = "reverted"]
    [] OTHER -> UNCHANGED <<rule, version>>

-----------------------------------------------------------------------------
(* Main is pushed to release, by the worker's deploy or by hand, and an    *)
(* image is built of it.  The server is started with the newest image, the *)
(* same one once more, or an older one that is deployed again.             *)

PushRelease ==
  /\ Len(main) \notin images
  /\ images' = images \cup {Len(main)}
  /\ UNCHANGED <<pipelineVars, rule, version, served, incidents>>

StartServer ==
  \E image \in images :
    /\ served' = image
    /\ Synchronize(BundleAt(image))
    /\ UNCHANGED <<pipelineVars, images, incidents>>

\* The rule is looked up.
GetRule ==
  /\ Synchronize(BundleAt(served))
  /\ UNCHANGED <<pipelineVars, images, served, incidents>>

\* Fault: the first time, only the job is brought to its end.
EnableJobOnly ==
  /\ rule.status = "disabled"
  /\ BundleAt(served) # NoCommit
  /\ VersionFits
  /\ \/ proposal = "implementing" /\ TransitionJob("merged", "done", NoPatch)
     \/ proposal = "released" /\ job.phase = "done" /\ UNCHANGED job
  /\ rule' = Active
  /\ UNCHANGED <<proposal, approved, remote, prs, main, scaffolds, workspace, cli>>
  /\ UNCHANGED <<version, images, served, incidents>>

\* The rule is enabled; the first time, this releases the proposal.
Enable ==
  /\ rule.status = "disabled"
  /\ BundleAt(served) # NoCommit
  /\ VersionFits
  /\ \/ /\ proposal = "implementing" /\ job.phase = "merged"
        /\ TransitionJob("merged", "done", NoPatch)
        /\ proposal' = "released"
     \/ /\ proposal = "released" /\ job.phase = "done"
        /\ UNCHANGED <<job, proposal>>
  /\ rule' = Active
  /\ UNCHANGED <<approved, remote, prs, main, scaffolds, workspace, cli>>
  /\ UNCHANGED <<version, images, served, incidents>>

Disable(reason) ==
  /\ rule \notin {NoRule, Removed, Disabled("pending_enable"), Disabled(reason)}
  /\ rule' = Disabled(reason)
  /\ UNCHANGED <<pipelineVars, version, images, served, incidents>>

\* The rule fails in a set that has it, which may have begun before the rule was
\* taken out, or cannot be handed to one.  A set that has failed before does not
\* count again.
RecordIncident ==
  /\ proposal = "released"
  /\ incidents' \in {incidents, incidents + 1} \cap 1 .. IncidentThreshold
  /\ rule' = IF incidents' >= IncidentThreshold /\ rule.status = "active"
             THEN Disabled("auto_incident") ELSE rule
  /\ UNCHANGED <<pipelineVars, version, images, served>>

\* The oldest of them were more than 24 hours ago.
IncidentsLapse ==
  /\ incidents > 0
  /\ incidents' \in 0 .. incidents - 1
  /\ UNCHANGED <<pipelineVars, rule, version, images, served>>

\* evaluateElimination: the votes are against a rule that is active.
Eliminate ==
  /\ rule = Active
  /\ rule' = Removed
  /\ UNCHANGED <<pipelineVars, version, images, served, incidents>>

\* reinstate: the operator takes the elimination back, whatever code runs.
Reinstate ==
  /\ rule = Removed
  /\ rule' = Active
  /\ UNCHANGED <<pipelineVars, version, images, served, incidents>>

Init ==
  /\ PipelineInit
  /\ rule = NoRule
  /\ version = NoVersion
  /\ images = {0}
  /\ served = 0
  /\ incidents = 0

Next ==
  \/ PipelineNext /\ UNCHANGED releaseVars
  \/ PushRelease
  \/ StartServer
  \/ GetRule
  \/ Enable
  \/ \E reason \in {"manual", "rollback"} : Disable(reason)
  \/ RecordIncident
  \/ IncidentsLapse
  \/ Eliminate
  \/ Reinstate

Spec == Init /\ [][Next]_vars

-----------------------------------------------------------------------------
TypeOK == PipelineTypeOK /\ ReleaseTypeOK

(* The proposal, its job and its rule are three rows that three services   *)
(* write: a proposal is released exactly when its job is done, and only    *)
(* then may the rule be active, or removed by the votes; a proposal is     *)
(* given up exactly with its job.                                          *)
StatusesAgree ==
  /\ proposal = "released" <=> job.phase = "done"
  /\ proposal = "failed" <=> job.phase = "failed"
  /\ rule.status \in {"active", "removed"} => proposal = "released"
  /\ rule # NoRule <=> version # NoVersion

(* What the registry holds of a rule's origin is what its job has on       *)
(* record, from the merge on and whatever is reported afterwards.          *)
ProvenanceKept ==
  version # NoVersion =>
    /\ job.phase \in {"merged", "done", "failed"}
    /\ version.prNumber = job.prNumber /\ version.mergeSha = job.mergeSha

(* A rule whose code has once been missing from the image that ran is not  *)
(* handed to sets again, though the code comes back with a later or an     *)
(* older image, the developer enables the rule or the operator reinstates  *)
(* one that the votes had removed.                                         *)
RevertedStaysOut ==
  [][version.state = "reverted" => version'.state = "reverted" /\ ~Offered']_vars

(* The code that new sets are given is the code of the merge the job has   *)
(* on record, not merely code that is registered under its number.         *)
PlayedIsAccepted ==
  Offered => BundleAt(served) = prs[job.mergeSha].head

(* The pipeline implements RuleDelivery, with the commits as               *)
(* implementations.                                                        *)
StageOf == [queued |-> "approved", implementing |-> "making", pr_open |-> "review",
            merged |-> "accepted", done |-> "live", failed |-> "dropped"]

Delivery == INSTANCE RuleDelivery WITH
  Works <- Commit,
  NoWork <- NoCommit,
  stage <- StageOf[job.phase],
  underEye <- job.headSha,
  product <- IF job.mergeSha = 0 THEN NoCommit ELSE prs[job.mergeSha].head,
  inPlay <- IF Offered THEN BundleAt(served) ELSE NoCommit

ImplementsDelivery == Delivery!Spec
=============================================================================
