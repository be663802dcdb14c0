-------------------------- MODULE MigrationCutover --------------------------
(***************************************************************************)
(* One Home Assistant rule replaced by Hob's automation, and the way back: *)
(* HomeAutomationMigrationDeployment (packages/hub/src/home/               *)
(* home-automation-migration-deployment.ts) over the workflow row of       *)
(* home-automation-migration-store.ts, with the calls of                   *)
(* home-proposal-service.ts that reach it and the recovery sweep of        *)
(* migration-cutover-recovery.ts.  It begins with a workflow that is ready *)
(* and ends with a rule restored or an automation verified.                *)
(*                                                                         *)
(* Every reading and every command is a request to Home Assistant, and a   *)
(* point where calls interleave and the process may stop.  What follows an *)
(* answer up to the next request is one step; the row of the proposal is   *)
(* kept in a second database and written by a step of its own.             *)
(***************************************************************************)
EXTENDS Naturals, FiniteSets

CONSTANTS
  Call,       \* slots for concurrent calls, sweeps and reconciliation passes
  None,
  MaxAsk,     \* bound on calls, apart from the deployments a sweep resumes
  MaxMeddle,  \* bound on changes made in Home Assistant itself
  MaxLate,    \* bound on unanswered commands that may yet be carried out, at any one time
  MaxCrash    \* bound on restarts of the Hub

Kind == {"enable", "retry", "close", "recover", "pass"}
Path == {"switch", "resume", "putback", "reconcile", "check", "restored", "rollback", "audit"}
Pc   == {"preflight", "source", "target", "stop", "place", "confirm", "settle", "undo",
         "restore", "last", "agree", "recheck", "withdraw", "after", "answer"}

ASSUME CutoverAssumption ==
  /\ MaxAsk \in Nat /\ MaxMeddle \in Nat /\ MaxLate \in Nat /\ MaxCrash \in Nat
  /\ None \notin Kind \cup Path \cup Pc

VARIABLES
  card,      \* the proposal row; `first`: still at the revision that was approved
  workflow,  \* the rule's workflow row: its last operation, whether a deployment was verified
  source,    \* the rule in Home Assistant; gone: deleted, or edited since it was assessed
  target,    \* Hob's automation in Home Assistant; edited: its fingerprint differs
  late,      \* commands the Hub waits for no longer and Home Assistant may yet carry out
  call,      \* slot -> the local state of the call it holds
  overtaken, \* history: calls about to command though the home has changed since they looked
  spent      \* the bounds used up so far

home == <<source, target, late>>
vars == <<card, workflow, source, target, late, call, overtaken, spent>>

Lifecycle == {"ready", "enabling", "active", "enable_failed", "recovery_required", "closed"}
Status    == {"ready", "switching", "verified", "needs_attention", "rolling_back", "restored"}
Reason    == {"source_stale", "switch_failed", "switch_unknown", "verification_failed",
              "rollback_failed", "rollback_unknown"}
Source    == {"running", "paused", "gone"}
Target    == {"missing", "running", "edited"}
Command   == {"stop", "place", "withdraw", "restore"}

Workflow == [status : Status, reason : Reason \cup {None}, op : Nat, deployed : BOOLEAN]

Rest == [kind |-> None, path |-> None, at |-> None, saw |-> None, op |-> 0,
         src |-> None, why |-> None, ok |-> FALSE, fresh |-> FALSE]

Local == [kind : Kind \cup {None}, path : Path \cup {None}, at : Pc \cup {None},
          saw : Workflow \cup {None}, op : Nat, src : Source \cup {None},
          why : Reason \cup {None}, ok : BOOLEAN, fresh : BOOLEAN]

TypeOK ==
  /\ card \in [lifecycle : Lifecycle, first : BOOLEAN]
  /\ workflow \in Workflow
  /\ source \in Source /\ target \in Target
  /\ late \in SUBSET Command
  /\ call \in [Call -> Local] /\ overtaken \in SUBSET Call
  /\ spent \in [ask : 0..MaxAsk, meddle : 0..MaxMeddle, crash : 0..MaxCrash]

Init ==
  /\ card = [lifecycle |-> "ready", first |-> FALSE]
  /\ workflow = [status |-> "ready", reason |-> None, op |-> 0, deployed |-> FALSE]
  /\ source = "running" /\ target = "missing" /\ late = {}
  /\ call = [c \in Call |-> Rest] /\ overtaken = {}
  /\ spent = [ask |-> 0, meddle |-> 0, crash |-> 0]

-----------------------------------------------------------------------------
(* The workflow row: compare-and-set transitions.  An operator yields the row  *)
(* that follows, which is the present one where the store refuses.             *)

\* failRuleWorkflow: the operation must be the row's own.
Failed(from, reason, op) ==
  IF workflow.status = from /\ (from = "ready" \/ workflow.op = op)
  THEN [workflow EXCEPT !.status = "needs_attention", !.reason = reason]
  ELSE workflow

SwitchFailures == {"switch_failed", "switch_unknown"}

\* resumeRuleSwitch
MayResumeSwitch(w, op) ==
  /\ w.status = "needs_attention" /\ w.op \notin {0, op}
  /\ w.reason \in SwitchFailures \/ (w.reason = "verification_failed" /\ ~w.deployed)

\* startRuleRollback and resumeRuleRollback
MayRollBack(w, op, resuming) ==
  \/ ~resuming /\ w.status = "verified"
  \/ /\ resuming /\ w.status = "needs_attention" /\ w.deployed /\ w.op # op
     /\ w.reason \in {"verification_failed", "rollback_failed", "rollback_unknown"}

Operating(w, status, op) == [w EXCEPT !.status = status, !.reason = None, !.op = op]

\* restoreFailedSwitch, with the receipt read again just before
FailedRestored(w, reason) ==
  IF w.status = "needs_attention" /\ w.reason = reason /\ w.op # 0 /\ ~w.deployed
  THEN [w EXCEPT !.status = "restored"]
  ELSE w

-----------------------------------------------------------------------------
(* The home: each step says last what becomes of it.                           *)

\* Between what it saw of the home and its command a call may be overtaken.
Watched ==
  overtaken' = {c \in Call : /\ call[c].at \in {"place", "restore"} /\ call'[c].at = call[c].at
                             /\ c \in overtaken \/ <<source', target'>> # <<source, target>>}

Still == UNCHANGED home /\ Watched

Set(enabled) == IF source = "gone" THEN source ELSE IF enabled THEN "running" ELSE "paused"
Placed       == IF target = "missing" THEN "running" ELSE target

CarriedOut(command) ==
  /\ source' = CASE command = "stop" -> Set(FALSE) [] command = "restore" -> Set(TRUE) [] OTHER -> source
  /\ target' = CASE command = "place" -> Placed [] command = "withdraw" -> "missing" [] OTHER -> target
  /\ Watched

Done(command) == UNCHANGED late /\ CarriedOut(command)

\* The signal ended the wait: it was done, it will never be, or it will be done later.
Unanswered(command) ==
  \/ Done(command)
  \/ /\ late' \in {late, late \cup {command}} /\ Cardinality(late') <= MaxLate
     /\ UNCHANGED <<source, target>> /\ Watched

-----------------------------------------------------------------------------
(* Calls *)

At(c, l)       == call[c].at = l
Deploying(c)   == call[c].kind \in {"enable", "retry"}
Leased         == \E c \in Call : call[c].kind \in {"retry", "close", "recover"}

\* The call goes on at l with the row w.
Go(c, w, l) == workflow' = w /\ call' = [call EXCEPT ![c] = l] /\ UNCHANGED <<card, spent>>
Goto(c, l)  == Go(c, workflow, [call[c] EXCEPT !.at = l])

\* The deployment port answers; the proposal's row is still to be written.
Answered(c, ok) == [Rest EXCEPT !.kind = call[c].kind, !.fresh = call[c].fresh, !.at = "answer", !.ok = ok]
Return(c, w, ok) == Go(c, w, Answered(c, ok))

\* The proposal's row is written by c, whose call ends.
Put(c, lifecycle) ==
  /\ card' = [card EXCEPT !.lifecycle = lifecycle]
  /\ call' = [d \in Call |-> IF d = c THEN Rest ELSE [call[d] EXCEPT !.fresh = FALSE]]
PutIf(allowed, c, lifecycle) ==
  \/ allowed /\ Put(c, lifecycle)
  \/ ~allowed /\ call' = [call EXCEPT ![c] = Rest] /\ UNCHANGED card

\* What a deployment does is decided by the workflow it finds.
DeployPath(first) ==
  LET w == workflow IN
  CASE w.status = "ready" /\ first -> "switch"
    [] w.status = "verified" /\ first -> "check"
    [] w.status = "needs_attention" /\ w.reason \in SwitchFailures /\ w.op # 0 -> "reconcile"
    [] \/ w.status = "switching"
       \/ w.status = "needs_attention" /\ w.reason = "verification_failed" /\ ~w.deployed -> "resume"
    [] OTHER -> None

\* A row restored after a failed switch names no deployment: nothing is read back.
ReturnPath(kind) ==
  LET w == workflow IN
  CASE w.status = "restored" /\ w.deployed -> "restored"
    [] w.status = "needs_attention" /\ w.reason \in SwitchFailures /\ w.op # 0 -> "reconcile"
    [] kind = "close" /\ w.status = "verified" -> "rollback"
    [] kind = "recover" /\ \/ w.status = "rolling_back"
                           \/ w.status = "needs_attention" /\ w.reason \in Reason \ ({"source_stale"} \cup SwitchFailures)
         -> "rollback"
    [] OTHER -> None

\* Slots are interchangeable: a call takes the first that is free.
Free(c) == call[c] = Rest /\ c = CHOOSE d \in Call : call[d] = Rest

\* A call begins; the row of the proposal may be written first.
Begin(c, kind, path, lifecycle, first) ==
  /\ Free(c)
  /\ card' = [lifecycle |-> lifecycle, first |-> first]
  /\ call' = [d \in Call |->
       IF d = c THEN [Rest EXCEPT !.kind = kind, !.path = path, !.saw = workflow, !.fresh = TRUE,
                        !.at = CASE path = None -> "answer"
                                 [] path \in {"switch", "resume"} -> "preflight"
                                 [] path = "reconcile" /\ kind \in {"enable", "retry"} -> "preflight"
                                 [] OTHER -> "source"]
       ELSE [call[d] EXCEPT !.fresh = @ /\ card' = card /\ kind # "recover"]]
  /\ UNCHANGED workflow /\ Still

Asked == spent.ask < MaxAsk /\ spent' = [spent EXCEPT !.ask = @ + 1]

Enable(c) == card.lifecycle = "ready" /\ Asked
             /\ Begin(c, "enable", DeployPath(TRUE), "enabling", TRUE)
Retry(c)  == card.lifecycle = "enable_failed" /\ ~Leased /\ Asked
             /\ Begin(c, "retry", DeployPath(FALSE), "enabling", FALSE)
Close(c)  == card.lifecycle \in {"active", "enable_failed"} /\ ~Leased /\ Asked
             /\ Begin(c, "close", ReturnPath("close"), card.lifecycle, card.first)
Recover(c) == card.lifecycle = "recovery_required" /\ ~Leased /\ Asked
             /\ Begin(c, "recover", ReturnPath("recover"), card.lifecycle, card.first)

\* workflowAction: what the sweep resumes of the decisions already made.
OnlyFailures ==                                \* mutant: a switch a crash interrupted is not resumed
  card.lifecycle = "enabling" /\ workflow.status \in {"ready", "verified", "needs_attention"}
Resumable ==
  \/ card.lifecycle = "enabling" /\ workflow.status \in {"ready", "switching", "verified"}
  \/ /\ card.lifecycle = "enabling" /\ workflow.status = "needs_attention"
     /\ workflow.reason \in SwitchFailures \cup {"verification_failed"} /\ ~workflow.deployed
Recoverable ==
  /\ card.lifecycle = "recovery_required"
  /\ \/ workflow.status = "rolling_back"
     \/ /\ workflow.status = "needs_attention"
        /\ workflow.reason \in {"verification_failed", "rollback_failed", "rollback_unknown"}

\* MigrationCutoverRecoveryCoordinator, at start-up and when a bridge is ready again
Sweep(c) ==
  /\ ~Leased
  /\ \/ Resumable /\ UNCHANGED spent
          /\ Begin(c, "retry", DeployPath(card.first), "enabling", card.first)
     \/ Recoverable /\ Asked /\ Begin(c, "recover", ReturnPath("recover"), card.lifecycle, card.first)

-----------------------------------------------------------------------------
(* Looking before anything is written *)

\* What a refused look leaves in the workflow's row.
Refusal(c, cause) ==
  LET l == call[c] IN
  CASE l.path = "switch" ->
         Failed("ready", IF cause = "unknown" THEN "switch_unknown" ELSE "source_stale", 0)
    [] l.path = "resume" /\ l.saw.status = "switching" ->
         Failed("switching", CASE cause = "unknown" -> "switch_unknown"
                               [] cause = "stale" -> "switch_failed"
                               [] OTHER -> "verification_failed", l.saw.op)
    [] l.path = "rollback" /\ l.kind = "close" -> Failed("verified", "verification_failed", l.saw.op)
    [] l.path = "rollback" /\ l.saw.status = "rolling_back" /\ l.at = "target" ->
         Failed("rolling_back", IF cause = "unknown" THEN "rollback_unknown" ELSE "rollback_failed", l.saw.op)
    [] OTHER -> workflow

Refuse(c, cause) == Return(c, Refusal(c, cause), FALSE)

\* Device semantics and, for a first switch, the catalog of the other rules
Preflight(c) ==
  /\ At(c, "preflight")
  /\ \/ Refuse(c, "blocked")
     \/ Goto(c, "source")
  /\ Still

StartSwitch(c) ==
  IF workflow.status = "ready"
  THEN Go(c, Operating(workflow, "switching", 1), [call[c] EXCEPT !.at = "stop", !.op = 1])
  ELSE Return(c, workflow, FALSE)

LookSource(c) ==
  /\ At(c, "source") /\ call[c].kind # "pass"
  /\ \/ Refuse(c, "unknown")
     \/ source = "gone" /\ Refuse(c, "stale")
     \/ call[c].path = "switch" /\ source = "paused" /\ Refuse(c, "stale")
     \/ call[c].path = "switch" /\ source = "running" /\ StartSwitch(c)
     \/ call[c].path # "switch" /\ source # "gone"
          /\ Go(c, workflow, [call[c] EXCEPT !.at = "target", !.src = source])
  /\ Still

\* A crash left the row in the middle: its operation is closed as unknown, a
\* fresh one opened.
Resume(c) ==
  LET l  == call[c]
      op == l.saw.op + 1
      w  == IF l.saw.status = "switching" THEN Failed("switching", "switch_unknown", l.saw.op) ELSE workflow IN
  IF ~MayResumeSwitch(w, op) THEN Return(c, w, FALSE)
  ELSE Go(c, Operating(w, "switching", op),
          IF l.src = "running" THEN [l EXCEPT !.at = "stop", !.op = op]
          ELSE [l EXCEPT !.at = "restore", !.op = op, !.why = "switch_failed", !.path = "putback"])

PutBackIsDone(c) ==                            \* mutant: a rule put back counts as the deployment
  LET w == FailedRestored(workflow, call[c].saw.reason) IN Return(c, w, w # workflow)
Reconcile(c) ==
  LET l  == call[c]
      op == l.saw.op + 1
      w  == FailedRestored(workflow, l.saw.reason) IN
  IF l.src = "running" THEN Return(c, w, w # workflow /\ ~Deploying(c))
  ELSE IF ~MayResumeSwitch(workflow, op) THEN Return(c, workflow, FALSE)
  ELSE Go(c, Operating(workflow, "switching", op),
          [l EXCEPT !.at = "restore", !.op = op, !.why = l.saw.reason])

RollBack(c) ==
  LET l  == call[c]
      op == l.saw.op + 1
      w  == IF l.saw.status = "rolling_back" THEN Failed("rolling_back", "rollback_unknown", l.saw.op)
            ELSE workflow IN
  IF ~MayRollBack(w, op, l.kind = "recover") THEN Return(c, w, FALSE)
  ELSE Go(c, Operating(w, "rolling_back", op),
          [l EXCEPT !.at = "recheck", !.op = op, !.why = "rollback_failed"])

\* A target left by a failed switch has no recorded fingerprint: it is foreign.
LookTarget(c) ==
  LET l == call[c] IN
  /\ At(c, "target") /\ l.kind # "pass"
  /\ \/ Refuse(c, "unknown")
     \/ l.path \in {"resume", "reconcile"} /\ target # "missing" /\ Refuse(c, "foreign")
     \/ l.path = "rollback" /\ target = "edited" /\ Refuse(c, "foreign")
     \/ l.path = "resume" /\ target = "missing" /\ Resume(c)
     \/ l.path = "reconcile" /\ target = "missing" /\ Reconcile(c)
     \/ l.path = "rollback" /\ target # "edited" /\ RollBack(c)
     \/ l.path = "check" /\ Return(c, workflow, l.src = "paused" /\ target = "running")
     \/ l.path = "restored" /\ Return(c, workflow, l.src = "running" /\ target = "missing")
  /\ Still

-----------------------------------------------------------------------------
(* Switching: stop the rule, create the automation, read both back             *)

Fail(c, reason) ==
  Return(c, Failed(IF call[c].path = "rollback" THEN "rolling_back" ELSE "switching", reason, call[c].op), FALSE)
Unknown(c) == Fail(c, IF call[c].path = "rollback" THEN "rollback_unknown" ELSE "switch_unknown")
Undo(c, why) == Go(c, workflow, [call[c] EXCEPT !.at = "undo", !.why = why])

\* A command is done, refused, or stays unanswered.
Stop(c) ==
  /\ At(c, "stop")
  /\ \/ source # "gone" /\ Goto(c, "place") /\ Done("stop")
     \/ Fail(c, "switch_failed") /\ Still
     \/ Unknown(c) /\ Unanswered("stop")

\* The deployment answers that it failed where it has no answer itself.
Place(c) ==
  /\ At(c, "place")
  /\ \/ target # "edited" /\ Goto(c, "confirm") /\ Done("place")
     \/ /\ \/ Undo(c, "switch_failed")
           \/ call[c].path = "switch" /\ Undo(c, "verification_failed")
           \/ call[c].path # "switch" /\ Unknown(c)
        /\ Unanswered("place")

Confirm(c) ==
  /\ At(c, "confirm")
  /\ \/ Unknown(c)
     \/ target = "running" /\ Goto(c, "settle")
     \/ target # "running" /\ Undo(c, "verification_failed")
  /\ Still

\* verifyRuleSwitch, of the operation that is still the row's
Verify(c) ==
  IF workflow.status = "switching" /\ workflow.op = call[c].op
  THEN Return(c, [workflow EXCEPT !.status = "verified", !.deployed = TRUE], TRUE)
  ELSE Return(c, workflow, FALSE)

Settle(c) ==
  /\ At(c, "settle")
  /\ \/ Unknown(c)
     \/ source = "paused" /\ Verify(c)
     \/ source # "paused" /\ Undo(c, "verification_failed")
  /\ Still

-----------------------------------------------------------------------------
(* The way back: withdraw the automation, let the rule run, read both back     *)

\* recoverKnownFailure does not withdraw what it cannot identify.
RestoresAnyway(c) ==                           \* mutant: the rule is restored beside the automation
  /\ At(c, "undo")
  /\ \/ Unknown(c)
     \/ Goto(c, "restore")
  /\ Still
UndoTarget(c) ==
  /\ At(c, "undo")
  /\ \/ Unknown(c)
     \/ target = "missing" /\ Goto(c, "restore")
     \/ target # "missing" /\ Fail(c, "verification_failed")
  /\ Still

Onwards(c) == Goto(c, IF call[c].src = "paused" THEN "restore" ELSE "last")

Recheck(c) ==
  /\ At(c, "recheck")
  /\ \/ Unknown(c)
     \/ target = "edited" /\ Fail(c, "rollback_failed")
     \/ target = "missing" /\ Onwards(c)
     \/ target = "running" /\ Goto(c, "withdraw")
  /\ Still

\* Not restored covers an answer that is unknown; a call that throws does not.
Withdraw(c) ==
  /\ At(c, "withdraw")
  /\ \/ Goto(c, "after") /\ Done("withdraw")
     \/ (Fail(c, "rollback_failed") \/ Unknown(c)) /\ Unanswered("withdraw")

WithdrawnIsDone(c) ==                          \* mutant: the rule itself is not restored
  /\ At(c, "after")
  /\ Return(c, workflow, target = "missing")
  /\ Still
Withdrawn(c) ==
  /\ At(c, "after")
  /\ \/ Unknown(c)
     \/ target = "missing" /\ Onwards(c)
     \/ target # "missing" /\ Fail(c, "rollback_failed")
  /\ Still

Restore(c) ==
  /\ At(c, "restore")
  /\ \/ source # "gone" /\ Goto(c, "last") /\ Done("restore")
     \/ Fail(c, call[c].why) /\ Still
     \/ Unknown(c) /\ Unanswered("restore")

\* A rule that was put back before anything was created is only read itself.
LastSource(c) ==
  /\ At(c, "last")
  /\ \/ Unknown(c)
     \/ call[c].path = "putback" /\ IF source = "running" THEN Fail(c, call[c].why) ELSE Unknown(c)
     \/ call[c].path # "putback" /\ Go(c, workflow, [call[c] EXCEPT !.at = "agree", !.src = source])
  /\ Still

\* Both were read back: the failure is recorded and, where it is a failure of the
\* switch, closed as restored; a rollback is restored.
Conclude(c) ==
  LET l      == call[c]
      failed == Failed("switching", l.why, l.op)
      closed == FailedRestored(failed, l.why) IN
  CASE l.path = "rollback" /\ workflow.status = "rolling_back" /\ workflow.op = l.op ->
         Return(c, [workflow EXCEPT !.status = "restored"], TRUE)
    [] l.path = "rollback" /\ ~(workflow.status = "rolling_back" /\ workflow.op = l.op) ->
         Return(c, workflow, FALSE)
    [] l.path # "rollback" /\ l.why = "verification_failed" -> Return(c, failed, FALSE)
    [] OTHER -> Return(c, closed, l.path = "reconcile" /\ ~Deploying(c) /\ closed # failed)

LastTarget(c) ==
  LET agreed == call[c].src = "running" /\ target = "missing" IN
  /\ At(c, "agree")
  /\ \/ Unknown(c)
     \/ agreed /\ Conclude(c)
     \/ ~agreed /\ Fail(c, call[c].why)
  /\ Still

-----------------------------------------------------------------------------
(* The proposal's row: recordProposalDeployment, closeAutomation or            *)
(* markRecoveryRequired, completeRecovery or recordRecoveryFailure.            *)

Answer(c) ==
  LET l == call[c] IN
  /\ At(c, "answer")
  /\ \/ /\ Deploying(c)
        /\ PutIf(card.lifecycle = "enabling" /\ l.fresh, c, IF l.ok THEN "active" ELSE "enable_failed")
     \/ /\ l.kind = "close"
        /\ PutIf(card.lifecycle \in {"active", "enable_failed"}, c,
                 IF l.ok THEN "closed" ELSE "recovery_required")
     \/ /\ l.kind = "recover"
        /\ PutIf(card.lifecycle = "recovery_required" /\ l.fresh, c,
                 IF l.ok THEN "closed" ELSE "recovery_required")
     \/ /\ l.kind = "pass"
        /\ PutIf(card.lifecycle = "active", c, "recovery_required")
  /\ UNCHANGED <<workflow, spent>> /\ Still

-----------------------------------------------------------------------------
(* reconcileAutomations on the migration lane: a verified automation is read   *)
(* back, and its deviation recorded.                                           *)

FailedVerified == workflow.status = "needs_attention" /\ workflow.reason = "verification_failed" /\ workflow.deployed

PassStart(c) ==
  /\ Free(c) /\ card.lifecycle = "active"
  /\ workflow.status = "verified" \/ FailedVerified
  /\ Go(c, workflow, [Rest EXCEPT !.kind = "pass", !.path = "audit", !.saw = workflow,
                                  !.at = IF FailedVerified THEN "answer" ELSE "source"])
  /\ Still

\* verifiedReconciliationFailure: recorded only if the row is still the one seen
Deviates(c) ==
  LET w == Failed("verified", "verification_failed", call[c].saw.op) IN
  Go(c, w, IF w = workflow THEN Rest ELSE Answered(c, FALSE))

PassSource(c) ==
  /\ At(c, "source") /\ call[c].kind = "pass"
  /\ \/ Deviates(c)
     \/ source = "paused" /\ Goto(c, "target")
  /\ Still

PassTarget(c) ==
  /\ At(c, "target") /\ call[c].kind = "pass"
  /\ \/ Deviates(c)
     \/ target # "missing" /\ Go(c, workflow, Rest)
  /\ Still

-----------------------------------------------------------------------------
(* The household in Home Assistant, late commands, and the process             *)

Meddle ==
  /\ spent.meddle < MaxMeddle
  /\ \/ source' \in Source \ {source} /\ UNCHANGED target
     \/ target = "running" /\ target' \in {"missing", "edited"} /\ UNCHANGED source
  /\ spent' = [spent EXCEPT !.meddle = @ + 1]
  /\ UNCHANGED <<card, workflow, late, call>> /\ Watched

\* A command is carried out though the Hub, or the Hub before a crash, gave it up.
Late ==
  \E command \in late :
    /\ late' = late \ {command}
    /\ UNCHANGED <<card, workflow, call, spent>> /\ CarriedOut(command)

Restart ==
  /\ spent.crash < MaxCrash
  /\ spent' = [spent EXCEPT !.crash = @ + 1]
  /\ call' = [c \in Call |-> Rest]
  /\ UNCHANGED <<card, workflow>> /\ Still

Continue(c) ==
  \/ Preflight(c)  \/ LookSource(c) \/ LookTarget(c)
  \/ Stop(c)       \/ Place(c)      \/ Confirm(c)    \/ Settle(c)
  \/ UndoTarget(c) \/ Recheck(c)    \/ Withdraw(c)   \/ Withdrawn(c)
  \/ Restore(c)    \/ LastSource(c) \/ LastTarget(c)
  \/ PassSource(c) \/ PassTarget(c) \/ Answer(c)

Next ==
  \/ \E c \in Call : \/ Enable(c) \/ Retry(c) \/ Close(c) \/ Recover(c)
                     \/ Sweep(c)  \/ PassStart(c) \/ Continue(c)
  \/ Meddle \/ Late \/ Restart

Spec == Init /\ [][Next]_vars

(* Every request has a deadline, and bridges become ready again and again.     *)
FairSpec ==
  /\ Spec
  /\ \A c \in Call : WF_vars(Continue(c))
  /\ SF_vars(\E c \in Call : Sweep(c))

-----------------------------------------------------------------------------

Both == source = "running" /\ target = "running"

(* No command of the Hub makes the rule and the automation that replaces it run *)
(* together as long as the home is what the call saw before it: not after a     *)
(* crash between two commands, an unanswered command, a retry or a rollback     *)
(* (deploy, recoverKnownFailure, recover, withdraw).  What does is an edit in   *)
(* Home Assistant, a command carried out after its deadline, and a command on a *)
(* home one of these, or a call beside, has changed since.                      *)
NeverBoth ==
  [][~Both /\ Both' => \/ spent'.meddle # spent.meddle
                       \/ late' # late /\ UNCHANGED call
                       \/ \E c \in overtaken : call'[c] # call[c]]_vars

(* docs/phase-0-5-ha-migration.md:136: the rule and the automation never run    *)
(* together by the Hub's doing.                                                 *)
NeverTogether == [][~Both /\ Both' => spent'.meddle # spent.meddle]_vars

(* A proposal is closed only when its workflow has been read back as restored  *)
(* (closeAutomation and completeRecovery against the migration's own row).     *)
ClosedIsRestored == card.lifecycle = "closed" => workflow.status = "restored"

(* An automation is shown as active only if the very switch that placed it was  *)
(* read back and verified, whoever decided the proposal last (retryEnableOnce, *)
(* recordProposalDeployment).                                                  *)
ActiveWasVerified == card.lifecycle = "active" => workflow.deployed

(* A switch the household decided is not left in the middle behind its back:    *)
(* after a crash, a lost answer or a lost race it is verified or its failure    *)
(* recorded, or its card is failed, which the household may take up again       *)
(* (MigrationCutoverRecoveryCoordinator, recoverSwitchDeployment).              *)
DecidedSwitchEnds ==
  workflow.status = "switching" /\ card.lifecycle = "enabling"
    ~> workflow.status # "switching" \/ card.lifecycle = "enable_failed"

=============================================================================
