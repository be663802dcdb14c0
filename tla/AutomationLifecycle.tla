------------------------- MODULE AutomationLifecycle -------------------------
(***************************************************************************)
(* One automation from the household's approval to its end:                *)
(* HomeProposalService (packages/hub/src/home/home-proposal-service.ts)    *)
(* with the lifecycle transitions of the store, the deployment port        *)
(* (bridge-automation-deployment.ts) and the automation commands of the    *)
(* Home Assistant bridge.  It begins where ProposalStore!Enable ends and   *)
(* covers the standard review lane.                                        *)
(*                                                                         *)
(* A bridge command looks (probe), acts (write) and looks again (confirm); *)
(* each is a request to Home Assistant and a point where calls interleave. *)
(* Its last answer and the store transition that follows are one step.     *)
(* The store's revision is abstracted to what a call uses it for: `fresh`, *)
(* nobody has written the card since the call read or wrote it.            *)
(***************************************************************************)
EXTENDS Naturals

CONSTANTS
  Call,       \* slots for concurrent calls and reconciliation passes
  None,
  MaxAsk,     \* bound on the household's calls
  MaxMeddle,  \* bound on changes made in Home Assistant itself
  MaxCrash    \* bound on restarts of the Hub

ASSUME LifecycleAssumption ==
  /\ MaxAsk \in Nat /\ MaxMeddle \in Nat /\ MaxCrash \in Nat
  /\ None \notin {"ready", "enabling", "active", "paused", "enable_failed", "closed"}

VARIABLES
  card,    \* the proposal row: its lifecycle, and whether closing restored the home
  native,  \* what Home Assistant runs under the deployment's id
  call,    \* slot -> the local state of the call it holds
  spent    \* the bounds used up so far

vars == <<card, native, call, spent>>

Lifecycle == {"ready", "enabling", "active", "paused", "enable_failed", "closed"}
Native    == {"missing", "running", "paused"}
Kind      == {"enable", "retry", "pause", "resume", "close", "pass"}

Rest == [kind |-> None, at |-> None, fresh |-> FALSE, seen |-> None, observed |-> None]

Local == [kind : Kind \cup {None}, at : {"probe", "write", "confirm", "read", "apply", None},
          fresh : BOOLEAN, seen : Lifecycle \cup {None}, observed : Native \cup {None}]

TypeOK ==
  /\ card \in [lifecycle : Lifecycle, restored : BOOLEAN]
  /\ native \in Native
  /\ call \in [Call -> Local]
  /\ spent \in [ask : 0..MaxAsk, meddle : 0..MaxMeddle, crash : 0..MaxCrash]

Init ==
  /\ card = [lifecycle |-> "ready", restored |-> FALSE]
  /\ native = "missing"
  /\ call = [c \in Call |-> Rest]
  /\ spent = [ask |-> 0, meddle |-> 0, crash |-> 0]

-----------------------------------------------------------------------------
(* Store transitions and calls *)

Idle(c)    == call[c] = Rest
In(c, k, l) == call[c].kind \in k /\ call[c].at = l
Deploying  == {"enable", "retry"}
Toggling   == {"pause", "resume"}
Wanted(c)  == IF call[c].kind = "pause" THEN "paused" ELSE "active"
AskedFor(c) == IF call[c].kind = "pause" THEN "paused" ELSE "running"

\* The card is written by c, whose local state becomes l; every other call's
\* expected revision is now out of date.
Put(c, lifecycle, restored, l) ==
  /\ card' = [lifecycle |-> lifecycle, restored |-> restored]
  /\ call' = [d \in Call |-> IF d = c THEN l ELSE [call[d] EXCEPT !.fresh = FALSE]]

End(c)     == call' = [call EXCEPT ![c] = Rest] /\ UNCHANGED card
Goto(c, l) == call' = [call EXCEPT ![c].at = l] /\ UNCHANGED card

\* One writer's transition, or its error, ends the call.
PutIf(allowed, c, lifecycle, restored) ==
  \/ allowed /\ Put(c, lifecycle, restored, Rest)
  \/ ~allowed /\ End(c)

RecordLate(c) == TRUE                          \* mutant: no check of lifecycle and revision
MayRecord(c) == card.lifecycle = "enabling" /\ call[c].fresh

\* recordProposalDeployment
Record(c, verified) ==
  PutIf(MayRecord(c), c, IF verified THEN "active" ELSE "enable_failed", card.restored)

\* SqliteProposalStore.closeAutomation
CloseCard(c, restored) ==
  PutIf(card.lifecycle \in {"active", "paused", "enable_failed"}, c, "closed", restored)

\* claimAutomationMutation: a second call of the same kind joins the first and
\* does nothing of its own, one of another kind is refused.
Leased == \E c \in Call : call[c].kind \in {"retry", "close"}

\* A household call: pages may be stale, so only the code's checks guard it.
Ask(c, k, lifecycle) ==
  /\ Idle(c) /\ spent.ask < MaxAsk
  /\ spent' = [spent EXCEPT !.ask = @ + 1]
  /\ Put(c, lifecycle, card.restored, [Rest EXCEPT !.kind = k, !.at = "probe", !.fresh = TRUE])
  /\ UNCHANGED native

Enable(c) == card.lifecycle = "ready" /\ Ask(c, "enable", "enabling")
Retry(c)  == card.lifecycle = "enable_failed" /\ ~Leased /\ Ask(c, "retry", "enabling")
Pause(c)  == card.lifecycle = "active" /\ Ask(c, "pause", "paused")
Resume(c) == card.lifecycle = "paused" /\ Ask(c, "resume", "active")

\* Closing withdraws first and asks the store afterwards.
Close(c) ==
  /\ card.lifecycle # "ready" /\ ~Leased
  /\ Idle(c) /\ spent.ask < MaxAsk
  /\ spent' = [spent EXCEPT !.ask = @ + 1]
  /\ call' = [call EXCEPT ![c] = [Rest EXCEPT !.kind = "close", !.at = "probe"]]
  /\ UNCHANGED <<card, native>>

-----------------------------------------------------------------------------
(* Deployment *)

\* An automation that is there already, unchanged, counts as deployed; what
\* cannot be read or compiled, or was edited, is refused.
DeployProbe(c) ==
  /\ In(c, Deploying, "probe")
  /\ \/ native = "missing" /\ Goto(c, "write")
     \/ native # "missing" /\ Record(c, TRUE)
     \/ Record(c, FALSE)
  /\ UNCHANGED <<native, spent>>

Created == IF native = "missing" THEN "running" ELSE native

\* The request may be refused, or stay unanswered whether it was carried out or
\* not: an unknown outcome is recorded as a failure.
DeployWrite(c) ==
  /\ In(c, Deploying, "write")
  /\ \/ native' = Created /\ Goto(c, "confirm")
     \/ native' \in {native, Created} /\ Record(c, FALSE)
  /\ UNCHANGED spent

DeployConfirm(c) ==
  /\ In(c, Deploying, "confirm")
  /\ \/ native # "missing" /\ Record(c, TRUE)
     \/ Record(c, FALSE)
  /\ UNCHANGED <<native, spent>>

-----------------------------------------------------------------------------
(* Pause and resume *)

\* The bridge did not do it: the store's transition is taken back, if it still can.
Compensate(c) ==
  PutIf(card.lifecycle = Wanted(c), c, IF Wanted(c) = "paused" THEN "active" ELSE "paused", card.restored)

ToggleProbe(c) ==
  /\ In(c, Toggling, "probe")
  /\ \/ native = AskedFor(c) /\ End(c)
     \/ native \notin {"missing", AskedFor(c)} /\ Goto(c, "write")
     \/ Compensate(c)
  /\ UNCHANGED <<native, spent>>

Toggled(c) == IF native = "missing" THEN native ELSE AskedFor(c)

ToggleWrite(c) ==
  /\ In(c, Toggling, "write")
  /\ \/ native' = Toggled(c) /\ Goto(c, "confirm")
     \/ native' \in {native, Toggled(c)} /\ Compensate(c)
  /\ UNCHANGED spent

ToggleConfirm(c) ==
  /\ In(c, Toggling, "confirm")
  /\ \/ native = AskedFor(c) /\ End(c)
     \/ Compensate(c)
  /\ UNCHANGED <<native, spent>>

-----------------------------------------------------------------------------
(* Close *)

WithdrawProbe(c) ==
  /\ In(c, {"close"}, "probe")
  /\ \/ native = "missing" /\ CloseCard(c, TRUE)
     \/ native # "missing" /\ Goto(c, "write")
     \/ CloseCard(c, FALSE)
  /\ UNCHANGED <<native, spent>>

\* Refused: the card is closed all the same.  Unanswered: the standard lane has
\* no recovery, so the call fails and the card stays.
WithdrawWrite(c) ==
  /\ In(c, {"close"}, "write")
  /\ \/ native = "missing" /\ UNCHANGED native /\ CloseCard(c, TRUE)
     \/ native' = "missing" /\ Goto(c, "confirm")
     \/ UNCHANGED native /\ CloseCard(c, FALSE)
     \/ native' \in {native, "missing"} /\ End(c)
  /\ UNCHANGED spent

WithdrawConfirm(c) ==
  /\ In(c, {"close"}, "confirm")
  /\ \/ native = "missing" /\ CloseCard(c, TRUE)
     \/ End(c)
  /\ UNCHANGED <<native, spent>>

-----------------------------------------------------------------------------
(* reconcileAutomations: every reading of the inbox and every bridge that      *)
(* becomes ready starts a pass of its own.                                     *)

PassStart(c) ==
  /\ Idle(c) /\ card.lifecycle \in {"enabling", "active", "paused"}
  /\ call' = [call EXCEPT ![c] = [Rest EXCEPT !.kind = "pass", !.at = "read", !.fresh = TRUE,
                                              !.seen = card.lifecycle]]
  /\ UNCHANGED <<card, native, spent>>

PassRead(c) ==
  /\ In(c, {"pass"}, "read")
  /\ call' = [call EXCEPT ![c] = [@ EXCEPT !.at = "apply", !.observed = native]]
  /\ UNCHANGED <<card, native, spent>>

PassUnanswered(c) == In(c, {"pass"}, "read") /\ End(c) /\ UNCHANGED <<native, spent>>

\* What a pass makes of <<the lifecycle it read first, the bridge's answer>>.
ConcludesRunning == {<<"enabling", "running">>}      \* mutant: a deployment is never given up
Concluding == {<<"enabling", "running">>, <<"enabling", "missing">>}
ReflectsPauses == {<<"active", "paused">>}           \* mutant: a native resumption is ignored
Reflected  == {<<"active", "paused">>, <<"paused", "running">>}
Vanished   == {"active", "paused"} \X {"missing"}

PassApply(c) ==
  LET seen == call[c].seen  observed == call[c].observed  answer == <<seen, observed>> IN
  /\ In(c, {"pass"}, "apply")
  /\ \/ answer \in Concluding /\ Record(c, observed = "running")
     \/ /\ answer \in Reflected
        /\ PutIf(card.lifecycle = seen, c, IF observed = "paused" THEN "paused" ELSE "active", card.restored)
     \/ answer \in Vanished /\ CloseCard(c, FALSE)
     \/ answer \notin Concluding \cup Reflected \cup Vanished /\ End(c)
  /\ UNCHANGED <<native, spent>>

-----------------------------------------------------------------------------
(* The household in Home Assistant, and the process *)

Meddle(state) ==
  /\ spent.meddle < MaxMeddle
  /\ native # "missing" /\ native' = state /\ state # native
  /\ spent' = [spent EXCEPT !.meddle = @ + 1]
  /\ UNCHANGED <<card, call>>

Restart ==
  /\ spent.crash < MaxCrash
  /\ spent' = [spent EXCEPT !.crash = @ + 1]
  /\ call' = [c \in Call |-> Rest]
  /\ UNCHANGED <<card, native>>

Continue(c) ==
  \/ DeployProbe(c)   \/ DeployWrite(c)   \/ DeployConfirm(c)
  \/ ToggleProbe(c)   \/ ToggleWrite(c)   \/ ToggleConfirm(c)
  \/ WithdrawProbe(c) \/ WithdrawWrite(c) \/ WithdrawConfirm(c)
  \/ PassRead(c)      \/ PassUnanswered(c) \/ PassApply(c)

Next ==
  \/ \E c \in Call : \/ Enable(c) \/ Retry(c) \/ Pause(c) \/ Resume(c) \/ Close(c)
                     \/ PassStart(c) \/ Continue(c)
  \/ \E state \in Native : Meddle(state)
  \/ Restart

Spec == Init /\ [][Next]_vars

(* Every request has a deadline, the inbox is read again and again, and the  *)
(* bridge does not stay unreachable for ever.                                *)
FairSpec ==
  /\ Spec
  /\ \A c \in Call : WF_vars(Continue(c))
  /\ WF_vars(\E c \in Call : PassStart(c))
  /\ SF_vars(\E c \in Call : PassRead(c))

-----------------------------------------------------------------------------

(* A closed automation stays closed and a decided one never returns to        *)
(* review, whatever late deployment, compensation or pass reports             *)
(* (the checks of recordProposalDeployment, pauseAutomation, closeAutomation).*)
ClosedIsFinal ==
  [][/\ card.lifecycle = "closed" => card' = card
     /\ card.lifecycle # "ready" => card'.lifecycle # "ready"]_vars

(* A crash between the decision and the record of its deployment heals: the   *)
(* card stays `enabling` only where Home Assistant has the automation paused  *)
(* for good, an answer no pass concludes an enablement from                   *)
(* (reconcileAutomations).                                                    *)
EnablingEnds ==
  <>[](card.lifecycle = "enabling") => <>[](native = "paused")

(* What the card of a deployed automation says and what Home Assistant runs   *)
(* do not stay apart: not after a refused toggle, overlapping calls, a crash  *)
(* or a change made in Home Assistant (reconcileAutomations).                 *)
Agree ==
  /\ card.lifecycle = "active" => native = "running"
  /\ card.lifecycle = "paused" => native = "paused"

Converges == <>[]Agree

=============================================================================
