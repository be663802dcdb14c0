-------------------------- MODULE OneShotActionPlane --------------------------
(***************************************************************************)
(* The Hub's state machine for one-shot household actions                  *)
(* (packages/hub/src/authority/one-shot-action-plane.ts): tickets, their   *)
(* confirmation, execution through the bridge gateway, read-back and undo. *)
(*                                                                         *)
(* The plane runs on one event loop.  A call runs without interruption     *)
(* from one await to the next, but every commit in between is durable on   *)
(* its own: `running` names the call that holds the loop, so a crash, and  *)
(* nothing else, can come between two commits of one stretch of code.      *)
(* Deadlines are abstracted to the moment they pass (lapsed, undoLapsed).  *)
(***************************************************************************)
EXTENDS Naturals, FiniteSets

CONSTANTS
  Request,     \* request ids of members' requests
  Ticket,      \* ticket ids the id factory can hand out
  Call,        \* concurrent calls into the plane
  None,        \* no ticket / no call / no request / no actor / no status
  MaxReads,    \* maxVerificationReads
  MaxCrash,    \* bound on process restarts
  MaxFailure   \* bound on commits the store refuses

ASSUME PlaneAssumption ==
  /\ None \notin Request \cup Ticket \cup Call
  /\ None \notin {"admin", "member", "panel", "away"}
  /\ MaxReads \in Nat \ {0}
  /\ MaxCrash \in Nat
  /\ MaxFailure \in Nat

VARIABLES
  ticket,      \* ticket id -> its stored record, or None
  logged,      \* the activity kinds recorded for each ticket
  unannounced, \* expired tickets whose activity is past expirySummaryCursor
  lapsed,      \* pending tickets whose expiresAt has passed
  undoLapsed,  \* verified tickets whose undoExpiresAt has passed
  call,        \* call -> its local state
  running,     \* the call that holds the event loop, or None
  sent,        \* ticket -> gateway.execute calls made for it
  announced,   \* ticket -> expiry summaries it was counted in
  faults       \* restarts and refused commits so far

vars == <<ticket, logged, unannounced, lapsed, undoLapsed, call, running,
          sent, announced, faults>>
store == <<ticket, logged, unannounced>>

(* Actors: who they are, where they are and the device they speak through.   *)
Actor == {"admin", "member", "panel", "away"}
AnyoneEligible == Actor                      \* mutant: isEligible always true
Eligible == {"admin", "member"}              \* isEligible: present, own private device
CanReject == {"admin", "member", "panel"}    \* canRejectFrom: present

Class   == {"direct", "confirmation", "administrator"}
Final   == {"verified", "failed", "unknown", "rejected", "expired"}
Status  == {"approved", "pending_confirmation", "executing"} \cup Final
Outcome == {"verified", "failed", "unknown"}
UndoStatus == {None, "available", "pending", "consumed", "failed", "expired"}
Kind == {"action_requested", "confirmation_created", "confirmation_approved",
         "confirmation_rejected", "confirmation_expired", "action_executing",
         "action_verified", "action_failed", "action_unknown",
         "undo_requested", "undo_completed", "undo_failed"}
Await == {"evaluate", "executeRead", "gateway", "verify", "undoRead", "settle"}
Sync  == {"confirm", "logConfirm", "logExecuting", "finish", "logOutcome",
          "logExpired", "logUndo"}

Record == [request : Request \cup {None}, class : Class, reversible : BOOLEAN,
           status : Status, approver : Actor \cup {None},
           undo : UndoStatus, undoTicket : Ticket \cup {None},
           undoOf : Ticket \cup {None}]

ASSUME NoneIsNoRecord == None \notin Record
ASSUME NoneIsNoStatus == None \notin Status \cup {"available", "pending", "consumed"}

Local == [pc : Await \cup Sync \cup {"idle"}, request : Request \cup {None},
          actor : Actor \cup {None}, ticket : Ticket \cup {None},
          undoOf : Ticket \cup {None}, result : Status \cup {None},
          reads : 0..MaxReads]

Rest == [pc |-> "idle", request |-> None, actor |-> None, ticket |-> None,
         undoOf |-> None, result |-> None, reads |-> 0]

TypeOK ==
  /\ ticket \in [Ticket -> Record \cup {None}]
  /\ logged \in [Ticket -> SUBSET Kind]
  /\ unannounced \subseteq Ticket
  /\ lapsed \subseteq Ticket
  /\ undoLapsed \subseteq Ticket
  /\ call \in [Call -> Local]
  /\ running \in Call \cup {None}
  /\ sent \in [Ticket -> Nat]
  /\ announced \in [Ticket -> Nat]
  /\ faults \in [crash : 0..MaxCrash, failure : 0..MaxFailure]

Init ==
  /\ ticket = [t \in Ticket |-> None]
  /\ logged = [t \in Ticket |-> {}]
  /\ unannounced = {} /\ lapsed = {} /\ undoLapsed = {}
  /\ call = [c \in Call |-> Rest]
  /\ running = None
  /\ sent = [t \in Ticket |-> 0]
  /\ announced = [t \in Ticket |-> 0]
  /\ faults = [crash |-> 0, failure |-> 0]

Stored == {t \in Ticket : ticket[t] # None}
Has(t, s) == t \in Stored /\ ticket[t].status = s
NothingDue == {}                             \* mutant: isExpired never true
Due == {t \in lapsed : Has(t, "pending_confirmation")}
At(c, l) == call[c].pc = l
TicketLeft == \E t \in Ticket : t \notin Stored
NeverInFlight(r) == FALSE                    \* mutant: no inFlightByRequestId
InFlight(r) == \E c \in Call : call[c].request = r

LogReplaces(t, k) == logged' = [logged EXCEPT ![t] = {k}]   \* mutant: a timeline of one entry
Log(t, k) == logged' = [logged EXCEPT ![t] = @ \cup {k}]
SetStatus(t, s) == ticket' = [ticket EXCEPT ![t].status = s]
Goto(c, l) == call' = [call EXCEPT ![c].pc = l]
Return(c) == call' = [call EXCEPT ![c] = Rest]

(***************************************************************************)
(* request                                                                 *)
(***************************************************************************)

(* A known or an in-flight request id returns its result and changes nothing;*)
(* a new one suspends in readFresh and policy.evaluate.                      *)
RequestAction(c, r, a) ==
  /\ running = None /\ At(c, "idle")
  /\ Due = {} /\ TicketLeft
  /\ ~InFlight(r)
  /\ \A t \in Stored : ticket[t].request # r
  /\ call' = [call EXCEPT ![c] = [Rest EXCEPT !.pc = "evaluate", !.request = r, !.actor = a]]
  /\ UNCHANGED <<store, lapsed, undoLapsed, running, sent, announced, faults>>

(* requestNew after its awaits: the ticket and action_requested are one      *)
(* commit; the branch to take follows in the same stretch of code.           *)
Proceed(c, t, l) == call' = [call EXCEPT ![c] = [@ EXCEPT !.pc = l, !.ticket = t, !.actor = None]]
Conclude(c, t, s) ==
  call' = [call EXCEPT ![c] = [@ EXCEPT !.pc = "finish", !.ticket = t, !.actor = None, !.result = s]]

NewTicket(c, class, reversible) ==
  [request |-> call[c].request, class |-> class, reversible |-> reversible,
   status |-> "approved", approver |-> None, undo |-> None,
   undoTicket |-> None, undoOf |-> call[c].undoOf]

(* Unknown state, denial or an absent person end it; the class decides the rest. *)
Route(c, t, known, refused, class) ==
  \/ ~known /\ Conclude(c, t, "unknown") /\ running' = c
  \/ known /\ refused /\ Conclude(c, t, "failed") /\ running' = c
  \/ known /\ ~refused /\ class # "direct" /\ Proceed(c, t, "confirm") /\ running' = c
  \/ known /\ ~refused /\ class = "direct" /\ Proceed(c, t, "executeRead") /\ UNCHANGED running

Evaluated(c) ==
  /\ running = None /\ At(c, "evaluate")
  /\ \E t \in Ticket \ Stored, known, denied, reversible \in BOOLEAN, class \in Class :
       /\ reversible => known /\ ~denied
       /\ ticket' = [ticket EXCEPT ![t] = NewTicket(c, class, reversible)]
       /\ Log(t, "action_requested")
       /\ Route(c, t, known, denied \/ (class = "direct" /\ call[c].actor = "away"), class)
  /\ UNCHANGED <<unannounced, lapsed, undoLapsed, sent, announced, faults>>

Confirm(c) ==
  /\ running = c /\ At(c, "confirm")
  /\ SetStatus(call[c].ticket, "pending_confirmation")
  /\ Goto(c, "logConfirm")
  /\ UNCHANGED <<logged, unannounced, lapsed, undoLapsed, running, sent, announced, faults>>

(* A nested request returns its result to the undo that awaits it.           *)
ReturnResult(c, s) ==
  \/ call[c].undoOf = None /\ Return(c)
  \/ /\ call[c].undoOf # None
     /\ call' = [call EXCEPT ![c] = [@ EXCEPT !.pc = "settle", !.result = s]]

LogConfirm(c) ==
  /\ running = c /\ At(c, "logConfirm")
  /\ Log(call[c].ticket, "confirmation_created")
  /\ ReturnResult(c, "pending_confirmation")
  /\ running' = None
  /\ UNCHANGED <<ticket, unannounced, lapsed, undoLapsed, sent, announced, faults>>

(***************************************************************************)
(* approve, reject, expiry                                                 *)
(***************************************************************************)

(* The decision and its activity are one commit; executeTicket starts in the *)
(* same stretch and suspends in readFresh.                                   *)
Approve(c, t, a) ==
  /\ running = None /\ At(c, "idle")
  /\ Has(t, "pending_confirmation") /\ t \notin lapsed
  /\ a \in Eligible
  /\ ticket' = [ticket EXCEPT ![t] = [@ EXCEPT !.status = "approved", !.approver = a]]
  /\ Log(t, "confirmation_approved")
  /\ call' = [call EXCEPT ![c] = [Rest EXCEPT !.pc = "executeRead", !.ticket = t]]
  /\ UNCHANGED <<unannounced, lapsed, undoLapsed, running, sent, announced, faults>>

Reject(t, a) ==
  /\ running = None
  /\ Has(t, "pending_confirmation") /\ t \notin lapsed
  /\ a \in CanReject
  /\ SetStatus(t, "rejected")
  /\ Log(t, "confirmation_rejected")
  /\ UNCHANGED <<unannounced, lapsed, undoLapsed, call, running, sent, announced, faults>>

(* expireTicket, from expireDue or from a decision that comes too late.      *)
Expire(c, t) ==
  /\ running = None /\ At(c, "idle")
  /\ t \in Due
  /\ SetStatus(t, "expired")
  /\ call' = [call EXCEPT ![c] = [Rest EXCEPT !.pc = "logExpired", !.ticket = t]]
  /\ running' = c
  /\ UNCHANGED <<logged, unannounced, lapsed, undoLapsed, sent, announced, faults>>

LogExpired(c) ==
  /\ running = c /\ At(c, "logExpired")
  /\ Log(call[c].ticket, "confirmation_expired")
  /\ unannounced' = unannounced \cup {call[c].ticket}
  /\ Return(c)
  /\ running' = None
  /\ UNCHANGED <<ticket, lapsed, undoLapsed, sent, announced, faults>>

CursorStays == UNCHANGED unannounced         \* mutant: the cursor is not stored
CursorAdvances == unannounced' = {}

(* consumeExpiredSummary: the cursor moves past every recorded activity.     *)
ConsumeExpiredSummary ==
  /\ running = None /\ Due = {}
  /\ unannounced # {}
  /\ announced' = [t \in Ticket |-> announced[t] + (IF t \in unannounced THEN 1 ELSE 0)]
  /\ CursorAdvances
  /\ UNCHANGED <<ticket, logged, lapsed, undoLapsed, call, running, sent, faults>>

(***************************************************************************)
(* executeTicket and verify                                                *)
(***************************************************************************)

FinishWith(c, s) ==
  /\ call' = [call EXCEPT ![c] = [@ EXCEPT !.pc = "finish", !.result = s]]
  /\ running' = c

ExecuteRead(c) ==
  /\ running = None /\ At(c, "executeRead")
  /\ \/ FinishWith(c, "unknown") /\ UNCHANGED ticket
     \/ /\ SetStatus(call[c].ticket, "executing")
        /\ Goto(c, "logExecuting")
        /\ running' = c
  /\ UNCHANGED <<logged, unannounced, lapsed, undoLapsed, sent, announced, faults>>

(* action_executing is durable before gateway.execute is called.             *)
LogExecuting(c) ==
  /\ running = c /\ At(c, "logExecuting")
  /\ Log(call[c].ticket, "action_executing")
  /\ sent' = [sent EXCEPT ![call[c].ticket] = @ + 1]
  /\ Goto(c, "gateway")
  /\ running' = None
  /\ UNCHANGED <<ticket, unannounced, lapsed, undoLapsed, announced, faults>>

(* Accepted: read back; rejected: failed; unknown or an exception: unknown.  *)
GatewayAnswers(c) ==
  /\ running = None /\ At(c, "gateway")
  /\ \/ Goto(c, "verify") /\ UNCHANGED running
     \/ \E s \in {"failed", "unknown"} : FinishWith(c, s)
  /\ UNCHANGED <<store, lapsed, undoLapsed, sent, announced, faults>>

MoreReads(c) == call[c].reads + 1 < MaxReads

(* One read of the verification loop: a match verifies; the last mismatch    *)
(* fails; the deadline, a cancellation or no last read leave it unknown.     *)
VerifyRead(c) ==
  /\ running = None /\ At(c, "verify")
  /\ \/ \E s \in Outcome : FinishWith(c, s)
     \/ /\ MoreReads(c)
        /\ call' = [call EXCEPT ![c].reads = @ + 1]
        /\ UNCHANGED running
  /\ UNCHANGED <<store, lapsed, undoLapsed, sent, announced, faults>>

Finish(c) ==
  /\ running = c /\ At(c, "finish")
  /\ LET t == call[c].ticket  s == call[c].result IN
     \/ /\ s = "verified" /\ ticket[t].reversible
        /\ ticket' = [ticket EXCEPT ![t] = [@ EXCEPT !.status = s, !.undo = "available"]]
     \/ /\ ~(s = "verified" /\ ticket[t].reversible)
        /\ SetStatus(t, s)
  /\ Goto(c, "logOutcome")
  /\ UNCHANGED <<logged, unannounced, lapsed, undoLapsed, running, sent, announced, faults>>

OutcomeKind(s) == CASE s = "verified" -> "action_verified"
                    [] s = "failed"   -> "action_failed"
                    [] OTHER          -> "action_unknown"

LogOutcome(c) ==
  /\ running = c /\ At(c, "logOutcome")
  /\ Log(call[c].ticket, OutcomeKind(call[c].result))
  /\ ReturnResult(c, call[c].result)
  /\ running' = None
  /\ UNCHANGED <<ticket, unannounced, lapsed, undoLapsed, sent, announced, faults>>

(***************************************************************************)
(* undo                                                                    *)
(***************************************************************************)

(* Checked against the ticket as it is before the await; undoStatus is not   *)
(* reserved, so a second undo of the same ticket passes the same checks.     *)
Undo(c, t, a) ==
  /\ running = None /\ At(c, "idle")
  /\ Has(t, "verified") /\ ticket[t].undo = "available"
  /\ \/ /\ t \in undoLapsed
        /\ ticket' = [ticket EXCEPT ![t].undo = "expired"]
        /\ UNCHANGED <<logged, call>>
     \/ /\ t \notin undoLapsed /\ TicketLeft
        /\ Log(t, "undo_requested")
        /\ call' = [call EXCEPT ![c] =
             [Rest EXCEPT !.pc = "undoRead", !.undoOf = t, !.actor = a]]
        /\ UNCHANGED ticket
  /\ UNCHANGED <<unannounced, lapsed, undoLapsed, running, sent, announced, faults>>

UndoEnds(c, t, s, u) ==
  /\ ticket' = [ticket EXCEPT ![t] = [@ EXCEPT !.undo = s, !.undoTicket = u]]
  /\ call' = [call EXCEPT ![c] = [@ EXCEPT !.pc = "logUndo", !.result = None]]
  /\ running' = c

(* readFresh answers: no state or a changed one fails the undo; otherwise    *)
(* the inverse action enters request() under a new request id.               *)
UndoRead(c) ==
  /\ running = None /\ At(c, "undoRead")
  /\ LET t == call[c].undoOf IN
     \/ UndoEnds(c, t, "failed", ticket[t].undoTicket)
     \/ /\ Due = {}
        /\ Goto(c, "evaluate")
        /\ UNCHANGED <<ticket, running>>
  /\ UNCHANGED <<logged, unannounced, lapsed, undoLapsed, sent, announced, faults>>

PendingCountsAsDone(c) ==                    \* mutant
  call[c].result \in {"verified", "pending_confirmation"}
UndoDone(c) == call[c].result = "verified"

UndoSettle(c) ==
  /\ running = None /\ At(c, "settle")
  /\ LET t == call[c].undoOf  u == call[c].ticket IN
     \/ /\ UndoDone(c)
        /\ UndoEnds(c, t, "consumed", u)
     \/ /\ call[c].result = "pending_confirmation"
        /\ ticket' = [ticket EXCEPT ![t] = [@ EXCEPT !.undo = "pending", !.undoTicket = u]]
        /\ Return(c)
        /\ UNCHANGED running
     \/ /\ call[c].result \in {"failed", "unknown"}
        /\ UndoEnds(c, t, "failed", u)
  /\ UNCHANGED <<logged, unannounced, lapsed, undoLapsed, sent, announced, faults>>

LogUndo(c) ==
  /\ running = c /\ At(c, "logUndo")
  /\ LET t == call[c].undoOf IN
     \/ ticket[t].undo = "consumed" /\ Log(t, "undo_completed")
     \/ ticket[t].undo # "consumed" /\ Log(t, "undo_failed")
  /\ Return(c)
  /\ running' = None
  /\ UNCHANGED <<ticket, unannounced, lapsed, undoLapsed, sent, announced, faults>>

(***************************************************************************)
(* Time, failure, restart                                                  *)
(***************************************************************************)

ConfirmationLapses(t) ==
  /\ running = None
  /\ Has(t, "pending_confirmation") /\ t \notin lapsed
  /\ lapsed' = lapsed \cup {t}
  /\ UNCHANGED <<store, undoLapsed, call, running, sent, announced, faults>>

UndoLapses(t) ==
  /\ running = None
  /\ t \in Stored /\ ticket[t].undo = "available" /\ t \notin undoLapsed
  /\ undoLapsed' = undoLapsed \cup {t}
  /\ UNCHANGED <<store, lapsed, call, running, sent, announced, faults>>

(* The store refuses the commit a stretch is about to make: the call throws; *)
(* its earlier commits stay.                                                 *)
CommitFails(c) ==
  /\ faults.failure < MaxFailure
  /\ running = c
  /\ faults' = [faults EXCEPT !.failure = @ + 1]
  /\ Return(c)
  /\ running' = None
  /\ UNCHANGED <<store, lapsed, undoLapsed, sent, announced>>

(* The process stops anywhere; the constructor of the next one marks what    *)
(* was in flight unknown, with its activity, in one commit.                  *)
OnlyExecuting == {t \in Stored : ticket[t].status = "executing"}   \* mutant
NotFinal == {t \in Stored : ticket[t].status \notin Final}              \* mutant: also what waits
Interrupted == {t \in Stored : ticket[t].status \in {"approved", "executing"}}

Restart ==
  /\ faults.crash < MaxCrash
  /\ faults' = [faults EXCEPT !.crash = @ + 1]
  /\ ticket' = [t \in Ticket |-> IF t \in Interrupted
                                   THEN [ticket[t] EXCEPT !.status = "unknown"] ELSE ticket[t]]
  /\ logged' = [t \in Ticket |-> logged[t] \cup
                                   (IF t \in Interrupted THEN {"action_unknown"} ELSE {})]
  /\ call' = [c \in Call |-> Rest]
  /\ running' = None
  /\ UNCHANGED <<unannounced, lapsed, undoLapsed, sent, announced>>

Continue(c) ==
  \/ Evaluated(c) \/ Confirm(c) \/ LogConfirm(c) \/ LogExpired(c)
  \/ ExecuteRead(c) \/ LogExecuting(c) \/ GatewayAnswers(c) \/ VerifyRead(c)
  \/ Finish(c) \/ LogOutcome(c) \/ UndoRead(c) \/ UndoSettle(c) \/ LogUndo(c)

Next ==
  \/ \E c \in Call :
       \/ Continue(c) \/ CommitFails(c)
       \/ \E r \in Request, a \in Actor : RequestAction(c, r, a)
       \/ \E t \in Ticket : \/ Expire(c, t)
                            \/ \E a \in Actor : Approve(c, t, a) \/ Undo(c, t, a)
  \/ \E t \in Ticket : \/ ConfirmationLapses(t) \/ UndoLapses(t)
                       \/ \E a \in Actor : Reject(t, a)
  \/ ConsumeExpiredSummary \/ Restart

Spec == Init /\ [][Next]_vars

(* Awaits settle (reads and commands have their own deadlines, verification  *)
(* a hard window), time passes, and the inbox keeps listing tickets, which   *)
(* sweeps what is due.                                                       *)
Fairness ==
  /\ \A c \in Call : WF_vars(Continue(c))
  /\ \A t \in Ticket : /\ WF_vars(ConfirmationLapses(t))
                       /\ SF_vars(\E c \in Call : Expire(c, t))

FairSpec == Spec /\ Fairness

(***************************************************************************)
(* Properties                                                              *)
(***************************************************************************)

(* One request id never makes the gateway execute twice: not with concurrent *)
(* duplicates, not with a retry after a restart or a refused commit.         *)
OneExecutionPerRequest ==
  \A t, u \in Stored :
    (ticket[t].request = ticket[u].request /\ ticket[t].request # None
       /\ sent[t] > 0 /\ sent[u] > 0) => t = u /\ sent[t] = 1

(* A command that needs confirmation leaves the Hub only after an eligible   *)
(* actor's approval is on the durable timeline, and never after a refusal,   *)
(* an expiry or while it still waits (approve, executeTicket, expireTicket). *)
ConfirmedBeforeExecution ==
  \A t \in Stored : sent[t] > 0 =>
    /\ ticket[t].class # "direct" =>
         ticket[t].approver \in {"admin", "member"} /\ "confirmation_approved" \in logged[t]
    /\ ticket[t].status \notin {"approved", "pending_confirmation", "rejected", "expired"}

(* decideTicket: a crash can never leave a decided ticket whose timeline is  *)
(* missing the decision, nor a timeline with two contrary decisions.         *)
DecisionOnTimeline ==
  \A t \in Stored :
    /\ ticket[t].approver # None <=> "confirmation_approved" \in logged[t]
    /\ Has(t, "rejected") <=> "confirmation_rejected" \in logged[t]
    /\ ~({"confirmation_approved", "confirmation_rejected"} \subseteq logged[t])

(* An expired confirmation is counted in at most one expiry summary, even    *)
(* when restarts and late decisions interleave with consumeExpiredSummary.   *)
AnnouncedOnce ==
  \A t \in Ticket : announced[t] <= 1 /\ (announced[t] = 1 => Has(t, "expired"))

(* With one undo of a ticket at a time, the undo record agrees with the undo *)
(* ticket it names: consumed only when the inverse was verified, failed only *)
(* when it was not (undo).  Two concurrent undos do not keep it.             *)
UndoAgrees ==
  \A t \in Stored : ticket[t].undoTicket # None =>
    LET u == ticket[t].undoTicket IN
      /\ u \in Stored /\ ticket[u].undoOf = t
      /\ ticket[t].undo = "consumed" => Has(u, "verified")
      /\ ticket[t].undo = "failed" => ticket[u].status \in {"failed", "unknown"}

(* As long as the store accepts commits, an approved or executing ticket has *)
(* a live call that will conclude it: none is left over by a restart.        *)
NoOrphan ==
  \A t \in Stored : ticket[t].status \in {"approved", "executing"} =>
    \E c \in Call : call[c].ticket = t /\ call[c].pc \notin {"idle", "settle", "logUndo"}

(* Every ticket follows the promised lifecycle.                              *)
Phases == [t \in Ticket |-> IF t \in Stored THEN ticket[t].status ELSE "none"]

Lifecycle == INSTANCE ActionLifecycle WITH phase <- Phases, commands <- sent

ImplementsLifecycle == Lifecycle!Spec

(* What was approved or started is concluded, and what waits for a           *)
(* confirmation does not wait for ever.                                      *)
Concludes ==
  \A t \in Ticket :
    /\ Has(t, "approved") \/ Has(t, "executing") ~> t \in Stored /\ ticket[t].status \in Final \cup {"pending_confirmation"}
    /\ Has(t, "pending_confirmation") ~> ~Has(t, "pending_confirmation")

=============================================================================
