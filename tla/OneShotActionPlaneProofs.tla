----------------------- MODULE OneShotActionPlaneProofs -----------------------
(***************************************************************************)
(* Theorems about OneShotActionPlane, for any number of tickets, calls and *)
(* requests and any bounds on restarts and refused commits.                *)
(***************************************************************************)
EXTENDS OneShotActionPlane, TLAPS

(* Who works on a ticket: from its first commit to its outcome, one call.    *)
Working(c) == call[c].pc \in {"confirm", "executeRead", "logExecuting", "gateway",
                              "verify", "finish"}

(* A call in an undo knows the ticket it undoes; a call past its first commit*)
(* knows its own.                                                            *)
Knows(c) ==
  /\ call[c].undoOf # None => call[c].undoOf \in Stored
  /\ call[c].pc \in {"undoRead", "settle", "logUndo"} => call[c].undoOf # None
  /\ call[c].pc \in (Sync \ {"logUndo"}) \cup {"executeRead", "gateway", "verify", "settle"}
       => call[c].ticket \in Stored
  /\ call[c].pc \in {"finish", "logOutcome"} => call[c].result \in Outcome
  /\ call[c].pc = "settle" => call[c].result \in Outcome \cup {"pending_confirmation"}

CallsKnowTickets == \A c \in Call : Knows(c)

Approved(t) == ticket[t].approver \in {"admin", "member"} /\ "confirmation_approved" \in logged[t]
Cleared(t) == ticket[t].class = "direct" \/ Approved(t)

(* The status a working call has left its ticket in; a ticket that is about  *)
(* to execute needs no confirmation or has it.                               *)
Fits(c) ==
  LET t == call[c].ticket IN
  /\ call[c].pc = "confirm" => Has(t, "approved")
  /\ call[c].pc = "executeRead" => Has(t, "approved") /\ Cleared(t)
  /\ call[c].pc = "logExecuting" => Has(t, "executing") /\ Cleared(t) /\ sent[t] = 0
  /\ call[c].pc \in {"gateway", "verify"} => Has(t, "executing")
  /\ call[c].pc = "finish" => Has(t, "approved") \/ Has(t, "executing")

Alone(c) ==
  Working(c) => \A d \in Call \ {c} : Working(d) => call[d].ticket # call[c].ticket

(* At most one command leaves the Hub for a ticket; none for one that is not *)
(* yet executing or was declined; and only for one that was cleared.         *)
Sound(t) ==
  /\ sent[t] \in {0, 1}
  /\ (t \notin Stored \/ ticket[t].status \in {"approved", "pending_confirmation",
                                                "rejected", "expired"})
       => sent[t] = 0
  /\ sent[t] > 0 => Cleared(t)

IInv ==
  /\ TypeOK
  /\ CallsKnowTickets
  /\ \A c \in Call : Fits(c) /\ Alone(c)
  /\ \A t \in Ticket : Sound(t)

(***************************************************************************)
(* Typing                                                                  *)
(***************************************************************************)
Pc == Await \cup Sync \cup {"idle"}
TicketsTyped == ticket \in [Ticket -> Record \cup {None}]
CallsTyped == call \in [Call -> Local]
TimelineTyped == logged \in [Ticket -> SUBSET Kind]

(* What each way of writing a call's local state does to its type. *)
LEMMA RestTyped == Rest \in Local /\ "finish" \in Pc /\ "settle" \in Pc
  BY PlaneAssumption DEF Rest, Local, Pc, Sync, Await

(* A call that returns rests. *)
LEMMA ReturnTyped ==
  ASSUME CallsTyped, NEW c \in Call, Return(c) PROVE CallsTyped'
  BY RestTyped DEF CallsTyped, Return

(* A call that moves to another await or step. *)
LEMMA GotoTyped ==
  ASSUME CallsTyped, NEW c \in Call, NEW l \in Pc, Goto(c, l)
  PROVE  CallsTyped'
<1>1. [call[c] EXCEPT !.pc = l] \in Local
  BY RestTyped, PlaneAssumption DEF CallsTyped, Local, Pc
<1> QED BY <1>1, RestTyped DEF CallsTyped, Goto

(* A request that goes on with its new ticket (requestNew). *)
LEMMA ProceedTyped ==
  ASSUME CallsTyped, NEW c \in Call, NEW l \in Pc, NEW t \in Ticket, Proceed(c, t, l)
  PROVE  CallsTyped'
<1>1. [call[c] EXCEPT !.pc = l, !.ticket = t, !.actor = None] \in Local
  BY RestTyped, PlaneAssumption DEF CallsTyped, Local, Pc
<1> QED BY <1>1, RestTyped DEF CallsTyped, Proceed

(* A request that ends with its new ticket (requestNew). *)
LEMMA ConcludeTyped ==
  ASSUME CallsTyped, NEW c \in Call, NEW t \in Ticket, NEW s \in Status \cup {None}, Conclude(c, t, s)
  PROVE  CallsTyped'
<1>1. [call[c] EXCEPT !.pc = "finish", !.ticket = t, !.actor = None, !.result = s] \in Local
  BY RestTyped, PlaneAssumption DEF CallsTyped, Local, Pc
<1> QED BY <1>1, RestTyped DEF CallsTyped, Conclude

(* A call that moves on with a result. *)
LEMMA ResultTyped ==
  ASSUME CallsTyped, NEW c \in Call, NEW l \in Pc, NEW s \in Status \cup {None}, 
         call' = [call EXCEPT ![c] = [@ EXCEPT !.pc = l, !.result = s]]
  PROVE  CallsTyped'
<1>1. [call[c] EXCEPT !.pc = l, !.result = s] \in Local
  BY RestTyped, PlaneAssumption DEF CallsTyped, Local, Pc
<1> QED BY <1>1, RestTyped DEF CallsTyped

(* A call that takes a request. *)
LEMMA RequestTyped ==
  ASSUME CallsTyped, NEW c \in Call, NEW l \in Pc, NEW r \in Request, NEW a \in Actor, 
         call' = [call EXCEPT ![c] = [Rest EXCEPT !.pc = l, !.request = r, !.actor = a]]
  PROVE  CallsTyped'
<1>1. [Rest EXCEPT !.pc = l, !.request = r, !.actor = a] \in Local
  BY RestTyped, PlaneAssumption DEF CallsTyped, Local, Pc
<1> QED BY <1>1, RestTyped DEF CallsTyped

(* A call that takes an undo. *)
LEMMA UndoTyped ==
  ASSUME CallsTyped, NEW c \in Call, NEW l \in Pc, NEW t \in Ticket, NEW a \in Actor, 
         call' = [call EXCEPT ![c] = [Rest EXCEPT !.pc = l, !.undoOf = t, !.actor = a]]
  PROVE  CallsTyped'
<1>1. [Rest EXCEPT !.pc = l, !.undoOf = t, !.actor = a] \in Local
  BY RestTyped, PlaneAssumption DEF CallsTyped, Local, Pc
<1> QED BY <1>1, RestTyped DEF CallsTyped

(* A call that takes up a stored ticket. *)
LEMMA WorkTyped ==
  ASSUME CallsTyped, NEW c \in Call, NEW l \in Pc, NEW t \in Ticket, 
         call' = [call EXCEPT ![c] = [Rest EXCEPT !.pc = l, !.ticket = t]]
  PROVE  CallsTyped'
<1>1. [Rest EXCEPT !.pc = l, !.ticket = t] \in Local
  BY RestTyped, PlaneAssumption DEF CallsTyped, Local, Pc
<1> QED BY <1>1, RestTyped DEF CallsTyped

(* A call that returns, or hands its result to the undo awaiting it. *)
LEMMA ReturnResultTyped ==
  ASSUME CallsTyped, NEW c \in Call, NEW s \in Status \cup {None}, ReturnResult(c, s)
  PROVE  CallsTyped'
  BY ReturnTyped, ResultTyped, RestTyped DEF ReturnResult

(* A call that is about to record an outcome. *)
LEMMA FinishWithTyped ==
  ASSUME CallsTyped, NEW c \in Call, NEW s \in Status \cup {None}, FinishWith(c, s)
  PROVE  CallsTyped'
  BY ResultTyped, RestTyped DEF FinishWith

(* What each way of writing a stored ticket does to its type. *)
LEMMA StatusTyped ==
  ASSUME TicketsTyped, NEW t \in Stored, NEW s \in Status,
         SetStatus(t, s)
  PROVE  TicketsTyped'
<1>1. t \in Ticket /\ ticket[t] \in Record
  BY DEF Stored, TicketsTyped
<1>2. [ticket[t] EXCEPT !.status = s] \in Record
  BY <1>1 DEF Record
<1> QED BY <1>1, <1>2 DEF TicketsTyped, SetStatus

(* An approval (decideTicket). *)
LEMMA ApprovalTyped ==
  ASSUME TicketsTyped, NEW t \in Stored, NEW s \in Status, NEW a \in Actor,
         ticket' = [ticket EXCEPT ![t] = [@ EXCEPT !.status = s, !.approver = a]]
  PROVE  TicketsTyped'
<1>1. t \in Ticket /\ ticket[t] \in Record
  BY DEF Stored, TicketsTyped
<1>2. [ticket[t] EXCEPT !.status = s, !.approver = a] \in Record
  BY <1>1 DEF Record
<1> QED BY <1>1, <1>2 DEF TicketsTyped

(* A verified reversible outcome (finish). *)
LEMMA OutcomeTyped ==
  ASSUME TicketsTyped, NEW t \in Stored, NEW s \in Status, NEW u \in UndoStatus,
         ticket' = [ticket EXCEPT ![t] = [@ EXCEPT !.status = s, !.undo = u]]
  PROVE  TicketsTyped'
<1>1. t \in Ticket /\ ticket[t] \in Record
  BY DEF Stored, TicketsTyped
<1>2. [ticket[t] EXCEPT !.status = s, !.undo = u] \in Record
  BY <1>1 DEF Record
<1> QED BY <1>1, <1>2 DEF TicketsTyped

(* An undo that came too late. *)
LEMMA UndoneTyped ==
  ASSUME TicketsTyped, NEW t \in Stored, NEW u \in UndoStatus,
         ticket' = [ticket EXCEPT ![t].undo = u]
  PROVE  TicketsTyped'
<1>1. t \in Ticket /\ ticket[t] \in Record
  BY DEF Stored, TicketsTyped
<1>2. [ticket[t] EXCEPT !.undo = u] \in Record
  BY <1>1 DEF Record
<1> QED BY <1>1, <1>2 DEF TicketsTyped

(* An undo that names its inverse ticket (updateUndo). *)
LEMMA UndoTicketTyped ==
  ASSUME TicketsTyped, NEW t \in Stored, NEW u \in UndoStatus, NEW v \in Ticket \cup {None},
         ticket' = [ticket EXCEPT ![t] = [@ EXCEPT !.undo = u, !.undoTicket = v]]
  PROVE  TicketsTyped'
<1>1. t \in Ticket /\ ticket[t] \in Record
  BY DEF Stored, TicketsTyped
<1>2. [ticket[t] EXCEPT !.undo = u, !.undoTicket = v] \in Record
  BY <1>1 DEF Record
<1> QED BY <1>1, <1>2 DEF TicketsTyped

(* An appended activity. *)
LEMMA TimelineUpdate ==
  ASSUME TimelineTyped, NEW t \in Ticket, NEW k \in Kind, Log(t, k)
  PROVE  TimelineTyped'
  BY DEF TimelineTyped, Log

(* The names the actions use. *)
LEMMA Vocabulary ==
  /\ {"evaluate", "executeRead", "gateway", "verify", "undoRead", "settle", "confirm",
      "logConfirm", "logExecuting", "finish", "logOutcome", "logExpired", "logUndo"} \subseteq Pc
  /\ {"approved", "pending_confirmation", "executing", "rejected", "expired"} \subseteq Status
  /\ Outcome \subseteq Status
  /\ {"available", "pending", "consumed", "failed", "expired"} \subseteq UndoStatus
  BY DEF Pc, Await, Sync, Status, Final, Outcome, UndoStatus

(* CallsKnowTickets at each point where a call uses its ticket. *)
LEMMA KnownTickets ==
  ASSUME CallsKnowTickets, NEW c \in Call
  PROVE  /\ call[c].pc \in {"confirm", "logConfirm", "logExecuting", "finish", "logOutcome",
                            "logExpired", "executeRead", "gateway", "verify", "settle"}
              => call[c].ticket \in Stored
         /\ call[c].pc \in {"undoRead", "settle", "logUndo"} => call[c].undoOf \in Stored
         /\ call[c].pc \in {"finish", "logOutcome"} => call[c].result \in Outcome
  BY DEF CallsKnowTickets, Knows, Sync

(* Every step keeps the types. *)
LEMMA TypeStep == TypeOK /\ CallsKnowTickets /\ [Next]_vars => TypeOK'
<1> SUFFICES ASSUME TypeOK, CallsKnowTickets, [Next]_vars PROVE TypeOK'
  OBVIOUS
<1>c. CallsTyped /\ TicketsTyped /\ TimelineTyped
  BY DEF TypeOK, CallsTyped, TicketsTyped, TimelineTyped
<1>s. \A t \in Stored : t \in Ticket /\ ticket[t] \in Record
  BY <1>c DEF Stored, TicketsTyped
<1> DEFINE ScalarsTyped == /\ unannounced \subseteq Ticket /\ lapsed \subseteq Ticket
                           /\ undoLapsed \subseteq Ticket /\ running \in Call \cup {None}
                           /\ sent \in [Ticket -> Nat] /\ announced \in [Ticket -> Nat]
                           /\ faults \in [crash : 0..MaxCrash, failure : 0..MaxFailure]
<1>f. ScalarsTyped
  BY DEF TypeOK
<1>q. CallsTyped' /\ TicketsTyped' /\ TimelineTyped' /\ ScalarsTyped' => TypeOK'
  BY DEF TypeOK, CallsTyped, TicketsTyped, TimelineTyped
<1> HIDE DEF ScalarsTyped
<1> USE Vocabulary
<1>1. ASSUME NEW c \in Call, NEW r \in Request, NEW a \in Actor, RequestAction(c, r, a) PROVE TypeOK'
  <2>s. ScalarsTyped'
    BY <1>1, <1>f DEF RequestAction, ScalarsTyped, store, FinishWith, UndoEnds
  <2>t. TicketsTyped'
    BY <1>1, <1>c DEF RequestAction, store, TicketsTyped
  <2>l. TimelineTyped'
    BY <1>1, <1>c DEF RequestAction, store, TimelineTyped
  <2>c. CallsTyped'
    BY <1>1, <1>c, RequestTyped DEF RequestAction
  <2> QED BY <2>s, <2>t, <2>l, <2>c, <1>q
<1>2. ASSUME NEW c \in Call, Evaluated(c) PROVE TypeOK'
  <2>1. PICK t \in Ticket \ Stored, known \in BOOLEAN, denied \in BOOLEAN,
             reversible \in BOOLEAN, class \in Class :
         /\ ticket' = [ticket EXCEPT ![t] = NewTicket(c, class, reversible)]
         /\ Log(t, "action_requested")
         /\ Route(c, t, known, denied \/ (class = "direct" /\ call[c].actor = "away"), class)
    BY <1>2, ZenonT(60) DEF Evaluated
  <2>s. ScalarsTyped'
    BY <1>2, <1>f, <2>1 DEF Evaluated, Route, ScalarsTyped
  <2>t. TicketsTyped'
    <3>1. call[c].request \in Request \cup {None} /\ call[c].undoOf \in Ticket \cup {None}
      BY <1>c DEF CallsTyped, Local
    <3>2. NewTicket(c, class, reversible) \in Record
      BY <3>1 DEF NewTicket, Record, UndoStatus
    <3> QED BY <2>1, <3>2, <1>c DEF TicketsTyped
  <2>l. TimelineTyped'
    BY <2>1, <1>c, TimelineUpdate DEF Kind
  <2>c. CallsTyped'
    BY <2>1, <1>c, ConcludeTyped, ProceedTyped DEF Route, Outcome
  <2> QED BY <2>s, <2>t, <2>l, <2>c, <1>q
<1>3. ASSUME NEW c \in Call, Confirm(c) PROVE TypeOK'
  <2>k. call[c].ticket \in Stored
    BY <1>3, KnownTickets DEF Confirm, At
  <2>s. ScalarsTyped'
    BY <1>3, <1>f DEF Confirm, ScalarsTyped, store, FinishWith, UndoEnds
  <2>t. TicketsTyped'
    BY <1>3, <1>c, <2>k, StatusTyped DEF Confirm
  <2>l. TimelineTyped'
    BY <1>3, <1>c DEF Confirm, store, TimelineTyped
  <2>c. CallsTyped'
    BY <1>3, <1>c, GotoTyped DEF Confirm
  <2> QED BY <2>s, <2>t, <2>l, <2>c, <1>q
<1>4. ASSUME NEW c \in Call, LogConfirm(c) PROVE TypeOK'
  <2>k. call[c].ticket \in Stored
    BY <1>4, KnownTickets DEF LogConfirm, At
  <2>s. ScalarsTyped'
    BY <1>4, <1>f DEF LogConfirm, ScalarsTyped, store, FinishWith, UndoEnds
  <2>t. TicketsTyped'
    BY <1>4, <1>c DEF LogConfirm, store, TicketsTyped
  <2>l. TimelineTyped'
    BY <1>4, <1>c, <2>k, <1>s, TimelineUpdate DEF LogConfirm, Kind
  <2>c. CallsTyped'
    BY <1>4, <1>c, ReturnResultTyped DEF LogConfirm
  <2> QED BY <2>s, <2>t, <2>l, <2>c, <1>q
<1>5. ASSUME NEW c \in Call, NEW t \in Ticket, NEW a \in Actor, Approve(c, t, a) PROVE TypeOK'
  <2>s. ScalarsTyped'
    BY <1>5, <1>f DEF Approve, ScalarsTyped, store, FinishWith, UndoEnds
  <2>t. TicketsTyped'
    BY <1>5, <1>c, ApprovalTyped DEF Approve, Has
  <2>l. TimelineTyped'
    BY <1>5, <1>c, TimelineUpdate DEF Approve, Kind
  <2>c. CallsTyped'
    BY <1>5, <1>c, WorkTyped DEF Approve
  <2> QED BY <2>s, <2>t, <2>l, <2>c, <1>q
<1>6. ASSUME NEW t \in Ticket, NEW a \in Actor, Reject(t, a) PROVE TypeOK'
  <2>s. ScalarsTyped'
    BY <1>6, <1>f DEF Reject, ScalarsTyped, store, FinishWith, UndoEnds
  <2>t. TicketsTyped'
    BY <1>6, <1>c, StatusTyped DEF Reject, Has
  <2>l. TimelineTyped'
    BY <1>6, <1>c, TimelineUpdate DEF Reject, Kind
  <2>c. CallsTyped'
    BY <1>6, <1>c DEF Reject, CallsTyped
  <2> QED BY <2>s, <2>t, <2>l, <2>c, <1>q
<1>7. ASSUME NEW c \in Call, NEW t \in Ticket, Expire(c, t) PROVE TypeOK'
  <2>s. ScalarsTyped'
    BY <1>7, <1>f DEF Expire, ScalarsTyped, store, FinishWith, UndoEnds
  <2>t. TicketsTyped'
    BY <1>7, <1>c, StatusTyped DEF Expire, Due, Has
  <2>l. TimelineTyped'
    BY <1>7, <1>c DEF Expire, store, TimelineTyped
  <2>c. CallsTyped'
    BY <1>7, <1>c, WorkTyped DEF Expire
  <2> QED BY <2>s, <2>t, <2>l, <2>c, <1>q
<1>8. ASSUME NEW c \in Call, LogExpired(c) PROVE TypeOK'
  <2>k. call[c].ticket \in Stored
    BY <1>8, KnownTickets DEF LogExpired, At
  <2>s. ScalarsTyped'
    BY <1>8, <1>f, <2>k, <1>s DEF LogExpired, ScalarsTyped, store, FinishWith, UndoEnds
  <2>t. TicketsTyped'
    BY <1>8, <1>c DEF LogExpired, store, TicketsTyped
  <2>l. TimelineTyped'
    BY <1>8, <1>c, <2>k, <1>s, TimelineUpdate DEF LogExpired, Kind
  <2>c. CallsTyped'
    BY <1>8, <1>c, ReturnTyped DEF LogExpired
  <2> QED BY <2>s, <2>t, <2>l, <2>c, <1>q
<1>9. ASSUME ConsumeExpiredSummary PROVE TypeOK'
  <2>s. ScalarsTyped'
    BY <1>9, <1>f DEF ConsumeExpiredSummary, CursorAdvances, ScalarsTyped, store, FinishWith, UndoEnds
  <2>t. TicketsTyped'
    BY <1>9, <1>c DEF ConsumeExpiredSummary, CursorAdvances, store, TicketsTyped
  <2>l. TimelineTyped'
    BY <1>9, <1>c DEF ConsumeExpiredSummary, CursorAdvances, store, TimelineTyped
  <2>c. CallsTyped'
    BY <1>9, <1>c DEF ConsumeExpiredSummary, CallsTyped
  <2> QED BY <2>s, <2>t, <2>l, <2>c, <1>q
<1>10. ASSUME NEW c \in Call, ExecuteRead(c) PROVE TypeOK'
  <2>k. call[c].ticket \in Stored
    BY <1>10, KnownTickets DEF ExecuteRead, At
  <2>s. ScalarsTyped'
    BY <1>10, <1>f DEF ExecuteRead, ScalarsTyped, store, FinishWith, UndoEnds
  <2>t. TicketsTyped'
    BY <1>10, <1>c, <2>k, StatusTyped DEF ExecuteRead, TicketsTyped
  <2>l. TimelineTyped'
    BY <1>10, <1>c DEF ExecuteRead, store, TimelineTyped
  <2>c. CallsTyped'
    BY <1>10, <1>c, FinishWithTyped, GotoTyped DEF ExecuteRead, Outcome
  <2> QED BY <2>s, <2>t, <2>l, <2>c, <1>q
<1>11. ASSUME NEW c \in Call, LogExecuting(c) PROVE TypeOK'
  <2>k. call[c].ticket \in Stored
    BY <1>11, KnownTickets DEF LogExecuting, At
  <2>s. ScalarsTyped'
    BY <1>11, <1>f, <2>k, <1>s DEF LogExecuting, ScalarsTyped, store, FinishWith, UndoEnds
  <2>t. TicketsTyped'
    BY <1>11, <1>c DEF LogExecuting, store, TicketsTyped
  <2>l. TimelineTyped'
    BY <1>11, <1>c, <2>k, <1>s, TimelineUpdate DEF LogExecuting, Kind
  <2>c. CallsTyped'
    BY <1>11, <1>c, GotoTyped DEF LogExecuting
  <2> QED BY <2>s, <2>t, <2>l, <2>c, <1>q
<1>12. ASSUME NEW c \in Call, GatewayAnswers(c) PROVE TypeOK'
  <2>s. ScalarsTyped'
    BY <1>12, <1>f DEF GatewayAnswers, ScalarsTyped, store, FinishWith, UndoEnds
  <2>t. TicketsTyped'
    BY <1>12, <1>c DEF GatewayAnswers, store, TicketsTyped
  <2>l. TimelineTyped'
    BY <1>12, <1>c DEF GatewayAnswers, store, TimelineTyped
  <2>c. CallsTyped'
    BY <1>12, <1>c, FinishWithTyped, GotoTyped DEF GatewayAnswers, Outcome
  <2> QED BY <2>s, <2>t, <2>l, <2>c, <1>q
<1>13. ASSUME NEW c \in Call, VerifyRead(c) PROVE TypeOK'
  <2>s. ScalarsTyped'
    BY <1>13, <1>f DEF VerifyRead, ScalarsTyped, store, FinishWith, UndoEnds
  <2>t. TicketsTyped'
    BY <1>13, <1>c DEF VerifyRead, store, TicketsTyped
  <2>l. TimelineTyped'
    BY <1>13, <1>c DEF VerifyRead, store, TimelineTyped
  <2>c. CallsTyped'
    <3>1. CASE \E s \in Outcome : FinishWith(c, s)
      BY <3>1, <1>c, FinishWithTyped
    <3>2. CASE MoreReads(c) /\ call' = [call EXCEPT ![c].reads = @ + 1]
      <4>1. call[c].reads \in 0..MaxReads /\ call[c].reads + 1 \in 0..MaxReads
        BY <3>2, <1>c, PlaneAssumption DEF MoreReads, CallsTyped, Local
      <4> QED BY <3>2, <4>1, <1>c DEF CallsTyped, Local
    <3> QED BY <1>13, <3>1, <3>2 DEF VerifyRead
  <2> QED BY <2>s, <2>t, <2>l, <2>c, <1>q
<1>14. ASSUME NEW c \in Call, Finish(c) PROVE TypeOK'
  <2>k. call[c].ticket \in Stored /\ call[c].result \in Status
    BY <1>14, KnownTickets DEF Finish, At
  <2>s. ScalarsTyped'
    BY <1>14, <1>f DEF Finish, ScalarsTyped, store, FinishWith, UndoEnds
  <2>t. TicketsTyped'
    <3>1. CASE SetStatus(call[c].ticket, call[c].result)
      BY <3>1, <1>c, <2>k, StatusTyped
    <3>2. CASE ticket' = [ticket EXCEPT ![call[c].ticket] =
                            [@ EXCEPT !.status = call[c].result, !.undo = "available"]]
      BY <3>2, <1>c, <2>k, OutcomeTyped
    <3> QED BY <1>14, <3>1, <3>2 DEF Finish
  <2>l. TimelineTyped'
    BY <1>14, <1>c DEF Finish, store, TimelineTyped
  <2>c. CallsTyped'
    BY <1>14, <1>c, GotoTyped DEF Finish
  <2> QED BY <2>s, <2>t, <2>l, <2>c, <1>q
<1>15. ASSUME NEW c \in Call, LogOutcome(c) PROVE TypeOK'
  <2>k. call[c].ticket \in Stored /\ call[c].result \in Status
    BY <1>15, KnownTickets DEF LogOutcome, At
  <2>s. ScalarsTyped'
    BY <1>15, <1>f DEF LogOutcome, ScalarsTyped, store, FinishWith, UndoEnds
  <2>t. TicketsTyped'
    BY <1>15, <1>c DEF LogOutcome, store, TicketsTyped
  <2>l. TimelineTyped'
    <3>1. OutcomeKind(call[c].result) \in Kind
      BY DEF OutcomeKind, Kind
    <3> QED BY <3>1, <1>15, <1>c, <2>k, <1>s, TimelineUpdate DEF LogOutcome
  <2>c. CallsTyped'
    BY <1>15, <1>c, <2>k, ReturnResultTyped DEF LogOutcome
  <2> QED BY <2>s, <2>t, <2>l, <2>c, <1>q
<1>16. ASSUME NEW c \in Call, NEW t \in Ticket, NEW a \in Actor, Undo(c, t, a) PROVE TypeOK'
  <2>s. ScalarsTyped'
    BY <1>16, <1>f DEF Undo, ScalarsTyped, store, FinishWith, UndoEnds
  <2>t. TicketsTyped'
    BY <1>16, <1>c, UndoneTyped DEF Undo, Has, TicketsTyped
  <2>l. TimelineTyped'
    BY <1>16, <1>c, TimelineUpdate DEF Undo, Kind, TimelineTyped
  <2>c. CallsTyped'
    <3>1. CASE UNCHANGED call
      BY <3>1, <1>c DEF CallsTyped
    <3>2. CASE call' = [call EXCEPT ![c] = [Rest EXCEPT !.pc = "undoRead", !.undoOf = t, !.actor = a]]
      BY <3>2, <1>c, UndoTyped
    <3> QED BY <1>16, <3>1, <3>2 DEF Undo
  <2> QED BY <2>s, <2>t, <2>l, <2>c, <1>q
<1>17. ASSUME NEW c \in Call, UndoRead(c) PROVE TypeOK'
  <2>k. call[c].undoOf \in Stored
    BY <1>17, KnownTickets DEF UndoRead, At
  <2>u. ticket[call[c].undoOf].undoTicket \in Ticket \cup {None}
    BY <2>k, <1>s DEF Record
  <2>s. ScalarsTyped'
    BY <1>17, <1>f DEF UndoRead, ScalarsTyped, store, FinishWith, UndoEnds
  <2>t. TicketsTyped'
    <3>1. CASE UNCHANGED ticket
      BY <3>1, <1>c DEF TicketsTyped
    <3>2. CASE ticket' = [ticket EXCEPT ![call[c].undoOf] = [@ EXCEPT !.undo = "failed",
                            !.undoTicket = ticket[call[c].undoOf].undoTicket]]
      BY <3>2, <1>c, <2>k, <2>u, UndoTicketTyped
    <3> QED BY <1>17, <3>1, <3>2 DEF UndoRead, UndoEnds
  <2>l. TimelineTyped'
    BY <1>17, <1>c DEF UndoRead, store, TimelineTyped
  <2>c. CallsTyped'
    BY <1>17, <1>c, GotoTyped, ResultTyped DEF UndoRead, UndoEnds
  <2> QED BY <2>s, <2>t, <2>l, <2>c, <1>q
<1>18. ASSUME NEW c \in Call, UndoSettle(c) PROVE TypeOK'
  <2>k. call[c].undoOf \in Stored /\ call[c].ticket \in Ticket
    BY <1>18, <1>s, KnownTickets DEF UndoSettle, At
  <2>s. ScalarsTyped'
    BY <1>18, <1>f DEF UndoSettle, ScalarsTyped, store, FinishWith, UndoEnds
  <2>t. TicketsTyped'
    BY <1>18, <1>c, <2>k, UndoTicketTyped DEF UndoSettle, UndoEnds
  <2>l. TimelineTyped'
    BY <1>18, <1>c DEF UndoSettle, store, TimelineTyped
  <2>c. CallsTyped'
    BY <1>18, <1>c, ReturnTyped, ResultTyped DEF UndoSettle, UndoEnds
  <2> QED BY <2>s, <2>t, <2>l, <2>c, <1>q
<1>19. ASSUME NEW c \in Call, LogUndo(c) PROVE TypeOK'
  <2>k. call[c].undoOf \in Ticket
    BY <1>19, <1>s, KnownTickets DEF LogUndo, At
  <2>s. ScalarsTyped'
    BY <1>19, <1>f DEF LogUndo, ScalarsTyped, store, FinishWith, UndoEnds
  <2>t. TicketsTyped'
    BY <1>19, <1>c DEF LogUndo, store, TicketsTyped
  <2>l. TimelineTyped'
    BY <1>19, <1>c, <2>k, TimelineUpdate DEF LogUndo, Kind
  <2>c. CallsTyped'
    BY <1>19, <1>c, ReturnTyped DEF LogUndo
  <2> QED BY <2>s, <2>t, <2>l, <2>c, <1>q
<1>20. ASSUME NEW t \in Ticket, ConfirmationLapses(t) \/ UndoLapses(t) PROVE TypeOK'
  <2>s. ScalarsTyped'
    BY <1>20, <1>f DEF ConfirmationLapses, UndoLapses, ScalarsTyped, store, FinishWith, UndoEnds
  <2>t. TicketsTyped'
    BY <1>20, <1>c DEF ConfirmationLapses, UndoLapses, store, TicketsTyped
  <2>l. TimelineTyped'
    BY <1>20, <1>c DEF ConfirmationLapses, UndoLapses, store, TimelineTyped
  <2>c. CallsTyped'
    BY <1>20, <1>c DEF ConfirmationLapses, UndoLapses, CallsTyped
  <2> QED BY <2>s, <2>t, <2>l, <2>c, <1>q
<1>21. ASSUME NEW c \in Call, CommitFails(c) PROVE TypeOK'
  <2>s. ScalarsTyped'
    BY <1>21, <1>f, PlaneAssumption DEF CommitFails, ScalarsTyped, store, FinishWith, UndoEnds
  <2>t. TicketsTyped'
    BY <1>21, <1>c DEF CommitFails, store, TicketsTyped
  <2>l. TimelineTyped'
    BY <1>21, <1>c DEF CommitFails, store, TimelineTyped
  <2>c. CallsTyped'
    BY <1>21, <1>c, ReturnTyped DEF CommitFails
  <2> QED BY <2>s, <2>t, <2>l, <2>c, <1>q
<1>22. ASSUME Restart PROVE TypeOK'
  <2>s. ScalarsTyped'
    BY <1>22, <1>f, PlaneAssumption DEF Restart, ScalarsTyped, store, FinishWith, UndoEnds
  <2>t. TicketsTyped'
    <3>1. \A t \in Interrupted : t \in Stored /\ [ticket[t] EXCEPT !.status = "unknown"] \in Record
      BY <1>s DEF Interrupted, Record, Outcome
    <3> QED BY <1>22, <1>c, <3>1 DEF Restart, TicketsTyped
  <2>l. TimelineTyped'
    BY <1>22, <1>c DEF Restart, TimelineTyped, Kind
  <2>c. CallsTyped'
    BY <1>22, RestTyped DEF Restart, CallsTyped
  <2> QED BY <2>s, <2>t, <2>l, <2>c, <1>q
<1>23. CASE UNCHANGED vars
  BY <1>23, <1>c, <1>f, <1>q DEF vars, CallsTyped, TicketsTyped, TimelineTyped, ScalarsTyped
<1> QED
  BY <1>1, <1>2, <1>3, <1>4, <1>5, <1>6, <1>7, <1>8, <1>9, <1>10, <1>11, <1>12, <1>13,
     <1>14, <1>15, <1>16, <1>17, <1>18, <1>19, <1>20, <1>21, <1>22, <1>23
  DEF Next, Continue

(***************************************************************************)
(* What a step does to one call and to one ticket                          *)
(***************************************************************************)
CallBecomes(c, l, t, u, s) ==
  /\ call'[c].pc = l /\ call'[c].ticket = t /\ call'[c].undoOf = u /\ call'[c].result = s
  /\ \A d \in Call \ {c} : call'[d] = call[d]

TicketBecomes(t, s, a) ==
  /\ Stored' = Stored
  /\ ticket'[t].status = s /\ ticket'[t].approver = a /\ ticket'[t].class = ticket[t].class
  /\ ticket'[t].request = ticket[t].request
  /\ \A u \in Ticket \ {t} : ticket'[u] = ticket[u]

(* No step but a request's own gives a call a request id. *)
Forgets(c) == call'[c].request \in {call[c].request, None}

(* Moving a call. *)
LEMMA GotoEffect ==
  ASSUME CallsTyped, NEW c \in Call, NEW l,
         Goto(c, l)
  PROVE  CallBecomes(c, l, call[c].ticket, call[c].undoOf, call[c].result) /\ Forgets(c)
  BY DEF CallsTyped, Local, CallBecomes, Forgets, Goto

(* Going on with a new ticket. *)
LEMMA ProceedEffect ==
  ASSUME CallsTyped, NEW c \in Call, NEW l, NEW t,
         Proceed(c, t, l)
  PROVE  CallBecomes(c, l, t, call[c].undoOf, call[c].result) /\ Forgets(c)
  BY DEF CallsTyped, Local, CallBecomes, Forgets, Proceed

(* Ending with a new ticket. *)
LEMMA ConcludeEffect ==
  ASSUME CallsTyped, NEW c \in Call, NEW s, NEW t,
         Conclude(c, t, s)
  PROVE  CallBecomes(c, "finish", t, call[c].undoOf, s) /\ Forgets(c)
  BY DEF CallsTyped, Local, CallBecomes, Forgets, Conclude

(* Moving a call with a result. *)
LEMMA ResultEffect ==
  ASSUME CallsTyped, NEW c \in Call, NEW l, NEW s,
         call' = [call EXCEPT ![c] = [@ EXCEPT !.pc = l, !.result = s]]
  PROVE  CallBecomes(c, l, call[c].ticket, call[c].undoOf, s) /\ Forgets(c)
  BY DEF CallsTyped, Local, CallBecomes, Forgets

(* Returning. *)
LEMMA ReturnEffect ==
  ASSUME CallsTyped, NEW c \in Call, 
         Return(c)
  PROVE  CallBecomes(c, "idle", None, None, None) /\ Forgets(c)
  BY DEF CallsTyped, Local, CallBecomes, Forgets, Return, Rest

(* Taking a request. *)
LEMMA RequestEffect ==
  ASSUME CallsTyped, NEW c \in Call, NEW l, NEW r, NEW a,
         call' = [call EXCEPT ![c] = [Rest EXCEPT !.pc = l, !.request = r, !.actor = a]]
  PROVE  CallBecomes(c, l, None, None, None)
  BY DEF CallsTyped, Local, CallBecomes, Rest

(* Taking an undo. *)
LEMMA UndoEffect ==
  ASSUME CallsTyped, NEW c \in Call, NEW l, NEW t, NEW a,
         call' = [call EXCEPT ![c] = [Rest EXCEPT !.pc = l, !.undoOf = t, !.actor = a]]
  PROVE  CallBecomes(c, l, None, t, None) /\ Forgets(c)
  BY DEF CallsTyped, Local, CallBecomes, Forgets, Rest

(* Taking up a stored ticket. *)
LEMMA WorkEffect ==
  ASSUME CallsTyped, NEW c \in Call, NEW l, NEW t,
         call' = [call EXCEPT ![c] = [Rest EXCEPT !.pc = l, !.ticket = t]]
  PROVE  CallBecomes(c, l, t, None, None) /\ Forgets(c)
  BY DEF CallsTyped, Local, CallBecomes, Forgets, Rest

(* Writing a status (updateTicket). *)
LEMMA StatusEffect ==
  ASSUME TicketsTyped, NEW t \in Stored, NEW s \in Status,
         SetStatus(t, s)
  PROVE  TicketBecomes(t, s, ticket[t].approver)
<1>1. t \in Ticket /\ ticket[t] \in Record
  BY DEF Stored, TicketsTyped
<1>2. ticket'[t] \in Record
  BY <1>1 DEF TicketsTyped, Record, SetStatus
<1>3. Stored' = Stored
  BY <1>1, <1>2, NoneIsNoRecord DEF TicketsTyped, Stored, SetStatus
<1> QED BY <1>1, <1>3 DEF TicketsTyped, TicketBecomes, Record, SetStatus

(* An approval. *)
LEMMA ApprovalEffect ==
  ASSUME TicketsTyped, NEW t \in Stored, NEW s \in Status, NEW a \in Actor,
         ticket' = [ticket EXCEPT ![t] = [@ EXCEPT !.status = s, !.approver = a]]
  PROVE  TicketBecomes(t, s, a)
<1>1. t \in Ticket /\ ticket[t] \in Record
  BY DEF Stored, TicketsTyped
<1>2. ticket'[t] \in Record
  BY <1>1 DEF TicketsTyped, Record
<1>3. Stored' = Stored
  BY <1>1, <1>2, NoneIsNoRecord DEF TicketsTyped, Stored
<1> QED BY <1>1, <1>3 DEF TicketsTyped, TicketBecomes, Record

(* A verified reversible outcome. *)
LEMMA OutcomeEffect ==
  ASSUME TicketsTyped, NEW t \in Stored, NEW s \in Status, NEW u \in UndoStatus,
         ticket' = [ticket EXCEPT ![t] = [@ EXCEPT !.status = s, !.undo = u]]
  PROVE  TicketBecomes(t, s, ticket[t].approver)
<1>1. t \in Ticket /\ ticket[t] \in Record
  BY DEF Stored, TicketsTyped
<1>2. ticket'[t] \in Record
  BY <1>1 DEF TicketsTyped, Record
<1>3. Stored' = Stored
  BY <1>1, <1>2, NoneIsNoRecord DEF TicketsTyped, Stored
<1> QED BY <1>1, <1>3 DEF TicketsTyped, TicketBecomes, Record

(* An undo that came too late. *)
LEMMA UndoneEffect ==
  ASSUME TicketsTyped, NEW t \in Stored, NEW u \in UndoStatus,
         ticket' = [ticket EXCEPT ![t].undo = u]
  PROVE  TicketBecomes(t, ticket[t].status, ticket[t].approver)
<1>1. t \in Ticket /\ ticket[t] \in Record
  BY DEF Stored, TicketsTyped
<1>2. ticket'[t] \in Record
  BY <1>1 DEF TicketsTyped, Record
<1>3. Stored' = Stored
  BY <1>1, <1>2, NoneIsNoRecord DEF TicketsTyped, Stored
<1> QED BY <1>1, <1>3 DEF TicketsTyped, TicketBecomes, Record

(* An undo that names its inverse ticket. *)
LEMMA UndoTicketEffect ==
  ASSUME TicketsTyped, NEW t \in Stored, NEW u \in UndoStatus, NEW v \in Ticket \cup {None},
         ticket' = [ticket EXCEPT ![t] = [@ EXCEPT !.undo = u, !.undoTicket = v]]
  PROVE  TicketBecomes(t, ticket[t].status, ticket[t].approver)
<1>1. t \in Ticket /\ ticket[t] \in Record
  BY DEF Stored, TicketsTyped
<1>2. ticket'[t] \in Record
  BY <1>1 DEF TicketsTyped, Record
<1>3. Stored' = Stored
  BY <1>1, <1>2, NoneIsNoRecord DEF TicketsTyped, Stored
<1> QED BY <1>1, <1>3 DEF TicketsTyped, TicketBecomes, Record

(* Appending an activity. *)
LEMMA LogEffect ==
  ASSUME TimelineTyped, NEW t \in Ticket, NEW k, Log(t, k)
  PROVE  (\A u \in Ticket : logged[u] \subseteq logged'[u]) /\ k \in logged'[t]
  BY DEF TimelineTyped, Log


(***************************************************************************)
(* The inductive invariant                                                 *)
(***************************************************************************)

(* The invariant holds before the first call. *)
LEMMA InvInit == Init => IInv
<1> SUFFICES ASSUME Init PROVE IInv
  OBVIOUS
<1>1. TypeOK
  <2>1. CallsTyped
    BY RestTyped DEF Init, CallsTyped
  <2> QED BY <2>1, PlaneAssumption DEF Init, TypeOK, CallsTyped
<1>2. \A c \in Call : Knows(c) /\ Fits(c) /\ Alone(c)
  BY DEF Init, Knows, Fits, Alone, Working, Rest, Sync
<1>3. \A t \in Ticket : Sound(t)
  BY DEF Init, Sound, Stored
<1> QED BY <1>1, <1>2, <1>3 DEF IInv, CallsKnowTickets

Parts(c) == Knows(c) /\ Fits(c) /\ Alone(c)
LogGrows == \A u \in Ticket : logged[u] \subseteq logged'[u]

(* Another call keeps its part of the invariant when its ticket keeps what   *)
(* the invariant says of it.                                                 *)
LEMMA OtherCall ==
  ASSUME TypeOK, NEW d \in Call, Knows(d), Fits(d), call'[d] = call[d],
         Stored \subseteq Stored', LogGrows,
         Working(d) =>
           LET t == call[d].ticket IN
             /\ ticket'[t].status = ticket[t].status /\ ticket'[t].class = ticket[t].class
             /\ ticket'[t].approver = ticket[t].approver /\ sent'[t] = sent[t]
  PROVE  Knows(d)' /\ Fits(d)'
<1>1. Knows(d)'
  BY DEF Knows
<1>2. Fits(d)'
  BY DEF Fits, Working, Has, Cleared, Approved, LogGrows, Stored
<1> QED BY <1>1, <1>2

(* Another ticket keeps its part of the invariant. *)
LEMMA OtherTicket ==
  ASSUME NEW u \in Ticket, Sound(u), LogGrows, u \in Stored' <=> u \in Stored,
         sent'[u] = sent[u], ticket'[u].status = ticket[u].status,
         ticket'[u].class = ticket[u].class, ticket'[u].approver = ticket[u].approver
  PROVE  Sound(u)'
  BY DEF Sound, Cleared, Approved, LogGrows

(* A step of call c that writes ticket t, which no other call works on: only *)
(* the parts about c and t are left to prove.                                *)
LEMMA Frame ==
  ASSUME IInv, TypeOK', NEW c, NEW t,
         \A d \in Call \ {c} : call'[d] = call[d],
         \A u \in Ticket \ {t} : ticket'[u] = ticket[u] /\ sent'[u] = sent[u],
         Stored \subseteq Stored', LogGrows,
         \A d \in Call \ {c} : Working(d) => call[d].ticket # t,
         c \in Call => Parts(c)', t \in Ticket => Sound(t)'
  PROVE  IInv'
<1>1. \A d \in Call : Parts(d)'
  <2> SUFFICES ASSUME NEW d \in Call \ {c} PROVE Parts(d)'
    OBVIOUS
  <2>0. Knows(d) /\ Fits(d) /\ Alone(d) /\ TypeOK
    BY DEF IInv, CallsKnowTickets
  <2>1. Working(d) => call[d].ticket \in Ticket \ {t}
    BY <2>0 DEF Knows, Working, Stored, Sync
  <2>2. Knows(d)' /\ Fits(d)'
    BY <2>0, <2>1, OtherCall
  <2>3. Alone(d)'
    BY <2>0 DEF Alone, Working, Parts
  <2> QED BY <2>2, <2>3 DEF Parts
<1>2. \A u \in Ticket : Sound(u)'
  <2> SUFFICES ASSUME NEW u \in Ticket \ {t} PROVE Sound(u)'
    OBVIOUS
  <2>1. Sound(u) /\ (u \in Stored' <=> u \in Stored)
    BY DEF IInv, Stored
  <2> QED BY <2>1, OtherTicket
<1> QED BY <1>1, <1>2 DEF IInv, CallsKnowTickets, Parts

(* A step of call c that leaves every ticket's status, class, approver and   *)
(* command count alone.                                                      *)
LEMMA CallFrame ==
  ASSUME IInv, TypeOK', NEW c,
         \A d \in Call \ {c} : call'[d] = call[d],
         UNCHANGED sent, Stored' = Stored, LogGrows,
         \A u \in Stored : /\ ticket'[u].status = ticket[u].status
                           /\ ticket'[u].class = ticket[u].class
                           /\ ticket'[u].approver = ticket[u].approver,
         c \in Call => Parts(c)'
  PROVE  IInv'
<1>1. \A d \in Call : Parts(d)'
  <2> SUFFICES ASSUME NEW d \in Call \ {c} PROVE Parts(d)'
    OBVIOUS
  <2>0. Knows(d) /\ Fits(d) /\ Alone(d) /\ TypeOK
    BY DEF IInv, CallsKnowTickets
  <2>1. Working(d) => call[d].ticket \in Stored
    BY <2>0 DEF Knows, Working, Sync
  <2>2. Knows(d)' /\ Fits(d)'
    BY <2>0, <2>1, OtherCall
  <2>3. Alone(d)'
    BY <2>0 DEF Alone, Working, Parts
  <2> QED BY <2>2, <2>3 DEF Parts
<1>2. ASSUME NEW u \in Ticket PROVE Sound(u)'
  <2>1. Sound(u)
    BY DEF IInv
  <2>2. CASE u \in Stored
    BY <2>1, <2>2, OtherTicket
  <2>3. CASE u \notin Stored
    BY <2>1, <2>3 DEF Sound
  <2> QED BY <2>2, <2>3
<1> QED BY <1>1, <1>2 DEF IInv, CallsKnowTickets, Parts

(* A call that stops working owes only what it knows.                        *)
LEMMA Quiet ==
  ASSUME NEW c \in Call, Knows(c)', ~Working(c)'
  PROVE  Parts(c)'
  BY DEF Parts, Fits, Alone, Working

(* Who does not work on a ticket. *)
LEMMA Nobody ==
  ASSUME IInv, NEW t \in Stored, ticket[t].status \notin {"approved", "executing"},
         NEW d \in Call, Working(d)
  PROVE  call[d].ticket # t
  BY DEF IInv, Fits, Working, Has

(* No call works on a ticket that is not stored. *)
LEMMA NobodyNew ==
  ASSUME IInv, NEW t, t \notin Stored, NEW d \in Call, Working(d)
  PROVE  call[d].ticket # t
  BY DEF IInv, Fits, Working, Has

(* A working call works alone. *)
LEMMA NobodyElse ==
  ASSUME IInv, NEW c \in Call, Working(c), NEW d \in Call \ {c}, Working(d)
  PROVE  call[d].ticket # call[c].ticket
  BY DEF IInv, Alone

(* Every step keeps the invariant: per action, what it does to its call and  *)
(* its ticket, and the parts about those two; the frame lemmas do the rest.  *)
LEMMA InvStep == IInv /\ [Next]_vars => IInv'
<1> SUFFICES ASSUME IInv, [Next]_vars PROVE IInv'
  OBVIOUS
<1>T. TypeOK'
  BY TypeStep DEF IInv
<1>c. CallsTyped /\ TicketsTyped /\ TimelineTyped
  BY DEF IInv, TypeOK, CallsTyped, TicketsTyped, TimelineTyped
<1>s. \A t \in Stored : t \in Ticket /\ ticket[t] \in Record
  BY <1>c DEF Stored, TicketsTyped
<1>k. \A c \in Call : Knows(c) /\ Fits(c) /\ Alone(c)
  BY DEF IInv, CallsKnowTickets
<1>i. \A t \in Ticket : Sound(t)
  BY DEF IInv
<1> USE Vocabulary
<1>1. ASSUME NEW c \in Call, NEW r \in Request, NEW a \in Actor, RequestAction(c, r, a) PROVE IInv'
  <2>1. CallBecomes(c, "evaluate", None, None, None)
    BY <1>1, <1>c, RequestEffect DEF RequestAction
  <2>2. Parts(c)'
    BY <2>1, Quiet DEF CallBecomes, Knows, Working, Sync
  <2> QED BY <1>1, <1>T, <2>1, <2>2, CallFrame
      DEF RequestAction, store, Stored, LogGrows, CallBecomes
<1>2. ASSUME NEW c \in Call, Evaluated(c) PROVE IInv'
  <2>1. PICK t \in Ticket \ Stored, known \in BOOLEAN, denied \in BOOLEAN,
             reversible \in BOOLEAN, class \in Class :
         /\ ticket' = [ticket EXCEPT ![t] = NewTicket(c, class, reversible)]
         /\ Log(t, "action_requested")
         /\ Route(c, t, known, denied \/ (class = "direct" /\ call[c].actor = "away"), class)
    BY <1>2, ZenonT(60) DEF Evaluated
  <2>2. NewTicket(c, class, reversible) \in Record
    <3>1. call[c].request \in Request \cup {None} /\ call[c].undoOf \in Ticket \cup {None}
      BY <1>c DEF CallsTyped, Local
    <3> QED BY <3>1 DEF NewTicket, Record, UndoStatus
  <2>3. /\ Stored' = Stored \cup {t}
        /\ ticket'[t].status = "approved" /\ ticket'[t].class = class
        /\ \A u \in Ticket \ {t} : ticket'[u] = ticket[u]
    BY <2>1, <2>2, <1>c, NoneIsNoRecord DEF TicketsTyped, Stored, NewTicket
  <2>4. PICK l \in {"finish", "confirm", "executeRead"}, s \in Outcome \cup {call[c].result} :
          /\ CallBecomes(c, l, t, call[c].undoOf, s)
          /\ l = "finish" => s \in Outcome
          /\ l = "executeRead" => class = "direct"
    <3>1. CASE Conclude(c, t, "unknown")
      BY <3>1, <1>c, ConcludeEffect DEF Outcome
    <3>2. CASE Conclude(c, t, "failed")
      BY <3>2, <1>c, ConcludeEffect DEF Outcome
    <3>3. CASE Proceed(c, t, "confirm")
      BY <3>3, <1>c, ProceedEffect
    <3>4. CASE class = "direct" /\ Proceed(c, t, "executeRead")
      BY <3>4, <1>c, ProceedEffect
    <3> QED BY <2>1, <3>1, <3>2, <3>3, <3>4 DEF Route
  <2>5. LogGrows
    BY <2>1, <1>c, LogEffect DEF LogGrows
  <2>6. UNCHANGED sent /\ Sound(t)'
    BY <1>2, <1>i, <2>1, <2>3 DEF Evaluated, Sound
  <2>7. Knows(c)'
    BY <2>3, <2>4, <1>k DEF CallBecomes, Knows, Sync
  <2>8. Fits(c)'
    BY <2>3, <2>4 DEF CallBecomes, Fits, Has, Cleared
  <2>9. Alone(c)'
    BY <2>4, NobodyNew DEF CallBecomes, Alone, Working
  <2> QED BY <1>T, <2>3, <2>4, <2>5, <2>6, <2>7, <2>8, <2>9, NobodyNew, Frame
      DEF CallBecomes, Parts
<1>3. ASSUME NEW c \in Call, Confirm(c) PROVE IInv'
  <2>1. call[c].ticket \in Stored /\ Working(c) /\ UNCHANGED <<sent, logged>>
    BY <1>3, <1>k, KnownTickets DEF Confirm, At, Working, CallsKnowTickets
  <2>2. CallBecomes(c, "logConfirm", call[c].ticket, call[c].undoOf, call[c].result)
    BY <1>3, <1>c, GotoEffect DEF Confirm
  <2>3. TicketBecomes(call[c].ticket, "pending_confirmation", ticket[call[c].ticket].approver)
    BY <1>3, <1>c, <2>1, StatusEffect DEF Confirm
  <2>4. Parts(c)'
    BY <2>1, <2>2, <2>3, <1>k, Quiet DEF CallBecomes, TicketBecomes, Knows, Working, Sync
  <2>5. Sound(call[c].ticket)'
    <3>1. ticket[call[c].ticket].status = "approved"
      BY <1>3, <1>k DEF Confirm, At, Fits, Has
    <3>2. sent[call[c].ticket] = 0
      BY <1>i, <1>s, <2>1, <3>1 DEF Sound
    <3> QED BY <2>1, <2>2, <3>2 DEF Sound, CallBecomes
  <2> QED BY <1>T, <2>1, <2>2, <2>3, <2>4, <2>5, NobodyElse, Frame
      DEF CallBecomes, TicketBecomes, LogGrows
<1>4. ASSUME NEW c \in Call, LogConfirm(c) PROVE IInv'
  <2>1. call[c].ticket \in Stored /\ LogGrows
    BY <1>4, <1>k, <1>s, <1>c, KnownTickets, LogEffect DEF LogConfirm, At, CallsKnowTickets, LogGrows
  <2>2. PICK l \in {"idle", "settle"} :
          /\ l = "idle" => CallBecomes(c, l, None, None, None)
          /\ l = "settle" => /\ call[c].undoOf # None
                             /\ CallBecomes(c, l, call[c].ticket, call[c].undoOf, "pending_confirmation")
    BY <1>4, <1>c, ReturnEffect, ResultEffect DEF LogConfirm, ReturnResult
  <2>3. Parts(c)'
    BY <1>4, <2>1, <2>2, <1>k, Quiet DEF LogConfirm, Stored, CallBecomes, Knows, Working, Sync
  <2> QED BY <1>4, <1>T, <2>1, <2>2, <2>3, CallFrame DEF LogConfirm, Stored, CallBecomes
<1>5. ASSUME NEW c \in Call, NEW t \in Ticket, NEW a \in Actor, Approve(c, t, a) PROVE IInv'
  <2>1. t \in Stored /\ ticket[t].status = "pending_confirmation" /\ UNCHANGED sent
        /\ a \in {"admin", "member"}
    BY <1>5 DEF Approve, Has, Eligible
  <2>2. CallBecomes(c, "executeRead", t, None, None)
    BY <1>5, <1>c, WorkEffect DEF Approve
  <2>3. TicketBecomes(t, "approved", a)
    BY <1>5, <1>c, <2>1, ApprovalEffect DEF Approve
  <2>4. LogGrows /\ "confirmation_approved" \in logged'[t]
    BY <1>5, <1>c, LogEffect DEF Approve, LogGrows
  <2>5. Knows(c)' /\ Fits(c)'
    BY <2>1, <2>2, <2>3, <2>4 DEF CallBecomes, TicketBecomes, Knows, Fits, Has, Cleared, Approved, Sync
  <2>6. Alone(c)'
    BY <2>1, <2>2, Nobody DEF CallBecomes, Alone, Working
  <2>7. Sound(t)'
    BY <1>i, <2>1, <2>3 DEF TicketBecomes, Sound
  <2> QED BY <1>T, <2>1, <2>2, <2>3, <2>4, <2>5, <2>6, <2>7, Nobody, Frame
      DEF CallBecomes, TicketBecomes, Parts
<1>6. ASSUME NEW t \in Ticket, NEW a \in Actor, Reject(t, a) PROVE IInv'
  <2>1. t \in Stored /\ ticket[t].status = "pending_confirmation" /\ UNCHANGED <<sent, call>>
    BY <1>6 DEF Reject, Has
  <2>2. TicketBecomes(t, "rejected", ticket[t].approver)
    BY <1>6, <1>c, <2>1, StatusEffect DEF Reject
  <2>3. LogGrows
    BY <1>6, <1>c, LogEffect DEF Reject, LogGrows
  <2>4. Sound(t)'
    BY <1>i, <2>1, <2>2 DEF TicketBecomes, Sound
  <2> QED BY <1>T, <2>1, <2>2, <2>3, <2>4, PlaneAssumption, Nobody, Frame DEF TicketBecomes
<1>7. ASSUME NEW c \in Call, NEW t \in Ticket, Expire(c, t) PROVE IInv'
  <2>1. t \in Stored /\ ticket[t].status = "pending_confirmation" /\ UNCHANGED <<sent, logged>>
    BY <1>7 DEF Expire, Due, Has
  <2>2. CallBecomes(c, "logExpired", t, None, None)
    BY <1>7, <1>c, WorkEffect DEF Expire
  <2>3. TicketBecomes(t, "expired", ticket[t].approver)
    BY <1>7, <1>c, <2>1, StatusEffect DEF Expire
  <2>4. Parts(c)'
    BY <2>1, <2>2, <2>3, Quiet DEF CallBecomes, TicketBecomes, Knows, Working, Sync
  <2>5. Sound(t)'
    BY <1>i, <2>1, <2>3 DEF TicketBecomes, Sound
  <2> QED BY <1>T, <2>1, <2>2, <2>3, <2>4, <2>5, Nobody, Frame
      DEF CallBecomes, TicketBecomes, LogGrows
<1>8. ASSUME NEW c \in Call, LogExpired(c) PROVE IInv'
  <2>1. call[c].ticket \in Stored /\ LogGrows
    BY <1>8, <1>k, <1>s, <1>c, KnownTickets, LogEffect DEF LogExpired, At, CallsKnowTickets, LogGrows
  <2>2. CallBecomes(c, "idle", None, None, None)
    BY <1>8, <1>c, ReturnEffect DEF LogExpired
  <2>3. Parts(c)'
    BY <2>2, Quiet DEF CallBecomes, Knows, Working, Sync
  <2> QED BY <1>8, <1>T, <2>1, <2>2, <2>3, CallFrame DEF LogExpired, Stored, CallBecomes
<1>9. ASSUME ConsumeExpiredSummary PROVE IInv'
  BY <1>9, <1>T, CallFrame, PlaneAssumption DEF ConsumeExpiredSummary, Stored, LogGrows
<1>10. ASSUME NEW c \in Call, ExecuteRead(c) PROVE IInv'
  <2>1. call[c].ticket \in Stored /\ Working(c) /\ UNCHANGED <<sent, logged>>
    BY <1>10, <1>k, KnownTickets DEF ExecuteRead, At, Working, CallsKnowTickets
  <2>2. Has(call[c].ticket, "approved") /\ Cleared(call[c].ticket) /\ sent[call[c].ticket] = 0
    BY <1>10, <1>k, <1>i, <1>s, <2>1 DEF ExecuteRead, At, Fits, Has, Sound
  <2>3. CASE FinishWith(c, "unknown") /\ UNCHANGED ticket
    <3>1. CallBecomes(c, "finish", call[c].ticket, call[c].undoOf, "unknown")
      BY <2>3, <1>c, ResultEffect DEF FinishWith
    <3>2. Knows(c)' /\ Fits(c)'
      BY <2>1, <2>2, <2>3, <3>1, <1>k DEF CallBecomes, Knows, Fits, Has, Stored, Outcome, Sync
    <3>3. Alone(c)'
      BY <2>1, <3>1, NobodyElse DEF CallBecomes, Alone, Working
    <3> QED BY <1>T, <2>1, <2>3, <3>1, <3>2, <3>3, CallFrame DEF CallBecomes, Stored, LogGrows, Parts
  <2>4. CASE SetStatus(call[c].ticket, "executing") /\ Goto(c, "logExecuting")
    <3>1. CallBecomes(c, "logExecuting", call[c].ticket, call[c].undoOf, call[c].result)
      BY <2>4, <1>c, GotoEffect
    <3>2. TicketBecomes(call[c].ticket, "executing", ticket[call[c].ticket].approver)
      BY <2>1, <2>4, <1>c, StatusEffect
    <3>3. Knows(c)'
      BY <2>1, <3>1, <3>2, <1>k DEF CallBecomes, TicketBecomes, Knows, Sync
    <3>4. Fits(c)' /\ Sound(call[c].ticket)'
      BY <2>1, <2>2, <3>1, <3>2 DEF CallBecomes, TicketBecomes, Fits, Has, Cleared, Approved, Sound
    <3>5. Alone(c)'
      BY <2>1, <3>1, NobodyElse DEF CallBecomes, Alone, Working
    <3> QED BY <1>T, <2>1, <3>1, <3>2, <3>3, <3>4, <3>5, NobodyElse, Frame
        DEF CallBecomes, TicketBecomes, LogGrows, Parts
  <2> QED BY <1>10, <2>3, <2>4 DEF ExecuteRead
<1>11. ASSUME NEW c \in Call, LogExecuting(c) PROVE IInv'
  <2>1. call[c].ticket \in Stored /\ Working(c) /\ UNCHANGED ticket
    BY <1>11, <1>k, KnownTickets DEF LogExecuting, At, Working, CallsKnowTickets
  <2>2. /\ Has(call[c].ticket, "executing") /\ Cleared(call[c].ticket)
        /\ sent[call[c].ticket] = 0
    BY <1>11, <1>k DEF LogExecuting, At, Fits
  <2>3. CallBecomes(c, "gateway", call[c].ticket, call[c].undoOf, call[c].result)
    BY <1>11, <1>c, GotoEffect DEF LogExecuting
  <2>4. LogGrows
    BY <1>11, <1>c, <1>s, <2>1, LogEffect DEF LogExecuting, LogGrows
  <2>5. /\ sent'[call[c].ticket] = 1
        /\ \A u \in Ticket \ {call[c].ticket} : sent'[u] = sent[u]
    BY <1>11, <1>s, <2>1, <2>2 DEF LogExecuting, IInv, TypeOK
  <2>6. Knows(c)' /\ Fits(c)'
    BY <2>1, <2>2, <2>3, <1>k DEF CallBecomes, Knows, Fits, Has, Stored, Sync
  <2>7. Alone(c)'
    BY <2>1, <2>3, NobodyElse DEF CallBecomes, Alone, Working
  <2>8. Sound(call[c].ticket)'
    <3>1. Cleared(call[c].ticket)'
      BY <1>s, <2>1, <2>2, <2>3, <2>4 DEF CallBecomes, Cleared, Approved, LogGrows
    <3> QED BY <2>1, <2>2, <2>3, <2>5, <3>1 DEF CallBecomes, Sound, Has, Stored
  <2> QED BY <1>T, <2>1, <2>3, <2>4, <2>5, <2>6, <2>7, <2>8, NobodyElse, Frame
      DEF CallBecomes, Stored, Parts
<1>12. ASSUME NEW c \in Call, GatewayAnswers(c) PROVE IInv'
  <2>1. call[c].ticket \in Stored /\ Working(c) /\ UNCHANGED <<ticket, logged, sent>>
        /\ Has(call[c].ticket, "executing")
    BY <1>12, <1>k, KnownTickets DEF GatewayAnswers, store, At, Working, Fits, CallsKnowTickets
  <2>2. PICK l \in {"verify", "finish"}, s \in Outcome \cup {call[c].result} :
          /\ CallBecomes(c, l, call[c].ticket, call[c].undoOf, s)
          /\ l = "finish" => s \in Outcome
    BY <1>12, <1>c, GotoEffect, ResultEffect DEF GatewayAnswers, FinishWith, Outcome
  <2>3. Knows(c)' /\ Fits(c)'
    BY <2>1, <2>2, <1>k DEF CallBecomes, Knows, Fits, Has, Stored, Sync
  <2>4. Alone(c)'
    BY <2>1, <2>2, NobodyElse DEF CallBecomes, Alone, Working
  <2> QED BY <1>T, <2>1, <2>2, <2>3, <2>4, CallFrame DEF CallBecomes, Stored, LogGrows, Parts
<1>13. ASSUME NEW c \in Call, VerifyRead(c) PROVE IInv'
  <2>1. call[c].ticket \in Stored /\ Working(c) /\ UNCHANGED <<ticket, logged, sent>>
        /\ Has(call[c].ticket, "executing")
    BY <1>13, <1>k, KnownTickets DEF VerifyRead, store, At, Working, Fits, CallsKnowTickets
  <2>2. PICK l \in {"verify", "finish"}, s \in Outcome \cup {call[c].result} :
          /\ CallBecomes(c, l, call[c].ticket, call[c].undoOf, s)
          /\ l = "finish" => s \in Outcome
    <3>1. CASE \E s \in Outcome : FinishWith(c, s)
      BY <3>1, <1>c, ResultEffect DEF FinishWith
    <3>2. CASE call' = [call EXCEPT ![c].reads = @ + 1]
      BY <3>2, <1>13, <1>c DEF VerifyRead, At, CallBecomes, CallsTyped, Local
    <3> QED BY <1>13, <3>1, <3>2 DEF VerifyRead
  <2>3. Knows(c)' /\ Fits(c)'
    BY <2>1, <2>2, <1>k DEF CallBecomes, Knows, Fits, Has, Stored, Sync
  <2>4. Alone(c)'
    BY <2>1, <2>2, NobodyElse DEF CallBecomes, Alone, Working
  <2> QED BY <1>T, <2>1, <2>2, <2>3, <2>4, CallFrame DEF CallBecomes, Stored, LogGrows, Parts
<1>14. ASSUME NEW c \in Call, Finish(c) PROVE IInv'
  <2>1. call[c].ticket \in Stored /\ Working(c) /\ UNCHANGED <<sent, logged>>
        /\ call[c].result \in Outcome
    BY <1>14, <1>k, KnownTickets DEF Finish, At, Working, CallsKnowTickets
  <2>2. CallBecomes(c, "logOutcome", call[c].ticket, call[c].undoOf, call[c].result)
    BY <1>14, <1>c, GotoEffect DEF Finish
  <2>3. TicketBecomes(call[c].ticket, call[c].result, ticket[call[c].ticket].approver)
    BY <1>14, <1>c, <2>1, StatusEffect, OutcomeEffect DEF Finish
  <2>4. Parts(c)'
    BY <2>1, <2>2, <2>3, <1>k, Quiet DEF CallBecomes, TicketBecomes, Knows, Working, Sync
  <2>5. Sound(call[c].ticket)'
    <3>1. Sound(call[c].ticket) /\ sent'[call[c].ticket] = sent[call[c].ticket]
      BY <1>i, <1>s, <2>1
    <3>2. Cleared(call[c].ticket) => Cleared(call[c].ticket)'
      BY <2>1, <2>2, <2>3 DEF CallBecomes, TicketBecomes, Cleared, Approved
    <3> QED BY <2>1, <2>2, <2>3, <3>1, <3>2 DEF CallBecomes, TicketBecomes, Sound, Outcome
  <2> QED BY <1>T, <2>1, <2>2, <2>3, <2>4, <2>5, NobodyElse, Frame
      DEF CallBecomes, TicketBecomes, LogGrows
<1>15. ASSUME NEW c \in Call, LogOutcome(c) PROVE IInv'
  <2>1. call[c].ticket \in Stored /\ call[c].result \in Outcome /\ LogGrows
    BY <1>15, <1>k, <1>s, <1>c, KnownTickets, LogEffect DEF LogOutcome, At, CallsKnowTickets, LogGrows
  <2>2. PICK l \in {"idle", "settle"} :
          /\ l = "idle" => CallBecomes(c, l, None, None, None)
          /\ l = "settle" => /\ call[c].undoOf # None
                             /\ CallBecomes(c, l, call[c].ticket, call[c].undoOf, call[c].result)
    BY <1>15, <1>c, ReturnEffect, ResultEffect DEF LogOutcome, ReturnResult
  <2>3. Parts(c)'
    BY <1>15, <2>1, <2>2, <1>k, Quiet DEF LogOutcome, Stored, CallBecomes, Knows, Working, Sync
  <2> QED BY <1>15, <1>T, <2>1, <2>2, <2>3, CallFrame DEF LogOutcome, Stored, CallBecomes
<1>16. ASSUME NEW c \in Call, NEW t \in Ticket, NEW a \in Actor, Undo(c, t, a) PROVE IInv'
  <2>1. t \in Stored /\ UNCHANGED sent
    BY <1>16 DEF Undo, Has
  <2>2. CASE ticket' = [ticket EXCEPT ![t].undo = "expired"] /\ UNCHANGED <<logged, call>>
    <3>1. TicketBecomes(t, ticket[t].status, ticket[t].approver)
      BY <2>1, <2>2, <1>c, UndoneEffect
    <3> QED BY <1>T, <2>1, <2>2, <3>1, PlaneAssumption, CallFrame DEF TicketBecomes, LogGrows, Stored
  <2>3. CASE /\ Log(t, "undo_requested") /\ UNCHANGED ticket
             /\ call' = [call EXCEPT ![c] = [Rest EXCEPT !.pc = "undoRead", !.undoOf = t, !.actor = a]]
    <3>1. CallBecomes(c, "undoRead", None, t, None)
      BY <2>3, <1>c, UndoEffect
    <3>2. Parts(c)' /\ LogGrows
      BY <2>1, <2>3, <3>1, <1>c, PlaneAssumption, Quiet, LogEffect
      DEF CallBecomes, Knows, Working, Stored, LogGrows, Sync
    <3> QED BY <1>T, <2>1, <2>3, <3>1, <3>2, CallFrame DEF CallBecomes, Stored
  <2> QED BY <1>16, <2>2, <2>3 DEF Undo
<1>u. ASSUME NEW c \in Call, NEW t \in Stored, NEW s \in UndoStatus, NEW u \in Ticket \cup {None},
             t = call[c].undoOf, UndoEnds(c, t, s, u), UNCHANGED <<sent, logged>>
      PROVE  IInv'
  <2>1. CallBecomes(c, "logUndo", call[c].ticket, t, None)
    BY <1>u, <1>c, ResultEffect DEF UndoEnds
  <2>2. TicketBecomes(t, ticket[t].status, ticket[t].approver)
    BY <1>u, <1>c, UndoTicketEffect DEF UndoEnds
  <2>3. Parts(c)'
    BY <2>1, <2>2, <1>s, PlaneAssumption, Quiet DEF CallBecomes, TicketBecomes, Knows, Working, Sync
  <2> QED BY <1>u, <1>T, <2>1, <2>2, <2>3, CallFrame DEF CallBecomes, TicketBecomes, LogGrows, Stored
<1>17. ASSUME NEW c \in Call, UndoRead(c) PROVE IInv'
  <2>1. /\ call[c].undoOf \in Stored /\ UNCHANGED <<sent, logged>>
        /\ ticket[call[c].undoOf].undoTicket \in Ticket \cup {None}
    BY <1>17, <1>k, <1>s, KnownTickets DEF UndoRead, At, CallsKnowTickets, Record
  <2>2. CASE Goto(c, "evaluate") /\ UNCHANGED ticket
    <3>1. CallBecomes(c, "evaluate", call[c].ticket, call[c].undoOf, call[c].result)
      BY <2>2, <1>c, GotoEffect
    <3>2. Parts(c)'
      BY <2>1, <2>2, <3>1, Quiet DEF CallBecomes, Knows, Working, Stored, Sync
    <3> QED BY <1>T, <2>1, <2>2, <3>1, <3>2, CallFrame DEF CallBecomes, Stored, LogGrows
  <2> QED BY <1>17, <1>u, <2>1, <2>2 DEF UndoRead
<1>18. ASSUME NEW c \in Call, UndoSettle(c) PROVE IInv'
  <2>1. /\ call[c].undoOf \in Stored /\ UNCHANGED <<sent, logged>>
        /\ call[c].ticket \in Ticket
    BY <1>18, <1>k, <1>s, KnownTickets DEF UndoSettle, At, CallsKnowTickets
  <2>2. CASE /\ ticket' = [ticket EXCEPT ![call[c].undoOf] =
                             [@ EXCEPT !.undo = "pending", !.undoTicket = call[c].ticket]]
             /\ Return(c)
    <3>1. CallBecomes(c, "idle", None, None, None)
      BY <2>2, <1>c, ReturnEffect
    <3>2. TicketBecomes(call[c].undoOf, ticket[call[c].undoOf].status, ticket[call[c].undoOf].approver)
      BY <2>1, <2>2, <1>c, UndoTicketEffect
    <3>3. Parts(c)'
      BY <3>1, Quiet DEF CallBecomes, Knows, Working, Sync
    <3> QED BY <1>T, <2>1, <3>1, <3>2, <3>3, CallFrame DEF CallBecomes, TicketBecomes, LogGrows, Stored
  <2> QED BY <1>18, <1>u, <2>1, <2>2 DEF UndoSettle
<1>19. ASSUME NEW c \in Call, LogUndo(c) PROVE IInv'
  <2>1. call[c].undoOf \in Stored /\ LogGrows
    BY <1>19, <1>k, <1>s, <1>c, KnownTickets, LogEffect DEF LogUndo, At, CallsKnowTickets, LogGrows
  <2>2. CallBecomes(c, "idle", None, None, None)
    BY <1>19, <1>c, ReturnEffect DEF LogUndo
  <2>3. Parts(c)'
    BY <2>2, Quiet DEF CallBecomes, Knows, Working, Sync
  <2> QED BY <1>19, <1>T, <2>1, <2>2, <2>3, CallFrame DEF LogUndo, Stored, CallBecomes
<1>20. ASSUME NEW t \in Ticket, ConfirmationLapses(t) \/ UndoLapses(t) PROVE IInv'
  BY <1>20, <1>T, CallFrame, PlaneAssumption DEF ConfirmationLapses, UndoLapses, store, Stored, LogGrows
<1>21. ASSUME NEW c \in Call, CommitFails(c) PROVE IInv'
  <2>1. CallBecomes(c, "idle", None, None, None)
    BY <1>21, <1>c, ReturnEffect DEF CommitFails
  <2>2. Parts(c)'
    BY <2>1, Quiet DEF CallBecomes, Knows, Working, Sync
  <2> QED BY <1>21, <1>T, <2>1, <2>2, CallFrame DEF CommitFails, store, Stored, LogGrows, CallBecomes
<1>22. ASSUME Restart PROVE IInv'
  <2>1. \A c \in Call : Parts(c)'
    BY <1>22 DEF Restart, Rest, Parts, Knows, Fits, Alone, Working, Sync
  <2>2. /\ \A t \in Ticket : t \notin Interrupted => ticket'[t] = ticket[t]
        /\ \A t \in Interrupted : /\ ticket'[t].status = "unknown"
                                  /\ ticket'[t].class = ticket[t].class
                                  /\ ticket'[t].approver = ticket[t].approver
                                  /\ t \in Stored'
    <3>1. ASSUME NEW t \in Interrupted
          PROVE  [ticket[t] EXCEPT !.status = "unknown"] \in Record /\ t \in Stored
      BY <1>s DEF Interrupted, Record, Outcome
    <3> QED BY <1>22, <3>1, <1>s, NoneIsNoRecord DEF Restart, Stored, Record
  <2>3. LogGrows /\ UNCHANGED sent
    BY <1>22, <1>c DEF Restart, LogGrows, TimelineTyped
  <2>4. ASSUME NEW t \in Ticket PROVE Sound(t)'
    BY <1>i, <1>s, <2>2, <2>3 DEF Sound, Cleared, Approved, LogGrows, Stored, Interrupted
  <2> QED BY <1>T, <2>1, <2>4 DEF IInv, CallsKnowTickets, Parts
<1>23. CASE UNCHANGED vars
  BY <1>23, <1>T, CallFrame, PlaneAssumption DEF vars, Stored, LogGrows
<1> QED
  BY <1>1, <1>2, <1>3, <1>4, <1>5, <1>6, <1>7, <1>8, <1>9, <1>10, <1>11, <1>12, <1>13,
     <1>14, <1>15, <1>16, <1>17, <1>18, <1>19, <1>20, <1>21, <1>22, <1>23
  DEF Next, Continue

(***************************************************************************)
(* Theorems                                                                *)
(***************************************************************************)

(* IInv holds in every reachable state, for any number of calls and tickets. *)
THEOREM Invariance == Spec => []IInv
<1>1. Init => IInv
  BY InvInit
<1>2. IInv /\ [Next]_vars => IInv'
  BY InvStep
<1> QED BY <1>1, <1>2, PTL DEF Spec

(* Every field of every ticket, call and counter keeps its domain.           *)
THEOREM TypeCorrect == Spec => []TypeOK
<1>1. IInv => TypeOK
  BY DEF IInv
<1> QED BY <1>1, Invariance, PTL

(* A command that needs a confirmation leaves the Hub only after an eligible *)
(* approval is on the timeline, and never for a declined or waiting ticket   *)
(* (requestNew, approve, executeTicket).                                     *)
THEOREM ConfirmedCommands == Spec => []ConfirmedBeforeExecution
<1>1. IInv => ConfirmedBeforeExecution
  <2> SUFFICES ASSUME IInv, NEW t \in Stored, sent[t] > 0 PROVE
        /\ ticket[t].class # "direct" =>
             ticket[t].approver \in {"admin", "member"} /\ "confirmation_approved" \in logged[t]
        /\ ticket[t].status \notin {"approved", "pending_confirmation", "rejected", "expired"}
    BY DEF ConfirmedBeforeExecution
  <2>1. Sound(t) /\ sent[t] # 0
    BY DEF IInv, Stored
  <2> QED BY <2>1 DEF Sound, Cleared, Approved
<1> QED BY <1>1, Invariance, PTL

(* What a step on one ticket does to its phase. *)
LEMMA PhaseMoves ==
  ASSUME NEW t \in Stored, t \in Ticket, NEW s, NEW a, TicketBecomes(t, s, a)
  PROVE  Phases[t] = ticket[t].status /\ Phases' = [Phases EXCEPT ![t] = s]
  BY DEF Phases, TicketBecomes, Stored

(* A call may change a ticket's undo record, never its phase. *)
LEMMA PhaseStays ==
  ASSUME NEW t \in Stored, t \in Ticket, NEW a, TicketBecomes(t, ticket[t].status, a)
  PROVE  Phases' = Phases
  BY DEF Phases, TicketBecomes, Stored

Maps == Lifecycle!Next \/ UNCHANGED Lifecycle!lifecycle

(* Every step of the plane is a step of the lifecycle or leaves it alone. *)
LEMMA StepMaps == IInv /\ [Next]_vars => Maps
<1> SUFFICES ASSUME IInv, [Next]_vars PROVE Maps
  OBVIOUS
<1>c. CallsTyped /\ TicketsTyped
  BY DEF IInv, TypeOK, CallsTyped, TicketsTyped
<1>s. \A t \in Stored : t \in Ticket
  BY DEF Stored
<1>k. \A c \in Call : Knows(c) /\ Fits(c)
  BY DEF IInv, CallsKnowTickets
<1>i. \A t \in Ticket : Sound(t)
  BY DEF IInv
<1>m. ASSUME NEW t \in Stored, NEW s, NEW a, TicketBecomes(t, s, a), UNCHANGED sent,
             \/ ticket[t].status = "approved" /\ s = "pending_confirmation"
             \/ ticket[t].status = "pending_confirmation" /\ s \in {"approved", "rejected", "expired"}
             \/ ticket[t].status = "approved" /\ s = "executing"
             \/ ticket[t].status \in {"approved", "executing"} /\ s \in Outcome
      PROVE  Maps
  BY <1>m, <1>s, PhaseMoves DEF Maps, Lifecycle!Next, Lifecycle!Move, Lifecycle!Hold,
     Lifecycle!Decide, Lifecycle!Start, Lifecycle!Conclude, Outcome
<1>n. ASSUME UNCHANGED <<ticket, sent>> PROVE Maps
  BY <1>n DEF Maps, Phases, Stored, Lifecycle!lifecycle
<1>u. ASSUME NEW t \in Stored, NEW a, TicketBecomes(t, ticket[t].status, a), UNCHANGED sent
      PROVE  Maps
  BY <1>u, <1>s, PhaseStays DEF Maps, Lifecycle!lifecycle
<1> USE Vocabulary
<1>2. ASSUME NEW c \in Call, Evaluated(c) PROVE Maps
  <2>1. PICK t \in Ticket \ Stored, reversible \in BOOLEAN, class \in Class :
          ticket' = [ticket EXCEPT ![t] = NewTicket(c, class, reversible)]
    BY <1>2, ZenonT(60) DEF Evaluated
  <2>2. NewTicket(c, class, reversible) \in Record
    <3>1. call[c].request \in Request \cup {None} /\ call[c].undoOf \in Ticket \cup {None}
      BY <1>c DEF CallsTyped, Local
    <3> QED BY <3>1 DEF NewTicket, Record, UndoStatus
  <2>3. /\ Stored' = Stored \cup {t} /\ ticket'[t].status = "approved"
        /\ \A u \in Ticket \ {t} : ticket'[u] = ticket[u]
    BY <2>1, <2>2, <1>c, NoneIsNoRecord DEF TicketsTyped, Stored, NewTicket
  <2>4. Phases[t] = "none" /\ Phases' = [Phases EXCEPT ![t] = "approved"] /\ UNCHANGED sent
    BY <1>2, <2>3 DEF Evaluated, Phases
  <2> QED BY <2>4 DEF Maps, Lifecycle!Next, Lifecycle!Submit, Lifecycle!Move
<1>3. ASSUME NEW c \in Call, Confirm(c) PROVE Maps
  <2>1. call[c].ticket \in Stored /\ ticket[call[c].ticket].status = "approved"
    BY <1>3, <1>k DEF Confirm, At, Fits, Has
  <2>2. TicketBecomes(call[c].ticket, "pending_confirmation", ticket[call[c].ticket].approver)
    BY <1>3, <1>c, <2>1, StatusEffect DEF Confirm
  <2> QED BY <1>3, <1>m, <2>1, <2>2 DEF Confirm
<1>5. ASSUME NEW c \in Call, NEW t \in Ticket, NEW a \in Actor, Approve(c, t, a) PROVE Maps
  <2>1. t \in Stored /\ ticket[t].status = "pending_confirmation"
    BY <1>5 DEF Approve, Has
  <2>2. TicketBecomes(t, "approved", a)
    BY <1>5, <1>c, <2>1, ApprovalEffect DEF Approve
  <2> QED BY <1>5, <1>m, <2>1, <2>2 DEF Approve
<1>6. ASSUME NEW t \in Ticket, NEW a \in Actor, Reject(t, a) PROVE Maps
  <2>1. t \in Stored /\ ticket[t].status = "pending_confirmation"
    BY <1>6 DEF Reject, Has
  <2>2. TicketBecomes(t, "rejected", ticket[t].approver)
    BY <1>6, <1>c, <2>1, StatusEffect DEF Reject
  <2> QED BY <1>6, <1>m, <2>1, <2>2 DEF Reject
<1>7. ASSUME NEW c \in Call, NEW t \in Ticket, Expire(c, t) PROVE Maps
  <2>1. t \in Stored /\ ticket[t].status = "pending_confirmation"
    BY <1>7 DEF Expire, Due, Has
  <2>2. TicketBecomes(t, "expired", ticket[t].approver)
    BY <1>7, <1>c, <2>1, StatusEffect DEF Expire
  <2> QED BY <1>7, <1>m, <2>1, <2>2 DEF Expire
<1>10. ASSUME NEW c \in Call, ExecuteRead(c) PROVE Maps
  <2>1. call[c].ticket \in Stored /\ ticket[call[c].ticket].status = "approved"
    BY <1>10, <1>k DEF ExecuteRead, At, Fits, Has
  <2>2. CASE UNCHANGED ticket
    BY <1>10, <1>n, <2>2 DEF ExecuteRead
  <2>3. CASE SetStatus(call[c].ticket, "executing")
    <3>1. TicketBecomes(call[c].ticket, "executing", ticket[call[c].ticket].approver)
      BY <1>c, <2>1, <2>3, StatusEffect
    <3> QED BY <1>10, <1>m, <2>1, <3>1 DEF ExecuteRead
  <2> QED BY <1>10, <2>2, <2>3 DEF ExecuteRead
<1>11. ASSUME NEW c \in Call, LogExecuting(c) PROVE Maps
  <2>1. call[c].ticket \in Stored /\ ticket[call[c].ticket].status = "executing"
        /\ sent[call[c].ticket] = 0 /\ UNCHANGED ticket
    BY <1>11, <1>k DEF LogExecuting, At, Fits, Has
  <2>2. sent' = [sent EXCEPT ![call[c].ticket] = 1]
    BY <1>11, <1>s, <2>1 DEF LogExecuting, IInv, TypeOK
  <2>3. Phases[call[c].ticket] = "executing" /\ UNCHANGED Phases
    BY <1>s, <2>1 DEF Phases, Stored
  <2> QED BY <1>s, <2>1, <2>2, <2>3 DEF Maps, Lifecycle!Next, Lifecycle!Send
<1>14. ASSUME NEW c \in Call, Finish(c) PROVE Maps
  <2>1. /\ call[c].ticket \in Stored /\ call[c].result \in Outcome
        /\ ticket[call[c].ticket].status \in {"approved", "executing"}
    BY <1>14, <1>k DEF Finish, At, Knows, Fits, Has
  <2>2. TicketBecomes(call[c].ticket, call[c].result, ticket[call[c].ticket].approver)
    BY <1>14, <1>c, <2>1, StatusEffect, OutcomeEffect DEF Finish
  <2> QED BY <1>14, <1>m, <2>1, <2>2 DEF Finish
<1>16. ASSUME NEW c \in Call, NEW t \in Ticket, NEW a \in Actor, Undo(c, t, a) PROVE Maps
  <2>1. t \in Stored
    BY <1>16 DEF Undo, Has
  <2>2. CASE UNCHANGED ticket
    BY <1>16, <1>n, <2>2 DEF Undo
  <2>3. CASE ticket' = [ticket EXCEPT ![t].undo = "expired"]
    <3>1. TicketBecomes(t, ticket[t].status, ticket[t].approver)
      BY <1>c, <2>1, <2>3, UndoneEffect
    <3> QED BY <1>16, <1>u, <2>1, <3>1 DEF Undo
  <2> QED BY <1>16, <2>2, <2>3 DEF Undo
<1>e. ASSUME NEW t \in Stored, NEW s \in UndoStatus, NEW u \in Ticket \cup {None}, UNCHANGED sent,
             ticket' = [ticket EXCEPT ![t] = [@ EXCEPT !.undo = s, !.undoTicket = u]]
      PROVE  Maps
  <2>1. TicketBecomes(t, ticket[t].status, ticket[t].approver)
    BY <1>e, <1>c, UndoTicketEffect
  <2> QED BY <1>e, <1>u, <2>1
<1>17. ASSUME NEW c \in Call, UndoRead(c) PROVE Maps
  <2>1. call[c].undoOf \in Stored /\ ticket[call[c].undoOf].undoTicket \in Ticket \cup {None}
    BY <1>17, <1>k, <1>c DEF UndoRead, At, Knows, Stored, TicketsTyped, Record
  <2> QED BY <1>17, <1>e, <1>n, <2>1 DEF UndoRead, UndoEnds
<1>18. ASSUME NEW c \in Call, UndoSettle(c) PROVE Maps
  <2>1. call[c].undoOf \in Stored /\ call[c].ticket \in Ticket
    BY <1>18, <1>k, <1>s DEF UndoSettle, At, Knows
  <2> QED BY <1>18, <1>e, <2>1 DEF UndoSettle, UndoEnds
<1>22. ASSUME Restart PROVE Maps
  <2>1. \A t \in Interrupted : [ticket[t] EXCEPT !.status = "unknown"] \in Record
    BY <1>c DEF Interrupted, Stored, TicketsTyped, Record, Outcome
  <2>2. Stored' = Stored
    BY <1>22, <2>1, NoneIsNoRecord DEF Restart, Stored, Interrupted
  <2>3. \A t \in Interrupted : ticket'[t].status = "unknown"
    BY <1>22, <1>c, <1>s DEF Restart, Interrupted, Stored, TicketsTyped, Record
  <2>4. Phases' = [t \in Ticket |-> IF Phases[t] \in {"approved", "executing"}
                                      THEN "unknown" ELSE Phases[t]]
    BY <1>22, <2>2, <2>3 DEF Restart, Phases, Interrupted
  <2> QED BY <1>22, <2>4 DEF Restart, Maps, Lifecycle!Next, Lifecycle!Interrupt
<1>o. ASSUME NEW c \in Call,
             \/ LogConfirm(c) \/ LogExpired(c) \/ GatewayAnswers(c) \/ VerifyRead(c)
             \/ LogOutcome(c) \/ LogUndo(c) \/ CommitFails(c)
             \/ \E r \in Request, a \in Actor : RequestAction(c, r, a)
      PROVE  Maps
  BY <1>o, <1>n DEF LogConfirm, LogExpired, GatewayAnswers, VerifyRead, LogOutcome, LogUndo,
     CommitFails, RequestAction, store
<1>p. ASSUME \/ ConsumeExpiredSummary \/ UNCHANGED vars
             \/ \E t \in Ticket : ConfirmationLapses(t) \/ UndoLapses(t)
      PROVE  Maps
  BY <1>p, <1>n DEF ConsumeExpiredSummary, ConfirmationLapses, UndoLapses, store, vars
<1> QED
  BY <1>2, <1>3, <1>5, <1>6, <1>7, <1>10, <1>11, <1>14, <1>16, <1>17, <1>18, <1>22, <1>o, <1>p
  DEF Next, Continue

(* Whatever the interleaving of calls, undos, refused commits and restarts,  *)
(* every ticket follows the lifecycle of ActionLifecycle.                    *)
THEOREM LifecycleRefined == Spec => ImplementsLifecycle
<1>1. Init => Lifecycle!Init
  BY DEF Init, Lifecycle!Init, Phases, Stored
<1>2. IInv /\ [Next]_vars => [Lifecycle!Next]_(Lifecycle!lifecycle)
  BY StepMaps DEF Maps
<1> QED BY <1>1, <1>2, Invariance, PTL DEF Spec, ImplementsLifecycle, Lifecycle!Spec

(***************************************************************************)
(* One request, one execution                                              *)
(***************************************************************************)

(* A request id names at most one ticket and one call, and while it is being *)
(* evaluated it names no ticket yet; an undo's nested request has none.      *)
OneTicketPerRequest ==
  \A t, u \in Stored :
    ticket[t].request = ticket[u].request /\ ticket[t].request # None => t = u

OneCallPerRequest ==
  \A c, d \in Call : call[c].request = call[d].request /\ call[c].request # None => c = d

NotYetStored ==
  \A c \in Call : call[c].pc = "evaluate" /\ call[c].request # None =>
    \A t \in Stored : ticket[t].request # call[c].request

UndosAreNested == \A c \in Call : call[c].pc = "undoRead" => call[c].request = None

RequestInv == OneTicketPerRequest /\ OneCallPerRequest /\ NotYetStored /\ UndosAreNested

(* A step that starts no request and stores no ticket.                       *)
KeepsTickets == Stored' = Stored /\ \A t \in Stored : ticket'[t].request = ticket[t].request

KeepsCalls ==
  \A c \in Call :
    /\ Forgets(c)
    /\ call'[c].pc = "evaluate" => call[c].pc \in {"evaluate", "undoRead"}
    /\ call'[c].pc = "undoRead" => call'[c].request = None

(* Such a step keeps the invariant about requests. *)
LEMMA RequestsKept ==
  ASSUME RequestInv, KeepsTickets, KeepsCalls
  PROVE  RequestInv'
<1>1. OneTicketPerRequest'
  BY DEF RequestInv, OneTicketPerRequest, KeepsTickets
<1>2. OneCallPerRequest'
  BY DEF RequestInv, OneCallPerRequest, KeepsCalls, Forgets
<1>3. NotYetStored'
  BY DEF RequestInv, NotYetStored, UndosAreNested, KeepsTickets, KeepsCalls, Forgets
<1>4. UndosAreNested'
  BY DEF UndosAreNested, KeepsCalls
<1> QED BY <1>1, <1>2, <1>3, <1>4 DEF RequestInv

(* A step that writes a stored ticket keeps its request. *)
LEMMA OneTicketKept ==
  ASSUME NEW t \in Stored, NEW s, NEW a, TicketBecomes(t, s, a)
  PROVE  KeepsTickets
  BY DEF TicketBecomes, KeepsTickets, Stored

(* Call c moves on, but not into a request of its own. *)
Moves(c) ==
  /\ \A d \in Call \ {c} : call'[d] = call[d]
  /\ Forgets(c)
  /\ call'[c].pc # "undoRead"
  /\ call'[c].pc = "evaluate" => call[c].pc = "undoRead"

(* A call that only moves on keeps what the invariant says of calls. *)
LEMMA OneCallKept ==
  ASSUME RequestInv, NEW c \in Call, Moves(c)
  PROVE  KeepsCalls
  BY DEF Moves, KeepsCalls, Forgets, RequestInv, UndosAreNested

(* The effect lemmas in these terms. *)
LEMMA EffectMoves ==
  ASSUME NEW c \in Call, NEW l, NEW t, NEW u, NEW s, CallBecomes(c, l, t, u, s) /\ Forgets(c),
         l # "undoRead", l = "evaluate" => call[c].pc = "undoRead"
  PROVE  Moves(c)
  BY DEF CallBecomes, Moves

(* Moving a call. *)
LEMMA GotoMoves ==
  ASSUME CallsTyped, NEW c \in Call, NEW l \in {"logConfirm", "logExecuting", "logOutcome", "gateway", "verify"},
         Goto(c, l)
  PROVE  Moves(c)
  BY GotoEffect DEF CallBecomes, Moves

(* Going to record an outcome. *)
LEMMA FinishMoves ==
  ASSUME CallsTyped, NEW c \in Call, NEW s, FinishWith(c, s)
  PROVE  Moves(c)
<1>1. CallBecomes(c, "finish", call[c].ticket, call[c].undoOf, s) /\ Forgets(c)
  BY ResultEffect DEF FinishWith
<1> QED BY <1>1, EffectMoves

(* Returning. *)
LEMMA ReturnMoves ==
  ASSUME CallsTyped, NEW c \in Call, Return(c)
  PROVE  Moves(c)
  BY ReturnEffect DEF CallBecomes, Moves

(* Returning a result. *)
LEMMA ReturnResultMoves ==
  ASSUME CallsTyped, NEW c \in Call, NEW s, ReturnResult(c, s)
  PROVE  Moves(c)
<1>1. CASE Return(c)
  BY <1>1, ReturnMoves
<1>2. CASE call' = [call EXCEPT ![c] = [@ EXCEPT !.pc = "settle", !.result = s]]
  <2>1. CallBecomes(c, "settle", call[c].ticket, call[c].undoOf, s) /\ Forgets(c)
    BY <1>2, ResultEffect
  <2> QED BY <2>1, EffectMoves
<1> QED BY <1>1, <1>2 DEF ReturnResult

(* Every step keeps the invariant about requests. *)
LEMMA RequestStep == IInv /\ RequestInv /\ [Next]_vars => RequestInv'
<1> SUFFICES ASSUME IInv, RequestInv, [Next]_vars PROVE RequestInv'
  OBVIOUS
<1>c. CallsTyped /\ TicketsTyped
  BY DEF IInv, TypeOK, CallsTyped, TicketsTyped
<1>k. \A c \in Call : Knows(c)
  BY DEF IInv, CallsKnowTickets
<1>t. UNCHANGED ticket => KeepsTickets
  BY DEF KeepsTickets, Stored
<1>u. UNCHANGED call => KeepsCalls
  BY DEF KeepsCalls, Forgets, RequestInv, UndosAreNested
<1> USE Vocabulary
<1>1. ASSUME NEW c \in Call, NEW r \in Request, NEW a \in Actor, RequestAction(c, r, a)
      PROVE  RequestInv'
  <2>1. /\ call'[c].pc = "evaluate" /\ call'[c].request = r
        /\ \A d \in Call \ {c} : call'[d] = call[d]
        /\ UNCHANGED <<ticket, Stored>>
    BY <1>1, <1>c DEF RequestAction, store, Stored, CallsTyped, Rest
  <2>2. /\ \A d \in Call : call[d].request # r
        /\ \A t \in Stored : ticket[t].request # r
    BY <1>1 DEF RequestAction, InFlight
  <2> QED BY <2>1, <2>2 DEF RequestInv, OneTicketPerRequest, OneCallPerRequest, NotYetStored, UndosAreNested
<1>2. ASSUME NEW c \in Call, Evaluated(c) PROVE RequestInv'
  <2>1. PICK t \in Ticket \ Stored, known \in BOOLEAN, denied \in BOOLEAN,
             reversible \in BOOLEAN, class \in Class :
         /\ ticket' = [ticket EXCEPT ![t] = NewTicket(c, class, reversible)]
         /\ Log(t, "action_requested")
         /\ Route(c, t, known, denied \/ (class = "direct" /\ call[c].actor = "away"), class)
    BY <1>2, ZenonT(60) DEF Evaluated
  <2>2. NewTicket(c, class, reversible) \in Record
    <3>1. call[c].request \in Request \cup {None} /\ call[c].undoOf \in Ticket \cup {None}
      BY <1>c DEF CallsTyped, Local
    <3> QED BY <3>1 DEF NewTicket, Record, UndoStatus
  <2>3. /\ Stored' = Stored \cup {t} /\ ticket'[t].request = call[c].request
        /\ \A u \in Stored : ticket'[u] = ticket[u]
    BY <2>1, <2>2, <1>c, NoneIsNoRecord DEF TicketsTyped, Stored, NewTicket
  <2>4. PICK l \in {"finish", "confirm", "executeRead"}, s \in Outcome \cup {call[c].result} :
          CallBecomes(c, l, t, call[c].undoOf, s) /\ Forgets(c)
    BY <2>1, <1>c, ConcludeEffect, ProceedEffect, EffectMoves DEF Route, Outcome
  <2>5. call[c].pc = "evaluate"
    BY <1>2 DEF Evaluated, At
  <2>6. OneTicketPerRequest'
    BY <2>3, <2>5 DEF RequestInv, OneTicketPerRequest, NotYetStored
  <2>7. OneCallPerRequest' /\ UndosAreNested'
    BY <2>4 DEF RequestInv, OneCallPerRequest, UndosAreNested, CallBecomes, Forgets
  <2>8. NotYetStored'
    BY <2>3, <2>4 DEF RequestInv, OneCallPerRequest, NotYetStored, CallBecomes, Forgets
  <2> QED BY <2>6, <2>7, <2>8 DEF RequestInv
<1>3. ASSUME NEW c \in Call, Confirm(c) \/ ExecuteRead(c) \/ Finish(c) PROVE RequestInv'
  <2>1. call[c].ticket \in Stored /\ call[c].pc = "finish" => call[c].result \in Outcome
    BY <1>k DEF Knows
  <2>2. call[c].ticket \in Stored
    BY <1>3, <1>k, KnownTickets DEF Confirm, ExecuteRead, Finish, At, CallsKnowTickets
  <2>3. KeepsTickets
    BY <1>3, <1>c, <1>t, <2>1, <2>2, StatusEffect, OutcomeEffect, OneTicketKept
    DEF Confirm, ExecuteRead, Finish, At
  <2>4. KeepsCalls
    <3>1. CASE \E l \in {"logConfirm", "logExecuting", "logOutcome"} : Goto(c, l)
      BY <3>1, <1>c, GotoMoves, OneCallKept
    <3>2. CASE FinishWith(c, "unknown")
      BY <3>2, <1>c, FinishMoves, OneCallKept
    <3> QED BY <1>3, <3>1, <3>2 DEF Confirm, ExecuteRead, Finish
  <2> QED BY <2>3, <2>4, RequestsKept
<1>4. ASSUME NEW c \in Call, LogConfirm(c) \/ LogOutcome(c) PROVE RequestInv'
  <2>1. KeepsCalls
    <3>1. ReturnResult(c, "pending_confirmation") \/ ReturnResult(c, call[c].result)
      BY <1>4 DEF LogConfirm, LogOutcome
    <3> QED BY <3>1, <1>c, ReturnResultMoves, OneCallKept
  <2> QED BY <1>4, <1>t, <2>1, RequestsKept DEF LogConfirm, LogOutcome
<1>5. ASSUME NEW c \in Call, NEW t \in Ticket, NEW a \in Actor, Approve(c, t, a) PROVE RequestInv'
  <2>1. KeepsTickets
    BY <1>5, <1>c, ApprovalEffect, OneTicketKept DEF Approve, Has
  <2>2. KeepsCalls
    <3>1. CallBecomes(c, "executeRead", t, None, None) /\ Forgets(c)
      BY <1>5, <1>c, WorkEffect DEF Approve
    <3> QED BY <3>1, EffectMoves, OneCallKept
  <2> QED BY <2>1, <2>2, RequestsKept
<1>6. ASSUME NEW t \in Ticket, NEW a \in Actor, Reject(t, a) PROVE RequestInv'
  <2>1. KeepsTickets
    BY <1>6, <1>c, StatusEffect, OneTicketKept DEF Reject, Has
  <2> QED BY <1>6, <1>u, <2>1, RequestsKept DEF Reject
<1>7. ASSUME NEW c \in Call, NEW t \in Ticket, Expire(c, t) PROVE RequestInv'
  <2>1. KeepsTickets
    BY <1>7, <1>c, StatusEffect, OneTicketKept DEF Expire, Due, Has
  <2>2. KeepsCalls
    <3>1. CallBecomes(c, "logExpired", t, None, None) /\ Forgets(c)
      BY <1>7, <1>c, WorkEffect DEF Expire
    <3> QED BY <3>1, EffectMoves, OneCallKept
  <2> QED BY <2>1, <2>2, RequestsKept
<1>8. ASSUME NEW c \in Call, LogExpired(c) \/ LogUndo(c) \/ CommitFails(c) PROVE RequestInv'
  <2>1. KeepsCalls
    <3>1. Moves(c)
      BY <1>8, <1>c, ReturnEffect, EffectMoves DEF LogExpired, LogUndo, CommitFails
    <3> QED BY <3>1, OneCallKept
  <2> QED BY <1>8, <1>t, <2>1, RequestsKept DEF LogExpired, LogUndo, CommitFails, store
<1>11. ASSUME NEW c \in Call, LogExecuting(c) \/ GatewayAnswers(c) PROVE RequestInv'
  <2>1. KeepsCalls
    <3>1. CASE \E l \in {"gateway", "verify"} : Goto(c, l)
      BY <3>1, <1>c, GotoMoves, OneCallKept
    <3>2. CASE \E s \in {"failed", "unknown"} : FinishWith(c, s)
      BY <3>2, <1>c, FinishMoves, OneCallKept
    <3> QED BY <1>11, <3>1, <3>2 DEF LogExecuting, GatewayAnswers
  <2> QED BY <1>11, <1>t, <2>1, RequestsKept DEF LogExecuting, GatewayAnswers, store
<1>13. ASSUME NEW c \in Call, VerifyRead(c) PROVE RequestInv'
  <2>1. KeepsCalls
    <3>1. CASE \E s \in Outcome : FinishWith(c, s)
      BY <3>1, <1>c, FinishMoves, OneCallKept
    <3>2. CASE call' = [call EXCEPT ![c].reads = @ + 1]
      BY <3>2, <1>13, <1>c DEF VerifyRead, At, KeepsCalls, Forgets, CallsTyped, Local, RequestInv, UndosAreNested
    <3> QED BY <1>13, <3>1, <3>2 DEF VerifyRead
  <2> QED BY <1>13, <1>t, <2>1, RequestsKept DEF VerifyRead, store
<1>16. ASSUME NEW c \in Call, NEW t \in Ticket, NEW a \in Actor, Undo(c, t, a) PROVE RequestInv'
  <2>1. KeepsTickets
    BY <1>16, <1>c, <1>t, UndoneEffect, OneTicketKept DEF Undo, Has
  <2>2. KeepsCalls
    <3>1. CASE call' = [call EXCEPT ![c] = [Rest EXCEPT !.pc = "undoRead", !.undoOf = t, !.actor = a]]
      BY <3>1, <1>c DEF KeepsCalls, Forgets, CallsTyped, Local, Rest, RequestInv, UndosAreNested
    <3> QED BY <1>16, <1>u, <3>1 DEF Undo
  <2> QED BY <2>1, <2>2, RequestsKept
<1>17. ASSUME NEW c \in Call, UndoRead(c) \/ UndoSettle(c) PROVE RequestInv'
  <2>1. /\ call[c].undoOf \in Stored
        /\ ticket[call[c].undoOf].undoTicket \in Ticket \cup {None}
        /\ UndoSettle(c) => call[c].ticket \in Ticket
    BY <1>17, <1>k, <1>c DEF UndoRead, UndoSettle, At, Knows, Stored, TicketsTyped, Record
  <2>2. KeepsTickets
    BY <1>17, <1>c, <1>t, <2>1, UndoTicketEffect, OneTicketKept DEF UndoRead, UndoSettle, UndoEnds
  <2>3. KeepsCalls
    <3>1. CASE Goto(c, "evaluate") /\ call[c].pc = "undoRead"
      <4>1. CallBecomes(c, "evaluate", call[c].ticket, call[c].undoOf, call[c].result) /\ Forgets(c)
        BY <3>1, <1>c, GotoEffect
      <4> QED BY <3>1, <4>1, EffectMoves, OneCallKept
    <3>2. CASE Return(c)
      BY <3>2, <1>c, ReturnMoves, OneCallKept
    <3>3. CASE call' = [call EXCEPT ![c] = [@ EXCEPT !.pc = "logUndo", !.result = None]]
      <4>1. CallBecomes(c, "logUndo", call[c].ticket, call[c].undoOf, None) /\ Forgets(c)
        BY <3>3, <1>c, ResultEffect
      <4> QED BY <4>1, EffectMoves, OneCallKept
    <3> QED BY <1>17, <3>1, <3>2, <3>3 DEF UndoRead, UndoSettle, UndoEnds, At
  <2> QED BY <2>2, <2>3, RequestsKept
<1>22. ASSUME Restart PROVE RequestInv'
  <2>1. \A t \in Interrupted : [ticket[t] EXCEPT !.status = "unknown"] \in Record
    BY <1>c DEF Interrupted, Stored, TicketsTyped, Record, Outcome
  <2>2. KeepsTickets
    BY <1>22, <1>c, <2>1, NoneIsNoRecord DEF Restart, KeepsTickets, Stored, Interrupted, TicketsTyped, Record
  <2>3. KeepsCalls
    BY <1>22 DEF Restart, Rest, KeepsCalls, Forgets
  <2> QED BY <2>2, <2>3, RequestsKept
<1>23. ASSUME \/ ConsumeExpiredSummary \/ UNCHANGED vars
              \/ \E t \in Ticket : ConfirmationLapses(t) \/ UndoLapses(t)
       PROVE  RequestInv'
  BY <1>23, <1>t, <1>u, RequestsKept DEF ConsumeExpiredSummary, ConfirmationLapses, UndoLapses, store, vars
<1> QED
  BY <1>1, <1>2, <1>3, <1>4, <1>5, <1>6, <1>7, <1>8, <1>11, <1>13, <1>16, <1>17, <1>22, <1>23
  DEF Next, Continue

(* However a request is repeated (at once, after an answer, after a refused  *)
(* commit or a restart), the gateway executes it at most once.               *)
THEOREM ExactlyOneExecution == Spec => []OneExecutionPerRequest
<1>1. Init => RequestInv
  BY DEF Init, RequestInv, OneTicketPerRequest, OneCallPerRequest, NotYetStored, UndosAreNested,
     Stored, Rest
<1>2. IInv /\ RequestInv => OneExecutionPerRequest
  <2> SUFFICES ASSUME IInv, OneTicketPerRequest, NEW t \in Stored, sent[t] > 0 PROVE sent[t] = 1
    BY DEF RequestInv, OneTicketPerRequest, OneExecutionPerRequest
  <2>1. Sound(t)
    BY DEF IInv, Stored
  <2> QED BY <2>1 DEF Sound
<1> QED BY <1>1, <1>2, RequestStep, Invariance, PTL DEF Spec

(***************************************************************************)
(* Decisions on the timeline, and expiries announced                       *)
(***************************************************************************)
Decisions(t) == logged[t] \cap {"confirmation_approved", "confirmation_rejected"}

(* The timeline of a ticket holds its decision, and only that one.           *)
Dated(t) ==
  /\ t \notin Stored => Decisions(t) = {}
  /\ t \in Stored =>
       /\ ticket[t].approver # None <=> "confirmation_approved" \in Decisions(t)
       /\ ticket[t].status = "rejected" <=> "confirmation_rejected" \in Decisions(t)
       /\ ticket[t].status \in {"pending_confirmation", "rejected"} => ticket[t].approver = None

(* A ticket about to wait for its confirmation has no approver yet.          *)
Undecided(c) == call[c].pc = "confirm" => ticket[call[c].ticket].approver = None

(* Only an expired ticket is announced, once; before that it may be waiting  *)
(* past the cursor.                                                          *)
Told(t) ==
  /\ announced[t] \in {0, 1}
  /\ announced[t] = 1 \/ t \in unannounced => Has(t, "expired")
  /\ t \in unannounced => announced[t] = 0

(* Between the two commits of an expiry its call alone is on the ticket, and *)
(* nobody has heard of it.                                                   *)
Expiring(c) ==
  call[c].pc = "logExpired" =>
    LET t == call[c].ticket IN
      /\ Has(t, "expired") /\ announced[t] = 0 /\ t \notin unannounced
      /\ \A d \in Call \ {c} : call[d].pc = "logExpired" => call[d].ticket # t

HistoryInv ==
  /\ \A t \in Ticket : Dated(t) /\ Told(t)
  /\ \A c \in Call : Undecided(c) /\ Expiring(c)

(* What every step does that neither decides a ticket nor expires or         *)
(* announces one: only work in progress changes its status.                  *)
Progresses(t) ==
  /\ ticket'[t].approver = ticket[t].approver
  /\ \/ ticket'[t].status = ticket[t].status
     \/ /\ ticket[t].status \in {"approved", "executing"}
        /\ ticket'[t].status \in Outcome \cup {"executing"}

(* No call starts a confirmation or an expiry. *)
NobodyEnters ==
  \A c \in Call : call'[c].pc \in {"confirm", "logExpired"} => call'[c] = call[c]

SettlesNothing ==
  /\ Stored' = Stored /\ \A t \in Stored : Progresses(t)
  /\ \A t \in Ticket : Decisions(t)' = Decisions(t)
  /\ NobodyEnters
  /\ UNCHANGED <<unannounced, announced>>

(* Such a step keeps the invariant. *)
LEMMA HistoryKept ==
  ASSUME IInv, HistoryInv, SettlesNothing
  PROVE  HistoryInv'
<1>c. \A c \in Call : Fits(c) /\ Undecided(c) /\ Expiring(c)
  BY DEF IInv, HistoryInv
<1>1. ASSUME NEW t \in Ticket PROVE Dated(t)' /\ Told(t)'
  <2>1. Dated(t) /\ Told(t)
    BY DEF HistoryInv
  <2>2. Dated(t)'
    BY <2>1 DEF SettlesNothing, Progresses, Dated, Outcome
  <2>3. Told(t)'
    BY <2>1 DEF SettlesNothing, Progresses, Told, Has
  <2> QED BY <2>2, <2>3
<1>2. ASSUME NEW c \in Call PROVE Undecided(c)' /\ Expiring(c)'
  <2>1. Undecided(c)'
    BY <1>c DEF SettlesNothing, NobodyEnters, Progresses, Undecided, Fits, Has
  <2>2. Expiring(c)'
    BY <1>c DEF SettlesNothing, NobodyEnters, Progresses, Expiring, Has
  <2> QED BY <2>1, <2>2
<1> QED BY <1>1, <1>2 DEF HistoryInv

(* The ways a step can leave every ticket, timeline and call to it. *)
LEMMA LogKeepsDecisions ==
  ASSUME TimelineTyped, NEW t \in Ticket, NEW k, Log(t, k),
         k \notin {"confirmation_approved", "confirmation_rejected"}
  PROVE  \A u \in Ticket : Decisions(u)' = Decisions(u)
  BY DEF TimelineTyped, Log, Decisions

(* Writing the status of a ticket that is worked on. *)
LEMMA StatusProgresses ==
  ASSUME NEW t \in Stored, NEW s, TicketBecomes(t, s, ticket[t].approver),
         \/ s = ticket[t].status
         \/ ticket[t].status \in {"approved", "executing"} /\ s \in Outcome \cup {"executing"}
  PROVE  Stored' = Stored /\ \A u \in Stored : Progresses(u)
  BY DEF TicketBecomes, Progresses, Stored

(* Moving a call anywhere but into a confirmation or an expiry. *)
LEMMA GotoClear ==
  ASSUME CallsTyped, NEW c \in Call, NEW l, Goto(c, l), l \notin {"confirm", "logExpired"}
  PROVE  NobodyEnters
  BY GotoEffect DEF CallBecomes, NobodyEnters

(* The effect lemmas in these terms. *)
LEMMA EffectClear ==
  ASSUME NEW c \in Call, NEW l, NEW t, NEW u, NEW s, CallBecomes(c, l, t, u, s),
         l \notin {"confirm", "logExpired"}
  PROVE  NobodyEnters
  BY DEF CallBecomes, NobodyEnters

(* Going to record an outcome. *)
LEMMA FinishClear ==
  ASSUME CallsTyped, NEW c \in Call, NEW s, FinishWith(c, s)
  PROVE  NobodyEnters
<1>1. CallBecomes(c, "finish", call[c].ticket, call[c].undoOf, s)
  BY ResultEffect DEF FinishWith
<1> QED BY <1>1, EffectClear

(* Returning it. *)
LEMMA ReturnClear ==
  ASSUME CallsTyped, NEW c \in Call, Return(c)
  PROVE  NobodyEnters
  BY ReturnEffect DEF CallBecomes, NobodyEnters

(* Returning its result. *)
LEMMA ReturnResultClear ==
  ASSUME CallsTyped, NEW c \in Call, NEW s, ReturnResult(c, s)
  PROVE  NobodyEnters
<1>1. CASE Return(c)
  BY <1>1, ReturnClear
<1>2. CASE call' = [call EXCEPT ![c] = [@ EXCEPT !.pc = "settle", !.result = s]]
  <2>1. CallBecomes(c, "settle", call[c].ticket, call[c].undoOf, s)
    BY <1>2, ResultEffect
  <2> QED BY <2>1, EffectClear
<1> QED BY <1>1, <1>2 DEF ReturnResult

(* Every step keeps the invariant about decisions and announcements. *)
LEMMA HistoryStep == IInv /\ HistoryInv /\ [Next]_vars => HistoryInv'
<1> SUFFICES ASSUME IInv, HistoryInv, [Next]_vars PROVE HistoryInv'
  OBVIOUS
<1>c. CallsTyped /\ TicketsTyped /\ TimelineTyped
  BY DEF IInv, TypeOK, CallsTyped, TicketsTyped, TimelineTyped
<1>s. \A t \in Stored : t \in Ticket /\ ticket[t] \in Record
  BY <1>c DEF Stored, TicketsTyped
<1>k. CallsKnowTickets /\ \A c \in Call : Fits(c) /\ Alone(c) /\ Undecided(c) /\ Expiring(c)
  BY DEF IInv, HistoryInv
<1>i. \A t \in Ticket : Dated(t) /\ Told(t)
  BY DEF HistoryInv
<1>t. UNCHANGED ticket => Stored' = Stored /\ \A t \in Stored : Progresses(t)
  BY DEF Stored, Progresses
<1>l. UNCHANGED logged => \A t \in Ticket : Decisions(t)' = Decisions(t)
  BY DEF Decisions
<1> USE Vocabulary
<1>1. ASSUME NEW c \in Call, NEW r \in Request, NEW a \in Actor, RequestAction(c, r, a)
      PROVE  HistoryInv'
  <2>1. CallBecomes(c, "evaluate", None, None, None)
    BY <1>1, <1>c, RequestEffect DEF RequestAction
  <2> QED BY <1>1, <1>t, <1>l, <2>1, HistoryKept
      DEF RequestAction, store, CallBecomes, NobodyEnters, SettlesNothing
<1>2. ASSUME NEW c \in Call, Evaluated(c) PROVE HistoryInv'
  <2>1. PICK t \in Ticket \ Stored, known \in BOOLEAN, denied \in BOOLEAN,
             reversible \in BOOLEAN, class \in Class :
         /\ ticket' = [ticket EXCEPT ![t] = NewTicket(c, class, reversible)]
         /\ Log(t, "action_requested")
         /\ Route(c, t, known, denied \/ (class = "direct" /\ call[c].actor = "away"), class)
    BY <1>2, ZenonT(60) DEF Evaluated
  <2>2. NewTicket(c, class, reversible) \in Record
    <3>1. call[c].request \in Request \cup {None} /\ call[c].undoOf \in Ticket \cup {None}
      BY <1>c DEF CallsTyped, Local
    <3> QED BY <3>1 DEF NewTicket, Record, UndoStatus
  <2>3. /\ Stored' = Stored \cup {t}
        /\ ticket'[t].status = "approved" /\ ticket'[t].approver = None
        /\ \A u \in Ticket \ {t} : ticket'[u] = ticket[u]
    BY <2>1, <2>2, <1>c, NoneIsNoRecord DEF TicketsTyped, Stored, NewTicket
  <2>4. PICK l \in {"finish", "confirm", "executeRead"}, s \in Outcome \cup {call[c].result} :
          CallBecomes(c, l, t, call[c].undoOf, s)
    BY <2>1, <1>c, ConcludeEffect, ProceedEffect DEF Route, Outcome
  <2>5. \A u \in Ticket : Decisions(u)' = Decisions(u)
    BY <2>1, <1>c, LogKeepsDecisions
  <2>6. UNCHANGED <<unannounced, announced>>
    BY <1>2 DEF Evaluated
  <2>7. ASSUME NEW u \in Ticket PROVE Dated(u)' /\ Told(u)'
    <3>1. CASE u = t
      BY <3>1, <1>i, <2>3, <2>5, <2>6 DEF Dated, Told, Has
    <3>2. CASE u # t
      BY <3>2, <1>i, <2>3, <2>5, <2>6 DEF Dated, Told, Has
    <3> QED BY <3>1, <3>2
  <2>8. ASSUME NEW d \in Call PROVE Undecided(d)' /\ Expiring(d)'
    <3>1. CASE d = c
      BY <3>1, <2>3, <2>4 DEF CallBecomes, Undecided, Expiring
    <3>2. CASE d # c
      <4>1. call'[d] = call[d] /\ (call[d].pc \in {"confirm", "logExpired"} => call[d].ticket \in Stored)
        BY <3>2, <2>4, <1>k, KnownTickets DEF CallBecomes
      <4>2. Undecided(d)'
        BY <4>1, <1>s, <1>k, <2>3 DEF Undecided
      <4>3. Expiring(d)'
        BY <4>1, <1>s, <1>k, <2>3, <2>4, <2>6 DEF Expiring, Has, CallBecomes
      <4> QED BY <4>2, <4>3
    <3> QED BY <3>1, <3>2
  <2> QED BY <2>7, <2>8 DEF HistoryInv
<1>3. ASSUME NEW c \in Call, Confirm(c) PROVE HistoryInv'
  <2>1. /\ call[c].ticket \in Stored /\ UNCHANGED <<logged, unannounced, announced>>
        /\ Has(call[c].ticket, "approved") /\ ticket[call[c].ticket].approver = None
    BY <1>3, <1>k, KnownTickets DEF Confirm, At, Fits, Undecided
  <2>2. CallBecomes(c, "logConfirm", call[c].ticket, call[c].undoOf, call[c].result)
    BY <1>3, <1>c, GotoEffect DEF Confirm
  <2>3. TicketBecomes(call[c].ticket, "pending_confirmation", ticket[call[c].ticket].approver)
    BY <1>3, <1>c, <2>1, StatusEffect DEF Confirm
  <2>4. ASSUME NEW u \in Ticket PROVE Dated(u)' /\ Told(u)'
    BY <1>i, <1>l, <2>1, <2>3 DEF TicketBecomes, Dated, Told, Has
  <2>5. ASSUME NEW d \in Call PROVE Undecided(d)' /\ Expiring(d)'
    <3>1. Undecided(d)'
      BY <1>k, <2>1, <2>2, <2>3 DEF CallBecomes, TicketBecomes, Undecided, Fits, Has, Stored
    <3>2. Expiring(d)'
      BY <1>k, <2>1, <2>2, <2>3 DEF CallBecomes, TicketBecomes, Expiring, Has, Stored
    <3> QED BY <3>1, <3>2
  <2> QED BY <2>4, <2>5 DEF HistoryInv
<1>4. ASSUME NEW c \in Call, LogConfirm(c) PROVE HistoryInv'
  <2>1. call[c].ticket \in Ticket
    BY <1>4, <1>k, <1>s, KnownTickets DEF LogConfirm, At
  <2>2. \A u \in Ticket : Decisions(u)' = Decisions(u)
    BY <1>4, <1>c, <2>1, LogKeepsDecisions DEF LogConfirm
  <2>3. NobodyEnters
    BY <1>4, <1>c, ReturnResultClear DEF LogConfirm
  <2> QED BY <1>4, <1>t, <2>2, <2>3, HistoryKept DEF LogConfirm, SettlesNothing
<1>5. ASSUME NEW c \in Call, NEW t \in Ticket, NEW a \in Actor, Approve(c, t, a) PROVE HistoryInv'
  <2>1. /\ Has(t, "pending_confirmation") /\ a # None
        /\ UNCHANGED <<unannounced, announced>>
    BY <1>5, PlaneAssumption DEF Approve, Eligible
  <2>2. CallBecomes(c, "executeRead", t, None, None)
    BY <1>5, <1>c, WorkEffect DEF Approve
  <2>3. TicketBecomes(t, "approved", a)
    BY <1>5, <1>c, <2>1, ApprovalEffect DEF Approve, Has
  <2>4. /\ Decisions(t)' = Decisions(t) \cup {"confirmation_approved"}
        /\ \A u \in Ticket \ {t} : Decisions(u)' = Decisions(u)
    BY <1>5, <1>c DEF Approve, Log, TimelineTyped, Decisions
  <2>5. ASSUME NEW u \in Ticket PROVE Dated(u)' /\ Told(u)'
    <3>1. CASE u = t
      BY <3>1, <1>i, <2>1, <2>3, <2>4 DEF TicketBecomes, Dated, Told, Has
    <3>2. CASE u # t
      BY <3>2, <1>i, <2>1, <2>3, <2>4 DEF TicketBecomes, Dated, Told, Has
    <3> QED BY <3>1, <3>2
  <2>6. ASSUME NEW d \in Call PROVE Undecided(d)' /\ Expiring(d)'
    <3>1. Undecided(d)'
      BY <1>k, <2>1, <2>2, <2>3 DEF CallBecomes, TicketBecomes, Undecided, Fits, Has, Stored
    <3>2. Expiring(d)'
      BY <1>k, <2>1, <2>2, <2>3 DEF CallBecomes, TicketBecomes, Expiring, Has, Stored
    <3> QED BY <3>1, <3>2
  <2> QED BY <2>5, <2>6 DEF HistoryInv
<1>6. ASSUME NEW t \in Ticket, NEW a \in Actor, Reject(t, a) PROVE HistoryInv'
  <2>1. /\ Has(t, "pending_confirmation")
        /\ UNCHANGED <<call, unannounced, announced>>
    BY <1>6 DEF Reject
  <2>2. TicketBecomes(t, "rejected", ticket[t].approver)
    BY <1>6, <1>c, <2>1, StatusEffect DEF Reject, Has
  <2>3. /\ Decisions(t)' = Decisions(t) \cup {"confirmation_rejected"}
        /\ \A u \in Ticket \ {t} : Decisions(u)' = Decisions(u)
    BY <1>6, <1>c DEF Reject, Log, TimelineTyped, Decisions
  <2>4. ASSUME NEW u \in Ticket PROVE Dated(u)' /\ Told(u)'
    <3>1. CASE u = t
      BY <3>1, <1>i, <2>1, <2>2, <2>3 DEF TicketBecomes, Dated, Told, Has
    <3>2. CASE u # t
      BY <3>2, <1>i, <2>1, <2>2, <2>3 DEF TicketBecomes, Dated, Told, Has
    <3> QED BY <3>1, <3>2
  <2>5. ASSUME NEW d \in Call PROVE Undecided(d)' /\ Expiring(d)'
    BY <1>k, <2>1, <2>2 DEF TicketBecomes, Undecided, Expiring, Fits, Has, Stored
  <2> QED BY <2>4, <2>5 DEF HistoryInv
<1>7. ASSUME NEW c \in Call, NEW t \in Ticket, Expire(c, t) PROVE HistoryInv'
  <2>1. /\ Has(t, "pending_confirmation")
        /\ UNCHANGED <<logged, unannounced, announced>>
    BY <1>7 DEF Expire, Due
  <2>2. CallBecomes(c, "logExpired", t, None, None)
    BY <1>7, <1>c, WorkEffect DEF Expire
  <2>3. TicketBecomes(t, "expired", ticket[t].approver)
    BY <1>7, <1>c, <2>1, StatusEffect DEF Expire, Has
  <2>4. announced[t] = 0 /\ t \notin unannounced
    BY <1>i, <2>1 DEF Told, Has
  <2>5. ASSUME NEW u \in Ticket PROVE Dated(u)' /\ Told(u)'
    BY <1>i, <1>l, <2>1, <2>3 DEF TicketBecomes, Dated, Told, Has
  <2>6. ASSUME NEW d \in Call PROVE Undecided(d)' /\ Expiring(d)'
    <3>1. Undecided(d)'
      BY <1>k, <2>1, <2>2, <2>3 DEF CallBecomes, TicketBecomes, Undecided, Fits, Has, Stored
    <3>2. Expiring(d)'
      BY <1>k, <2>1, <2>2, <2>3, <2>4 DEF CallBecomes, TicketBecomes, Expiring, Has, Stored
    <3> QED BY <3>1, <3>2
  <2> QED BY <2>5, <2>6 DEF HistoryInv
<1>8. ASSUME NEW c \in Call, LogExpired(c) PROVE HistoryInv'
  <2>1. /\ call[c].ticket \in Stored /\ call[c].pc = "logExpired"
        /\ unannounced' = unannounced \cup {call[c].ticket}
        /\ UNCHANGED <<ticket, announced>>
    BY <1>8, <1>k, KnownTickets DEF LogExpired, At
  <2>2. CallBecomes(c, "idle", None, None, None)
    BY <1>8, <1>c, ReturnEffect DEF LogExpired
  <2>3. \A u \in Ticket : Decisions(u)' = Decisions(u)
    BY <1>8, <1>c, <1>s, <2>1, LogKeepsDecisions DEF LogExpired
  <2>4. ASSUME NEW u \in Ticket PROVE Dated(u)' /\ Told(u)'
    BY <1>i, <1>k, <2>1, <2>3 DEF Dated, Told, Expiring, Has, Stored
  <2>5. ASSUME NEW d \in Call PROVE Undecided(d)' /\ Expiring(d)'
    BY <1>k, <2>1, <2>2 DEF CallBecomes, Undecided, Expiring, Has, Stored
  <2> QED BY <2>4, <2>5 DEF HistoryInv
<1>9. ASSUME ConsumeExpiredSummary PROVE HistoryInv'
  <2>1. /\ announced' = [t \in Ticket |-> announced[t] + (IF t \in unannounced THEN 1 ELSE 0)]
        /\ unannounced' = {} /\ UNCHANGED <<ticket, logged, call>>
    BY <1>9 DEF ConsumeExpiredSummary, CursorAdvances
  <2>2. ASSUME NEW u \in Ticket PROVE Dated(u)' /\ Told(u)'
    <3>1. Dated(u)'
      BY <1>i, <1>l, <2>1 DEF Dated, Stored
    <3>2. Told(u)'
      BY <1>i, <2>1 DEF Told, Has, Stored
    <3> QED BY <3>1, <3>2
  <2>3. ASSUME NEW d \in Call PROVE Undecided(d)' /\ Expiring(d)'
    <3>1. call[d].pc = "logExpired" => call[d].ticket \in Ticket
      BY <1>k, <1>s, KnownTickets
    <3> QED BY <1>k, <2>1, <3>1 DEF Undecided, Expiring, Has, Stored
  <2> QED BY <2>2, <2>3 DEF HistoryInv
<1>10. ASSUME NEW c \in Call, ExecuteRead(c) PROVE HistoryInv'
  <2>1. Has(call[c].ticket, "approved") /\ UNCHANGED <<logged, unannounced, announced>>
    BY <1>10, <1>k DEF ExecuteRead, At, Fits
  <2>2. Stored' = Stored /\ \A u \in Stored : Progresses(u)
    BY <1>10, <1>c, <1>t, <2>1, StatusEffect, StatusProgresses DEF ExecuteRead, Has
  <2>3. NobodyEnters
    BY <1>10, <1>c, GotoClear, FinishClear DEF ExecuteRead
  <2> QED BY <1>l, <2>1, <2>2, <2>3, HistoryKept DEF SettlesNothing
<1>11. ASSUME NEW c \in Call, LogExecuting(c) \/ LogOutcome(c) \/ LogUndo(c) PROVE HistoryInv'
  <2>1. \A u \in Ticket : Decisions(u)' = Decisions(u)
    <3>1. /\ LogExecuting(c) \/ LogOutcome(c) => call[c].ticket \in Ticket
          /\ LogUndo(c) => call[c].undoOf \in Ticket
      BY <1>k, <1>s, KnownTickets DEF LogExecuting, LogOutcome, LogUndo, At
    <3>2. PICK t \in Ticket, k \in Kind \ {"confirmation_approved", "confirmation_rejected"} : Log(t, k)
      BY <1>11, <3>1 DEF LogExecuting, LogOutcome, LogUndo, OutcomeKind, Kind
    <3> QED BY <1>c, <3>2, LogKeepsDecisions
  <2>2. NobodyEnters
    <3>1. CASE Goto(c, "gateway")
      BY <3>1, <1>c, GotoClear
    <3>2. CASE Return(c)
      BY <3>2, <1>c, ReturnClear
    <3>3. CASE ReturnResult(c, call[c].result)
      BY <3>3, <1>c, ReturnResultClear
    <3> QED BY <1>11, <3>1, <3>2, <3>3 DEF LogExecuting, LogOutcome, LogUndo
  <2> QED BY <1>11, <1>t, <2>1, <2>2, HistoryKept DEF LogExecuting, LogOutcome, LogUndo, SettlesNothing
<1>12. ASSUME NEW c \in Call, GatewayAnswers(c) \/ VerifyRead(c) PROVE HistoryInv'
  <2>1. NobodyEnters
    <3>1. CASE Goto(c, "verify")
      BY <3>1, <1>c, GotoClear
    <3>2. CASE \E s : FinishWith(c, s)
      BY <3>2, <1>c, FinishClear
    <3>3. CASE call[c].pc = "verify" /\ call' = [call EXCEPT ![c].reads = @ + 1]
      BY <3>3, <1>c DEF CallsTyped, Local, NobodyEnters
    <3> QED BY <1>12, <3>1, <3>2, <3>3 DEF GatewayAnswers, VerifyRead, At
  <2> QED BY <1>12, <1>t, <1>l, <2>1, HistoryKept DEF GatewayAnswers, VerifyRead, store, SettlesNothing
<1>14. ASSUME NEW c \in Call, Finish(c) PROVE HistoryInv'
  <2>1. /\ call[c].ticket \in Stored /\ call[c].result \in Outcome
        /\ ticket[call[c].ticket].status \in {"approved", "executing"}
        /\ UNCHANGED <<logged, unannounced, announced>>
    BY <1>14, <1>k, KnownTickets DEF Finish, At, Fits, Has
  <2>2. TicketBecomes(call[c].ticket, call[c].result, ticket[call[c].ticket].approver)
    BY <1>14, <1>c, <2>1, StatusEffect, OutcomeEffect DEF Finish
  <2>3. NobodyEnters
    BY <1>14, <1>c, GotoClear DEF Finish
  <2> QED BY <1>l, <2>1, <2>2, <2>3, StatusProgresses, HistoryKept DEF SettlesNothing
<1>16. ASSUME NEW c \in Call, NEW t \in Ticket, NEW a \in Actor, Undo(c, t, a) PROVE HistoryInv'
  <2>1. Stored' = Stored /\ \A u \in Stored : Progresses(u)
    BY <1>16, <1>c, <1>t, UndoneEffect, StatusProgresses DEF Undo, Has
  <2>2. \A u \in Ticket : Decisions(u)' = Decisions(u)
    BY <1>16, <1>c, <1>l, LogKeepsDecisions DEF Undo
  <2>3. NobodyEnters
    <3>1. CASE UNCHANGED call
      BY <3>1 DEF NobodyEnters
    <3>2. CASE call' = [call EXCEPT ![c] = [Rest EXCEPT !.pc = "undoRead", !.undoOf = t, !.actor = a]]
      <4>1. CallBecomes(c, "undoRead", None, t, None)
        BY <3>2, <1>c, UndoEffect
      <4> QED BY <4>1, EffectClear
    <3> QED BY <1>16, <3>1, <3>2 DEF Undo
  <2> QED BY <1>16, <2>1, <2>2, <2>3, HistoryKept DEF Undo, SettlesNothing
<1>17. ASSUME NEW c \in Call, UndoRead(c) \/ UndoSettle(c) PROVE HistoryInv'
  <2>1. /\ call[c].undoOf \in Stored
        /\ ticket[call[c].undoOf].undoTicket \in Ticket \cup {None}
        /\ UndoSettle(c) => call[c].ticket \in Ticket
    BY <1>17, <1>k, <1>s, KnownTickets DEF UndoRead, UndoSettle, At, Record
  <2>2. Stored' = Stored /\ \A u \in Stored : Progresses(u)
    <3>1. CASE UNCHANGED ticket
      BY <3>1, <1>t
    <3>2. CASE \E u \in UndoStatus, v \in Ticket \cup {None} :
                 ticket' = [ticket EXCEPT ![call[c].undoOf] = [@ EXCEPT !.undo = u, !.undoTicket = v]]
      <4>1. TicketBecomes(call[c].undoOf, ticket[call[c].undoOf].status, ticket[call[c].undoOf].approver)
        BY <3>2, <1>c, <2>1, UndoTicketEffect
      <4> QED BY <2>1, <4>1, StatusProgresses
    <3> QED BY <1>17, <2>1, <3>1, <3>2 DEF UndoRead, UndoSettle, UndoEnds
  <2>3. NobodyEnters
    <3>1. CASE Goto(c, "evaluate")
      BY <3>1, <1>c, GotoClear
    <3>2. CASE Return(c)
      BY <3>2, <1>c, ReturnClear
    <3>3. CASE call' = [call EXCEPT ![c] = [@ EXCEPT !.pc = "logUndo", !.result = None]]
      <4>1. CallBecomes(c, "logUndo", call[c].ticket, call[c].undoOf, None)
        BY <3>3, <1>c, ResultEffect
      <4> QED BY <4>1, EffectClear
    <3> QED BY <1>17, <3>1, <3>2, <3>3 DEF UndoRead, UndoSettle, UndoEnds
  <2> QED BY <1>17, <1>l, <2>2, <2>3, HistoryKept DEF UndoRead, UndoSettle, SettlesNothing
<1>21. ASSUME NEW c \in Call, CommitFails(c) PROVE HistoryInv'
  <2>1. NobodyEnters
    BY <1>21, <1>c, ReturnClear DEF CommitFails
  <2> QED BY <1>21, <1>t, <1>l, <2>1, HistoryKept DEF CommitFails, store, SettlesNothing
<1>22. ASSUME Restart PROVE HistoryInv'
  <2>1. \A t \in Interrupted : [ticket[t] EXCEPT !.status = "unknown"] \in Record
    BY <1>s DEF Interrupted, Record, Outcome
  <2>2. Stored' = Stored
    BY <1>22, <2>1, NoneIsNoRecord DEF Restart, Stored, Interrupted
  <2>3. \A u \in Stored : Progresses(u)
    BY <1>22, <1>s DEF Restart, Interrupted, Progresses, Outcome, Record
  <2>4. \A u \in Ticket : Decisions(u)' = Decisions(u)
    BY <1>22 DEF Restart, Decisions
  <2> QED BY <1>22, <2>2, <2>3, <2>4, HistoryKept DEF Restart, Rest, SettlesNothing, NobodyEnters
<1>23. ASSUME \/ UNCHANGED vars
              \/ \E t \in Ticket : ConfirmationLapses(t) \/ UndoLapses(t)
       PROVE  HistoryInv'
  BY <1>23, <1>t, <1>l, HistoryKept
  DEF ConfirmationLapses, UndoLapses, store, vars, SettlesNothing, NobodyEnters
<1> QED
  BY <1>1, <1>2, <1>3, <1>4, <1>5, <1>6, <1>7, <1>8, <1>9, <1>10, <1>11, <1>12, <1>14, <1>16,
     <1>17, <1>21, <1>22, <1>23
  DEF Next, Continue

(* Nothing is decided, expired or announced before the first call. *)
LEMMA HistoryInit == Init => HistoryInv
<1> SUFFICES ASSUME Init PROVE HistoryInv
  OBVIOUS
<1>1. \A t \in Ticket : Dated(t) /\ Told(t)
  BY DEF Init, Dated, Told, Decisions, Stored
<1>2. \A c \in Call : Undecided(c) /\ Expiring(c)
  BY DEF Init, Undecided, Expiring, Rest
<1> QED BY <1>1, <1>2 DEF HistoryInv

(* No crash, refused commit or late decision leaves a decided ticket whose   *)
(* timeline misses the decision, or a timeline with two contrary ones.       *)
THEOREM DecisionsAreRecorded == Spec => []DecisionOnTimeline
<1>1. HistoryInv => DecisionOnTimeline
  BY DEF HistoryInv, Dated, Decisions, DecisionOnTimeline, Stored, Has
<1> QED BY <1>1, HistoryInit, HistoryStep, Invariance, PTL DEF Spec

(* No expiry is counted in two summaries, and none is counted that did not   *)
(* happen.                                                                   *)
THEOREM ExpiriesAnnouncedOnce == Spec => []AnnouncedOnce
<1>1. HistoryInv => AnnouncedOnce
  BY DEF HistoryInv, Told, AnnouncedOnce
<1> QED BY <1>1, HistoryInit, HistoryStep, Invariance, PTL DEF Spec

(***************************************************************************)
(* Nothing is left over                                                    *)
(***************************************************************************)

(* A ticket that is approved or executing has a call at work on it.          *)
Open(t) == t \in Stored /\ ticket[t].status \in {"approved", "executing"}
Attended(t) == Open(t) => \E c \in Call : call[c].ticket = t /\ Working(c)

(* Only a refused commit can take the call away and leave the ticket open.   *)
OrphanInv == faults.failure = 0 => \A t \in Ticket : Attended(t)

OpensNothing == \A t \in Ticket : Open(t)' => Open(t)

(* A call stays at work on its ticket, or closes it.                         *)
Attends(c) ==
  \A t \in Ticket : Working(c) /\ call[c].ticket = t /\ Open(t)' =>
    Working(c)' /\ call'[c].ticket = t

(* A step that opens no ticket and takes no call off an open one.            *)
LEMMA AttendedKept ==
  ASSUME \A t \in Ticket : Attended(t), OpensNothing, \A c \in Call : Attends(c)
  PROVE  \A t \in Ticket : Attended(t)'
<1> SUFFICES ASSUME NEW t \in Ticket, Open(t)' PROVE \E c \in Call : call'[c].ticket = t /\ Working(c)'
  BY DEF Attended
<1>1. PICK c \in Call : call[c].ticket = t /\ Working(c)
  BY DEF Attended, OpensNothing
<1> QED BY <1>1 DEF Attends

(* Only one call moves. *)
LEMMA OneAttends ==
  ASSUME NEW c \in Call, \A d \in Call \ {c} : call'[d] = call[d], Attends(c)
  PROVE  \A d \in Call : Attends(d)
  BY DEF Attends, Working

(* Writing a status that is not open, or on a ticket that is. *)
LEMMA OneOpensNothing ==
  ASSUME NEW t \in Stored, NEW s, NEW a, TicketBecomes(t, s, a),
         s \in {"approved", "executing"} => Open(t)
  PROVE  OpensNothing
  BY DEF TicketBecomes, OpensNothing, Open

(* A step in which call c opens a ticket and works on it, having worked on   *)
(* none before.                                                              *)
LEMMA OneOpens ==
  ASSUME \A u \in Ticket : Attended(u), NEW c \in Call, ~Working(c), NEW t \in Ticket,
         \A d \in Call \ {c} : call'[d] = call[d],
         \A u \in Ticket \ {t} : Open(u)' => Open(u),
         Working(c)', call'[c].ticket = t
  PROVE  \A u \in Ticket : Attended(u)'
  BY DEF Attended, Working

(* Every step that is not a refused commit keeps every open ticket attended. *)
LEMMA OrphanStep == IInv /\ OrphanInv /\ [Next]_vars => OrphanInv'
<1> SUFFICES ASSUME IInv, OrphanInv, [Next]_vars PROVE OrphanInv'
  OBVIOUS
<1>c. CallsTyped /\ TicketsTyped
  BY DEF IInv, TypeOK, CallsTyped, TicketsTyped
<1>f. faults \in [crash : 0..MaxCrash, failure : 0..MaxFailure]
  BY DEF IInv, TypeOK
<1>k. CallsKnowTickets /\ \A c \in Call : Knows(c) /\ Fits(c)
  BY DEF IInv, CallsKnowTickets
<1>t. UNCHANGED ticket => OpensNothing
  BY DEF OpensNothing, Open, Stored
<1>w. \A c \in Call : ~Working(c) => Attends(c)
  BY DEF Attends
<1>q. ASSUME OpensNothing, UNCHANGED faults, \A c \in Call : Attends(c) PROVE OrphanInv'
  BY <1>q, AttendedKept DEF OrphanInv
<1> USE Vocabulary
<1>1. ASSUME NEW c \in Call, NEW r \in Request, NEW a \in Actor, RequestAction(c, r, a)
      PROVE  OrphanInv'
  <2>1. CallBecomes(c, "evaluate", None, None, None)
    BY <1>1, <1>c, RequestEffect DEF RequestAction
  <2> QED BY <1>1, <1>t, <1>w, <1>q, <2>1, OneAttends DEF RequestAction, store, At, Working, CallBecomes
<1>2. ASSUME NEW c \in Call, Evaluated(c) PROVE OrphanInv'
  <2>1. PICK t \in Ticket \ Stored, known \in BOOLEAN, denied \in BOOLEAN,
             reversible \in BOOLEAN, class \in Class :
         /\ ticket' = [ticket EXCEPT ![t] = NewTicket(c, class, reversible)]
         /\ Log(t, "action_requested")
         /\ Route(c, t, known, denied \/ (class = "direct" /\ call[c].actor = "away"), class)
    BY <1>2, ZenonT(60) DEF Evaluated
  <2>2. \A u \in Ticket \ {t} : Open(u)' => Open(u)
    BY <2>1, <1>c DEF TicketsTyped, Open, Stored
  <2>3. PICK l \in {"finish", "confirm", "executeRead"}, s \in Outcome \cup {call[c].result} :
          CallBecomes(c, l, t, call[c].undoOf, s)
    BY <2>1, <1>c, ConcludeEffect, ProceedEffect DEF Route, Outcome
  <2>4. ~Working(c) /\ Working(c)' /\ call'[c].ticket = t /\ UNCHANGED faults
    BY <1>2, <2>3 DEF Evaluated, At, Working, CallBecomes
  <2> QED BY <2>2, <2>3, <2>4, OneOpens DEF OrphanInv, CallBecomes
<1>3. ASSUME NEW c \in Call, Confirm(c) \/ Finish(c) PROVE OrphanInv'
  <2>1. /\ call[c].ticket \in Stored /\ UNCHANGED faults
        /\ call[c].pc = "finish" => call[c].result \in Outcome
    BY <1>3, <1>k, KnownTickets DEF Confirm, Finish, At, CallsKnowTickets
  <2>2. PICK s \in Outcome \cup {"pending_confirmation"} :
          TicketBecomes(call[c].ticket, s, ticket[call[c].ticket].approver)
    BY <1>3, <1>c, <2>1, StatusEffect, OutcomeEffect DEF Confirm, Finish, At
  <2>3. OpensNothing /\ \A t \in Ticket : t = call[c].ticket => ~Open(t)'
    <3>1. s \notin {"approved", "executing"}
      BY DEF Outcome
    <3> QED BY <2>1, <2>2, <3>1, OneOpensNothing DEF TicketBecomes, Open
  <2>4. \A d \in Call \ {c} : call'[d] = call[d]
    BY <1>3, <1>c, GotoEffect DEF Confirm, Finish, CallBecomes
  <2> QED BY <2>1, <2>3, <2>4, <1>q, OneAttends DEF Attends
<1>4. ASSUME NEW c \in Call, LogConfirm(c) \/ LogOutcome(c) PROVE OrphanInv'
  <2>1. ~Working(c) /\ UNCHANGED <<ticket, faults>>
    BY <1>4 DEF LogConfirm, LogOutcome, At, Working
  <2>2. \A d \in Call \ {c} : call'[d] = call[d]
    <3>1. \E s \in Status \cup {None} : ReturnResult(c, s)
      BY <1>4, <1>k, KnownTickets DEF LogConfirm, LogOutcome, At
    <3>2. PICK s : ReturnResult(c, s)
      BY <3>1
    <3>3. CASE Return(c)
      BY <3>3, <1>c, ReturnEffect DEF CallBecomes
    <3>4. CASE call' = [call EXCEPT ![c] = [@ EXCEPT !.pc = "settle", !.result = s]]
      BY <3>4, <1>c, ResultEffect DEF CallBecomes
    <3> QED BY <3>2, <3>3, <3>4 DEF ReturnResult
  <2> QED BY <2>1, <2>2, <1>t, <1>w, <1>q, OneAttends
<1>5. ASSUME NEW c \in Call, NEW t \in Ticket, NEW a \in Actor, Approve(c, t, a) PROVE OrphanInv'
  <2>1. TicketBecomes(t, "approved", a)
    BY <1>5, <1>c, ApprovalEffect DEF Approve, Has
  <2>2. CallBecomes(c, "executeRead", t, None, None)
    BY <1>5, <1>c, WorkEffect DEF Approve
  <2>3. ~Working(c) /\ Working(c)' /\ UNCHANGED faults
    BY <1>5, <2>2 DEF Approve, At, Working, CallBecomes
  <2>4. \A u \in Ticket \ {t} : Open(u)' => Open(u)
    BY <2>1 DEF TicketBecomes, Open
  <2> QED BY <2>2, <2>3, <2>4, OneOpens DEF OrphanInv, CallBecomes
<1>6. ASSUME NEW t \in Ticket, NEW a \in Actor, Reject(t, a) PROVE OrphanInv'
  <2>1. t \in Stored /\ TicketBecomes(t, "rejected", ticket[t].approver) /\ UNCHANGED <<call, faults>>
    BY <1>6, <1>c, StatusEffect DEF Reject, Has
  <2>2. \A c \in Call : Attends(c)
    BY <2>1 DEF Attends, Working
  <2> QED BY <2>1, <2>2, <1>q, OneOpensNothing
<1>7. ASSUME NEW c \in Call, NEW t \in Ticket, Expire(c, t) PROVE OrphanInv'
  <2>1. t \in Stored /\ TicketBecomes(t, "expired", ticket[t].approver)
    BY <1>7, <1>c, StatusEffect DEF Expire, Due, Has
  <2>2. CallBecomes(c, "logExpired", t, None, None)
    BY <1>7, <1>c, WorkEffect DEF Expire
  <2>3. ~Working(c) /\ UNCHANGED faults
    BY <1>7 DEF Expire, At, Working
  <2> QED BY <2>1, <2>2, <2>3, <1>w, <1>q, OneAttends, OneOpensNothing DEF CallBecomes
<1>8. ASSUME NEW c \in Call, LogExpired(c) \/ LogUndo(c) PROVE OrphanInv'
  <2>1. ~Working(c) /\ UNCHANGED <<ticket, faults>>
    BY <1>8 DEF LogExpired, LogUndo, At, Working
  <2>2. \A d \in Call \ {c} : call'[d] = call[d]
    BY <1>8, <1>c, ReturnEffect DEF LogExpired, LogUndo, CallBecomes
  <2> QED BY <2>1, <2>2, <1>t, <1>w, <1>q, OneAttends
<1>9. ASSUME NEW c \in Call, CommitFails(c) PROVE OrphanInv'
  <2>1. faults'.failure = faults.failure + 1 /\ faults.failure \in Nat
    BY <1>9, <1>f DEF CommitFails
  <2> QED BY <2>1 DEF OrphanInv
<1>10. ASSUME NEW c \in Call, ExecuteRead(c) PROVE OrphanInv'
  <2>1. call[c].ticket \in Stored /\ Open(call[c].ticket) /\ UNCHANGED faults
    BY <1>10, <1>k DEF ExecuteRead, At, Fits, Has, Open
  <2>2. OpensNothing
    BY <1>10, <1>c, <1>t, <2>1, StatusEffect, OneOpensNothing DEF ExecuteRead
  <2>3. PICK l \in {"finish", "logExecuting"}, s \in {"unknown", call[c].result} :
          CallBecomes(c, l, call[c].ticket, call[c].undoOf, s)
    BY <1>10, <1>c, GotoEffect, ResultEffect DEF ExecuteRead, FinishWith
  <2>4. Attends(c)
    BY <2>3 DEF CallBecomes, Attends, Working
  <2> QED BY <2>1, <2>2, <2>3, <2>4, <1>q, OneAttends DEF CallBecomes
<1>11. ASSUME NEW c \in Call, LogExecuting(c) \/ GatewayAnswers(c) PROVE OrphanInv'
  <2>1. UNCHANGED <<ticket, faults>>
    BY <1>11 DEF LogExecuting, GatewayAnswers, store
  <2>2. PICK l \in {"finish", "gateway", "verify"}, s \in {"failed", "unknown", call[c].result} :
          CallBecomes(c, l, call[c].ticket, call[c].undoOf, s)
    BY <1>11, <1>c, GotoEffect, ResultEffect DEF LogExecuting, GatewayAnswers, FinishWith
  <2>3. Attends(c)
    BY <2>2 DEF CallBecomes, Attends, Working
  <2> QED BY <2>1, <2>2, <2>3, <1>q, <1>t, OneAttends DEF CallBecomes
<1>13. ASSUME NEW c \in Call, VerifyRead(c) PROVE OrphanInv'
  <2>1. UNCHANGED <<ticket, faults>>
    BY <1>13 DEF VerifyRead, store
  <2>2. Attends(c) /\ \A d \in Call \ {c} : call'[d] = call[d]
    <3>1. CASE \E s \in Outcome : FinishWith(c, s)
      <4>1. PICK s \in Outcome : CallBecomes(c, "finish", call[c].ticket, call[c].undoOf, s)
        BY <3>1, <1>c, ResultEffect DEF FinishWith
      <4> QED BY <4>1 DEF CallBecomes, Attends, Working
    <3>2. CASE call' = [call EXCEPT ![c].reads = @ + 1]
      BY <3>2, <1>c DEF CallsTyped, Local, Attends, Working
    <3> QED BY <1>13, <3>1, <3>2 DEF VerifyRead
  <2> QED BY <2>1, <2>2, <1>q, <1>t, OneAttends
<1>16. ASSUME NEW c \in Call, NEW t \in Ticket, NEW a \in Actor, Undo(c, t, a) PROVE OrphanInv'
  <2>1. ~Working(c) /\ UNCHANGED faults
    BY <1>16 DEF Undo, At, Working
  <2>2. OpensNothing
    BY <1>16, <1>c, <1>t, UndoneEffect, OneOpensNothing DEF Undo, Has
  <2>3. \A d \in Call \ {c} : call'[d] = call[d]
    <3>1. CASE UNCHANGED call
      BY <3>1
    <3>2. CASE call' = [call EXCEPT ![c] = [Rest EXCEPT !.pc = "undoRead", !.undoOf = t, !.actor = a]]
      BY <3>2, <1>c, UndoEffect DEF CallBecomes
    <3> QED BY <1>16, <3>1, <3>2 DEF Undo
  <2> QED BY <2>1, <2>2, <2>3, <1>w, <1>q, OneAttends
<1>17. ASSUME NEW c \in Call, UndoRead(c) \/ UndoSettle(c) PROVE OrphanInv'
  <2>1. /\ call[c].undoOf \in Stored
        /\ ticket[call[c].undoOf].undoTicket \in Ticket \cup {None}
        /\ UndoSettle(c) => call[c].ticket \in Ticket
    BY <1>17, <1>k, <1>c DEF UndoRead, UndoSettle, At, Knows, Stored, TicketsTyped, Record
  <2>2. ~Working(c) /\ UNCHANGED faults
    BY <1>17 DEF UndoRead, UndoSettle, At, Working
  <2>3. OpensNothing
    <3>1. CASE UNCHANGED ticket
      BY <3>1, <1>t
    <3>2. CASE \E s \in {"failed", "consumed", "pending"}, u \in Ticket \cup {None} :
                 ticket' = [ticket EXCEPT ![call[c].undoOf] = [@ EXCEPT !.undo = s, !.undoTicket = u]]
      <4>1. TicketBecomes(call[c].undoOf, ticket[call[c].undoOf].status, ticket[call[c].undoOf].approver)
        BY <3>2, <1>c, <2>1, UndoTicketEffect
      <4> QED BY <2>1, <4>1, OneOpensNothing DEF Open
    <3> QED BY <1>17, <2>1, <3>1, <3>2 DEF UndoRead, UndoSettle, UndoEnds
  <2>4. \A d \in Call \ {c} : call'[d] = call[d]
    <3>1. CASE Goto(c, "evaluate") \/ Return(c)
      BY <3>1, <1>c, GotoEffect, ReturnEffect DEF CallBecomes
    <3>2. CASE call' = [call EXCEPT ![c] = [@ EXCEPT !.pc = "logUndo", !.result = None]]
      BY <3>2, <1>c, ResultEffect DEF CallBecomes
    <3> QED BY <1>17, <3>1, <3>2 DEF UndoRead, UndoSettle, UndoEnds
  <2> QED BY <2>2, <2>3, <2>4, <1>w, <1>q, OneAttends
<1>22. ASSUME Restart PROVE OrphanInv'
  <2>1. \A t \in Ticket : ~Open(t)'
    <3>1. ASSUME NEW t \in Ticket, t \in Interrupted PROVE ticket'[t].status = "unknown"
      BY <1>22, <3>1, <1>c DEF Restart, Interrupted, Stored, TicketsTyped, Record
    <3>2. ASSUME NEW t \in Ticket, t \notin Interrupted PROVE ticket'[t] = ticket[t]
      BY <1>22, <3>2 DEF Restart
    <3> QED BY <3>1, <3>2 DEF Open, Interrupted, Stored
  <2> QED BY <2>1 DEF OrphanInv, Attended
<1>23. ASSUME \/ ConsumeExpiredSummary \/ UNCHANGED vars
              \/ \E t \in Ticket : ConfirmationLapses(t) \/ UndoLapses(t)
       PROVE  OrphanInv'
  <2>1. UNCHANGED <<ticket, call, faults>>
    BY <1>23 DEF ConsumeExpiredSummary, ConfirmationLapses, UndoLapses, store, vars
  <2>2. \A c \in Call : Attends(c)
    BY <2>1 DEF Attends, Working
  <2> QED BY <2>1, <2>2, <1>t, <1>q
<1> QED
  BY <1>1, <1>2, <1>3, <1>4, <1>5, <1>6, <1>7, <1>8, <1>9, <1>10, <1>11, <1>13, <1>16, <1>17,
     <1>22, <1>23
  DEF Next, Continue

(* As long as the store has refused no commit, an approved or executing      *)
(* ticket has a live call that will conclude it, through any number of       *)
(* restarts.                                                                 *)
THEOREM NothingLeftOver == Spec => [](faults.failure = 0 => NoOrphan)
<1>1. Init => OrphanInv
  BY DEF Init, OrphanInv, Attended, Open, Stored
<1>2. OrphanInv => (faults.failure = 0 => NoOrphan)
  BY DEF OrphanInv, Attended, Open, NoOrphan, Stored, Working
<1> QED BY <1>1, <1>2, OrphanStep, Invariance, PTL DEF Spec

(***************************************************************************)
(* The undo record and its inverse ticket                                  *)
(***************************************************************************)

(* No two undos of one ticket at a time.                                     *)
SingleUndo ==
  \A c, d \in Call : call[c].undoOf = call[d].undoOf /\ call[c].undoOf # None => c = d

(* A ticket whose undo has not been settled names no inverse ticket.         *)
Undoable(t) ==
  Has(t, "verified") /\ ticket[t].undo \in {"available", "expired"} /\ ticket[t].undoTicket = None

AfterTicket == (Sync \ {"logUndo"}) \cup {"executeRead", "gateway", "verify", "settle"}

(* Until it settles, an undo finds its ticket as it left it; the ticket it   *)
(* made belongs to it, and the result it brings is that ticket's status.     *)
Undoes(c) ==
  /\ call[c].undoOf # None /\ call[c].pc # "logUndo" => Undoable(call[c].undoOf)
  /\ call[c].undoOf # None /\ call[c].pc \in AfterTicket
       => ticket[call[c].ticket].undoOf = call[c].undoOf
  /\ call[c].pc = "logOutcome" => Has(call[c].ticket, call[c].result)
  /\ call[c].pc = "settle" /\ call[c].result # "pending_confirmation"
       => Has(call[c].ticket, call[c].result)

(* What the undo record of a ticket says. *)
Agrees(t) ==
  /\ ticket[t].status # "verified" => ticket[t].undo = None
  /\ ticket[t].undo \in {None, "available", "expired"} => ticket[t].undoTicket = None
  /\ ticket[t].undoTicket # None =>
       LET u == ticket[t].undoTicket IN
         /\ u \in Stored /\ ticket[u].undoOf = t
         /\ ticket[t].undo = "consumed" => Has(u, "verified")
         /\ ticket[t].undo = "failed" => ticket[u].status \in {"failed", "unknown"}

UndoInv == (\A c \in Call : Undoes(c)) /\ (\A t \in Stored : Agrees(t))

(* Every step keeps which ticket a ticket undoes, and a final status.        *)
Keeps(t) == /\ ticket'[t].undoOf = ticket[t].undoOf
            /\ ticket[t].status \in Final => ticket'[t].status = ticket[t].status

(* All but an outcome and an undo keep the undo record. *)
KeepsUndo(t) == ticket'[t].undo = ticket[t].undo /\ ticket'[t].undoTicket = ticket[t].undoTicket

(* The undo record of one ticket is written, and no other. *)
UndoBecomes(t, v, w) ==
  /\ \A u \in Stored : Keeps(u)
  /\ \A u \in Stored \ {t} : KeepsUndo(u)
  /\ ticket'[t].undo = v /\ ticket'[t].undoTicket = w

(* A ticket nobody writes. *)
LEMMA UnchangedKeeps ==
  ASSUME NEW t, ticket'[t] = ticket[t]
  PROVE  Keeps(t) /\ KeepsUndo(t)
  BY DEF Keeps, KeepsUndo

(* Writing the status of a ticket that is not final. *)
LEMMA StatusKeeps ==
  ASSUME TicketsTyped, NEW t \in Stored, NEW s, ticket[t].status \notin Final,
         \/ SetStatus(t, s)
         \/ \E a : ticket' = [ticket EXCEPT ![t] = [@ EXCEPT !.status = s, !.approver = a]]
  PROVE  \A u \in Stored : Keeps(u) /\ KeepsUndo(u)
<1>1. t \in Ticket /\ ticket[t] \in Record
  BY DEF Stored, TicketsTyped
<1>2. Keeps(t) /\ KeepsUndo(t)
  BY <1>1 DEF TicketsTyped, Record, SetStatus, Keeps, KeepsUndo
<1>3. \A u \in Stored \ {t} : ticket'[u] = ticket[u]
  BY <1>1 DEF TicketsTyped, SetStatus, Stored
<1> QED BY <1>2, <1>3, UnchangedKeeps

(* A verified reversible outcome. *)
LEMMA OutcomeKeeps ==
  ASSUME TicketsTyped, NEW t \in Stored, NEW s, NEW v, ticket[t].status \notin Final,
         ticket' = [ticket EXCEPT ![t] = [@ EXCEPT !.status = s, !.undo = v]]
  PROVE  UndoBecomes(t, v, ticket[t].undoTicket)
<1>1. t \in Ticket /\ ticket[t] \in Record
  BY DEF Stored, TicketsTyped
<1>2. Keeps(t) /\ ticket'[t].undo = v /\ ticket'[t].undoTicket = ticket[t].undoTicket
  BY <1>1 DEF TicketsTyped, Record, Keeps
<1>3. \A u \in Stored \ {t} : ticket'[u] = ticket[u]
  BY <1>1 DEF TicketsTyped, Stored
<1> QED BY <1>2, <1>3, UnchangedKeeps DEF UndoBecomes

(* An undo that came too late. *)
LEMMA UndoneKeeps ==
  ASSUME TicketsTyped, NEW t \in Stored, NEW v, ticket' = [ticket EXCEPT ![t].undo = v]
  PROVE  UndoBecomes(t, v, ticket[t].undoTicket)
<1>1. t \in Ticket /\ ticket[t] \in Record
  BY DEF Stored, TicketsTyped
<1>2. Keeps(t) /\ ticket'[t].undo = v /\ ticket'[t].undoTicket = ticket[t].undoTicket
  BY <1>1 DEF TicketsTyped, Record, Keeps
<1>3. \A u \in Stored \ {t} : ticket'[u] = ticket[u]
  BY <1>1 DEF TicketsTyped, Stored
<1> QED BY <1>2, <1>3, UnchangedKeeps DEF UndoBecomes

(* An undo that settles. *)
LEMMA UndoTicketKeeps ==
  ASSUME TicketsTyped, NEW t \in Stored, NEW v, NEW w,
         ticket' = [ticket EXCEPT ![t] = [@ EXCEPT !.undo = v, !.undoTicket = w]]
  PROVE  UndoBecomes(t, v, w)
<1>1. t \in Ticket /\ ticket[t] \in Record
  BY DEF Stored, TicketsTyped
<1>2. Keeps(t) /\ ticket'[t].undo = v /\ ticket'[t].undoTicket = w
  BY <1>1 DEF TicketsTyped, Record, Keeps
<1>3. \A u \in Stored \ {t} : ticket'[u] = ticket[u]
  BY <1>1 DEF TicketsTyped, Stored
<1> QED BY <1>2, <1>3, UnchangedKeeps DEF UndoBecomes

(* A call that no step moved, while its undo stays open. *)
LEMMA OtherUndo ==
  ASSUME NEW d \in Call, Knows(d), Undoes(d), call'[d] = call[d],
         Stored \subseteq Stored', \A u \in Stored : Keeps(u),
         call[d].undoOf # None /\ call[d].pc # "logUndo" => KeepsUndo(call[d].undoOf)
                                                            \/ Undoable(call[d].undoOf)'
  PROVE  Undoes(d)'
  BY DEF Knows, Undoes, AfterTicket, Keeps, KeepsUndo, Undoable, Has, Final, Outcome

(* A ticket whose undo record no step wrote. *)
LEMMA OtherAgrees ==
  ASSUME NEW t \in Stored, Agrees(t), Stored \subseteq Stored', \A u \in Stored : Keeps(u),
         KeepsUndo(t)
  PROVE  Agrees(t)'
  BY DEF Agrees, Keeps, KeepsUndo, Has, Final

(* A step of call c that writes no undo record but that of ticket t.         *)
LEMMA UndoFrame ==
  ASSUME IInv, UndoInv, NEW c, NEW t,
         \A d \in Call \ {c} : call'[d] = call[d],
         Stored \subseteq Stored', \A u \in Stored : Keeps(u),
         \A u \in Stored \ {t} : KeepsUndo(u),
         \A d \in Call \ {c} : call[d].undoOf = t /\ t # None /\ call[d].pc # "logUndo" => Undoable(t)',
         c \in Call => Undoes(c)',
         \A u \in Stored' : u = t \/ u \notin Stored => Agrees(u)'
  PROVE  UndoInv'
<1>1. ASSUME NEW d \in Call PROVE Undoes(d)'
  <2>1. CASE d = c
    BY <2>1
  <2>2. CASE d # c
    <3>1. Knows(d) /\ Undoes(d)
      BY DEF IInv, CallsKnowTickets, UndoInv
    <3>2. call[d].undoOf # None => call[d].undoOf \in Stored
      BY <3>1 DEF Knows
    <3>3. call[d].undoOf # None /\ call[d].pc # "logUndo" => KeepsUndo(call[d].undoOf)
                                                             \/ Undoable(call[d].undoOf)'
      BY <2>2, <3>2
    <3> QED BY <2>2, <3>1, <3>3, OtherUndo
  <2> QED BY <2>1, <2>2
<1>2. ASSUME NEW u \in Stored' PROVE Agrees(u)'
  <2>1. CASE u = t \/ u \notin Stored
    BY <2>1
  <2>2. CASE u # t /\ u \in Stored
    <3>1. Agrees(u) /\ KeepsUndo(u)
      BY <2>2 DEF UndoInv
    <3> QED BY <2>2, <3>1, OtherAgrees
  <2> QED BY <2>1, <2>2
<1> QED BY <1>1, <1>2 DEF UndoInv

(* A step of call c that writes no undo record and stores no ticket.         *)
LEMMA UndoCallFrame ==
  ASSUME IInv, UndoInv, NEW c,
         \A d \in Call \ {c} : call'[d] = call[d],
         Stored' = Stored, \A u \in Stored : Keeps(u) /\ KeepsUndo(u),
         c \in Call => Undoes(c)'
  PROVE  UndoInv'
<1>1. None \notin Stored
  BY PlaneAssumption DEF Stored
<1> QED BY <1>1, UndoFrame

(* A call that moves on with its ticket.                                     *)
LEMMA UndoGoesOn ==
  ASSUME NEW c \in Call, Knows(c), Undoes(c), NEW l \in AfterTicket, NEW s,
         CallBecomes(c, l, call[c].ticket, call[c].undoOf, s), call[c].pc \in AfterTicket,
         Stored' = Stored, \A u \in Stored : Keeps(u),
         call[c].undoOf # None => KeepsUndo(call[c].undoOf) \/ Undoable(call[c].undoOf)',
         l = "logOutcome" \/ (l = "settle" /\ s # "pending_confirmation")
           => ticket'[call[c].ticket].status = s
  PROVE  Undoes(c)'
<1>1. call[c].ticket \in Stored /\ (call[c].undoOf # None => call[c].undoOf \in Stored)
  BY DEF Knows, AfterTicket
<1>2. call[c].undoOf # None => Undoable(call[c].undoOf) /\ ticket[call[c].ticket].undoOf = call[c].undoOf
  BY DEF Undoes, AfterTicket, Sync
<1>3. call'[c].pc = l /\ call'[c].ticket = call[c].ticket /\ call'[c].undoOf = call[c].undoOf
      /\ call'[c].result = s
  BY DEF CallBecomes
<1>4. call[c].undoOf # None => Undoable(call[c].undoOf)'
  BY <1>1, <1>2, <1>3 DEF Undoable, Keeps, KeepsUndo, Has, Final, Outcome
<1>5. call[c].undoOf # None => ticket'[call[c].ticket].undoOf = call[c].undoOf
  BY <1>1, <1>2 DEF Keeps
<1> QED BY <1>1, <1>3, <1>4, <1>5 DEF Undoes, Has

(* A call outside an undo that is not about to record or return an outcome. *)
LEMMA UndoFree ==
  ASSUME NEW c \in Call, NEW l, NEW t, NEW s, CallBecomes(c, l, t, None, s),
         l \notin {"logOutcome", "settle"}
  PROVE  Undoes(c)'
  BY DEF CallBecomes, Undoes

(* While no two undos of a ticket overlap, every step keeps the invariant    *)
(* about undos.                                                              *)
LEMMA UndoStep == IInv /\ UndoInv /\ SingleUndo /\ [Next]_vars => UndoInv'
<1> SUFFICES ASSUME IInv, UndoInv, SingleUndo, [Next]_vars PROVE UndoInv'
  OBVIOUS
<1>c. CallsTyped /\ TicketsTyped
  BY DEF IInv, TypeOK, CallsTyped, TicketsTyped
<1>k. CallsKnowTickets /\ \A c \in Call : Knows(c) /\ Fits(c) /\ Undoes(c)
  BY DEF IInv, CallsKnowTickets, UndoInv
<1>a. \A t \in Stored : Agrees(t) /\ t \in Ticket /\ t # None
  BY PlaneAssumption DEF UndoInv, Stored
<1>t. UNCHANGED ticket => Stored' = Stored /\ \A u \in Stored : Keeps(u) /\ KeepsUndo(u)
  BY UnchangedKeeps DEF Stored
<1>n. \A s \in {"approved", "executing", "pending_confirmation"} : s \notin Final
  BY DEF Final
<1> USE Vocabulary
<1>1. ASSUME NEW c \in Call, NEW r \in Request, NEW a \in Actor, RequestAction(c, r, a)
      PROVE  UndoInv'
  <2>1. CallBecomes(c, "evaluate", None, None, None)
    BY <1>1, <1>c, RequestEffect DEF RequestAction
  <2> QED BY <1>1, <1>t, <2>1, UndoFree, UndoCallFrame DEF RequestAction, store, CallBecomes
<1>2. ASSUME NEW c \in Call, Evaluated(c) PROVE UndoInv'
  <2>1. PICK t \in Ticket \ Stored, known \in BOOLEAN, denied \in BOOLEAN,
             reversible \in BOOLEAN, class \in Class :
         /\ ticket' = [ticket EXCEPT ![t] = NewTicket(c, class, reversible)]
         /\ Log(t, "action_requested")
         /\ Route(c, t, known, denied \/ (class = "direct" /\ call[c].actor = "away"), class)
    BY <1>2, ZenonT(60) DEF Evaluated
  <2>2. NewTicket(c, class, reversible) \in Record
    <3>1. call[c].request \in Request \cup {None} /\ call[c].undoOf \in Ticket \cup {None}
      BY <1>c DEF CallsTyped, Local
    <3> QED BY <3>1 DEF NewTicket, Record, UndoStatus
  <2>3. /\ Stored' = Stored \cup {t} /\ ticket'[t].undoOf = call[c].undoOf
        /\ ticket'[t].undo = None /\ ticket'[t].undoTicket = None
        /\ \A u \in Stored : ticket'[u] = ticket[u]
    BY <2>1, <2>2, <1>c, NoneIsNoRecord DEF TicketsTyped, Stored, NewTicket
  <2>4. PICK l \in {"finish", "confirm", "executeRead"}, s \in Outcome \cup {call[c].result} :
          CallBecomes(c, l, t, call[c].undoOf, s)
    BY <2>1, <1>c, ConcludeEffect, ProceedEffect DEF Route, Outcome
  <2>5. call[c].undoOf # None => call[c].undoOf \in Stored /\ Undoable(call[c].undoOf)
    BY <1>2, <1>k DEF Evaluated, At, Knows, Undoes
  <2>6. Undoes(c)'
    BY <2>3, <2>4, <2>5 DEF CallBecomes, Undoes, Undoable, Has
  <2>7. Agrees(t)'
    BY <2>3 DEF Agrees
  <2>8. \A d \in Call : call[d].undoOf # t
    BY <1>k, PlaneAssumption DEF Knows
  <2>9. \A u \in Stored : Keeps(u) /\ KeepsUndo(u)
    BY <2>3, UnchangedKeeps
  <2> QED BY <2>3, <2>4, <2>6, <2>7, <2>8, <2>9, UndoFrame DEF CallBecomes
<1>3. ASSUME NEW c \in Call, Confirm(c) PROVE UndoInv'
  <2>1. call[c].ticket \in Stored /\ ticket[call[c].ticket].status = "approved"
    BY <1>3, <1>k DEF Confirm, At, Fits, Has
  <2>2. Stored' = Stored /\ \A u \in Stored : Keeps(u) /\ KeepsUndo(u)
    BY <1>3, <1>c, <1>n, <2>1, StatusEffect, StatusKeeps DEF Confirm, TicketBecomes
  <2>3. CallBecomes(c, "logConfirm", call[c].ticket, call[c].undoOf, call[c].result)
    BY <1>3, <1>c, GotoEffect DEF Confirm
  <2>4. call[c].pc \in AfterTicket /\ "logConfirm" \in AfterTicket
    BY <1>3 DEF Confirm, At, AfterTicket, Sync
  <2>5. call[c].undoOf # None => KeepsUndo(call[c].undoOf)
    BY <1>k, <2>2 DEF Knows
  <2>6. Undoes(c)'
    BY <1>k, <2>2, <2>3, <2>4, <2>5, UndoGoesOn
  <2> QED BY <2>2, <2>3, <2>6, UndoCallFrame DEF CallBecomes
<1>4. ASSUME NEW c \in Call, LogConfirm(c) \/ LogOutcome(c) PROVE UndoInv'
  <2>1. Stored' = Stored /\ \A u \in Stored : Keeps(u) /\ KeepsUndo(u)
    BY <1>4, <1>t DEF LogConfirm, LogOutcome
  <2>2. PICK s : /\ ReturnResult(c, s) /\ call[c].pc \in AfterTicket
                 /\ s # "pending_confirmation" => Has(call[c].ticket, s)
    <3>1. CASE LogConfirm(c)
      BY <3>1 DEF LogConfirm, At, AfterTicket, Sync
    <3>2. CASE LogOutcome(c)
      <4>1. ReturnResult(c, call[c].result) /\ Has(call[c].ticket, call[c].result) /\ call[c].pc \in AfterTicket
        BY <3>2, <1>k DEF LogOutcome, At, AfterTicket, Sync, Undoes
      <4> QED BY <4>1
    <3> QED BY <1>4, <3>1, <3>2
  <2>3. (\A d \in Call \ {c} : call'[d] = call[d]) /\ Undoes(c)'
    <3>1. CASE Return(c)
      <4>1. CallBecomes(c, "idle", None, None, None)
        BY <3>1, <1>c, ReturnEffect
      <4> QED BY <4>1, UndoFree DEF CallBecomes
    <3>2. CASE call' = [call EXCEPT ![c] = [@ EXCEPT !.pc = "settle", !.result = s]]
      <4>1. CallBecomes(c, "settle", call[c].ticket, call[c].undoOf, s)
        BY <3>2, <1>c, ResultEffect
      <4>2. call[c].undoOf # None => KeepsUndo(call[c].undoOf)
        BY <1>k, <2>1 DEF Knows
      <4>3. s # "pending_confirmation" => ticket'[call[c].ticket].status = s
        BY <1>4, <2>2 DEF LogConfirm, LogOutcome, Has
      <4>4. Undoes(c)'
        BY <1>k, <2>1, <2>2, <4>1, <4>2, <4>3, UndoGoesOn DEF AfterTicket
      <4> QED BY <4>1, <4>4 DEF CallBecomes
    <3> QED BY <2>2, <3>1, <3>2 DEF ReturnResult
  <2> QED BY <2>1, <2>3, UndoCallFrame
<1>5. ASSUME NEW c \in Call, NEW t \in Ticket, NEW a \in Actor, Approve(c, t, a) PROVE UndoInv'
  <2>1. t \in Stored /\ ticket[t].status = "pending_confirmation"
    BY <1>5 DEF Approve, Has
  <2>2. Stored' = Stored /\ \A u \in Stored : Keeps(u) /\ KeepsUndo(u)
    BY <1>5, <1>c, <1>n, <2>1, ApprovalEffect, StatusKeeps DEF Approve, TicketBecomes
  <2>3. CallBecomes(c, "executeRead", t, None, None)
    BY <1>5, <1>c, WorkEffect DEF Approve
  <2> QED BY <2>2, <2>3, UndoFree, UndoCallFrame DEF CallBecomes
<1>6. ASSUME NEW t \in Ticket, NEW a \in Actor, Reject(t, a) PROVE UndoInv'
  <2>1. t \in Stored /\ ticket[t].status = "pending_confirmation" /\ UNCHANGED call
    BY <1>6 DEF Reject, Has
  <2>2. Stored' = Stored /\ \A u \in Stored : Keeps(u) /\ KeepsUndo(u)
    BY <1>6, <1>c, <1>n, <2>1, StatusEffect, StatusKeeps DEF Reject, TicketBecomes
  <2> QED BY <2>1, <2>2, PlaneAssumption, UndoCallFrame
<1>7. ASSUME NEW c \in Call, NEW t \in Ticket, Expire(c, t) PROVE UndoInv'
  <2>1. t \in Stored /\ ticket[t].status = "pending_confirmation"
    BY <1>7 DEF Expire, Due, Has
  <2>2. Stored' = Stored /\ \A u \in Stored : Keeps(u) /\ KeepsUndo(u)
    BY <1>7, <1>c, <1>n, <2>1, StatusEffect, StatusKeeps DEF Expire, TicketBecomes
  <2>3. CallBecomes(c, "logExpired", t, None, None)
    BY <1>7, <1>c, WorkEffect DEF Expire
  <2> QED BY <2>2, <2>3, UndoFree, UndoCallFrame DEF CallBecomes
<1>8. ASSUME NEW c \in Call, LogExpired(c) \/ LogUndo(c) \/ CommitFails(c) PROVE UndoInv'
  <2>1. CallBecomes(c, "idle", None, None, None)
    BY <1>8, <1>c, ReturnEffect DEF LogExpired, LogUndo, CommitFails
  <2>2. UNCHANGED ticket
    BY <1>8 DEF LogExpired, LogUndo, CommitFails, store
  <2> QED BY <1>t, <2>1, <2>2, UndoFree, UndoCallFrame DEF CallBecomes
<1>10. ASSUME NEW c \in Call, ExecuteRead(c) PROVE UndoInv'
  <2>1. call[c].ticket \in Stored /\ ticket[call[c].ticket].status = "approved"
    BY <1>10, <1>k DEF ExecuteRead, At, Fits, Has
  <2>2. Stored' = Stored /\ \A u \in Stored : Keeps(u) /\ KeepsUndo(u)
    BY <1>10, <1>c, <1>n, <1>t, <2>1, StatusEffect, StatusKeeps DEF ExecuteRead, TicketBecomes
  <2>3. PICK l \in {"finish", "logExecuting"}, s \in {"unknown", call[c].result} :
          CallBecomes(c, l, call[c].ticket, call[c].undoOf, s)
    BY <1>10, <1>c, GotoEffect, ResultEffect DEF ExecuteRead, FinishWith
  <2>4. call[c].pc \in AfterTicket /\ l \in AfterTicket
    BY <1>10 DEF ExecuteRead, At, AfterTicket, Sync
  <2>5. call[c].undoOf # None => KeepsUndo(call[c].undoOf)
    BY <1>k, <2>2 DEF Knows
  <2>6. Undoes(c)'
    BY <1>k, <2>2, <2>3, <2>4, <2>5, UndoGoesOn
  <2> QED BY <2>2, <2>3, <2>6, UndoCallFrame DEF CallBecomes
<1>11. ASSUME NEW c \in Call, LogExecuting(c) \/ GatewayAnswers(c) PROVE UndoInv'
  <2>2. Stored' = Stored /\ \A u \in Stored : Keeps(u) /\ KeepsUndo(u)
    BY <1>11, <1>t DEF LogExecuting, GatewayAnswers, store
  <2>3. PICK l \in {"finish", "gateway", "verify"}, s \in {"failed", "unknown", call[c].result} :
          CallBecomes(c, l, call[c].ticket, call[c].undoOf, s)
    BY <1>11, <1>c, GotoEffect, ResultEffect DEF LogExecuting, GatewayAnswers, FinishWith
  <2>4. call[c].pc \in AfterTicket /\ l \in AfterTicket
    BY <1>11 DEF LogExecuting, GatewayAnswers, At, AfterTicket, Sync
  <2>5. call[c].undoOf # None => KeepsUndo(call[c].undoOf)
    BY <1>k, <2>2 DEF Knows
  <2>6. Undoes(c)'
    BY <1>k, <2>2, <2>3, <2>4, <2>5, UndoGoesOn
  <2> QED BY <2>2, <2>3, <2>6, UndoCallFrame DEF CallBecomes
<1>13. ASSUME NEW c \in Call, VerifyRead(c) PROVE UndoInv'
  <2>1. Stored' = Stored /\ \A u \in Stored : Keeps(u) /\ KeepsUndo(u)
    BY <1>13, <1>t DEF VerifyRead, store
  <2>2. call[c].undoOf # None => KeepsUndo(call[c].undoOf)
    BY <1>k, <2>1 DEF Knows
  <2>3. (\A d \in Call \ {c} : call'[d] = call[d]) /\ Undoes(c)'
    <3>1. PICK l \in {"finish", "verify"}, s \in Outcome \cup {call[c].result} :
            CallBecomes(c, l, call[c].ticket, call[c].undoOf, s)
      <4>1. CASE \E s \in Outcome : FinishWith(c, s)
        BY <4>1, <1>c, ResultEffect DEF FinishWith
      <4>2. CASE call' = [call EXCEPT ![c].reads = @ + 1]
        BY <4>2, <1>13, <1>c DEF VerifyRead, At, CallsTyped, Local, CallBecomes
      <4> QED BY <1>13, <4>1, <4>2 DEF VerifyRead
    <3>2. call[c].pc \in AfterTicket /\ l \in AfterTicket
      BY <1>13 DEF VerifyRead, At, AfterTicket, Sync
    <3>3. Undoes(c)'
      BY <1>k, <2>1, <2>2, <3>1, <3>2, UndoGoesOn
    <3> QED BY <3>1, <3>3 DEF CallBecomes
  <2> QED BY <2>1, <2>3, UndoCallFrame
<1>14. ASSUME NEW c \in Call, Finish(c) PROVE UndoInv'
  <2> DEFINE t == call[c].ticket  s == call[c].result
  <2>1. t \in Stored /\ ticket[t].status \in {"approved", "executing"} /\ s \in Outcome
    BY <1>14, <1>k DEF Finish, At, Fits, Has, Knows
  <2>2. CallBecomes(c, "logOutcome", t, call[c].undoOf, s)
    BY <1>14, <1>c, GotoEffect DEF Finish
  <2>3. TicketBecomes(t, s, ticket[t].approver)
    BY <1>14, <1>c, <2>1, StatusEffect, OutcomeEffect DEF Finish
  <2>4. \A d \in Call : call[d].undoOf = t => call[d].pc = "logUndo"
    BY <1>k, <1>a, <2>1 DEF Undoes, Undoable, Has
  <2>5. call[c].pc \in AfterTicket /\ "logOutcome" \in AfterTicket /\ call[c].pc # "logUndo"
    BY <1>14 DEF Finish, At, AfterTicket, Sync
  <2>6. /\ \A u \in Stored : Keeps(u)
        /\ \A u \in Stored \ {t} : KeepsUndo(u)
        /\ ticket'[t].undoTicket = ticket[t].undoTicket
        /\ \/ ticket'[t].undo = ticket[t].undo
           \/ s = "verified" /\ ticket'[t].undo = "available"
    <3>1. CASE SetStatus(t, s)
      <4>1. \A u \in Stored : Keeps(u) /\ KeepsUndo(u)
        BY <3>1, <1>c, <1>n, <2>1, StatusKeeps
      <4>2. KeepsUndo(t)
        BY <2>1, <4>1
      <4>3. ticket'[t].undo = ticket[t].undo /\ ticket'[t].undoTicket = ticket[t].undoTicket
        BY <4>2 DEF KeepsUndo
      <4> QED BY <4>1, <4>3
    <3>2. CASE s = "verified" /\ ticket' = [ticket EXCEPT ![t] = [@ EXCEPT !.status = s, !.undo = "available"]]
      <4>1. UndoBecomes(t, "available", ticket[t].undoTicket)
        BY <3>2, <1>c, <1>n, <2>1, OutcomeKeeps
      <4> QED BY <3>2, <4>1 DEF UndoBecomes
    <3> QED BY <1>14, <3>1, <3>2 DEF Finish
  <2>7. call[c].undoOf # None => KeepsUndo(call[c].undoOf)
    BY <1>k, <2>4, <2>5, <2>6 DEF Knows
  <2>8. Undoes(c)'
    BY <1>k, <2>2, <2>3, <2>5, <2>6, <2>7, UndoGoesOn DEF TicketBecomes
  <2>9. ticket[t].undo = None /\ ticket[t].undoTicket = None
    BY <1>a, <2>1 DEF Agrees
  <2>10. ASSUME NEW u \in Stored', u = t \/ u \notin Stored PROVE Agrees(u)'
    BY <2>3, <2>6, <2>9, <2>10 DEF TicketBecomes, Agrees
  <2> QED BY <2>2, <2>3, <2>4, <2>6, <2>8, <2>10, UndoFrame DEF CallBecomes, TicketBecomes
<1>16. ASSUME NEW c \in Call, NEW t \in Ticket, NEW a \in Actor, Undo(c, t, a) PROVE UndoInv'
  <2>1. Undoable(t) /\ t \in Stored
    BY <1>16, <1>a DEF Undo, Has, Agrees, Undoable
  <2>2. CASE ticket' = [ticket EXCEPT ![t].undo = "expired"] /\ UNCHANGED call
    <3>1. TicketBecomes(t, ticket[t].status, ticket[t].approver)
      BY <2>1, <2>2, <1>c, UndoneEffect
    <3>2. /\ \A u \in Stored : Keeps(u)
          /\ \A u \in Stored \ {t} : KeepsUndo(u)
          /\ ticket'[t].undo = "expired" /\ ticket'[t].undoTicket = None
      <4>1. UndoBecomes(t, "expired", ticket[t].undoTicket)
        BY <2>1, <2>2, <1>c, UndoneKeeps
      <4> QED BY <2>1, <4>1 DEF Undoable, UndoBecomes
    <3>3. Undoable(t)' /\ Stored' = Stored
      BY <2>1, <3>1, <3>2 DEF Undoable, Has, TicketBecomes
    <3>4. Agrees(t)'
      BY <3>2, <3>3 DEF Agrees, Undoable, Has
    <3> QED BY <2>2, <3>2, <3>3, <3>4, PlaneAssumption, UndoFrame
  <2>3. CASE UNCHANGED ticket /\ call' = [call EXCEPT ![c] =
               [Rest EXCEPT !.pc = "undoRead", !.undoOf = t, !.actor = a]]
    <3>1. CallBecomes(c, "undoRead", None, t, None)
      BY <2>3, <1>c, UndoEffect
    <3>2. Undoes(c)'
      BY <2>1, <2>3, <3>1 DEF CallBecomes, Undoes, Undoable, Has, Stored, AfterTicket, Sync
    <3> QED BY <2>3, <1>t, <3>1, <3>2, UndoCallFrame DEF CallBecomes
  <2> QED BY <1>16, <2>2, <2>3 DEF Undo
<1>17. ASSUME NEW c \in Call, UndoRead(c) \/ UndoSettle(c) PROVE UndoInv'
  <2> DEFINE t == call[c].undoOf  u == call[c].ticket
  <2>1. /\ t \in Stored /\ Undoable(t)
        /\ UndoSettle(c) => u \in Stored /\ ticket[u].undoOf = t
    BY <1>17, <1>k, <1>a DEF UndoRead, UndoSettle, At, Knows, Undoes, AfterTicket
  <2>2. \A d \in Call \ {c} : call[d].undoOf # t
    BY <2>1, <1>a DEF SingleUndo
  <2>3. ASSUME NEW v \in {"failed", "consumed", "pending"}, NEW w \in Ticket \cup {None},
               ticket' = [ticket EXCEPT ![t] = [@ EXCEPT !.undo = v, !.undoTicket = w]],
               \A d \in Call \ {c} : call'[d] = call[d], Undoes(c)',
               w # None => /\ w \in Stored /\ ticket[w].undoOf = t
                           /\ v = "consumed" => Has(w, "verified")
                           /\ v = "failed" => ticket[w].status \in {"failed", "unknown"}
        PROVE  UndoInv'
    <3>1. TicketBecomes(t, ticket[t].status, ticket[t].approver)
      BY <2>1, <2>3, <1>c, UndoTicketEffect
    <3>2. /\ \A x \in Stored : Keeps(x)
          /\ \A x \in Stored \ {t} : KeepsUndo(x)
          /\ ticket'[t].undo = v /\ ticket'[t].undoTicket = w
      <4>1. UndoBecomes(t, v, w)
        BY <2>1, <2>3, <1>c, UndoTicketKeeps
      <4> QED BY <4>1 DEF UndoBecomes
    <3>3. Stored' = Stored /\ ticket'[t].status = "verified"
      BY <2>1, <3>1 DEF TicketBecomes, Undoable, Has
    <3>4. ASSUME NEW x \in Stored', x = t \/ x \notin Stored PROVE Agrees(x)'
      <4>1. v \notin {None, "available", "expired"}
        BY NoneIsNoStatus DEF Status, Final, Outcome
      <4> QED BY <2>3, <3>2, <3>3, <3>4, <4>1 DEF Agrees, Keeps, Has, Final, Outcome
    <3> QED BY <2>2, <2>3, <3>2, <3>3, <3>4, UndoFrame
  <2>4. ASSUME call' = [call EXCEPT ![c] = [@ EXCEPT !.pc = "logUndo", !.result = None]]
        PROVE  (\A d \in Call \ {c} : call'[d] = call[d]) /\ Undoes(c)'
    <3>1. CallBecomes(c, "logUndo", u, t, None)
      BY <2>4, <1>c, ResultEffect
    <3> QED BY <3>1 DEF CallBecomes, Undoes, AfterTicket
  <2>5. CASE UndoRead(c) /\ UndoEnds(c, t, "failed", ticket[t].undoTicket)
    BY <2>1, <2>3, <2>4, <2>5 DEF UndoEnds, Undoable
  <2>6. CASE UndoRead(c) /\ Goto(c, "evaluate") /\ UNCHANGED ticket
    <3>1. CallBecomes(c, "evaluate", u, t, call[c].result)
      BY <2>6, <1>c, GotoEffect
    <3>2. Undoes(c)'
      BY <2>1, <2>6, <3>1 DEF CallBecomes, Undoes, Undoable, Has, Stored, AfterTicket, Sync
    <3> QED BY <2>6, <1>t, <3>1, <3>2, UndoCallFrame DEF CallBecomes
  <2>7. CASE UndoSettle(c)
    <3>1. call[c].result # "pending_confirmation" => Has(u, call[c].result)
      BY <2>7, <1>k DEF UndoSettle, At, Undoes
    <3>2. CASE UndoDone(c) /\ UndoEnds(c, t, "consumed", u)
      BY <2>1, <2>3, <2>4, <2>7, <3>1, <3>2 DEF UndoEnds, UndoDone, Has, Stored
    <3>3. CASE call[c].result \in {"failed", "unknown"} /\ UndoEnds(c, t, "failed", u)
      BY <2>1, <2>3, <2>4, <2>7, <3>1, <3>3 DEF UndoEnds, Has, Stored
    <3>4. CASE ticket' = [ticket EXCEPT ![t] = [@ EXCEPT !.undo = "pending", !.undoTicket = u]] /\ Return(c)
      <4>1. CallBecomes(c, "idle", None, None, None)
        BY <3>4, <1>c, ReturnEffect
      <4>2. (\A d \in Call \ {c} : call'[d] = call[d]) /\ Undoes(c)'
        BY <4>1, UndoFree DEF CallBecomes
      <4> QED BY <2>1, <2>3, <2>7, <3>4, <4>2 DEF Stored
    <3> QED BY <2>7, <3>2, <3>3, <3>4 DEF UndoSettle
  <2> QED BY <1>17, <2>5, <2>6, <2>7 DEF UndoRead
<1>22. ASSUME Restart PROVE UndoInv'
  <2>1. \A u \in Ticket : u \in Stored => ticket[u] \in Record
    BY <1>c DEF Stored, TicketsTyped
  <2>2. ASSUME NEW u \in Stored PROVE Keeps(u) /\ KeepsUndo(u) /\ u \in Stored'
    <3>1. CASE u \in Interrupted
      <4>1. ticket'[u] = [ticket[u] EXCEPT !.status = "unknown"] /\ u \in Ticket
        BY <1>22, <3>1 DEF Restart, Stored
      <4>2. ticket'[u] \in Record
        BY <2>1, <4>1 DEF Record, Outcome
      <4> QED BY <1>n, <2>1, <3>1, <4>1, <4>2, NoneIsNoRecord
          DEF Interrupted, Keeps, KeepsUndo, Record, Stored
    <3>2. CASE u \notin Interrupted
      BY <1>22, <3>2, UnchangedKeeps DEF Restart, Stored
    <3> QED BY <3>1, <3>2
  <2>3. Stored' \subseteq Stored
    BY <1>22 DEF Restart, Interrupted, Stored
  <2>4. \A u \in Stored' : Agrees(u)'
    BY <1>a, <2>2, <2>3, OtherAgrees
  <2>5. \A c \in Call : Undoes(c)'
    BY <1>22 DEF Restart, Rest, Undoes
  <2> QED BY <2>4, <2>5 DEF UndoInv
<1>23. ASSUME \/ ConsumeExpiredSummary \/ UNCHANGED vars
              \/ \E t \in Ticket : ConfirmationLapses(t) \/ UndoLapses(t)
       PROVE  UndoInv'
  <2>1. UNCHANGED <<ticket, call>>
    BY <1>23 DEF ConsumeExpiredSummary, ConfirmationLapses, UndoLapses, store, vars
  <2> QED BY <2>1, <1>t, PlaneAssumption, UndoCallFrame
<1> QED
  BY <1>1, <1>2, <1>3, <1>4, <1>5, <1>6, <1>7, <1>8, <1>10, <1>11, <1>13, <1>14, <1>16, <1>17,
     <1>22, <1>23
  DEF Next, Continue

(* Over a behaviour in which no two undos of one ticket overlap, the undo    *)
(* record of every ticket agrees with the inverse ticket it names: consumed  *)
(* only when the inverse was verified, failed only when it was not.          *)
THEOREM UndoRecordsAgree == Spec /\ []SingleUndo => []UndoAgrees
<1>1. Init => UndoInv
  BY DEF Init, UndoInv, Undoes, Rest, Stored
<1>2. UndoInv => UndoAgrees
  BY DEF UndoInv, Agrees, UndoAgrees
<1> QED BY <1>1, <1>2, UndoStep, Invariance, PTL DEF Spec
=============================================================================
