------------------------------ MODULE MediaTurn ------------------------------
(***************************************************************************)
(* One household request for music, from its acceptance to a ticket of the *)
(* action plane: HomeMediaActionTurnService over its SQLite store          *)
(* (packages/hub/src/media/home-media-action-turn-service.ts and           *)
(* home-media-action-turn-store.ts), the scope that lends the actor to one *)
(* tool call (home-media-conversation-service.ts) and the lease of the one *)
(* Agent (packages/agent-layer/src/home/home-agent-service.ts).            *)
(*                                                                         *)
(* The plane below is ActionLifecycle, which OneShotActionPlane implements:*)
(* a turn's request id has at most one ticket, so a turn names its ticket. *)
(* Everything between two awaits is one step.  Clarifications, questions   *)
(* and events are left out; a turn is the idempotency key it was begun by. *)
(***************************************************************************)
EXTENDS Naturals

CONSTANTS
  Turn,       \* idempotency keys
  None,
  MaxCrash,   \* bound on restarts
  MaxDown     \* bound on breakdowns of the turn store, each lasting until a restart

ASSUME MediaAssumption ==
  /\ None \notin Turn \cup {"clarification", "blocked", "ticket"}
  /\ MaxCrash \in Nat /\ MaxDown \in Nat

VARIABLES
  turn,       \* the turn's row
  phase,      \* the ticket of the turn's request in the plane
  commands,   \* commands that left the Hub for it
  call,       \* the turn's scope, its one tool call, and the Agent's lease
  run,        \* the turn the service has in hand: active; `over`: its run() is over
  service,    \* closed, recoveryUnavailable, the store out of order
  faults      \* the bounds used up so far

vars == <<turn, phase, commands, call, run, service, faults>>
plane == <<phase, commands>>

Plane == INSTANCE ActionLifecycle WITH Ticket <- Turn

Unticketed == {"clarification", "failed", "cancelled"}
Status == {"none", "running", "ticket"} \cup Unticketed
Flow   == {"none", "search", "prepare", "plane", "ticketed", "refused", "done"}
Result == {"clarification", "blocked", "ticket"}

Unused == [flow |-> "none", open |-> FALSE, result |-> None, cut |-> FALSE, busy |-> FALSE]
Idle   == [key |-> None, out |-> "waiting", cancelled |-> FALSE, timedOut |-> FALSE]

TypeOK ==
  /\ turn \in [Turn -> Status]
  /\ phase \in [Turn -> Plane!Phase]
  /\ commands \in [Turn -> {0, 1}]
  /\ call \in [Turn -> [flow : Flow, open : BOOLEAN, result : Result \cup {None},
                        cut : BOOLEAN, busy : BOOLEAN]]
  /\ run \in [key : Turn \cup {None}, out : {"waiting", "resolved", "rejected", "over"},
              cancelled : BOOLEAN, timedOut : BOOLEAN]
  /\ service \in [closed : BOOLEAN, unavailable : BOOLEAN, down : BOOLEAN]
  /\ faults \in [crash : 0..MaxCrash, down : 0..MaxDown]

Init ==
  /\ turn = [k \in Turn |-> "none"]
  /\ Plane!Init
  /\ call = [k \in Turn |-> Unused]
  /\ run = Idle
  /\ service = [closed |-> FALSE, unavailable |-> FALSE, down |-> FALSE]
  /\ faults = [crash |-> 0, down |-> 0]

Active(k)    == run.key = k
Ticketed(k)  == phase[k] # "none"
Available    == ~service.closed /\ ~service.unavailable
AgentIdle    == \A k \in Turn : ~call[k].busy

-----------------------------------------------------------------------------
(* The service                                                                 *)

\* controller.abort: the tool's signal is cut and the race of runActionTurn is lost
\* by the Agent, unless the Agent has answered before.
AbortIsHeard == run.out                        \* mutant: the turn waits for the Agent to give up
AbortWins    == IF run.out = "waiting" THEN "rejected" ELSE run.out
Abort(asked) ==
  /\ run' = IF run.key = None THEN run
            ELSE [run EXCEPT !.out = AbortWins, !.cancelled = @ \/ asked]
  /\ call' = [k \in Turn |-> [call[k] EXCEPT !.cut = @ \/ Active(k)]]

FailClosed == service' = [service EXCEPT !.unavailable = TRUE] /\ Abort(FALSE)

\* start(): a known key is answered from its row and changes nothing.
Start(k) ==
  /\ turn[k] = "none" /\ Available /\ ~service.down
  /\ run = Idle /\ AgentIdle
  /\ turn' = [turn EXCEPT ![k] = "running"]
  /\ run' = [Idle EXCEPT !.key = k]
  /\ call' = [call EXCEPT ![k] = [Unused EXCEPT !.open = TRUE, !.busy = TRUE]]
  /\ UNCHANGED <<plane, service, faults>>

\* bindTicketForRequest wins over everything else that may end a turn.
Bound(k, otherwise)     == IF Ticketed(k) THEN "ticket" ELSE otherwise
FailsFirst(k) == "failed"                      \* mutant: the ticket is not looked for
Failing(k)    == Bound(k, "failed")

\* run() is entered before `active` is set.  When its first read of the row
\* throws, all of it is over by then, its finally and the timer included: the
\* row is failed, or the store found out of order, and the turn that is put in
\* hand afterwards is taken from the service by nothing but a restart.
StartStumbles(k) ==
  /\ turn[k] = "none" /\ Available /\ ~service.down
  /\ run = Idle /\ AgentIdle
  /\ faults.down < MaxDown /\ faults' = [faults EXCEPT !.down = @ + 1]
  /\ run' = [Idle EXCEPT !.key = k, !.out = "over"]
  /\ \/ turn' = [turn EXCEPT ![k] = Failing(k)] /\ UNCHANGED service
     \/ /\ turn' = [turn EXCEPT ![k] = "running"]
        /\ \E down \in BOOLEAN : service' = [service EXCEPT !.unavailable = TRUE, !.down = down]
  /\ UNCHANGED <<plane, call>>

\* Any operation that finds the store out of order closes the service.
StoreIsFoundBroken ==
  /\ service.down /\ Available
  /\ FailClosed
  /\ UNCHANGED <<turn, plane, faults>>

Cancel(k) ==
  /\ Active(k) /\ turn[k] = "running" /\ ~service.unavailable /\ ~service.down
  /\ \/ /\ Ticketed(k)
        /\ turn' = [turn EXCEPT ![k] = "ticket"]
        /\ UNCHANGED <<run, call>>
     \/ ~Ticketed(k) /\ Abort(TRUE) /\ UNCHANGED turn
  /\ UNCHANGED <<plane, service, faults>>

Timeout(k) ==
  /\ Active(k) /\ ~run.timedOut /\ run.out # "over"
  /\ run' = [run EXCEPT !.out = AbortWins, !.timedOut = TRUE]
  /\ call' = [call EXCEPT ![k].cut = TRUE]
  /\ UNCHANGED <<turn, plane, service, faults>>

\* close() cancels what runs and awaits it.
Close ==
  /\ ~service.closed
  /\ service' = [service EXCEPT !.closed = TRUE]
  /\ Abort(TRUE)
  /\ UNCHANGED <<turn, plane, faults>>

\* completeState, and the catch of run()
EndOf(k) ==
  CASE run.cancelled -> Bound(k, "cancelled")
    [] run.timedOut \/ run.out = "rejected" -> Failing(k)
    [] call[k].result = "clarification" -> "clarification"
    [] OTHER -> Bound(k, "failed")

\* The scope is revoked before the row is written; the store may be out of order.
Settle(k) ==
  /\ Active(k) /\ run.out \in {"resolved", "rejected"}
  /\ call' = [call EXCEPT ![k].open = FALSE]
  /\ run' = Idle
  /\ \/ /\ service.down
        /\ service' = [service EXCEPT !.unavailable = TRUE]
        /\ UNCHANGED turn
     \/ /\ ~service.down
        /\ turn' = [turn EXCEPT ![k] = IF @ = "running" THEN EndOf(k) ELSE @]
        /\ UNCHANGED service
  /\ UNCHANGED <<plane, faults>>

-----------------------------------------------------------------------------
(* The Agent, and its one request_action                                       *)

\* Its lease outlives a turn it was cancelled in, until it comes to rest.
AgentSettles(k) ==
  /\ call[k].busy
  /\ call[k].cut \/ call[k].flow \in {"none", "done"}
  /\ call' = [call EXCEPT ![k].busy = FALSE]
  /\ \/ Active(k) /\ run.out = "waiting" /\ \E o \in {"resolved", "rejected"} : run' = [run EXCEPT !.out = o]
     \/ ~(Active(k) /\ run.out = "waiting") /\ UNCHANGED run
  /\ UNCHANGED <<turn, plane, service, faults>>

AgentDeadline(k) ==
  /\ call[k].busy /\ ~call[k].cut
  /\ call' = [call EXCEPT ![k].cut = TRUE]
  /\ run' = IF Active(k) THEN [run EXCEPT !.out = AbortWins] ELSE run
  /\ UNCHANGED <<turn, plane, service, faults>>

\* What a tool call leaves in its scope; a revoked scope takes nothing.
Complete(k, result) ==
  call' = [call EXCEPT ![k].flow = "done",
                       ![k].result = IF call[k].open THEN result ELSE call[k].result]
Throws(k)    == call' = [call EXCEPT ![k].flow = "done"]
Goes(k, to)  == call' = [call EXCEPT ![k].flow = to]
ToolStep     == UNCHANGED <<turn, plane, run, service, faults>>

RequestAction(k) ==
  /\ call[k].busy /\ call[k].open /\ call[k].flow = "none"
  /\ \/ Throws(k)
     \/ /\ ~call[k].cut
        /\ \/ \E r \in {"clarification", "blocked"} : Complete(k, r)
           \/ \E to \in {"search", "prepare"} : Goes(k, to)
  /\ ToolStep

SearchAnswers(k) ==
  /\ call[k].flow = "search"
  /\ \/ Throws(k)
     \/ ~call[k].cut /\ (Complete(k, "clarification") \/ Goes(k, "prepare"))
  /\ ToolStep

\* The scope is read again after the last await before the plane.
EntersAnyway(k) == TRUE                        \* mutant: revocation is not looked at again
MayEnter(k)     == call[k].open /\ ~call[k].cut
PrepareAnswers(k) ==
  /\ call[k].flow = "prepare"
  /\ \/ Complete(k, "blocked")
     \/ MayEnter(k) /\ Goes(k, "plane")
     \/ ~MayEnter(k) /\ Throws(k)
  /\ ToolStep

-----------------------------------------------------------------------------
(* The plane: requestNew goes on whether or not its signal was cut meanwhile,  *)
(* but executeTicket reads nothing under a signal that is cut.                 *)

Asking(k) == call[k].flow \in {"ticketed", "refused"}
PlaneStep == UNCHANGED <<turn, run, service, faults>>

SignalIsLost(k)  == "ticketed"                 \* mutant: the plane is not given the signal
UnderSignal(k)   == IF call[k].cut THEN "refused" ELSE "ticketed"
TicketCreated(k) ==
  /\ call[k].flow = "plane"
  /\ Plane!Submit(k) /\ Goes(k, UnderSignal(k))
  /\ PlaneStep

PlaneRefuses(k) == call[k].flow = "plane" /\ Throws(k) /\ UNCHANGED plane /\ PlaneStep

Held(k) == Asking(k) /\ Plane!Hold(k) /\ Complete(k, "ticket") /\ PlaneStep

Execute(k) ==
  /\ call[k].flow # "refused"
  /\ Plane!Start(k)
  /\ UNCHANGED call /\ PlaneStep

SendCommand(k) == Plane!Send(k) /\ UNCHANGED call /\ PlaneStep

Concluded(k) ==
  /\ Plane!Conclude(k)
  /\ \/ Asking(k) /\ Complete(k, "ticket")
     \/ ~Asking(k) /\ UNCHANGED call
  /\ PlaneStep

\* A member decides in the review centre, or nobody does in time.
Decided(k) == Plane!Decide(k) /\ UNCHANGED call /\ PlaneStep

-----------------------------------------------------------------------------
(* The store breaks down; the process stops and starts again.                  *)

StoreBreaks ==
  /\ ~service.down /\ faults.down < MaxDown
  /\ service' = [service EXCEPT !.down = TRUE]
  /\ faults' = [faults EXCEPT !.down = @ + 1]
  /\ UNCHANGED <<turn, plane, call, run>>

\* recoverInterrupted: the plane has been recovered before.
OnlyTickets(k) == IF Ticketed(k) THEN "ticket" ELSE turn[k]   \* mutant: other rows are left
Recovered(k)   == Bound(k, "failed")

Restart ==
  /\ faults.crash < MaxCrash
  /\ faults' = [faults EXCEPT !.crash = @ + 1]
  /\ Plane!Interrupt
  /\ call' = [k \in Turn |-> Unused]
  /\ run' = Idle
  /\ service' \in [closed : {FALSE}, unavailable : BOOLEAN, down : {FALSE}]
  /\ turn' \in [Turn -> Status]
  /\ \A k \in Turn : \/ turn'[k] = IF turn[k] = "running" THEN Recovered(k) ELSE turn[k]
                     \/ service'.unavailable /\ turn'[k] = turn[k]

Next ==
  \/ \E k \in Turn :
       \/ Start(k) \/ StartStumbles(k) \/ Cancel(k) \/ Timeout(k) \/ Settle(k)
       \/ AgentSettles(k) \/ AgentDeadline(k)
       \/ RequestAction(k) \/ SearchAnswers(k) \/ PrepareAnswers(k)
       \/ TicketCreated(k) \/ PlaneRefuses(k) \/ Held(k) \/ Execute(k)
       \/ SendCommand(k) \/ Concluded(k) \/ Decided(k)
  \/ StoreIsFoundBroken \/ Close \/ StoreBreaks \/ Restart

Spec == Init /\ [][Next]_vars

(* The turn's timer fires, and a settled promise is continued.  Nothing is     *)
(* asked of the Agent, the catalog or the plane.                               *)
FairSpec == Spec /\ \A k \in Turn : WF_vars(Timeout(k)) /\ WF_vars(Settle(k))

-----------------------------------------------------------------------------

(* Once a turn has ended, for whatever reason, its tool call can no longer     *)
(* bring a request to the plane (requestMediaAction after prepareIntent).      *)
RevokedCannotRequest ==
  [][\A k \in Turn : call[k].flow # "plane" /\ call'[k].flow = "plane" => turn'[k] = "running"]_vars

(* Ticket creation wins: a turn is never ended as clarified, failed or         *)
(* cancelled when its request has a ticket, not even by a cancellation, a      *)
(* deadline, a shutdown or a restart (bindTicketForRequest).                   *)
TicketWins ==
  [][\A k \in Turn : turn[k] = "running" /\ turn'[k] \in Unticketed => phase'[k] = "none"]_vars

(* A ticket that comes into being after its turn was ended without it sends    *)
(* nothing on its own: only a member's approval executes it (executeTicket).   *)
EndedNeverActs ==
  [][\A k \in Turn : phase[k] = "approved" /\ phase'[k] = "executing" /\ turn[k] \in Unticketed
                        => ~Asking(k)]_vars

(* A running row is somebody's: the service has it in hand, or has closed      *)
(* itself because of its store; a restart leaves none (recoverInterrupted).    *)
NoOrphanTurn ==
  \A k \in Turn : turn[k] = "running" => Active(k) \/ service.unavailable

(* An Agent that never answers, not even to a cancellation, does not keep a    *)
(* turn from ending, nor the next household from being served: that is done    *)
(* only by a first read that threw before the turn was in hand (run).          *)
TurnEnds ==
  \A k \in Turn :
    Active(k) ~> /\ turn[k] # "running" \/ service.unavailable
                 /\ ~Active(k) \/ run.out = "over"

=============================================================================
