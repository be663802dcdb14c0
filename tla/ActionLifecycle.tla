--------------------------- MODULE ActionLifecycle ---------------------------
(***************************************************************************)
(* What the action plane promises about one ticket, whatever calls, undo   *)
(* requests, refused commits and restarts do: the phases a ticket may go   *)
(* through, and the single point where its command leaves the Hub.         *)
(***************************************************************************)
EXTENDS Naturals

CONSTANT Ticket

VARIABLES phase, commands   \* ticket -> phase, ticket -> commands sent

lifecycle == <<phase, commands>>

Ended == {"verified", "failed", "unknown", "rejected", "expired"}
Phase == {"none", "approved", "pending_confirmation", "executing"} \cup Ended

Init ==
  /\ phase = [t \in Ticket |-> "none"]
  /\ commands = [t \in Ticket |-> 0]

Move(t, from, to) ==
  /\ phase[t] \in from
  /\ phase' = [phase EXCEPT ![t] = to]
  /\ UNCHANGED commands

Submit(t)  == Move(t, {"none"}, "approved")
Hold(t)    == Move(t, {"approved"}, "pending_confirmation")
Decide(t)  == \E to \in {"approved", "rejected", "expired"} :
                Move(t, {"pending_confirmation"}, to)
Start(t)   == Move(t, {"approved"}, "executing")
Conclude(t) == \E to \in {"verified", "failed", "unknown"} :
                 Move(t, {"approved", "executing"}, to)

(* The one command of an executing ticket. *)
Send(t) ==
  /\ phase[t] = "executing" /\ commands[t] = 0
  /\ commands' = [commands EXCEPT ![t] = 1]
  /\ UNCHANGED phase

(* A restart concludes, as unknown, every ticket it finds in flight. *)
Interrupt ==
  /\ phase' = [t \in Ticket |-> IF phase[t] \in {"approved", "executing"}
                                  THEN "unknown" ELSE phase[t]]
  /\ UNCHANGED commands

Next == Interrupt \/ \E t \in Ticket :
          Submit(t) \/ Hold(t) \/ Decide(t) \/ Start(t) \/ Send(t) \/ Conclude(t)

Spec == Init /\ [][Next]_lifecycle

=============================================================================
