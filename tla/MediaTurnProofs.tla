---------------------------- MODULE MediaTurnProofs ----------------------------
(* Theorems about MediaTurn, for any household requests and any number of      *)
(* restarts and breakdowns.                                                    *)
EXTENDS MediaTurn, TLAPS

Scope == [flow : Flow, open : BOOLEAN, result : Result \cup {None},
          cut : BOOLEAN, busy : BOOLEAN]

(* The tool call has been to the plane, or is over. *)
Passed(k) == call[k].flow \in {"ticketed", "refused", "done"}

(* Nothing of the turn can start to act: its signal is cut, or it is at rest. *)
Quiet(k) == call[k].cut \/ (~call[k].busy /\ call[k].flow \in {"none", "done"})

(* How a turn's row, its scope, the service and its ticket hang together. *)
OpenIsInHand(k)    == call[k].open => Active(k) /\ (turn[k] = "running" \/ Passed(k))
TicketIsLate(k)    == Ticketed(k) => turn[k] # "none" /\ (call[k].open => Passed(k))
CallIsOfATurn(k)   == call[k].busy \/ call[k].flow # "none" => turn[k] # "none"
AskingHasTicket(k) == Asking(k) => Ticketed(k)
ClarifiedIsOver(k) == call[k].result = "clarification" => call[k].flow = "done" /\ ~Ticketed(k)
SettledIsQuiet(k)  == Active(k) /\ run.out # "waiting" => Quiet(k)
EndedIsQuiet(k)    == turn[k] \in Unticketed => Quiet(k) /\ call[k].flow # "ticketed"

Sound(k) ==
  /\ OpenIsInHand(k) /\ TicketIsLate(k) /\ CallIsOfATurn(k) /\ AskingHasTicket(k)
  /\ ClarifiedIsOver(k) /\ SettledIsQuiet(k) /\ EndedIsQuiet(k)

IInv == TypeOK /\ NoOrphanTurn /\ \A k \in Turn : Sound(k)

(* What a step of the three action properties may do, without the box. *)
Permitted ==
  /\ \A k \in Turn : call[k].flow # "plane" /\ call'[k].flow = "plane" => turn'[k] = "running"
  /\ \A k \in Turn : turn[k] = "running" /\ turn'[k] \in Unticketed => phase'[k] = "none"
  /\ \A k \in Turn : phase[k] = "approved" /\ phase'[k] = "executing" /\ turn[k] \in Unticketed
                        => ~Asking(k)

USE DEF Flow, Result, Status, Unticketed

(* A turn whose row, scope and ticket a step leaves alone stays sound.          *)
LEMMA Untouched ==
  ASSUME NEW k \in Turn, Sound(k),
         call'[k] = call[k], turn'[k] = turn[k], phase'[k] = phase[k],
         call[k].open /\ Active(k) => Active(k)',
         (Active(k) /\ run.out # "waiting")' => Active(k) /\ run.out # "waiting"
  PROVE  Sound(k)'
  BY DEF Sound, Passed, Quiet, OpenIsInHand, TicketIsLate, CallIsOfATurn, AskingHasTicket,
     ClarifiedIsOver, SettledIsQuiet, EndedIsQuiet, Active, Ticketed, Asking

(* Writing one field of a scope keeps the scopes' type.                          *)
LEMMA ScopeKept ==
  ASSUME call \in [Turn -> Scope], NEW k \in Turn
  PROVE  /\ call[k] \in Scope
         /\ \A v \in BOOLEAN : [call EXCEPT ![k].open = v] \in [Turn -> Scope]
         /\ \A v \in BOOLEAN : [call EXCEPT ![k].cut = v] \in [Turn -> Scope]
         /\ \A v \in BOOLEAN : [call EXCEPT ![k].busy = v] \in [Turn -> Scope]
  <1>1. call[k] \in Scope
    OBVIOUS
  <1>2. ASSUME NEW v \in BOOLEAN
        PROVE  /\ [call[k] EXCEPT !.open = v] \in Scope
               /\ [call[k] EXCEPT !.cut = v] \in Scope
               /\ [call[k] EXCEPT !.busy = v] \in Scope
    BY <1>1 DEF Scope
  <1> HIDE DEF Scope
  <1> QED  BY <1>1, <1>2

-----------------------------------------------------------------------------
(* The service                                                                 *)

LEMMA StartHolds ==
  ASSUME IInv, NEW k \in Turn, Start(k)
  PROVE  IInv' /\ Permitted
  <1> USE MediaAssumption DEF Start, plane, Idle, Unused
  <1>1. TypeOK'
    BY DEF IInv, TypeOK, Plane!Phase, Plane!Ended
  <1>2. NoOrphanTurn'
    BY DEF IInv, TypeOK, NoOrphanTurn, Active, Available
  <1>3. ASSUME NEW j \in Turn PROVE Sound(j)'
    <2>1. CASE j = k
      <3>1. /\ call'[k] = [flow |-> "none", open |-> TRUE, result |-> None, cut |-> FALSE, busy |-> TRUE]
            /\ turn'[k] = "running" /\ phase'[k] = phase[k]
            /\ Active(k)' /\ run'.out = "waiting"
        BY DEF IInv, TypeOK, Active
      <3>2. turn[k] = "none" /\ Sound(k)
        BY DEF IInv
      <3>3. ~Ticketed(k)
        BY <3>2 DEF Sound, TicketIsLate
      <3> HIDE DEF Start, Unused, Idle, plane
      <3> QED
        BY <2>1, <3>1, <3>3, MediaAssumption
        DEF Sound, Passed, Quiet, OpenIsInHand, TicketIsLate, CallIsOfATurn,
         AskingHasTicket, ClarifiedIsOver, SettledIsQuiet, EndedIsQuiet, Ticketed, Asking
    <2>2. CASE j # k
      BY <2>2, Untouched DEF IInv, TypeOK, Active, Sound, OpenIsInHand
    <2> QED  BY <2>1, <2>2
  <1>4. Permitted
    BY DEF IInv, TypeOK, Permitted
  <1> QED  BY <1>1, <1>3, <1>2, <1>4 DEF IInv

(* A turn whose first read threw is in hand, with a scope nobody opened.        *)
LEMMA StartStumblesHolds ==
  ASSUME IInv, NEW k \in Turn, StartStumbles(k)
  PROVE  IInv' /\ Permitted
  <1> USE MediaAssumption
  <1>1. /\ turn[k] = "none" /\ Sound(k) /\ run.key = None /\ UNCHANGED <<phase, commands, call>>
        /\ run' = [key |-> k, out |-> "over", cancelled |-> FALSE, timedOut |-> FALSE]
    BY DEF IInv, StartStumbles, Idle, plane
  <1>2. ~call[k].open /\ ~call[k].busy /\ call[k].flow = "none" /\ ~Ticketed(k)
    BY <1>1 DEF IInv, TypeOK, Sound, OpenIsInHand, CallIsOfATurn, TicketIsLate, Active
  <1>3. /\ turn' \in [Turn -> Status] /\ turn'[k] \in {"failed", "running"}
        /\ \A j \in Turn \ {k} : turn'[j] = turn[j]
        /\ turn'[k] = "running" => service'.unavailable
        /\ service.unavailable => service'.unavailable
    <2>1. turn \in [Turn -> Status] /\ service \in [closed : BOOLEAN, unavailable : BOOLEAN, down : BOOLEAN]
      BY DEF IInv, TypeOK
    <2>2. CASE turn' = [turn EXCEPT ![k] = Failing(k)] /\ service' = service
      <3>1. Failing(k) = "failed"
        BY <1>2 DEF Failing, Bound
      <3> QED  BY <2>1, <2>2, <3>1
    <2>3. CASE /\ turn' = [turn EXCEPT ![k] = "running"]
               /\ \E down \in BOOLEAN : service' = [service EXCEPT !.unavailable = TRUE, !.down = down]
      BY <2>1, <2>3
    <2> QED  BY <2>2, <2>3 DEF StartStumbles
  <1>4. TypeOK'
    <2>1. /\ service' \in [closed : BOOLEAN, unavailable : BOOLEAN, down : BOOLEAN]
          /\ faults' \in [crash : 0..MaxCrash, down : 0..MaxDown]
      <3>1. /\ service \in [closed : BOOLEAN, unavailable : BOOLEAN, down : BOOLEAN]
            /\ faults \in [crash : 0..MaxCrash, down : 0..MaxDown] /\ faults.down < MaxDown
        BY DEF IInv, TypeOK, StartStumbles
      <3>2. faults' \in [crash : 0..MaxCrash, down : 0..MaxDown]
        <4>1. faults' = [faults EXCEPT !.down = @ + 1]
          BY DEF StartStumbles
        <4>2. faults.down + 1 \in 0..MaxDown
          BY <3>1
        <4> QED  BY <3>1, <4>1, <4>2
      <3>3. \/ service' = service
            \/ \E down \in BOOLEAN : service' = [service EXCEPT !.unavailable = TRUE, !.down = down]
        BY DEF StartStumbles
      <3> QED  BY <3>1, <3>2, <3>3
    <2>2. run' \in [key : Turn \cup {None}, out : {"waiting", "resolved", "rejected", "over"},
                    cancelled : BOOLEAN, timedOut : BOOLEAN]
      BY <1>1
    <2> QED  BY <1>1, <1>3, <2>1, <2>2 DEF IInv, TypeOK
  <1>5. NoOrphanTurn'
    BY <1>1, <1>3 DEF IInv, NoOrphanTurn, Active
  <1>6. ASSUME NEW j \in Turn PROVE Sound(j)'
    <2>1. CASE j = k
      BY <1>1, <1>2, <1>3, <2>1
      DEF Sound, Passed, Quiet, OpenIsInHand, TicketIsLate, CallIsOfATurn,
          AskingHasTicket, ClarifiedIsOver, SettledIsQuiet, EndedIsQuiet, Ticketed, Asking
    <2>2. CASE j # k
      <3>1. ~Active(j) /\ ~Active(j)' /\ Sound(j)
        BY <1>1, <2>2 DEF IInv, Active
      <3> QED  BY <1>1, <1>3, <2>2, <3>1, Untouched
    <2> QED  BY <2>1, <2>2
  <1>7. Permitted
    BY <1>1, <1>3 DEF Permitted
  <1> QED  BY <1>4, <1>5, <1>6, <1>7 DEF IInv

(* Aborting cuts the signal of the turn in hand and changes no row.             *)
LEMMA AbortHolds ==
  ASSUME IInv, NEW asked \in BOOLEAN, Abort(asked), UNCHANGED <<turn, plane, faults>>,
         service' \in [closed : BOOLEAN, unavailable : BOOLEAN, down : BOOLEAN],
         service.unavailable => service'.unavailable
  PROVE  IInv' /\ Permitted
  <1> USE MediaAssumption DEF Abort, AbortWins, plane
  <1>1. TypeOK'
    <2>1. run' \in [key : Turn \cup {None}, out : {"waiting", "resolved", "rejected", "over"},
                    cancelled : BOOLEAN, timedOut : BOOLEAN]
      BY DEF IInv, TypeOK
    <2>2. ASSUME NEW j \in Turn PROVE [call[j] EXCEPT !.cut = @ \/ Active(j)] \in Scope
      <3>1. call[j] \in Scope /\ (call[j].cut \/ Active(j)) \in BOOLEAN
        BY DEF IInv, TypeOK, Scope
      <3> QED  BY <3>1 DEF Scope
    <2>3. call' \in [Turn -> Scope]
      BY <2>2
    <2> QED  BY <2>1, <2>3 DEF IInv, TypeOK, Scope
  <1>2. NoOrphanTurn'
    BY DEF IInv, TypeOK, NoOrphanTurn, Active
  <1>3. ASSUME NEW j \in Turn PROVE Sound(j)'
    <2>1. CASE Active(j)
      <3>0. run.key # None /\ call[j] \in Scope
        BY <2>1 DEF IInv, TypeOK, Active, Scope
      <3>4. Active(j)'
        BY <2>1, <3>0 DEF IInv, TypeOK, Active
      <3>5. (call[j].cut \/ Active(j)) = TRUE
        BY <2>1
      <3>6. call'[j] = [call[j] EXCEPT !.cut = (call[j].cut \/ Active(j))]
        OBVIOUS
      <3>1. call'[j] = [call[j] EXCEPT !.cut = TRUE]
        BY <3>5, <3>6
      <3>2. /\ call'[j].flow = call[j].flow /\ call'[j].open = call[j].open
            /\ call'[j].busy = call[j].busy /\ call'[j].result = call[j].result
            /\ call'[j].cut
            /\ turn'[j] = turn[j] /\ phase'[j] = phase[j] /\ Active(j)'
        BY <3>0, <3>1, <3>4 DEF Scope
      <3>3. Sound(j)
        BY DEF IInv
      <3> HIDE DEF Abort
      <3> QED
        BY <2>1, <3>2, <3>3
        DEF Sound, Passed, Quiet, OpenIsInHand, TicketIsLate, CallIsOfATurn,
         AskingHasTicket, ClarifiedIsOver, SettledIsQuiet, EndedIsQuiet, Ticketed, Asking
    <2>2. CASE ~Active(j)
      <3>1. call'[j] = call[j]
        BY <2>2 DEF IInv, TypeOK, Active
      <3> QED  BY <2>2, <3>1, Untouched DEF IInv, TypeOK, Active
    <2> QED  BY <2>1, <2>2
  <1>4. Permitted
    BY DEF IInv, TypeOK, Permitted
  <1> QED  BY <1>1, <1>2, <1>3, <1>4 DEF IInv

LEMMA StoreIsFoundBrokenHolds ==
  ASSUME IInv, StoreIsFoundBroken
  PROVE  IInv' /\ Permitted
  BY AbortHolds DEF IInv, TypeOK, StoreIsFoundBroken, FailClosed

LEMMA CloseHolds ==
  ASSUME IInv, Close
  PROVE  IInv' /\ Permitted
  BY AbortHolds DEF IInv, TypeOK, Close

LEMMA CancelHolds ==
  ASSUME IInv, NEW k \in Turn, Cancel(k)
  PROVE  IInv' /\ Permitted
  <1>1. CASE ~Ticketed(k) /\ Abort(TRUE) /\ UNCHANGED turn
    BY <1>1, AbortHolds DEF IInv, TypeOK, Cancel
  <1>2. CASE Ticketed(k) /\ turn' = [turn EXCEPT ![k] = "ticket"] /\ UNCHANGED <<run, call>>
    <2> USE <1>2 DEF Cancel, plane
    <2>1. TypeOK' /\ NoOrphanTurn' /\ Permitted
      BY DEF IInv, TypeOK, NoOrphanTurn, Active, Permitted
    <2>2. ASSUME NEW j \in Turn PROVE Sound(j)'
      BY DEF IInv, TypeOK, Sound, Passed, Quiet, OpenIsInHand, TicketIsLate,
         CallIsOfATurn, AskingHasTicket, ClarifiedIsOver, SettledIsQuiet, EndedIsQuiet,
         Active, Ticketed, Asking
    <2> QED  BY <2>1, <2>2 DEF IInv
  <1> QED  BY <1>1, <1>2 DEF Cancel

(* The turn's timer, and the Agent's own deadline, cut the signal too.          *)
LEMMA CutHolds ==
  ASSUME IInv, NEW k \in Turn, call' = [call EXCEPT ![k].cut = TRUE],
         run' \in [key : {run.key}, out : {"waiting", "resolved", "rejected", "over"},
                   cancelled : BOOLEAN, timedOut : BOOLEAN],
         ~Active(k) => run' = run, UNCHANGED <<turn, plane, service, faults>>
  PROVE  IInv' /\ Permitted
  <1> USE DEF plane
  <1>1. TypeOK'
    <2>1. call' \in [Turn -> Scope]
      <3>1. call \in [Turn -> Scope]
        BY DEF IInv, TypeOK, Scope
      <3> QED  BY <3>1, ScopeKept
    <2>2. run' \in [key : Turn \cup {None}, out : {"waiting", "resolved", "rejected", "over"},
                    cancelled : BOOLEAN, timedOut : BOOLEAN]
      BY DEF IInv, TypeOK
    <2> QED  BY <2>1, <2>2 DEF IInv, TypeOK, Scope
  <1>2. NoOrphanTurn'
    BY DEF IInv, TypeOK, NoOrphanTurn, Active
  <1>3. Permitted
    BY DEF IInv, TypeOK, Permitted
  <1>4. ASSUME NEW j \in Turn PROVE Sound(j)'
    <2>1. CASE j = k
      <3>1. /\ call'[j].flow = call[j].flow /\ call'[j].open = call[j].open
            /\ call'[j].busy = call[j].busy /\ call'[j].result = call[j].result
            /\ call'[j].cut
            /\ turn'[j] = turn[j] /\ phase'[j] = phase[j] /\ (Active(j) => Active(j)')
        BY <2>1 DEF IInv, TypeOK, Active
      <3>2. Sound(j)
        BY DEF IInv
      <3> QED
        BY <3>1, <3>2
        DEF Sound, Passed, Quiet, OpenIsInHand, TicketIsLate, CallIsOfATurn,
         AskingHasTicket, ClarifiedIsOver, SettledIsQuiet, EndedIsQuiet, Ticketed, Asking
    <2>2. CASE j # k
      <3>1. call'[j] = call[j] /\ run'.key = run.key /\ (Active(j) => run' = run)
        BY <2>2 DEF IInv, TypeOK, Active
      <3> QED  BY <3>1, Untouched DEF IInv, Active
    <2> QED  BY <2>1, <2>2
  <1> QED  BY <1>1, <1>2, <1>3, <1>4 DEF IInv

LEMMA TimeoutHolds ==
  ASSUME IInv, NEW k \in Turn, Timeout(k)
  PROVE  IInv' /\ Permitted
  <1>1. run' \in [key : {run.key}, out : {"waiting", "resolved", "rejected", "over"},
                  cancelled : BOOLEAN, timedOut : BOOLEAN]
    BY DEF IInv, TypeOK, Timeout, AbortWins
  <1> QED  BY <1>1, CutHolds DEF Timeout

LEMMA AgentDeadlineHolds ==
  ASSUME IInv, NEW k \in Turn, AgentDeadline(k)
  PROVE  IInv' /\ Permitted
  <1>1. run' \in [key : {run.key}, out : {"waiting", "resolved", "rejected", "over"},
                  cancelled : BOOLEAN, timedOut : BOOLEAN]
    BY DEF IInv, TypeOK, AgentDeadline, AbortWins
  <1> QED  BY <1>1, CutHolds DEF AgentDeadline

(* A turn ends without a ticket only if there is none.                          *)
LEMMA SettleHolds ==
  ASSUME IInv, NEW k \in Turn, Settle(k)
  PROVE  IInv' /\ Permitted
  <1> USE MediaAssumption DEF Settle, plane, Idle, EndOf, Failing, Bound
  <1>1. EndOf(k) \in {"ticket"} \cup Unticketed
    OBVIOUS
  <1>2. EndOf(k) \in Unticketed => ~Ticketed(k)
    BY DEF IInv, Sound, ClarifiedIsOver
  <1> HIDE DEF EndOf
  <1>3. turn'[k] = turn[k] \/ (turn[k] = "running" /\ turn'[k] = EndOf(k))
    BY DEF IInv, TypeOK
  <1>4. TypeOK'
    <2>1. turn' \in [Turn -> Status] /\ service' \in [closed : BOOLEAN, unavailable : BOOLEAN, down : BOOLEAN]
      <3>1. turn' \in [Turn -> Status]
        BY <1>1, <1>3 DEF IInv, TypeOK
      <3>2. service' \in [closed : BOOLEAN, unavailable : BOOLEAN, down : BOOLEAN]
        BY DEF IInv, TypeOK
      <3> QED  BY <3>1, <3>2
    <2>2. call' \in [Turn -> Scope]
      <3>1. call \in [Turn -> Scope]
        BY DEF IInv, TypeOK, Scope
      <3> QED  BY <3>1, ScopeKept
    <2>3. run' \in [key : Turn \cup {None}, out : {"waiting", "resolved", "rejected", "over"},
                    cancelled : BOOLEAN, timedOut : BOOLEAN]
      <3>1. run' = Idle
        OBVIOUS
      <3> QED  BY <3>1
    <2> QED  BY <2>1, <2>2, <2>3 DEF IInv, TypeOK, Scope
  <1>5. NoOrphanTurn'
    BY <1>1 DEF IInv, TypeOK, NoOrphanTurn, Active
  <1>6. Permitted
    <2>1. \A j \in Turn : j # k => turn'[j] = turn[j]
      BY DEF IInv, TypeOK
    <2> QED  BY <1>2, <1>3, <2>1 DEF IInv, TypeOK, Permitted, Ticketed
  <1>7. ASSUME NEW j \in Turn PROVE Sound(j)'
    <2>1. CASE j = k
      <3>1. /\ ~Active(k)' /\ ~call'[k].open /\ call'[k].flow = call[k].flow
            /\ call'[k].cut = call[k].cut /\ call'[k].busy = call[k].busy
            /\ call'[k].result = call[k].result
        BY DEF IInv, TypeOK, Active
      <3>2. Quiet(k)
        BY DEF IInv, Sound, SettledIsQuiet
      <3>3. turn'[k] \in Unticketed => call[k].flow # "ticketed"
        BY <1>2, <1>3 DEF IInv, Sound, EndedIsQuiet, AskingHasTicket, Asking
      <3> QED
        BY <2>1, <1>1, <1>2, <1>3, <3>1, <3>2, <3>3
        DEF IInv, Sound, Passed, Quiet, OpenIsInHand, TicketIsLate, CallIsOfATurn,
            AskingHasTicket, ClarifiedIsOver, SettledIsQuiet, EndedIsQuiet, Ticketed, Asking
    <2>2. CASE j # k
      BY <2>2, Untouched DEF IInv, TypeOK, Active
    <2> QED  BY <2>1, <2>2
  <1> QED  BY <1>4, <1>5, <1>6, <1>7 DEF IInv

-----------------------------------------------------------------------------
(* The Agent and its tool call                                                 *)

LEMMA AgentSettlesHolds ==
  ASSUME IInv, NEW k \in Turn, AgentSettles(k)
  PROVE  IInv' /\ Permitted
  <1> USE DEF AgentSettles, plane
  <1>1. call' \in [Turn -> Scope] /\ call'[k] = [call[k] EXCEPT !.busy = FALSE] /\ call[k] \in Scope
    <2>1. call \in [Turn -> Scope]
      BY DEF IInv, TypeOK, Scope
    <2> QED  BY <2>1, ScopeKept
  <1>2. run' \in [key : {run.key}, out : {"waiting", "resolved", "rejected", "over"},
                  cancelled : BOOLEAN, timedOut : BOOLEAN]
        /\ (~Active(k) => run' = run)
    BY DEF IInv, TypeOK
  <1>3. TypeOK'
    BY <1>1, <1>2 DEF IInv, TypeOK, Scope
  <1>4. NoOrphanTurn'
    BY <1>2 DEF IInv, NoOrphanTurn, Active
  <1>5. Permitted
    BY DEF IInv, TypeOK, Permitted
  <1>6. ASSUME NEW j \in Turn PROVE Sound(j)'
    <2>1. CASE j = k
      <3>1. /\ call'[j].flow = call[j].flow /\ call'[j].open = call[j].open
            /\ call'[j].result = call[j].result /\ call'[j].cut = call[j].cut
            /\ ~call'[j].busy
        BY <1>1, <2>1 DEF Scope
      <3>2. turn'[j] = turn[j] /\ phase'[j] = phase[j] /\ (Active(j) => Active(j)')
        BY <1>2, <2>1 DEF Active
      <3>3. Quiet(j)' /\ Sound(j)
        BY <2>1, <3>1 DEF IInv, Quiet
      <3> HIDE DEF AgentSettles
      <3> QED
        BY <3>1, <3>2, <3>3
        DEF Sound, Passed, OpenIsInHand, TicketIsLate, CallIsOfATurn,
         AskingHasTicket, ClarifiedIsOver, SettledIsQuiet, EndedIsQuiet, Ticketed, Asking
    <2>2. CASE j # k
      <3>1. call'[j] = call[j] /\ run'.key = run.key /\ (Active(j) => run' = run)
        BY <1>2, <2>2 DEF IInv, TypeOK, Active
      <3> QED  BY <3>1, Untouched DEF IInv, Active
    <2> QED  BY <2>1, <2>2
  <1> QED  BY <1>3, <1>4, <1>5, <1>6 DEF IInv

(* A step that changes one scope and one ticket keeps the other turns as they   *)
(* are.                                                                         *)
LEMMA OneScope ==
  ASSUME IInv, NEW k \in Turn, NEW l \in Scope, call' = [call EXCEPT ![k] = l],
         UNCHANGED <<turn, run, service, faults>>,
         phase' \in [Turn -> Plane!Phase], commands' \in [Turn -> {0, 1}],
         \A j \in Turn \ {k} : phase'[j] = phase[j],
         Sound(k)',
         call[k].flow # "plane" /\ l.flow = "plane" => turn[k] = "running",
         phase[k] = "approved" /\ phase'[k] = "executing" /\ turn[k] \in Unticketed => ~Asking(k)
  PROVE  IInv' /\ Permitted
  <1>1. TypeOK' /\ NoOrphanTurn'
    BY DEF IInv, TypeOK, NoOrphanTurn, Active, Scope
  <1>2. call'[k] = l /\ \A j \in Turn \ {k} : call'[j] = call[j]
    BY DEF IInv, TypeOK
  <1>3. Permitted
    BY <1>2 DEF Permitted
  <1>4. ASSUME NEW j \in Turn PROVE Sound(j)'
    <2>1. CASE j = k
      BY <2>1
    <2>2. CASE j # k
      BY <1>2, <2>2, Untouched DEF IInv, Active
    <2> QED  BY <2>1, <2>2
  <1> QED  BY <1>1, <1>3, <1>4 DEF IInv

(* The tool call goes on, or ends, before the plane has made a ticket of it.    *)
LEMMA ToolHolds ==
  ASSUME IInv, NEW k \in Turn, ToolStep,
         NEW f \in {"search", "prepare", "plane", "done"}, NEW r \in Result \cup {None},
         call' = [call EXCEPT ![k] = [@ EXCEPT !.flow = f, !.result = r]],
         call[k].flow \in {"search", "prepare", "plane"} \/ (call[k].flow = "none" /\ call[k].busy),
         r = call[k].result \/ (call[k].open /\ (r = "clarification" => f = "done")),
         f = "plane" => call[k].open
  PROVE  IInv' /\ Permitted
  <1> DEFINE l == [call[k] EXCEPT !.flow = f, !.result = r]
  <1>1. call[k] \in Scope
    BY DEF IInv, TypeOK, Scope
  <1>2. /\ l \in Scope /\ l.flow = f /\ l.result = r
        /\ l.open = call[k].open /\ l.cut = call[k].cut /\ l.busy = call[k].busy
    BY <1>1 DEF Scope
  <1>3. call' = [call EXCEPT ![k] = l] /\ call'[k] = l
    BY DEF IInv, TypeOK
  <1>4. /\ phase' = phase /\ turn' = turn /\ run' = run
        /\ phase' \in [Turn -> Plane!Phase] /\ commands' \in [Turn -> {0, 1}]
    BY DEF IInv, TypeOK, ToolStep, plane
  <1>5. Sound(k)
    BY DEF IInv
  <1> HIDE DEF l
  <1>6. Sound(k)'
    BY <1>2, <1>3, <1>4, <1>5
    DEF Sound, Passed, Quiet, OpenIsInHand, TicketIsLate, CallIsOfATurn,
        AskingHasTicket, ClarifiedIsOver, SettledIsQuiet, EndedIsQuiet, Ticketed, Asking, Active
  <1>7. call[k].flow # "plane" /\ l.flow = "plane" => turn[k] = "running"
    BY <1>2, <1>5 DEF Sound, OpenIsInHand, Passed
  <1>8. UNCHANGED <<turn, run, service, faults>>
    BY DEF ToolStep
  <1> QED  BY <1>2, <1>3, <1>4, <1>6, <1>7, <1>8, OneScope

LEMMA ThrowsHolds ==
  ASSUME IInv, NEW k \in Turn, ToolStep, Throws(k),
         call[k].flow \in {"search", "prepare", "plane"} \/ (call[k].flow = "none" /\ call[k].busy)
  PROVE  IInv' /\ Permitted
  <1>1. call[k] \in Scope
    BY DEF IInv, TypeOK, Scope
  <1>2. call[k].result \in Result \cup {None}
        /\ [call[k] EXCEPT !.flow = "done", !.result = call[k].result] = [call[k] EXCEPT !.flow = "done"]
    BY <1>1 DEF Scope
  <1> QED  BY <1>2, ToolHolds DEF Throws

LEMMA GoesHolds ==
  ASSUME IInv, NEW k \in Turn, ToolStep, NEW f \in {"search", "prepare", "plane"}, Goes(k, f),
         call[k].flow \in {"search", "prepare", "plane"} \/ (call[k].flow = "none" /\ call[k].busy),
         f = "plane" => call[k].open
  PROVE  IInv' /\ Permitted
  <1>1. call[k] \in Scope
    BY DEF IInv, TypeOK, Scope
  <1>2. call[k].result \in Result \cup {None}
        /\ [call[k] EXCEPT !.flow = f, !.result = call[k].result] = [call[k] EXCEPT !.flow = f]
    BY <1>1 DEF Scope
  <1> QED  BY <1>2, ToolHolds DEF Goes

LEMMA CompleteHolds ==
  ASSUME IInv, NEW k \in Turn, ToolStep, NEW r \in Result, Complete(k, r),
         call[k].flow \in {"search", "prepare", "plane"} \/ (call[k].flow = "none" /\ call[k].busy)
  PROVE  IInv' /\ Permitted
  <1> DEFINE q == IF call[k].open THEN r ELSE call[k].result
  <1>1. call[k] \in Scope
    BY DEF IInv, TypeOK, Scope
  <1>2. q \in Result \cup {None} /\ (q = call[k].result \/ call[k].open)
    BY <1>1 DEF Scope
  <1>3. call' = [call EXCEPT ![k] = [@ EXCEPT !.flow = "done", !.result = q]]
    BY <1>1 DEF Complete, IInv, TypeOK
  <1> HIDE DEF q
  <1> QED  BY <1>2, <1>3, ToolHolds

LEMMA RequestActionHolds ==
  ASSUME IInv, NEW k \in Turn, RequestAction(k)
  PROVE  IInv' /\ Permitted
  BY ThrowsHolds, GoesHolds, CompleteHolds DEF RequestAction

LEMMA SearchAnswersHolds ==
  ASSUME IInv, NEW k \in Turn, SearchAnswers(k)
  PROVE  IInv' /\ Permitted
  BY ThrowsHolds, GoesHolds, CompleteHolds DEF SearchAnswers

LEMMA PrepareAnswersHolds ==
  ASSUME IInv, NEW k \in Turn, PrepareAnswers(k)
  PROVE  IInv' /\ Permitted
  BY ThrowsHolds, GoesHolds, CompleteHolds DEF PrepareAnswers, MayEnter

LEMMA PlaneRefusesHolds ==
  ASSUME IInv, NEW k \in Turn, PlaneRefuses(k)
  PROVE  IInv' /\ Permitted
  BY ThrowsHolds DEF PlaneRefuses, PlaneStep, ToolStep

-----------------------------------------------------------------------------
(* The plane, and the restart                                                  *)

USE DEF Plane!Phase, Plane!Ended

(* One ticket moves on.                                                         *)
LEMMA TicketMoves ==
  ASSUME IInv, NEW k \in Turn, NEW from, NEW to \in Plane!Phase \ {"none"}, Plane!Move(k, from, to)
  PROVE  /\ phase' \in [Turn -> Plane!Phase] /\ commands' \in [Turn -> {0, 1}]
         /\ \A j \in Turn \ {k} : phase'[j] = phase[j]
         /\ phase[k] \in from /\ phase'[k] = to
  BY DEF IInv, TypeOK, Plane!Move

(* The plane works on a ticket on its own.                                      *)
LEMMA TicketHolds ==
  ASSUME IInv, NEW k \in Turn, UNCHANGED call, PlaneStep,
         phase' \in [Turn -> Plane!Phase], commands' \in [Turn -> {0, 1}],
         \A j \in Turn \ {k} : phase'[j] = phase[j],
         phase[k] # "none", phase'[k] # "none",
         phase[k] = "approved" /\ phase'[k] = "executing" => call[k].flow # "refused"
  PROVE  IInv' /\ Permitted
  <1>1. call[k] \in Scope /\ call' = [call EXCEPT ![k] = call[k]] /\ call'[k] = call[k]
    BY DEF IInv, TypeOK, Scope
  <1>2. turn' = turn /\ run' = run /\ service' = service /\ faults' = faults
    BY DEF PlaneStep
  <1>3. Sound(k)
    BY DEF IInv
  <1>4. Sound(k)'
    BY <1>1, <1>2, <1>3
    DEF Sound, Passed, Quiet, OpenIsInHand, TicketIsLate, CallIsOfATurn,
        AskingHasTicket, ClarifiedIsOver, SettledIsQuiet, EndedIsQuiet, Ticketed, Asking, Active
  <1>5. phase[k] = "approved" /\ phase'[k] = "executing" /\ turn[k] \in Unticketed => ~Asking(k)
    BY <1>3 DEF Sound, EndedIsQuiet, Asking
  <1> QED  BY <1>1, <1>2, <1>4, <1>5, OneScope

(* The plane answers the tool call that asked.                                  *)
LEMMA AnswerHolds ==
  ASSUME IInv, NEW k \in Turn, Asking(k), Complete(k, "ticket"), PlaneStep,
         phase' \in [Turn -> Plane!Phase], commands' \in [Turn -> {0, 1}],
         \A j \in Turn \ {k} : phase'[j] = phase[j],
         phase'[k] \in Plane!Phase \ {"none", "executing"}
  PROVE  IInv' /\ Permitted
  <1> DEFINE r == IF call[k].open THEN "ticket" ELSE call[k].result
             l == [call[k] EXCEPT !.flow = "done", !.result = r]
  <1>1. call[k] \in Scope
    BY DEF IInv, TypeOK, Scope
  <1>2. /\ l \in Scope /\ l.flow = "done" /\ l.result \in {"ticket", call[k].result}
        /\ l.open = call[k].open /\ l.cut = call[k].cut /\ l.busy = call[k].busy
    BY <1>1 DEF Scope
  <1>3. call' = [call EXCEPT ![k] = l] /\ call'[k] = l
    BY <1>1 DEF IInv, TypeOK, Complete
  <1>4. turn' = turn /\ run' = run /\ service' = service /\ faults' = faults
    BY DEF PlaneStep
  <1>5. Sound(k)
    BY DEF IInv
  <1> HIDE DEF l
  <1>6. call[k].result # "clarification"
    BY <1>5 DEF Sound, ClarifiedIsOver, Asking
  <1>7. Sound(k)'
    BY <1>2, <1>3, <1>4, <1>5, <1>6
    DEF Sound, Passed, Quiet, OpenIsInHand, TicketIsLate, CallIsOfATurn,
        AskingHasTicket, ClarifiedIsOver, SettledIsQuiet, EndedIsQuiet, Ticketed, Asking, Active
  <1> QED  BY <1>2, <1>3, <1>4, <1>7, OneScope

LEMMA TicketCreatedHolds ==
  ASSUME IInv, NEW k \in Turn, TicketCreated(k)
  PROVE  IInv' /\ Permitted
  <1> DEFINE l == [call[k] EXCEPT !.flow = UnderSignal(k)]
  <1>1. call[k] \in Scope /\ call[k].flow = "plane"
    BY DEF IInv, TypeOK, Scope, TicketCreated
  <1>2. /\ l \in Scope /\ l.result = call[k].result /\ l.flow = UnderSignal(k)
        /\ UnderSignal(k) \in {"ticketed", "refused"}
        /\ l.open = call[k].open /\ l.cut = call[k].cut /\ l.busy = call[k].busy
        /\ (l.cut => l.flow = "refused")
    BY <1>1 DEF Scope, UnderSignal
  <1>3. call' = [call EXCEPT ![k] = l] /\ call'[k] = l
    BY DEF IInv, TypeOK, TicketCreated, Goes
  <1>4. turn' = turn /\ run' = run /\ service' = service /\ faults' = faults
    BY DEF TicketCreated, PlaneStep
  <1>5. Sound(k)
    BY DEF IInv
  <1>6. /\ phase' \in [Turn -> Plane!Phase] /\ commands' \in [Turn -> {0, 1}]
        /\ \A j \in Turn \ {k} : phase'[j] = phase[j]
        /\ phase'[k] = "approved"
    BY TicketMoves DEF TicketCreated, Plane!Submit
  <1> HIDE DEF l
  <1>7. Quiet(k) => call[k].cut
    BY <1>1 DEF Quiet
  <1>8. Sound(k)'
    BY <1>1, <1>2, <1>3, <1>4, <1>5, <1>6, <1>7
    DEF Sound, Passed, Quiet, OpenIsInHand, TicketIsLate, CallIsOfATurn,
        AskingHasTicket, ClarifiedIsOver, SettledIsQuiet, EndedIsQuiet, Ticketed, Asking, Active
  <1> QED  BY <1>2, <1>3, <1>4, <1>6, <1>8, OneScope

LEMMA HeldHolds ==
  ASSUME IInv, NEW k \in Turn, Held(k)
  PROVE  IInv' /\ Permitted
  <1>1. Plane!Move(k, {"approved"}, "pending_confirmation")
    BY DEF Held, Plane!Hold
  <1> QED  BY <1>1, TicketMoves, AnswerHolds DEF Held

LEMMA ConcludedHolds ==
  ASSUME IInv, NEW k \in Turn, Concluded(k)
  PROVE  IInv' /\ Permitted
  <1>1. PICK to \in {"verified", "failed", "unknown"} : Plane!Move(k, {"approved", "executing"}, to)
    BY DEF Concluded, Plane!Conclude
  <1>2. /\ phase' \in [Turn -> Plane!Phase] /\ commands' \in [Turn -> {0, 1}]
        /\ \A j \in Turn \ {k} : phase'[j] = phase[j]
        /\ phase[k] \in {"approved", "executing"} /\ phase'[k] = to
    BY <1>1, TicketMoves
  <1> QED  BY <1>2, AnswerHolds, TicketHolds DEF Concluded

LEMMA DecidedHolds ==
  ASSUME IInv, NEW k \in Turn, Decided(k)
  PROVE  IInv' /\ Permitted
  <1>1. PICK to \in {"approved", "rejected", "expired"} : Plane!Move(k, {"pending_confirmation"}, to)
    BY DEF Decided, Plane!Decide
  <1> QED  BY <1>1, TicketMoves, TicketHolds DEF Decided

LEMMA ExecuteHolds ==
  ASSUME IInv, NEW k \in Turn, Execute(k)
  PROVE  IInv' /\ Permitted
  BY TicketMoves, TicketHolds DEF Execute, Plane!Start

LEMMA SendCommandHolds ==
  ASSUME IInv, NEW k \in Turn, SendCommand(k)
  PROVE  IInv' /\ Permitted
  <1>1. phase' = phase /\ phase[k] = "executing" /\ commands' \in [Turn -> {0, 1}]
    BY DEF IInv, TypeOK, SendCommand, Plane!Send
  <1>2. phase' \in [Turn -> Plane!Phase]
    BY <1>1 DEF IInv, TypeOK
  <1> QED  BY <1>1, <1>2, TicketHolds DEF SendCommand

LEMMA StoreBreaksHolds ==
  ASSUME IInv, StoreBreaks
  PROVE  IInv' /\ Permitted
  <1> USE MediaAssumption DEF StoreBreaks, plane
  <1>1. TypeOK'
    <2>1. faults' \in [crash : 0..MaxCrash, down : 0..MaxDown]
      BY DEF IInv, TypeOK
    <2>2. service' \in [closed : BOOLEAN, unavailable : BOOLEAN, down : BOOLEAN]
      BY DEF IInv, TypeOK
    <2> QED  BY <2>1, <2>2 DEF IInv, TypeOK
  <1>3. service'.unavailable = service.unavailable
    BY DEF IInv, TypeOK
  <1>4. NoOrphanTurn' /\ Permitted
    BY <1>3 DEF IInv, NoOrphanTurn, Active, Permitted
  <1>2. ASSUME NEW j \in Turn PROVE Sound(j)'
    BY Untouched DEF IInv, Active
  <1> QED  BY <1>1, <1>2, <1>4 DEF IInv

LEMMA RestartHolds ==
  ASSUME IInv, Restart
  PROVE  IInv' /\ Permitted
  <1> USE MediaAssumption DEF Restart, Plane!Interrupt, Idle
  <1>1. TypeOK'
    <2>1. phase' \in [Turn -> Plane!Phase] /\ commands' \in [Turn -> {0, 1}]
      BY DEF IInv, TypeOK
    <2>2. call' \in [Turn -> Scope]
      BY DEF Unused, Scope
    <2>3. service' \in [closed : BOOLEAN, unavailable : BOOLEAN, down : BOOLEAN]
      OBVIOUS
    <2>4. faults' \in [crash : 0..MaxCrash, down : 0..MaxDown]
      BY DEF IInv, TypeOK
    <2> QED  BY <2>1, <2>2, <2>3, <2>4 DEF TypeOK, Scope
  <1>2. \A j \in Turn : call'[j] = Unused /\ run' = Idle
                        /\ ((phase'[j] = "none") <=> (phase[j] = "none")) /\ phase'[j] # "executing"
    BY DEF IInv, TypeOK
  <1>3. \A j \in Turn : \/ turn'[j] = turn[j] /\ (turn[j] = "running" => service'.unavailable)
                        \/ turn[j] = "running" /\ turn'[j] = Recovered(j)
    OBVIOUS
  <1>4. \A j \in Turn : Recovered(j) \in {"ticket", "failed"} /\ (Recovered(j) = "failed" => ~Ticketed(j))
    BY DEF Recovered, Bound
  <1>5. NoOrphanTurn'
    BY <1>3, <1>4 DEF NoOrphanTurn
  <1>6. ASSUME NEW j \in Turn PROVE Sound(j)'
    <2>1. turn[j] # "none" => turn'[j] # "none"
      BY <1>3, <1>4
    <2>2. Sound(j)
      BY DEF IInv
    <2> HIDE DEF Restart
    <2> QED
      BY <1>2, <2>1, <2>2
      DEF Sound, Passed, Quiet, OpenIsInHand, TicketIsLate, CallIsOfATurn, Unused,
          AskingHasTicket, ClarifiedIsOver, SettledIsQuiet, EndedIsQuiet, Ticketed, Asking, Active
  <1>7. Permitted
    <2> HIDE DEF Restart
    <2> QED  BY <1>2, <1>3, <1>4 DEF Permitted, Unused, Ticketed
  <1> QED  BY <1>1, <1>5, <1>6, <1>7 DEF IInv

-----------------------------------------------------------------------------

LEMMA InitHolds == Init => IInv
  <1> SUFFICES ASSUME Init PROVE IInv
    OBVIOUS
  <1> USE MediaAssumption DEF Init, Plane!Init
  <1>1. TypeOK
    BY DEF TypeOK, Unused, Idle
  <1>2. NoOrphanTurn
    BY DEF NoOrphanTurn
  <1>3. ASSUME NEW k \in Turn PROVE Sound(k)
    BY DEF Unused, Idle, Sound, Passed, Quiet, OpenIsInHand, TicketIsLate, CallIsOfATurn,
       AskingHasTicket, ClarifiedIsOver, SettledIsQuiet, EndedIsQuiet, Ticketed, Asking, Active
  <1> QED  BY <1>1, <1>2, <1>3 DEF IInv

LEMMA NextHolds ==
  ASSUME IInv, Next
  PROVE  IInv' /\ Permitted
  <1>1. ASSUME NEW k \in Turn, Start(k) \/ StartStumbles(k) \/ Cancel(k) \/ Timeout(k)
                               \/ Settle(k)
        PROVE  IInv' /\ Permitted
    BY <1>1, StartHolds, StartStumblesHolds, CancelHolds, TimeoutHolds, SettleHolds
  <1>2. ASSUME NEW k \in Turn, AgentSettles(k) \/ AgentDeadline(k) \/ RequestAction(k)
                               \/ SearchAnswers(k) \/ PrepareAnswers(k)
        PROVE  IInv' /\ Permitted
    BY <1>2, AgentSettlesHolds, AgentDeadlineHolds, RequestActionHolds, SearchAnswersHolds,
       PrepareAnswersHolds
  <1>3. ASSUME NEW k \in Turn, TicketCreated(k) \/ PlaneRefuses(k) \/ Held(k) \/ Execute(k)
                               \/ SendCommand(k) \/ Concluded(k) \/ Decided(k)
        PROVE  IInv' /\ Permitted
    BY <1>3, TicketCreatedHolds, PlaneRefusesHolds, HeldHolds, ExecuteHolds, SendCommandHolds,
       ConcludedHolds, DecidedHolds
  <1>4. CASE StoreIsFoundBroken \/ Close \/ StoreBreaks \/ Restart
    BY <1>4, StoreIsFoundBrokenHolds, CloseHolds, StoreBreaksHolds, RestartHolds
  <1> QED  BY <1>1, <1>2, <1>3, <1>4 DEF Next

LEMMA StutterHolds ==
  ASSUME IInv, UNCHANGED vars
  PROVE  IInv'
  <1>1. TypeOK' /\ NoOrphanTurn'
    BY DEF IInv, TypeOK, NoOrphanTurn, Active, vars
  <1>2. ASSUME NEW k \in Turn PROVE Sound(k)'
    BY Untouched DEF IInv, Active, vars
  <1> QED  BY <1>1, <1>2 DEF IInv

(* The inductive invariant of the media turns: types, no orphan, and every     *)
(* turn's row, scope and ticket in agreement.                                   *)
THEOREM Invariance == Spec => []IInv
  <1>1. IInv /\ [Next]_vars => IInv'
    BY NextHolds, StutterHolds
  <1> QED  BY InitHolds, <1>1, PTL DEF Spec

(* A running row is in the service's hands, or the service has closed itself.  *)
THEOREM NobodyIsForgotten == Spec => []NoOrphanTurn
  <1>1. IInv => NoOrphanTurn
    BY DEF IInv
  <1> QED  BY <1>1, Invariance, PTL

(* Once a turn has ended its tool call cannot reach the plane                  *)
(* (requestMediaAction looks at the scope again after prepareIntent).          *)
THEOREM RevocationIsFinal == Spec => RevokedCannotRequest
  <1>1. IInv /\ [Next]_vars =>
          [\A k \in Turn : call[k].flow # "plane" /\ call'[k].flow = "plane" => turn'[k] = "running"]_vars
    BY NextHolds DEF Permitted
  <1> QED  BY <1>1, Invariance, PTL DEF Spec, RevokedCannotRequest

(* A turn that has a ticket is ended with it (bindTicketForRequest).           *)
THEOREM TicketAlwaysWins == Spec => TicketWins
  <1>1. IInv /\ [Next]_vars =>
          [\A k \in Turn : turn[k] = "running" /\ turn'[k] \in Unticketed => phase'[k] = "none"]_vars
    BY NextHolds DEF Permitted
  <1> QED  BY <1>1, Invariance, PTL DEF Spec, TicketWins

(* A ticket that comes too late for its turn does not act on its own           *)
(* (executeTicket reads nothing under a signal that is cut).                   *)
THEOREM LateTicketsWait == Spec => EndedNeverActs
  <1>1. IInv /\ [Next]_vars =>
          [\A k \in Turn : phase[k] = "approved" /\ phase'[k] = "executing" /\ turn[k] \in Unticketed
                              => ~Asking(k)]_vars
    BY NextHolds DEF Permitted
  <1> QED  BY <1>1, Invariance, PTL DEF Spec, EndedNeverActs

=============================================================================
