---------------------- MODULE AutomationLifecycleProofs ----------------------
(* Theorems about AutomationLifecycle, for any number of concurrent calls and *)
(* any bounds.                                                                *)
EXTENDS AutomationLifecycle, TLAPS

CardTyped == card \in [lifecycle : Lifecycle, restored : BOOLEAN]
CallTyped == call \in [Call -> Local]

(* What a step may make of the card: the transition relation of the lifecycle *)
(* as the rest of the Hub relies on it (ClosedIsFinal without its box).       *)
Forward ==
  /\ card.lifecycle = "closed" => card' = card
  /\ card.lifecycle # "ready" => card'.lifecycle # "ready"

(* Every way to write or leave the card, once for all actions. *)
LEMMA RestTyped == Rest \in Local
  BY DEF Rest, Local

LEMMA EndTyped ==
  ASSUME TypeOK, NEW c \in Call, End(c)
  PROVE  CardTyped' /\ CallTyped' /\ Forward
  BY RestTyped DEF TypeOK, CardTyped, CallTyped, End, Forward

LEMMA GotoTyped ==
  ASSUME TypeOK, NEW c \in Call,
         NEW l \in {"write", "confirm"}, Goto(c, l)
  PROVE  CardTyped' /\ CallTyped' /\ Forward
  <1>1. [call[c] EXCEPT !.at = l] \in Local
    BY DEF TypeOK, Local
  <1> QED  BY <1>1 DEF TypeOK, CardTyped, CallTyped, Goto, Forward

LEMMA PutTyped ==
  ASSUME TypeOK, NEW c \in Call, NEW lifecycle \in Lifecycle, NEW restored \in BOOLEAN,
         NEW l \in Local, Put(c, lifecycle, restored, l)
  PROVE  /\ CardTyped' /\ CallTyped'
         /\ card' = [lifecycle |-> lifecycle, restored |-> restored]
  <1>1. \A d \in Call : [call[d] EXCEPT !.fresh = FALSE] \in Local
    BY DEF TypeOK, Local
  <1> QED  BY <1>1 DEF TypeOK, CardTyped, CallTyped, Put

(* A deployment is recorded on an enabling card only. *)
LEMMA RecordForward ==
  ASSUME TypeOK, NEW c \in Call, NEW verified \in BOOLEAN, Record(c, verified)
  PROVE  CardTyped' /\ CallTyped' /\ Forward
  <1> DEFINE lifecycle == IF verified THEN "active" ELSE "enable_failed"
  <1>1. CASE End(c)
    BY <1>1, EndTyped
  <1>2. CASE MayRecord(c) /\ Put(c, lifecycle, card.restored, Rest)
    <2>1. lifecycle \in Lifecycle /\ lifecycle # "ready" /\ card.restored \in BOOLEAN
      BY DEF TypeOK, Lifecycle
    <2>2. /\ CardTyped' /\ CallTyped'
          /\ card' = [lifecycle |-> lifecycle, restored |-> card.restored]
      BY <1>2, <2>1, PutTyped, RestTyped
    <2> QED  BY <1>2, <2>1, <2>2 DEF MayRecord, Forward
  <1> QED  BY <1>1, <1>2 DEF Record, PutIf

(* Only a deployed card is closed. *)
LEMMA CloseForward ==
  ASSUME TypeOK, NEW c \in Call, NEW restored \in BOOLEAN, CloseCard(c, restored)
  PROVE  CardTyped' /\ CallTyped' /\ Forward
  <1>1. CASE End(c)
    BY <1>1, EndTyped
  <1>2. CASE /\ card.lifecycle \in {"active", "paused", "enable_failed"}
             /\ Put(c, "closed", restored, Rest)
    <2>1. "closed" \in Lifecycle
      BY DEF Lifecycle
    <2>2. CardTyped' /\ CallTyped' /\ card' = [lifecycle |-> "closed", restored |-> restored]
      BY <1>2, <2>1, PutTyped, RestTyped
    <2> QED  BY <1>2, <2>2 DEF Forward
  <1> QED  BY <1>1, <1>2 DEF CloseCard, PutIf

(* A toggle, its compensation or a pass moves between active and paused. *)
LEMMA ToggleForward ==
  ASSUME TypeOK, NEW c \in Call, NEW from \in {"active", "paused"}, NEW to \in {"active", "paused"},
         PutIf(card.lifecycle = from, c, to, card.restored)
  PROVE  CardTyped' /\ CallTyped' /\ Forward
  <1>1. CASE End(c)
    BY <1>1, EndTyped
  <1>2. CASE card.lifecycle = from /\ Put(c, to, card.restored, Rest)
    <2>1. to \in Lifecycle /\ to # "ready" /\ card.restored \in BOOLEAN
      BY DEF TypeOK, Lifecycle
    <2>2. CardTyped' /\ CallTyped' /\ card' = [lifecycle |-> to, restored |-> card.restored]
      BY <1>2, <2>1, PutTyped, RestTyped
    <2> QED  BY <1>2, <2>1, <2>2 DEF Forward
  <1> QED  BY <1>1, <1>2 DEF PutIf

LEMMA CompensateForward ==
  ASSUME TypeOK, NEW c \in Call, Compensate(c)
  PROVE  CardTyped' /\ CallTyped' /\ Forward
  <1>1. Wanted(c) \in {"active", "paused"}
    BY DEF Wanted
  <1>2. (IF Wanted(c) = "paused" THEN "active" ELSE "paused") \in {"active", "paused"}
    OBVIOUS
  <1> QED  BY <1>1, <1>2, ToggleForward DEF Compensate

(* A household call starts on a card that is not closed. *)
LEMMA AskForward ==
  ASSUME TypeOK, NEW c \in Call, NEW k \in {"enable", "retry", "pause", "resume"},
         NEW lifecycle \in {"enabling", "paused", "active"},
         card.lifecycle # "closed", Ask(c, k, lifecycle)
  PROVE  TypeOK' /\ Forward
  <1> DEFINE l == [Rest EXCEPT !.kind = k, !.at = "probe", !.fresh = TRUE]
  <1>1. l \in Local
    BY DEF Rest, Local, Kind
  <1>2. lifecycle \in Lifecycle /\ card.restored \in BOOLEAN
    BY DEF TypeOK, Lifecycle
  <1>3. Put(c, lifecycle, card.restored, l)
    BY DEF Ask
  <1>4. CardTyped' /\ CallTyped' /\ card' = [lifecycle |-> lifecycle, restored |-> card.restored]
    BY <1>1, <1>2, <1>3, PutTyped
  <1>5. (native \in Native)' /\ (spent \in [ask : 0..MaxAsk, meddle : 0..MaxMeddle, crash : 0..MaxCrash])'
    BY LifecycleAssumption DEF Ask, TypeOK
  <1> QED  BY <1>4, <1>5 DEF TypeOK, CardTyped, CallTyped, Forward

-----------------------------------------------------------------------------

(* The steps that answer a call leave the rest alone; what they do to Home    *)
(* Assistant stays within its states.                                         *)
LEMMA DeployForward ==
  ASSUME TypeOK, NEW c \in Call, DeployProbe(c) \/ DeployWrite(c) \/ DeployConfirm(c)
  PROVE  TypeOK' /\ Forward
  <1>1. (native \in Native)' /\ (spent \in [ask : 0..MaxAsk, meddle : 0..MaxMeddle, crash : 0..MaxCrash])'
    BY DEF DeployProbe, DeployWrite, DeployConfirm, Created, Native, TypeOK
  <1>2. CASE \E l \in {"write", "confirm"} : Goto(c, l)
    BY <1>1, <1>2, GotoTyped DEF TypeOK, CardTyped, CallTyped
  <1>3. CASE \E verified \in BOOLEAN : Record(c, verified)
    BY <1>1, <1>3, RecordForward DEF TypeOK, CardTyped, CallTyped
  <1> QED  BY <1>2, <1>3 DEF DeployProbe, DeployWrite, DeployConfirm

LEMMA ToggleStepForward ==
  ASSUME TypeOK, NEW c \in Call, ToggleProbe(c) \/ ToggleWrite(c) \/ ToggleConfirm(c)
  PROVE  TypeOK' /\ Forward
  <1>1. (native \in Native)' /\ (spent \in [ask : 0..MaxAsk, meddle : 0..MaxMeddle, crash : 0..MaxCrash])'
    BY DEF ToggleProbe, ToggleWrite, ToggleConfirm, Toggled, AskedFor, Native, TypeOK
  <1>2. CASE End(c)
    BY <1>1, <1>2, EndTyped DEF TypeOK, CardTyped, CallTyped
  <1>3. CASE \E l \in {"write", "confirm"} : Goto(c, l)
    BY <1>1, <1>3, GotoTyped DEF TypeOK, CardTyped, CallTyped
  <1>4. CASE Compensate(c)
    BY <1>1, <1>4, CompensateForward DEF TypeOK, CardTyped, CallTyped
  <1> QED  BY <1>2, <1>3, <1>4 DEF ToggleProbe, ToggleWrite, ToggleConfirm

LEMMA WithdrawForward ==
  ASSUME TypeOK, NEW c \in Call, WithdrawProbe(c) \/ WithdrawWrite(c) \/ WithdrawConfirm(c)
  PROVE  TypeOK' /\ Forward
  <1>1. (native \in Native)' /\ (spent \in [ask : 0..MaxAsk, meddle : 0..MaxMeddle, crash : 0..MaxCrash])'
    BY DEF WithdrawProbe, WithdrawWrite, WithdrawConfirm, Native, TypeOK
  <1>2. CASE End(c)
    BY <1>1, <1>2, EndTyped DEF TypeOK, CardTyped, CallTyped
  <1>3. CASE \E l \in {"write", "confirm"} : Goto(c, l)
    BY <1>1, <1>3, GotoTyped DEF TypeOK, CardTyped, CallTyped
  <1>4. CASE \E restored \in BOOLEAN : CloseCard(c, restored)
    BY <1>1, <1>4, CloseForward DEF TypeOK, CardTyped, CallTyped
  <1> QED  BY <1>2, <1>3, <1>4 DEF WithdrawProbe, WithdrawWrite, WithdrawConfirm

(* A pass acts on a reading that may be out of date by now. *)
LEMMA PassForward ==
  ASSUME TypeOK, NEW c \in Call,
         PassStart(c) \/ PassRead(c) \/ PassUnanswered(c) \/ PassApply(c)
  PROVE  TypeOK' /\ Forward
  <1>1. (native \in Native)' /\ (spent \in [ask : 0..MaxAsk, meddle : 0..MaxMeddle, crash : 0..MaxCrash])'
    BY DEF PassStart, PassRead, PassUnanswered, PassApply, TypeOK
  <1>2. CASE PassStart(c)
    <2>1. [Rest EXCEPT !.kind = "pass", !.at = "read", !.fresh = TRUE, !.seen = card.lifecycle] \in Local
      BY DEF Rest, Local, Kind, TypeOK
    <2> QED  BY <1>1, <1>2, <2>1 DEF PassStart, TypeOK, Forward
  <1>3. CASE PassRead(c)
    <2>1. [call[c] EXCEPT !.at = "apply", !.observed = native] \in Local
      BY DEF Local, TypeOK
    <2> QED  BY <1>1, <1>3, <2>1 DEF PassRead, TypeOK, Forward
  <1>4. CASE End(c)
    BY <1>1, <1>4, EndTyped DEF TypeOK, CardTyped, CallTyped
  <1>5. CASE Record(c, call[c].observed = "running")
    <2>1. (call[c].observed = "running") \in BOOLEAN
      OBVIOUS
    <2> QED  BY <1>1, <1>5, <2>1, RecordForward DEF TypeOK, CardTyped, CallTyped
  <1>6. CASE \E from, to \in {"active", "paused"} :
               PutIf(card.lifecycle = from, c, to, card.restored)
    BY <1>1, <1>6, ToggleForward DEF TypeOK, CardTyped, CallTyped
  <1>7. CASE CloseCard(c, FALSE)
    BY <1>1, <1>7, CloseForward DEF TypeOK, CardTyped, CallTyped
  <1>8. ASSUME PassApply(c)
        PROVE  \/ End(c) \/ Record(c, call[c].observed = "running") \/ CloseCard(c, FALSE)
               \/ \E from, to \in {"active", "paused"} :
                     PutIf(card.lifecycle = from, c, to, card.restored)
    <2>1. ASSUME <<call[c].seen, call[c].observed>> \in Reflected
          PROVE  call[c].seen \in {"active", "paused"}
      BY <2>1 DEF Reflected
    <2> QED  BY <1>8, <2>1 DEF PassApply
  <1> QED  BY <1>2, <1>3, <1>4, <1>5, <1>6, <1>7, <1>8 DEF PassUnanswered

LEMMA CallForward ==
  ASSUME TypeOK, NEW c \in Call,
         Enable(c) \/ Retry(c) \/ Pause(c) \/ Resume(c) \/ Close(c)
  PROVE  TypeOK' /\ Forward
  <1>1. CASE Enable(c) \/ Retry(c) \/ Pause(c) \/ Resume(c)
    BY <1>1, AskForward DEF Enable, Retry, Pause, Resume
  <1>2. CASE Close(c)
    <2>1. [Rest EXCEPT !.kind = "close", !.at = "probe"] \in Local
      BY DEF Rest, Local, Kind
    <2> QED  BY <1>2, <2>1, LifecycleAssumption DEF Close, TypeOK, Forward
  <1> QED  BY <1>1, <1>2

LEMMA EnvironmentForward ==
  ASSUME TypeOK, (\E state \in Native : Meddle(state)) \/ Restart
  PROVE  TypeOK' /\ Forward
  BY RestTyped, LifecycleAssumption DEF TypeOK, Forward, Meddle, Restart

LEMMA StepForward ==
  ASSUME TypeOK, [Next]_vars
  PROVE  TypeOK' /\ (Forward \/ UNCHANGED vars)
  <1>1. CASE UNCHANGED vars
    BY <1>1 DEF vars, TypeOK
  <1>2. ASSUME NEW c \in Call, Enable(c) \/ Retry(c) \/ Pause(c) \/ Resume(c) \/ Close(c)
        PROVE  TypeOK' /\ Forward
    BY <1>2, CallForward
  <1>3. ASSUME NEW c \in Call, PassStart(c) \/ Continue(c)
        PROVE  TypeOK' /\ Forward
    BY <1>3, DeployForward, ToggleStepForward, WithdrawForward, PassForward DEF Continue
  <1>4. CASE (\E state \in Native : Meddle(state)) \/ Restart
    BY <1>4, EnvironmentForward
  <1> QED  BY <1>1, <1>2, <1>3, <1>4 DEF Next

(* The variables keep their types: in particular Home Assistant and the card  *)
(* never take a state the other side has no word for, and no bound is passed. *)
THEOREM TypeCorrect == Spec => []TypeOK
  <1>1. Init => TypeOK
    BY RestTyped, LifecycleAssumption DEF Init, TypeOK, Lifecycle, Native
  <1>2. TypeOK /\ [Next]_vars => TypeOK'
    BY StepForward
  <1> QED  BY <1>1, <1>2, PTL DEF Spec

(* However many deployments, toggles, closings and passes overlap, whatever   *)
(* Home Assistant answers and wherever the process restarts, a closed card is *)
(* never written again and a decided one never returns to review (the         *)
(* transitions of SqliteProposalStore).                                       *)
THEOREM ClosedForEver == Spec => ClosedIsFinal
  <1>1. TypeOK /\ [Next]_vars =>
          [/\ card.lifecycle = "closed" => card' = card
           /\ card.lifecycle # "ready" => card'.lifecycle # "ready"]_vars
    BY StepForward DEF Forward
  <1> QED  BY <1>1, TypeCorrect, PTL DEF Spec, ClosedIsFinal

=============================================================================
