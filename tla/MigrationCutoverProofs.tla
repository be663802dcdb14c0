------------------------ MODULE MigrationCutoverProofs ------------------------
(* Theorems about MigrationCutover, for any number of concurrent calls, sweeps *)
(* and passes, any changes in Home Assistant, any number of commands carried    *)
(* out late and any number of restarts.                                         *)
EXTENDS MigrationCutover, TLAPS

Writing == {"stop", "place", "confirm", "settle"}

(* What the proposal's row may rely on of the workflow's.                       *)
WorkflowSound == workflow.status = "verified" => workflow.deployed
CardSound ==
  /\ card.lifecycle = "closed" => workflow.status = "restored"
  /\ card.lifecycle = "active" => workflow.deployed

(* What a call may rely on of the row w: a good answer is backed by the row.    *)
Fits(l, w) ==
  /\ l.at = "answer" /\ l.ok /\ l.kind \in {"close", "recover"} => w.status = "restored"
  /\ l.at = "answer" /\ l.ok /\ l.kind \in {"enable", "retry"} => w.deployed
  /\ l.at \in Writing => l.path \in {"switch", "resume"}
  /\ l.path \in {"switch", "resume", "check"} => l.kind \in {"enable", "retry"}
  /\ l.path \in {"rollback", "restored"} => l.kind \in {"close", "recover"}
  /\ l.path = "check" => w.deployed
  /\ l.path = "restored" => w.status = "restored"
  /\ l.path # None => l.saw \in Workflow

IInv == TypeOK /\ WorkflowSound /\ CardSound /\ \A c \in Call : Fits(call[c], workflow)

(* The row moves on: what was restored stays restored, what was deployed stays  *)
(* deployed.                                                                    *)
Onward(w) ==
  /\ w \in Workflow
  /\ workflow.status = "restored" => w.status = "restored"
  /\ workflow.deployed => w.deployed
  /\ w.status = "verified" => w.deployed

LEMMA StillFits ==
  ASSUME NEW l \in Local, NEW w, Onward(w), Fits(l, workflow)
  PROVE  Fits(l, w)
  BY DEF Onward, Fits

LEMMA StaysOnward ==
  ASSUME TypeOK, WorkflowSound
  PROVE  Onward(workflow)
  BY DEF TypeOK, WorkflowSound, Onward

LEMMA FailedOnward ==
  ASSUME TypeOK, WorkflowSound, NEW from \in Status \ {"restored"}, NEW reason \in Reason \cup {None}, NEW op \in Nat
  PROVE  Onward(Failed(from, reason, op))
  <1> DEFINE w == [workflow EXCEPT !.status = "needs_attention", !.reason = reason]
  <1>1. workflow.status = from => Onward(w)
    BY DEF TypeOK, Workflow, Status, Onward
  <1> QED  BY <1>1, StaysOnward DEF Failed

LEMMA OperatingOnward ==
  ASSUME NEW w \in Workflow, Onward(w), w.status # "restored", workflow.status # "restored",
         NEW status \in {"switching", "rolling_back"}, NEW op \in Nat
  PROVE  Onward(Operating(w, status, op))
  BY DEF Onward, Operating, Workflow, Status

LEMMA RestoredOnward ==
  ASSUME TypeOK, WorkflowSound, NEW reason \in Reason
  PROVE  /\ Onward(FailedRestored(workflow, reason))
         /\ FailedRestored(workflow, reason) # workflow
              => FailedRestored(workflow, reason).status = "restored"
  <1> DEFINE w == [workflow EXCEPT !.status = "restored"]
  <1>1. Onward(w) /\ w.status = "restored"
    BY DEF TypeOK, Workflow, Status, Onward
  <1>2. CASE FailedRestored(workflow, reason) = w
    BY <1>1, <1>2
  <1>3. CASE FailedRestored(workflow, reason) = workflow
    BY <1>3, StaysOnward
  <1> QED  BY <1>2, <1>3 DEF FailedRestored

-----------------------------------------------------------------------------
(* Ways a call goes on                                                         *)

(* What a step may make of the home.                                            *)
HomeTyped ==
  /\ source' \in Source /\ target' \in Target
  /\ late' \in SUBSET Command /\ overtaken' \in SUBSET Call

LEMMA HomeStays ==
  ASSUME TypeOK, Still
  PROVE  HomeTyped
  BY DEF TypeOK, Still, home, Watched, HomeTyped

LEMMA HomeChanges ==
  ASSUME TypeOK, NEW command \in Command, Done(command) \/ Unanswered(command)
  PROVE  HomeTyped
  <1>1. ASSUME CarriedOut(command) PROVE source' \in Source /\ target' \in Target /\ overtaken' \in SUBSET Call
    BY <1>1 DEF CarriedOut, Set, Placed, Watched, TypeOK, Source, Target
  <1> QED  BY <1>1 DEF Done, Unanswered, Watched, HomeTyped, TypeOK

LEMMA CallTyped == ASSUME TypeOK, NEW c \in Call PROVE call[c] \in Local
  BY DEF TypeOK

LEMMA GoHolds ==
  ASSUME IInv, NEW c \in Call, NEW w, NEW l \in Local, Go(c, w, l),
         HomeTyped,
         Onward(w), Fits(l, w)
  PROVE  IInv'
  <1>1. TypeOK'
    BY DEF IInv, TypeOK, Go, Onward, HomeTyped
  <1>2. WorkflowSound' /\ CardSound'
    BY DEF IInv, WorkflowSound, CardSound, Go, Onward
  <1>3. ASSUME NEW d \in Call PROVE Fits(call'[d], workflow')
    <2>1. CASE d = c
      BY <2>1 DEF Go, IInv, TypeOK
    <2>2. CASE d # c
      <3>1. call'[d] = call[d] /\ workflow' = w
        BY <2>2 DEF Go, IInv, TypeOK
      <3> QED  BY <3>1, StillFits, CallTyped DEF IInv
    <2> QED  BY <2>1, <2>2
  <1> QED  BY <1>1, <1>2, <1>3 DEF IInv

LEMMA RestFits == Rest \in Local /\ \A w : Fits(Rest, w)
  BY CutoverAssumption DEF Rest, Local, Fits, Kind, Path, Pc, Writing

LEMMA GotoHolds ==
  ASSUME IInv, NEW c \in Call, NEW l \in Pc \ {"answer"}, Goto(c, l),
         HomeTyped,
         l \in Writing => call[c].path \in {"switch", "resume"}
  PROVE  IInv'
  <1> DEFINE m == [call[c] EXCEPT !.at = l]
  <1>1. call[c] \in Local
    BY CallTyped DEF IInv
  <1>2. m \in Local /\ m.at = l /\ m.path = call[c].path /\ m.kind = call[c].kind
        /\ m.ok = call[c].ok /\ m.saw = call[c].saw
    BY <1>1 DEF Local
  <1>3. Fits(call[c], workflow)
    BY DEF IInv
  <1> HIDE DEF m
  <1>4. Fits(m, workflow)
    BY <1>2, <1>3 DEF Fits
  <1>5. Go(c, workflow, m)
    BY DEF Goto, m
  <1> QED  BY <1>2, <1>4, <1>5, GoHolds, StaysOnward DEF IInv

LEMMA AnsweredFits ==
  ASSUME TypeOK, NEW c \in Call, NEW ok \in BOOLEAN, NEW w,
         ok /\ call[c].kind \in {"close", "recover"} => w.status = "restored",
         ok /\ call[c].kind \in {"enable", "retry"} => w.deployed
  PROVE  Answered(c, ok) \in Local /\ Fits(Answered(c, ok), w)
  <1>1. call[c] \in Local
    BY CallTyped
  <1>2. /\ Answered(c, ok) \in Local /\ Answered(c, ok).at = "answer"
        /\ Answered(c, ok).path = None /\ Answered(c, ok).ok = ok
        /\ Answered(c, ok).kind = call[c].kind
    BY <1>1 DEF Answered, Rest, Local, Pc
  <1> QED  BY <1>2, CutoverAssumption DEF Fits, Path, Writing

LEMMA ReturnHolds ==
  ASSUME IInv, NEW c \in Call, NEW w, NEW ok \in BOOLEAN, Return(c, w, ok),
         HomeTyped, Onward(w),
         ok /\ call[c].kind \in {"close", "recover"} => w.status = "restored",
         ok /\ call[c].kind \in {"enable", "retry"} => w.deployed
  PROVE  IInv'
  BY AnsweredFits, GoHolds DEF Return, IInv

(* A call gives up: the row records a failure, or nothing.                      *)
LEMMA FailHolds ==
  ASSUME IInv, NEW c \in Call, NEW reason \in Reason \cup {None}, Fail(c, reason),
         HomeTyped
  PROVE  IInv'
  <1> DEFINE from == IF call[c].path = "rollback" THEN "rolling_back" ELSE "switching"
  <1>1. from \in Status \ {"restored"} /\ call[c].op \in Nat
    BY CallTyped DEF Status, IInv, Local
  <1>2. Onward(Failed(from, reason, call[c].op))
    BY <1>1, FailedOnward DEF IInv
  <1> QED  BY <1>2, ReturnHolds DEF Fail

LEMMA UnknownHolds ==
  ASSUME IInv, NEW c \in Call, Unknown(c), HomeTyped
  PROVE  IInv'
  BY FailHolds DEF Unknown, Reason

LEMMA UndoHolds ==
  ASSUME IInv, NEW c \in Call, NEW why \in Reason \cup {None}, Undo(c, why), HomeTyped
  PROVE  IInv'
  <1> DEFINE m == [call[c] EXCEPT !.at = "undo", !.why = why]
  <1>1. call[c] \in Local /\ Fits(call[c], workflow)
    BY CallTyped DEF IInv
  <1>2. m \in Local /\ m.at = "undo" /\ m.path = call[c].path /\ m.kind = call[c].kind
        /\ m.saw = call[c].saw
    BY <1>1 DEF Local, Pc
  <1> HIDE DEF m
  <1>3. Fits(m, workflow)
    BY <1>1, <1>2 DEF Fits, Writing
  <1>4. Go(c, workflow, m)
    BY DEF Undo, m
  <1> QED  BY <1>2, <1>3, <1>4, GoHolds, StaysOnward DEF IInv

LEMMA RefuseHolds ==
  ASSUME IInv, NEW c \in Call, NEW cause \in {"unknown", "stale", "foreign", "blocked"},
         Refuse(c, cause), HomeTyped
  PROVE  IInv'
  <1>1. CASE Refusal(c, cause) = workflow
    BY <1>1, StaysOnward, ReturnHolds DEF Refuse, IInv
  <1>2. CASE call[c].path \in {"switch", "resume", "rollback"}
    <2>1. call[c].saw.op \in Nat
      BY <1>2, CutoverAssumption DEF IInv, Fits, Path, Workflow
    <2>2. Onward(Refusal(c, cause))
      BY <2>1, FailedOnward, StaysOnward DEF IInv, Refusal, Status, Reason
    <2> QED  BY <2>2, ReturnHolds DEF Refuse
  <1> QED  BY <1>1, <1>2 DEF Refusal

-----------------------------------------------------------------------------
(* Calls begin                                                                 *)

LEMMA DeployPathFits ==
  ASSUME TypeOK, WorkflowSound, NEW first \in BOOLEAN
  PROVE  /\ DeployPath(first) \in {"switch", "check", "reconcile", "resume", None}
         /\ DeployPath(first) = "check" => workflow.deployed
  BY CutoverAssumption DEF DeployPath, WorkflowSound, Path

LEMMA ReturnPathFits ==
  ASSUME TypeOK, NEW kind \in {"close", "recover"}
  PROVE  /\ ReturnPath(kind) \in {"restored", "reconcile", "rollback", None}
         /\ ReturnPath(kind) = "restored" => workflow.status = "restored"
  BY CutoverAssumption DEF ReturnPath, Path

LEMMA BeginHolds ==
  ASSUME IInv, NEW c \in Call, NEW kind \in Kind, NEW path \in Path \cup {None},
         NEW lifecycle \in {"enabling", card.lifecycle}, NEW first \in BOOLEAN,
         Begin(c, kind, path, lifecycle, first),
         spent' \in [ask : 0..MaxAsk, meddle : 0..MaxMeddle, crash : 0..MaxCrash],
         path \in {"switch", "resume", "check"} => kind \in {"enable", "retry"},
         path \in {"rollback", "restored"} => kind \in {"close", "recover"},
         path = "check" => workflow.deployed,
         path = "restored" => workflow.status = "restored"
  PROVE  IInv'
  <1>0. HomeTyped
    BY HomeStays DEF Begin, IInv
  <1>1. /\ workflow' = workflow
        /\ card' = [lifecycle |-> lifecycle, first |-> first] /\ card' \in [lifecycle : Lifecycle, first : BOOLEAN]
    BY DEF Begin, IInv, TypeOK, Lifecycle
  <1>2. WorkflowSound' /\ CardSound'
    BY <1>1 DEF IInv, WorkflowSound, CardSound
  <1>3. /\ call'[c] \in Local /\ call'[c].at \in Pc \ Writing /\ ~call'[c].ok /\ call'[c].kind = kind
        /\ call'[c].path = path /\ call'[c].saw = workflow
    <2> DEFINE at == CASE path = None -> "answer"
                       [] path \in {"switch", "resume"} -> "preflight"
                       [] path = "reconcile" /\ kind \in {"enable", "retry"} -> "preflight"
                       [] OTHER -> "source"
    <2>1. at \in Pc \ Writing
      BY DEF Pc, Writing
    <2>2. call'[c] = [Rest EXCEPT !.kind = kind, !.path = path, !.saw = workflow, !.fresh = TRUE, !.at = at]
      BY DEF Begin
    <2> HIDE DEF at
    <2>3. Rest \in Local /\ ~Rest.ok /\ workflow \in Workflow
      BY RestFits DEF Rest, IInv, TypeOK
    <2> QED  BY <2>1, <2>2, <2>3 DEF Local
  <1>4. \A d \in Call \ {c} : \E f \in BOOLEAN : call'[d] = [call[d] EXCEPT !.fresh = f]
    <2>1. \A d \in Call : call[d].fresh \in BOOLEAN
      BY DEF IInv, TypeOK, Local
    <2>2. \A d \in Call \ {c} : call'[d] = [call[d] EXCEPT !.fresh = call[d].fresh /\ card' = card /\ kind # "recover"]
      BY DEF Begin
    <2> QED  BY <2>1, <2>2
  <1>5. ASSUME NEW d \in Call PROVE call'[d] \in Local /\ Fits(call'[d], workflow)
    <2>1. CASE d = c
      BY <1>3, <2>1 DEF Fits, IInv, TypeOK
    <2>2. CASE d # c
      <3>1. PICK f \in BOOLEAN : call'[d] = [call[d] EXCEPT !.fresh = f]
        BY <1>4, <2>2
      <3>2. call[d] \in Local /\ Fits(call[d], workflow)
        BY DEF IInv, TypeOK
      <3> QED  BY <3>1, <3>2 DEF Fits, Local
    <2> QED  BY <2>1, <2>2
  <1>6. call' \in [Call -> Local]
    <2>1. call' = [d \in Call |-> call'[d]]
      BY DEF Begin
    <2> QED  BY <1>5, <2>1
  <1>7. TypeOK'
    BY <1>0, <1>1, <1>6 DEF IInv, TypeOK, HomeTyped
  <1> QED  BY <1>1, <1>2, <1>5, <1>7 DEF IInv

LEMMA AskedTyped ==
  ASSUME TypeOK, Asked
  PROVE  spent' \in [ask : 0..MaxAsk, meddle : 0..MaxMeddle, crash : 0..MaxCrash]
  BY CutoverAssumption DEF TypeOK, Asked

LEMMA CallsHold ==
  ASSUME IInv, NEW c \in Call, Enable(c) \/ Retry(c) \/ Close(c) \/ Recover(c) \/ Sweep(c)
  PROVE  IInv'
  <1> USE CutoverAssumption
  <1>1. ASSUME NEW kind \in {"enable", "retry"}, NEW old \in BOOLEAN, NEW first \in BOOLEAN,
               Begin(c, kind, DeployPath(old), "enabling", first), Asked \/ UNCHANGED spent
        PROVE  IInv'
    <2>1. spent' \in [ask : 0..MaxAsk, meddle : 0..MaxMeddle, crash : 0..MaxCrash]
      BY <1>1, AskedTyped DEF IInv, TypeOK
    <2>2. /\ DeployPath(old) \in {"switch", "check", "reconcile", "resume", None}
          /\ DeployPath(old) = "check" => workflow.deployed
      BY DeployPathFits DEF IInv
    <2>3. DeployPath(old) \in Path \cup {None} /\ DeployPath(old) \notin {"rollback", "restored"}
      BY <2>2 DEF Path
    <2> QED  BY <1>1, <2>1, <2>2, <2>3, BeginHolds DEF Kind
  <1>2. ASSUME NEW kind \in {"close", "recover"},
               Begin(c, kind, ReturnPath(kind), card.lifecycle, card.first), Asked
        PROVE  IInv'
    <2>1. spent' \in [ask : 0..MaxAsk, meddle : 0..MaxMeddle, crash : 0..MaxCrash]
      BY <1>2, AskedTyped DEF IInv
    <2>2. /\ ReturnPath(kind) \in {"restored", "reconcile", "rollback", None}
          /\ ReturnPath(kind) = "restored" => workflow.status = "restored"
      BY ReturnPathFits DEF IInv
    <2>3. ReturnPath(kind) \in Path \cup {None} /\ ReturnPath(kind) \notin {"switch", "resume", "check"}
      BY <2>2 DEF Path
    <2>4. card.first \in BOOLEAN
      BY DEF IInv, TypeOK
    <2> QED  BY <1>2, <2>1, <2>2, <2>3, <2>4, BeginHolds DEF Kind
  <1>3. card.first \in BOOLEAN
    BY DEF IInv, TypeOK
  <1> QED  BY <1>1, <1>2, <1>3 DEF Enable, Retry, Close, Recover, Sweep

LEMMA PassStartHolds ==
  ASSUME IInv, NEW c \in Call, PassStart(c)
  PROVE  IInv'
  <1> DEFINE l == [Rest EXCEPT !.kind = "pass", !.path = "audit", !.saw = workflow,
                               !.at = IF FailedVerified THEN "answer" ELSE "source"]
  <1>1. l \in Local /\ l.kind = "pass" /\ l.path = "audit" /\ l.saw = workflow /\ l.at \notin Writing
    BY DEF IInv, TypeOK, Rest, Local, Kind, Path, Pc, Writing
  <1>2. Go(c, workflow, l) /\ HomeTyped
    BY HomeStays DEF PassStart, IInv
  <1> HIDE DEF l
  <1>3. Fits(l, workflow)
    BY <1>1 DEF Fits, IInv, TypeOK
  <1> QED  BY <1>1, <1>2, <1>3, GoHolds, StaysOnward DEF IInv

-----------------------------------------------------------------------------
(* Looking                                                                     *)

LEMMA PreflightHolds ==
  ASSUME IInv, NEW c \in Call, Preflight(c)
  PROVE  IInv'
  <1>1. HomeTyped
    BY HomeStays DEF Preflight, IInv
  <1> QED  BY <1>1, RefuseHolds, GotoHolds DEF Preflight, Pc, Writing

LEMMA StartSwitchHolds ==
  ASSUME IInv, NEW c \in Call, StartSwitch(c), call[c].path = "switch",
         HomeTyped
  PROVE  IInv'
  <1>1. CASE workflow.status = "ready"
    <2> DEFINE m == [call[c] EXCEPT !.at = "stop", !.op = 1]
    <2>1. call[c] \in Local /\ Fits(call[c], workflow)
      BY CallTyped DEF IInv
    <2>2. /\ m \in Local /\ m.at = "stop" /\ m.path = call[c].path /\ m.kind = call[c].kind
          /\ m.saw = call[c].saw
      BY <2>1 DEF Local, Pc
    <2>3. Onward(Operating(workflow, "switching", 1))
      BY <1>1, OperatingOnward, StaysOnward DEF IInv, TypeOK
    <2>4. Go(c, Operating(workflow, "switching", 1), m)
      BY <1>1 DEF StartSwitch
    <2> HIDE DEF m
    <2>5. Fits(m, Operating(workflow, "switching", 1))
      BY <2>1, <2>2 DEF Fits
    <2> QED  BY <2>2, <2>3, <2>4, <2>5, GoHolds
  <1>2. CASE workflow.status # "ready"
    BY <1>2, ReturnHolds, StaysOnward DEF StartSwitch, IInv
  <1> QED  BY <1>1, <1>2

LEMMA LookSourceHolds ==
  ASSUME IInv, NEW c \in Call, LookSource(c)
  PROVE  IInv'
  <1>1. HomeTyped
    BY HomeStays DEF LookSource, IInv
  <1>2. ASSUME Go(c, workflow, [call[c] EXCEPT !.at = "target", !.src = source])
        PROVE  IInv'
    <2> DEFINE m == [call[c] EXCEPT !.at = "target", !.src = source]
    <2>1. call[c] \in Local /\ Fits(call[c], workflow) /\ source \in Source
      BY CallTyped DEF IInv, TypeOK
    <2>2. /\ m \in Local /\ m.at = "target" /\ m.path = call[c].path /\ m.kind = call[c].kind
          /\ m.saw = call[c].saw
      BY <2>1 DEF Local, Pc
    <2> HIDE DEF m
    <2>3. Fits(m, workflow)
      BY <2>1, <2>2 DEF Fits, Writing
    <2>4. Go(c, workflow, m)
      BY <1>2 DEF m
    <2> QED  BY <1>1, <2>2, <2>3, <2>4, GoHolds, StaysOnward DEF IInv
  <1> QED  BY <1>1, <1>2, RefuseHolds, StartSwitchHolds DEF LookSource

(* A fresh operation is opened for a switch that is taken up again.             *)
LEMMA OpenedHolds ==
  ASSUME IInv, NEW c \in Call, NEW w, Onward(w), NEW m \in Local, Go(c, w, m),
         m.at \in Pc \ {"answer"}, m.path \in {call[c].path, "putback"},
         m.kind = call[c].kind, m.saw = call[c].saw,
         m.at \in Writing => m.path \in {"switch", "resume"},
         call[c].path # None,
         HomeTyped
  PROVE  IInv'
  <1>1. call[c] \in Local /\ Fits(call[c], w)
    BY CallTyped, StillFits DEF IInv
  <1>2. Fits(m, w)
    BY <1>1 DEF Fits
  <1> QED  BY <1>2, GoHolds

LEMMA ResumeHolds ==
  ASSUME IInv, NEW c \in Call, Resume(c), call[c].path = "resume",
         HomeTyped
  PROVE  IInv'
  <1> DEFINE l  == call[c]
             op == l.saw.op + 1
             w  == IF l.saw.status = "switching" THEN Failed("switching", "switch_unknown", l.saw.op) ELSE workflow
  <1>1. l \in Local /\ l.saw.op \in Nat /\ op \in Nat
    BY CallTyped, CutoverAssumption DEF IInv, Fits, Path, Workflow
  <1>2. Onward(w)
    BY <1>1, FailedOnward, StaysOnward DEF IInv, Status, Reason
  <1>3. CASE ~MayResumeSwitch(w, op)
    <2>1. Return(c, w, FALSE)
      BY <1>3 DEF Resume
    <2> QED  BY <1>2, <2>1, ReturnHolds
  <1>4. CASE MayResumeSwitch(w, op)
    <2> DEFINE v == Operating(w, "switching", op)
    <2>1. Onward(v)
      <3>1. w.status # "restored" /\ w \in Workflow
        BY <1>2, <1>4 DEF MayResumeSwitch, Onward
      <3>2. workflow.status # "restored"
        BY <1>2, <3>1 DEF Onward
      <3> QED  BY <1>1, <1>2, <3>1, <3>2, OperatingOnward
    <2>2. l.path # None
      BY CutoverAssumption DEF Path
    <2>3. CASE l.src = "running"
      <3> DEFINE m == [l EXCEPT !.at = "stop", !.op = op]
      <3>1. Go(c, v, m)
        BY <1>4, <2>3 DEF Resume
      <3>2. /\ m \in Local /\ m.at = "stop" /\ m.path = "resume" /\ m.kind = l.kind /\ m.saw = l.saw
        BY <1>1 DEF Local, Pc
      <3> HIDE DEF op, w, v, m
      <3> QED  BY <1>1, <2>1, <2>2, <3>1, <3>2, OpenedHolds DEF Pc
    <2>4. CASE l.src # "running"
      <3> DEFINE m == [l EXCEPT !.at = "restore", !.op = op, !.why = "switch_failed", !.path = "putback"]
      <3>1. Go(c, v, m)
        BY <1>4, <2>4 DEF Resume
      <3>2. /\ m \in Local /\ m.at = "restore" /\ m.path = "putback" /\ m.kind = l.kind /\ m.saw = l.saw
        BY <1>1 DEF Local, Pc, Path, Reason
      <3> HIDE DEF op, w, v, m
      <3> QED  BY <1>1, <2>1, <2>2, <3>1, <3>2, OpenedHolds DEF Pc, Writing, Reason
    <2> QED  BY <2>3, <2>4
  <1> QED  BY <1>3, <1>4

LEMMA ReconcileHolds ==
  ASSUME IInv, NEW c \in Call, Reconcile(c), call[c].path = "reconcile",
         HomeTyped
  PROVE  IInv'
  <1> DEFINE l  == call[c]
             op == l.saw.op + 1
  <1>1. l \in Local /\ l.saw \in Workflow /\ op \in Nat
    BY CallTyped, CutoverAssumption DEF IInv, Fits, Path, Workflow
  <1>2. l.path # None
    BY CutoverAssumption DEF Path
  <1>3. CASE l.src = "running"
    <2> DEFINE w == FailedRestored(workflow, l.saw.reason)
    <2>1. Return(c, w, w # workflow /\ ~Deploying(c))
      BY <1>3 DEF Reconcile
    <2>2. w # workflow => w.status = "restored"
      BY DEF FailedRestored, IInv, TypeOK, Workflow
    <2>3. Onward(w)
      BY StaysOnward DEF FailedRestored, IInv, TypeOK, Workflow, Status, Onward
    <2> HIDE DEF w
    <2> QED  BY <2>1, <2>2, <2>3, ReturnHolds DEF Deploying
  <1>4. CASE l.src # "running" /\ ~MayResumeSwitch(workflow, op)
    <2>1. Return(c, workflow, FALSE)
      BY <1>4 DEF Reconcile
    <2> QED  BY <2>1, ReturnHolds, StaysOnward DEF IInv
  <1>5. CASE l.src # "running" /\ MayResumeSwitch(workflow, op)
    <2> DEFINE v == Operating(workflow, "switching", op)
               m == [l EXCEPT !.at = "restore", !.op = op, !.why = l.saw.reason]
    <2>1. Go(c, v, m)
      BY <1>5 DEF Reconcile
    <2>2. Onward(v)
      BY <1>1, <1>5, StaysOnward, OperatingOnward DEF IInv, TypeOK, MayResumeSwitch
    <2>3. l.saw.reason \in Reason \cup {None}
      BY <1>1 DEF Workflow
    <2>4. /\ m \in Local /\ m.at = "restore" /\ m.path = l.path /\ m.kind = l.kind /\ m.saw = l.saw
      BY <1>1, <2>3 DEF Local, Pc
    <2> HIDE DEF op, v, m
    <2> QED  BY <1>1, <1>2, <2>1, <2>2, <2>3, <2>4, OpenedHolds DEF Pc, Writing
  <1> QED  BY <1>3, <1>4, <1>5

LEMMA RollBackHolds ==
  ASSUME IInv, NEW c \in Call, RollBack(c), call[c].path = "rollback",
         HomeTyped
  PROVE  IInv'
  <1> DEFINE l  == call[c]
             op == l.saw.op + 1
             w  == IF l.saw.status = "rolling_back" THEN Failed("rolling_back", "rollback_unknown", l.saw.op)
                   ELSE workflow
  <1>1. l \in Local /\ l.saw.op \in Nat /\ op \in Nat
    BY CallTyped, CutoverAssumption DEF IInv, Fits, Path, Workflow
  <1>2. Onward(w)
    BY <1>1, FailedOnward, StaysOnward DEF IInv, Status, Reason
  <1>3. CASE ~MayRollBack(w, op, l.kind = "recover")
    <2>1. Return(c, w, FALSE)
      BY <1>3 DEF RollBack
    <2> QED  BY <1>2, <2>1, ReturnHolds
  <1>4. CASE MayRollBack(w, op, l.kind = "recover")
    <2> DEFINE v == Operating(w, "rolling_back", op)
               m == [l EXCEPT !.at = "recheck", !.op = op, !.why = "rollback_failed"]
    <2>1. Onward(v)
      <3>1. w.status # "restored" /\ w \in Workflow
        BY <1>2, <1>4 DEF MayRollBack, Onward
      <3>2. workflow.status # "restored"
        BY <1>2, <3>1 DEF Onward
      <3> QED  BY <1>1, <1>2, <3>1, <3>2, OperatingOnward
    <2>2. Go(c, v, m)
      BY <1>4 DEF RollBack
    <2>3. /\ m \in Local /\ m.at = "recheck" /\ m.path = l.path /\ m.kind = l.kind /\ m.saw = l.saw
      BY <1>1 DEF Local, Pc, Reason
    <2>4. l.path # None
      BY CutoverAssumption DEF Path
    <2> HIDE DEF op, w, v, m
    <2> QED  BY <1>1, <2>1, <2>2, <2>3, <2>4, OpenedHolds DEF Pc, Writing, Reason
  <1> QED  BY <1>3, <1>4

LEMMA LookTargetHolds ==
  ASSUME IInv, NEW c \in Call, LookTarget(c)
  PROVE  IInv'
  <1>1. HomeTyped
    BY HomeStays DEF LookTarget, IInv
  <1>2. Fits(call[c], workflow) /\ Onward(workflow)
    BY StaysOnward DEF IInv
  <1>3. ASSUME NEW cause \in {"unknown", "foreign"}, Refuse(c, cause) PROVE IInv'
    BY <1>1, <1>3, RefuseHolds
  <1>4. ASSUME call[c].path = "resume", Resume(c) PROVE IInv'
    BY <1>1, <1>4, ResumeHolds
  <1>5. ASSUME call[c].path = "reconcile", Reconcile(c) PROVE IInv'
    BY <1>1, <1>5, ReconcileHolds
  <1>6. ASSUME call[c].path = "rollback", RollBack(c) PROVE IInv'
    BY <1>1, <1>6, RollBackHolds
  <1>7. ASSUME call[c].path \in {"check", "restored"}, NEW ok \in BOOLEAN, Return(c, workflow, ok) PROVE IInv'
    BY <1>1, <1>2, <1>7, ReturnHolds DEF Fits
  <1> QED  BY <1>3, <1>4, <1>5, <1>6, <1>7 DEF LookTarget

-----------------------------------------------------------------------------
(* Commands, and what is read back                                             *)

LEMMA SwitchHolds ==
  ASSUME IInv, NEW c \in Call, Stop(c) \/ Place(c) \/ Confirm(c)
  PROVE  IInv'
  <1>1. HomeTyped
    BY HomeStays, HomeChanges DEF Stop, Place, Confirm, IInv, Command
  <1>3. call[c].path \in {"switch", "resume"}
    BY DEF Stop, Place, Confirm, At, IInv, Fits, Writing
  <1>4. ASSUME NEW l \in {"place", "confirm", "settle"}, Goto(c, l) PROVE IInv'
    BY <1>1, <1>3, <1>4, GotoHolds DEF Pc
  <1>5. ASSUME NEW why \in {"switch_failed", "verification_failed"}, Undo(c, why) PROVE IInv'
    BY <1>1, <1>5, UndoHolds DEF Reason
  <1>6. ASSUME Fail(c, "switch_failed") \/ Unknown(c) PROVE IInv'
    BY <1>1, <1>6, FailHolds, UnknownHolds DEF Reason
  <1> QED  BY <1>4, <1>5, <1>6 DEF Stop, Place, Confirm

LEMMA SettleHolds ==
  ASSUME IInv, NEW c \in Call, Settle(c)
  PROVE  IInv'
  <1>1. HomeTyped
    BY HomeStays DEF Settle, IInv
  <1>2. call[c].kind \in {"enable", "retry"}
    BY DEF Settle, At, IInv, Fits, Writing
  <1>3. ASSUME Verify(c) PROVE IInv'
    <2> DEFINE w == [workflow EXCEPT !.status = "verified", !.deployed = TRUE]
    <2>1. CASE Return(c, workflow, FALSE)
      BY <1>1, <2>1, ReturnHolds, StaysOnward DEF IInv
    <2>2. CASE workflow.status = "switching" /\ Return(c, w, TRUE)
      <3>1. Onward(w) /\ w.deployed
        BY <2>2 DEF IInv, TypeOK, Workflow, Status, Onward
      <3> HIDE DEF w
      <3> QED  BY <1>1, <1>2, <2>2, <3>1, ReturnHolds
    <2> QED  BY <1>3, <2>1, <2>2 DEF Verify
  <1> QED  BY <1>1, <1>3, UnknownHolds, UndoHolds DEF Settle, Reason

LEMMA WayBackHolds ==
  ASSUME IInv, NEW c \in Call,
         UndoTarget(c) \/ Recheck(c) \/ Withdraw(c) \/ Withdrawn(c) \/ Restore(c)
  PROVE  IInv'
  <1>1. HomeTyped
    BY HomeStays, HomeChanges DEF UndoTarget, Recheck, Withdraw, Withdrawn, Restore, IInv, Command
  <1>3. ASSUME NEW l \in {"restore", "last", "withdraw", "after"}, Goto(c, l) PROVE IInv'
    BY <1>1, <1>3, GotoHolds DEF Pc, Writing
  <1>4. ASSUME NEW why \in Reason \cup {None}, Fail(c, why) PROVE IInv'
    BY <1>1, <1>4, FailHolds
  <1>5. ASSUME Unknown(c) PROVE IInv'
    BY <1>1, <1>5, UnknownHolds
  <1>6. call[c].why \in Reason \cup {None}
    BY CallTyped DEF IInv, Local
  <1> QED
    BY <1>3, <1>4, <1>5, <1>6
    DEF UndoTarget, Recheck, Withdraw, Withdrawn, Restore, Onwards, Reason

LEMMA LastSourceHolds ==
  ASSUME IInv, NEW c \in Call, LastSource(c)
  PROVE  IInv'
  <1>1. HomeTyped
    BY HomeStays DEF LastSource, IInv
  <1>2. call[c] \in Local /\ Fits(call[c], workflow) /\ source \in Source
    BY CallTyped DEF IInv, TypeOK
  <1>3. ASSUME Go(c, workflow, [call[c] EXCEPT !.at = "agree", !.src = source]) PROVE IInv'
    <2> DEFINE m == [call[c] EXCEPT !.at = "agree", !.src = source]
    <2>1. /\ m \in Local /\ m.at = "agree" /\ m.path = call[c].path /\ m.kind = call[c].kind
          /\ m.saw = call[c].saw
      BY <1>2 DEF Local, Pc
    <2>2. Go(c, workflow, m)
      BY <1>3
    <2> HIDE DEF m
    <2>3. Fits(m, workflow)
      BY <1>2, <2>1 DEF Fits, Writing
    <2> QED  BY <1>1, <2>1, <2>2, <2>3, GoHolds, StaysOnward DEF IInv
  <1>4. call[c].why \in Reason \cup {None}
    BY <1>2 DEF Local
  <1> QED  BY <1>1, <1>3, <1>4, FailHolds, UnknownHolds DEF LastSource

LEMMA ConcludeHolds ==
  ASSUME IInv, NEW c \in Call, Conclude(c), HomeTyped
  PROVE  IInv'
  <1> DEFINE l      == call[c]
             failed == Failed("switching", l.why, l.op)
             closed == FailedRestored(failed, l.why)
             back   == [workflow EXCEPT !.status = "restored"]
  <1>1. l \in Local /\ Fits(l, workflow) /\ Onward(workflow)
    BY CallTyped, StaysOnward DEF IInv
  <1>2. Onward(failed)
    BY <1>1, FailedOnward DEF Local, IInv, Status
  <1>3. Onward(closed) /\ (closed # failed => closed.status = "restored")
    BY <1>2 DEF FailedRestored, Onward, Workflow, Status
  <1>4. workflow.status = "rolling_back" => Onward(back) /\ back.status = "restored"
    BY DEF IInv, TypeOK, Workflow, Status, Onward
  <1>5. CASE l.path = "rollback" /\ workflow.status = "rolling_back" /\ Return(c, back, TRUE)
    <2>1. l.kind \in {"close", "recover"}
      BY <1>1, <1>5 DEF Fits
    <2> HIDE DEF back
    <2> QED  BY <1>4, <1>5, <2>1, ReturnHolds
  <1>6. CASE Return(c, workflow, FALSE)
    BY <1>1, <1>6, ReturnHolds
  <1>7. CASE Return(c, failed, FALSE)
    <2> HIDE DEF failed
    <2> QED  BY <1>2, <1>7, ReturnHolds
  <1>8. CASE Return(c, closed, l.path = "reconcile" /\ ~Deploying(c) /\ closed # failed)
    <2> HIDE DEF closed, failed
    <2> QED  BY <1>3, <1>8, ReturnHolds DEF Deploying
  <1> QED  BY <1>5, <1>6, <1>7, <1>8 DEF Conclude

LEMMA LastTargetHolds ==
  ASSUME IInv, NEW c \in Call, LastTarget(c)
  PROVE  IInv'
  <1>1. HomeTyped
    BY HomeStays DEF LastTarget, IInv
  <1>2. call[c].why \in Reason \cup {None}
    BY CallTyped DEF IInv, Local
  <1> QED  BY <1>1, <1>2, ConcludeHolds, FailHolds, UnknownHolds DEF LastTarget

-----------------------------------------------------------------------------
(* The proposal's row, the passes, the household and the process               *)

LEMMA PutHolds ==
  ASSUME IInv, NEW c \in Call, NEW lifecycle \in Lifecycle, NEW allowed \in BOOLEAN,
         PutIf(allowed, c, lifecycle), UNCHANGED <<workflow, spent>>, Still,
         lifecycle = "closed" => workflow.status = "restored",
         lifecycle = "active" => workflow.deployed
  PROVE  IInv'
  <1>1. ASSUME NEW d \in Call PROVE call'[d] \in Local /\ Fits(call'[d], workflow)
    <2>1. call[d] \in Local /\ Fits(call[d], workflow)
      BY CallTyped DEF IInv
    <2>2. call'[d] \in {Rest, call[d], [call[d] EXCEPT !.fresh = FALSE]}
      BY DEF PutIf, Put, IInv, TypeOK
    <2> DEFINE m == [call[d] EXCEPT !.fresh = FALSE]
    <2>3. /\ m \in Local /\ m.at = call[d].at /\ m.path = call[d].path /\ m.kind = call[d].kind
          /\ m.ok = call[d].ok /\ m.saw = call[d].saw
      BY <2>1 DEF Local
    <2> HIDE DEF m
    <2>4. Fits(m, workflow)
      BY <2>1, <2>3 DEF Fits
    <2>5. call'[d] \in {Rest, call[d], m}
      BY <2>2 DEF m
    <2> QED  BY <2>1, <2>3, <2>4, <2>5, RestFits
  <1>2. call' = [d \in Call |-> call'[d]]
    BY DEF PutIf, Put, IInv, TypeOK
  <1>3. call' \in [Call -> Local]
    BY <1>1, <1>2
  <1>4. card' \in [lifecycle : Lifecycle, first : BOOLEAN] /\ card'.lifecycle \in {card.lifecycle, lifecycle}
    BY DEF PutIf, Put, IInv, TypeOK
  <1>5. TypeOK'
    BY <1>3, <1>4, HomeStays DEF IInv, TypeOK, HomeTyped
  <1>6. WorkflowSound' /\ CardSound'
    BY <1>4 DEF IInv, WorkflowSound, CardSound
  <1> QED  BY <1>1, <1>5, <1>6 DEF IInv

LEMMA AnswerHolds ==
  ASSUME IInv, NEW c \in Call, Answer(c)
  PROVE  IInv'
  <1> DEFINE l == call[c]
  <1>1. l \in Local /\ Fits(l, workflow) /\ l.at = "answer"
    BY CallTyped DEF IInv, Answer, At
  <1>2. UNCHANGED <<workflow, spent>> /\ Still
    BY DEF Answer
  <1>3. ASSUME Deploying(c), NEW allowed \in BOOLEAN,
               PutIf(allowed, c, IF l.ok THEN "active" ELSE "enable_failed")
        PROVE  IInv'
    <2> DEFINE lifecycle == IF l.ok THEN "active" ELSE "enable_failed"
    <2>1. /\ lifecycle \in Lifecycle /\ lifecycle # "closed"
          /\ (lifecycle = "active" => workflow.deployed)
      BY <1>1, <1>3 DEF Lifecycle, Fits, Deploying
    <2>2. PutIf(allowed, c, lifecycle)
      BY <1>3
    <2> HIDE DEF lifecycle
    <2> QED  BY <1>2, <2>1, <2>2, PutHolds
  <1>4. ASSUME l.kind \in {"close", "recover"}, NEW allowed \in BOOLEAN,
               PutIf(allowed, c, IF l.ok THEN "closed" ELSE "recovery_required")
        PROVE  IInv'
    <2> DEFINE lifecycle == IF l.ok THEN "closed" ELSE "recovery_required"
    <2>1. /\ lifecycle \in Lifecycle /\ lifecycle # "active"
          /\ (lifecycle = "closed" => workflow.status = "restored")
      BY <1>1, <1>4 DEF Lifecycle, Fits
    <2>2. PutIf(allowed, c, lifecycle)
      BY <1>4
    <2> HIDE DEF lifecycle
    <2> QED  BY <1>2, <2>1, <2>2, PutHolds
  <1>5. ASSUME NEW allowed \in BOOLEAN, PutIf(allowed, c, "recovery_required")
        PROVE  IInv'
    BY <1>2, <1>5, PutHolds DEF Lifecycle
  <1>7. CASE Deploying(c) /\ PutIf(card.lifecycle = "enabling" /\ l.fresh, c,
                                  IF l.ok THEN "active" ELSE "enable_failed")
    <2>1. (card.lifecycle = "enabling" /\ l.fresh) \in BOOLEAN
      OBVIOUS
    <2> QED  BY <1>3, <1>7, <2>1
  <1>8. CASE l.kind = "close" /\ PutIf(card.lifecycle \in {"active", "enable_failed"}, c,
                                      IF l.ok THEN "closed" ELSE "recovery_required")
    <2>1. (card.lifecycle \in {"active", "enable_failed"}) \in BOOLEAN
      OBVIOUS
    <2> QED  BY <1>4, <1>8, <2>1
  <1>9. CASE l.kind = "recover" /\ PutIf(card.lifecycle = "recovery_required" /\ l.fresh, c,
                                        IF l.ok THEN "closed" ELSE "recovery_required")
    <2>1. (card.lifecycle = "recovery_required" /\ l.fresh) \in BOOLEAN
      OBVIOUS
    <2> QED  BY <1>4, <1>9, <2>1
  <1>10. CASE l.kind = "pass" /\ PutIf(card.lifecycle = "active", c, "recovery_required")
    <2>1. (card.lifecycle = "active") \in BOOLEAN
      OBVIOUS
    <2> QED  BY <1>5, <1>10, <2>1
  <1> QED  BY <1>7, <1>8, <1>9, <1>10 DEF Answer

LEMMA PassHolds ==
  ASSUME IInv, NEW c \in Call, PassSource(c) \/ PassTarget(c)
  PROVE  IInv'
  <1>1. HomeTyped
    BY HomeStays DEF PassSource, PassTarget, IInv
  <1>2. call[c] \in Local /\ call[c].kind = "pass"
    BY CallTyped DEF IInv, PassSource, PassTarget
  <1>3. ASSUME Deviates(c) PROVE IInv'
    <2> DEFINE w == Failed("verified", "verification_failed", call[c].saw.op)
    <2>1. w = workflow \/ w = [workflow EXCEPT !.status = "needs_attention", !.reason = "verification_failed"]
      BY DEF Failed
    <2>2. Onward(w)
      BY <2>1 DEF IInv, TypeOK, WorkflowSound, Workflow, Status, Reason, Onward, Failed
    <2>3. Go(c, w, Rest) \/ Go(c, w, Answered(c, FALSE))
      BY <1>3 DEF Deviates
    <2> HIDE DEF w
    <2> QED  BY <1>1, <2>2, <2>3, GoHolds, RestFits, AnsweredFits DEF IInv
  <1>4. ASSUME Go(c, workflow, Rest) PROVE IInv'
    BY <1>1, <1>4, GoHolds, RestFits, StaysOnward DEF IInv
  <1>5. ASSUME Goto(c, "target") PROVE IInv'
    BY <1>1, <1>5, GotoHolds DEF Pc, Writing
  <1> QED  BY <1>3, <1>4, <1>5 DEF PassSource, PassTarget

LEMMA MeddleHolds ==
  ASSUME IInv, Meddle
  PROVE  IInv'
  <1>1. TypeOK'
    <2>1. spent' \in [ask : 0..MaxAsk, meddle : 0..MaxMeddle, crash : 0..MaxCrash]
      BY CutoverAssumption DEF Meddle, IInv, TypeOK
    <2>2. HomeTyped
      BY DEF Meddle, IInv, TypeOK, Target, Watched, HomeTyped
    <2> QED  BY <2>1, <2>2 DEF Meddle, IInv, TypeOK, HomeTyped
  <1> QED  BY <1>1 DEF Meddle, IInv, WorkflowSound, CardSound

LEMMA LateHolds ==
  ASSUME IInv, Late
  PROVE  IInv'
  <1>1. PICK command \in late : late' = late \ {command} /\ CarriedOut(command)
    BY DEF Late
  <1>2. HomeTyped
    BY <1>1 DEF CarriedOut, Set, Placed, Watched, IInv, TypeOK, Source, Target, HomeTyped
  <1>3. UNCHANGED <<card, workflow, call, spent>>
    BY DEF Late
  <1> QED  BY <1>2, <1>3 DEF HomeTyped, IInv, TypeOK, WorkflowSound, CardSound

LEMMA RestartHolds ==
  ASSUME IInv, Restart
  PROVE  IInv'
  <1>1. TypeOK'
    <2>1. spent' \in [ask : 0..MaxAsk, meddle : 0..MaxMeddle, crash : 0..MaxCrash]
      BY CutoverAssumption DEF Restart, IInv, TypeOK
    <2>2. HomeTyped
      BY HomeStays DEF Restart, IInv
    <2> QED  BY <2>1, <2>2, RestFits DEF Restart, IInv, TypeOK, HomeTyped
  <1> QED  BY <1>1, RestFits DEF Restart, IInv, WorkflowSound, CardSound

-----------------------------------------------------------------------------

LEMMA InitHolds == Init => IInv
  <1> SUFFICES ASSUME Init PROVE IInv
    OBVIOUS
  <1>1. TypeOK
    BY RestFits, CutoverAssumption
    DEF Init, TypeOK, Lifecycle, Workflow, Status, Source, Target
  <1> QED  BY <1>1, RestFits DEF Init, IInv, WorkflowSound, CardSound

LEMMA NextHolds ==
  ASSUME IInv, [Next]_vars
  PROVE  IInv'
  <1>1. ASSUME NEW c \in Call, Enable(c) \/ Retry(c) \/ Close(c) \/ Recover(c) \/ Sweep(c) \/ PassStart(c)
        PROVE  IInv'
    BY <1>1, CallsHold, PassStartHolds
  <1>2. ASSUME NEW c \in Call, Preflight(c) \/ LookSource(c) \/ LookTarget(c) \/ Stop(c) \/ Place(c)
                               \/ Confirm(c) \/ Settle(c)
        PROVE  IInv'
    BY <1>2, PreflightHolds, LookSourceHolds, LookTargetHolds, SwitchHolds, SettleHolds
  <1>3. ASSUME NEW c \in Call, UndoTarget(c) \/ Recheck(c) \/ Withdraw(c) \/ Withdrawn(c) \/ Restore(c)
                               \/ LastSource(c) \/ LastTarget(c)
        PROVE  IInv'
    BY <1>3, WayBackHolds, LastSourceHolds, LastTargetHolds
  <1>4. ASSUME NEW c \in Call, PassSource(c) \/ PassTarget(c) \/ Answer(c)
        PROVE  IInv'
    BY <1>4, PassHolds, AnswerHolds
  <1>5. CASE Meddle \/ Late \/ Restart
    BY <1>5, MeddleHolds, LateHolds, RestartHolds
  <1>6. CASE UNCHANGED vars
    BY <1>6 DEF vars, IInv, TypeOK, WorkflowSound, CardSound
  <1> QED  BY <1>1, <1>2, <1>3, <1>4, <1>5, <1>6 DEF Next, Continue

(* The inductive invariant of the cutover: types, and the workflow's row, the   *)
(* proposal's row and every call in agreement.                                  *)
THEOREM Invariance == Spec => []IInv
  BY InitHolds, NextHolds, PTL DEF Spec

(* A closed migration's workflow has been read back as restored, however its    *)
(* closing, its recovery, its sweeps and its crashes interleave.                *)
THEOREM ClosedRulesAreRestored == Spec => []ClosedIsRestored
  <1>1. IInv => ClosedIsRestored
    BY DEF IInv, CardSound, ClosedIsRestored
  <1> QED  BY <1>1, Invariance, PTL

(* An automation shown as active was placed by a switch that was verified.      *)
THEOREM ActiveRulesWereVerified == Spec => []ActiveWasVerified
  <1>1. IInv => ActiveWasVerified
    BY DEF IInv, CardSound, ActiveWasVerified
  <1> QED  BY <1>1, Invariance, PTL

-----------------------------------------------------------------------------
(* What a call saw before it commands.                                         *)

(* A call about to place the automation has stopped the rule, one about to     *)
(* restore the rule has seen the automation gone, and neither has changed      *)
(* since unless the call is overtaken.                                         *)
Heeds(c) ==
  /\ call[c].at = "place" /\ c \notin overtaken => source # "running"
  /\ call[c].at = "restore" /\ c \notin overtaken => target = "missing"
Heeding == \A c \in Call : Heeds(c)

(* A step takes a call to a command only on the sight the command needs.       *)
Sighted(c) ==
  \/ call'[c].at = call[c].at
  \/ /\ call'[c].at = "place" => source' # "running"
     /\ call'[c].at = "restore" => target' = "missing"
AllSighted == \A c \in Call : Sighted(c)

LEMMA GoSighted ==
  ASSUME TypeOK, NEW c \in Call, NEW w, NEW l, Go(c, w, l),
         l.at = "place" => source' # "running",
         l.at = "restore" => target' = "missing"
  PROVE  AllSighted
  <1>1. call'[c] = l /\ \A d \in Call \ {c} : call'[d] = call[d]
    BY DEF Go, TypeOK
  <1> QED  BY <1>1 DEF AllSighted, Sighted

LEMMA ReturnSighted ==
  ASSUME TypeOK, NEW c \in Call, NEW w, NEW ok, Return(c, w, ok)
  PROVE  AllSighted
  <1>1. Answered(c, ok).at = "answer"
    BY DEF Answered, Rest
  <1> QED  BY <1>1, GoSighted DEF Return

LEMMA GivesUpSighted ==
  ASSUME TypeOK, NEW c \in Call,
         \/ \E reason : Fail(c, reason)
         \/ Unknown(c)
         \/ \E cause : Refuse(c, cause)
  PROVE  AllSighted
  BY ReturnSighted DEF Fail, Unknown, Refuse

LEMMA GotoSighted ==
  ASSUME TypeOK, NEW c \in Call, NEW l, Goto(c, l),
         l = "place" => source' # "running",
         l = "restore" => target' = "missing"
  PROVE  AllSighted
  <1>1. [call[c] EXCEPT !.at = l].at = l
    BY CallTyped DEF Local
  <1> QED  BY <1>1, GoSighted DEF Goto

LEMMA BeginSighted ==
  ASSUME TypeOK, NEW c \in Call, NEW kind, NEW path, NEW lifecycle, NEW first,
         Begin(c, kind, path, lifecycle, first)
  PROVE  AllSighted
  <1> DEFINE at == CASE path = None -> "answer"
                     [] path \in {"switch", "resume"} -> "preflight"
                     [] path = "reconcile" /\ kind \in {"enable", "retry"} -> "preflight"
                     [] OTHER -> "source"
  <1>1. at \notin {"place", "restore"}
    OBVIOUS
  <1>2. call'[c] = [Rest EXCEPT !.kind = kind, !.path = path, !.saw = workflow, !.fresh = TRUE, !.at = at]
    BY DEF Begin
  <1> HIDE DEF at
  <1>3. call'[c].at = at
    BY <1>2 DEF Rest
  <1>4. \A d \in Call \ {c} :
          call'[d] = [call[d] EXCEPT !.fresh = call[d].fresh /\ card' = card /\ kind # "recover"]
    BY DEF Begin
  <1>5. \A d \in Call \ {c} : call'[d].at = call[d].at
    BY <1>4 DEF TypeOK, Local
  <1> QED  BY <1>1, <1>3, <1>5 DEF AllSighted, Sighted

(* Looking before anything is written.                                         *)
LEMMA LooksSighted ==
  ASSUME TypeOK, NEW c \in Call, Preflight(c) \/ LookSource(c) \/ LookTarget(c)
  PROVE  AllSighted
  <1>l. call[c] \in Local
    BY CallTyped
  <1>1. ASSUME NEW cause, Refuse(c, cause) PROVE AllSighted
    BY <1>1, GivesUpSighted
  <1>2. ASSUME NEW w, NEW ok, Return(c, w, ok) PROVE AllSighted
    BY <1>2, ReturnSighted
  <1>3. CASE Preflight(c)
    BY <1>1, <1>3, GotoSighted DEF Preflight
  <1>4. CASE LookSource(c)
    <2>1. ASSUME Go(c, workflow, [call[c] EXCEPT !.at = "target", !.src = source]) PROVE AllSighted
      BY <1>l, <2>1, GoSighted DEF Local
    <2>2. ASSUME StartSwitch(c) PROVE AllSighted
      <3>1. [call[c] EXCEPT !.at = "stop", !.op = 1].at = "stop"
        BY <1>l DEF Local
      <3> QED  BY <1>2, <2>2, <3>1, GoSighted DEF StartSwitch
    <2> QED  BY <1>1, <1>4, <2>1, <2>2 DEF LookSource
  <1>5. CASE LookTarget(c)
    <2>0. UNCHANGED target
      BY <1>5 DEF LookTarget, Still, home
    <2>1. ASSUME NEW w, NEW l, Go(c, w, l), l.at \in {"stop", "recheck"} \/ (l.at = "restore" /\ target = "missing")
          PROVE  AllSighted
      BY <2>0, <2>1, GoSighted
    <2>2. ASSUME Resume(c), target = "missing" PROVE AllSighted
      <3> DEFINE l  == call[c]
                 op == l.saw.op + 1
                 p  == [l EXCEPT !.at = "stop", !.op = op]
                 q  == [l EXCEPT !.at = "restore", !.op = op, !.why = "switch_failed", !.path = "putback"]
      <3>1. p.at = "stop" /\ q.at = "restore"
        BY <1>l DEF Local
      <3>2. \/ \E w : Return(c, w, FALSE)
            \/ \E w : Go(c, w, p)
            \/ \E w : Go(c, w, q)
        BY <2>2 DEF Resume
      <3> HIDE DEF op, p, q
      <3> QED  BY <1>2, <2>1, <2>2, <3>1, <3>2
    <2>3. ASSUME Reconcile(c), target = "missing" PROVE AllSighted
      <3> DEFINE l  == call[c]
                 op == l.saw.op + 1
                 q  == [l EXCEPT !.at = "restore", !.op = op, !.why = l.saw.reason]
      <3>1. q.at = "restore"
        BY <1>l DEF Local
      <3>2. \/ \E w, ok : Return(c, w, ok)
            \/ \E w : Go(c, w, q)
        BY <2>3 DEF Reconcile
      <3>3. ASSUME NEW w, Go(c, w, q) PROVE AllSighted
        BY <2>1, <2>3, <3>1, <3>3
      <3> HIDE DEF op, q
      <3> QED  BY <1>2, <3>2, <3>3
    <2>4. ASSUME RollBack(c) PROVE AllSighted
      <3> DEFINE l  == call[c]
                 op == l.saw.op + 1
                 p  == [l EXCEPT !.at = "recheck", !.op = op, !.why = "rollback_failed"]
      <3>1. p.at = "recheck"
        BY <1>l DEF Local
      <3>2. \/ \E w : Return(c, w, FALSE)
            \/ \E w : Go(c, w, p)
        BY <2>4 DEF RollBack
      <3> HIDE DEF op, p
      <3> QED  BY <1>2, <2>1, <3>1, <3>2
    <2> QED  BY <1>1, <1>2, <1>5, <2>2, <2>3, <2>4 DEF LookTarget
  <1> QED  BY <1>3, <1>4, <1>5

(* Stopping the rule, placing the automation, reading both back.               *)
LEMMA SwitchesSighted ==
  ASSUME TypeOK, NEW c \in Call,
         Stop(c) \/ Place(c) \/ Confirm(c) \/ Settle(c) \/ UndoTarget(c)
  PROVE  AllSighted
  <1>1. ASSUME (\E reason : Fail(c, reason)) \/ Unknown(c) PROVE AllSighted
    BY <1>1, GivesUpSighted
  <1>2. ASSUME NEW why, Undo(c, why) PROVE AllSighted
    <2>1. [call[c] EXCEPT !.at = "undo", !.why = why].at = "undo"
      BY CallTyped DEF Local
    <2> QED  BY <1>2, <2>1, GoSighted DEF Undo
  <1>3. CASE Stop(c)
    <2>1. ASSUME source # "gone", Done("stop") PROVE source' # "running"
      BY <2>1 DEF Done, CarriedOut, Set
    <2> QED  BY <1>1, <1>3, <2>1, GotoSighted DEF Stop
  <1>4. CASE Place(c)
    BY <1>1, <1>2, <1>4, GotoSighted DEF Place
  <1>5. CASE Confirm(c)
    BY <1>1, <1>2, <1>5, GotoSighted DEF Confirm
  <1>6. CASE Settle(c)
    BY <1>1, <1>2, <1>6, ReturnSighted DEF Settle, Verify
  <1>7. CASE UndoTarget(c)
    BY <1>1, <1>7, GotoSighted DEF UndoTarget, Still, home
  <1> QED  BY <1>3, <1>4, <1>5, <1>6, <1>7

(* The way back: withdrawing, restoring, reading both back.                    *)
LEMMA WayBackSighted ==
  ASSUME TypeOK, NEW c \in Call,
         Recheck(c) \/ Withdraw(c) \/ Withdrawn(c) \/ Restore(c) \/ LastSource(c) \/ LastTarget(c)
  PROVE  AllSighted
  <1>1. ASSUME (\E reason : Fail(c, reason)) \/ Unknown(c) PROVE AllSighted
    BY <1>1, GivesUpSighted
  <1>2. CASE Recheck(c) \/ Withdrawn(c)
    BY <1>1, <1>2, GotoSighted DEF Recheck, Withdrawn, Onwards, Still, home
  <1>3. CASE Withdraw(c) \/ Restore(c)
    BY <1>1, <1>3, GotoSighted DEF Withdraw, Restore
  <1>4. CASE LastSource(c)
    <2>1. [call[c] EXCEPT !.at = "agree", !.src = source].at = "agree"
      BY CallTyped DEF Local
    <2> QED  BY <1>1, <1>4, <2>1, GoSighted DEF LastSource
  <1>5. CASE LastTarget(c)
    <2>1. ASSUME Conclude(c) PROVE AllSighted
      <3>1. \E w, ok : Return(c, w, ok)
        BY <2>1 DEF Conclude
      <3> QED  BY <3>1, ReturnSighted
    <2> QED  BY <1>1, <1>5, <2>1 DEF LastTarget
  <1> QED  BY <1>2, <1>3, <1>4, <1>5

LEMMA PassesSighted ==
  ASSUME TypeOK, NEW c \in Call, PassStart(c) \/ PassSource(c) \/ PassTarget(c)
  PROVE  AllSighted
  <1>0. Rest.at = None /\ None \notin {"place", "restore"}
    BY CutoverAssumption DEF Rest, Pc
  <1>1. CASE PassStart(c)
    <2> DEFINE l == [Rest EXCEPT !.kind = "pass", !.path = "audit", !.saw = workflow,
                                 !.at = IF FailedVerified THEN "answer" ELSE "source"]
    <2>1. l.at \in {"answer", "source"} /\ Go(c, workflow, l)
      BY <1>1 DEF PassStart, Rest
    <2> HIDE DEF l
    <2> QED  BY <2>1, GoSighted
  <1>2. ASSUME Deviates(c) PROVE AllSighted
    <2>1. Answered(c, FALSE).at = "answer"
      BY DEF Answered, Rest
    <2>2. \E w : Go(c, w, Rest) \/ Go(c, w, Answered(c, FALSE))
      BY <1>2 DEF Deviates
    <2> QED  BY <1>0, <2>1, <2>2, GoSighted
  <1>3. CASE PassSource(c) \/ PassTarget(c)
    BY <1>0, <1>2, <1>3, GotoSighted, GoSighted DEF PassSource, PassTarget
  <1> QED  BY <1>1, <1>3

LEMMA AnswersSighted ==
  ASSUME TypeOK, NEW c \in Call, Answer(c)
  PROVE  AllSighted
  <1>0. Rest.at = None /\ None \notin {"place", "restore"}
    BY CutoverAssumption DEF Rest, Pc
  <1>1. \A d \in Call : call'[d] \in {Rest, call[d], [call[d] EXCEPT !.fresh = FALSE]}
    BY DEF Answer, PutIf, Put, TypeOK
  <1>2. \A d \in Call : [call[d] EXCEPT !.fresh = FALSE].at = call[d].at
    BY DEF TypeOK, Local
  <1> QED  BY <1>0, <1>1, <1>2 DEF AllSighted, Sighted

(* Every step says what becomes of the calls it may overtake.                  *)
LEMMA StepsWatched ==
  ASSUME Next
  PROVE  Watched
  <1>1. ASSUME NEW c \in Call, Continue(c) PROVE Watched
    BY <1>1
    DEF Continue, Preflight, LookSource, LookTarget, Stop, Place, Confirm, Settle, UndoTarget, Recheck,
        Withdraw, Withdrawn, Restore, LastSource, LastTarget, PassSource, PassTarget, Answer,
        Still, Done, Unanswered, CarriedOut
  <1>2. ASSUME NEW c \in Call, Enable(c) \/ Retry(c) \/ Close(c) \/ Recover(c) \/ Sweep(c) \/ PassStart(c)
        PROVE  Watched
    BY <1>2 DEF Enable, Retry, Close, Recover, Sweep, Begin, PassStart, Still
  <1>3. ASSUME Meddle \/ Late \/ Restart PROVE Watched
    BY <1>3 DEF Meddle, Late, Restart, Still, CarriedOut
  <1> QED  BY <1>1, <1>2, <1>3 DEF Next

LEMMA StepsSighted ==
  ASSUME TypeOK, Next
  PROVE  AllSighted
  <1>1. ASSUME NEW c \in Call, Enable(c) \/ Retry(c) \/ Close(c) \/ Recover(c) \/ Sweep(c) PROVE AllSighted
    BY <1>1, BeginSighted DEF Enable, Retry, Close, Recover, Sweep
  <1>2. ASSUME NEW c \in Call, PassStart(c) \/ Continue(c) PROVE AllSighted
    BY <1>2, LooksSighted, SwitchesSighted, WayBackSighted, PassesSighted, AnswersSighted DEF Continue
  <1>3. CASE Meddle \/ Late
    BY <1>3 DEF Meddle, Late, AllSighted, Sighted
  <1>4. CASE Restart
    <2>1. \A c \in Call : call'[c].at = None /\ None \notin {"place", "restore"}
      BY <1>4, CutoverAssumption DEF Restart, Rest, Pc
    <2> QED  BY <2>1 DEF AllSighted, Sighted
  <1> QED  BY <1>1, <1>2, <1>3, <1>4 DEF Next

LEMMA HeedingStep ==
  ASSUME TypeOK, Heeding, [Next]_vars
  PROVE  Heeding'
  <1>1. CASE UNCHANGED vars
    BY <1>1 DEF vars, Heeding, Heeds
  <1>2. CASE Next
    <2>1. Watched /\ AllSighted
      BY <1>2, StepsWatched, StepsSighted
    <2>2. ASSUME NEW c \in Call PROVE Heeds(c)'
      <3>1. CASE call'[c].at = call[c].at
        BY <2>1, <3>1 DEF Watched, Heeding, Heeds
      <3>2. CASE call'[c].at # call[c].at
        BY <2>1, <3>2 DEF AllSighted, Sighted, Heeds
      <3> QED  BY <3>1, <3>2
    <2> QED  BY <2>2 DEF Heeding
  <1> QED  BY <1>1, <1>2

(* A step that makes both run is an edit, a late command, or a command of an   *)
(* overtaken call.                                                             *)
LEMMA CommandsApart ==
  ASSUME TypeOK, Heeding, [Next]_vars, ~Both, Both'
  PROVE  \/ spent'.meddle # spent.meddle
         \/ late' # late /\ UNCHANGED call
         \/ \E c \in overtaken : call'[c] # call[c]
  <1>1. ~(source' = source /\ target' = target)
    BY DEF Both
  <1>2. ASSUME NEW c \in Call, Stop(c) \/ Place(c) \/ Withdraw(c) \/ Restore(c)
        PROVE  c \in overtaken /\ call'[c] # call[c]
    <2>1. CASE Stop(c) \/ Withdraw(c)
      BY <1>1, <2>1 DEF Stop, Withdraw, Still, home, Done, Unanswered, CarriedOut, Set, Both
    <2>2. CASE Place(c)
      <3>1. source = "running" /\ call[c].at = "place"
        BY <1>1, <2>2 DEF Place, At, Done, Unanswered, CarriedOut, Both
      <3>2. call'[c].at # "place"
        <4>1. call[c] \in Local
          BY CallTyped
        <4>2. ASSUME NEW l, Goto(c, l), l # "place" PROVE call'[c].at # "place"
          BY <4>1, <4>2 DEF Goto, Go, TypeOK, Local
        <4>3. ASSUME NEW why, Undo(c, why) PROVE call'[c].at # "place"
          BY <4>1, <4>3 DEF Undo, Go, TypeOK, Local
        <4>4. ASSUME Unknown(c) PROVE call'[c].at # "place"
          BY <4>4 DEF Unknown, Fail, Return, Answered, Rest, Go, TypeOK
        <4> QED  BY <2>2, <4>2, <4>3, <4>4 DEF Place
      <3> QED  BY <3>1, <3>2 DEF Heeding, Heeds
    <2>3. CASE Restore(c)
      <3>1. target = "running" /\ call[c].at = "restore"
        BY <1>1, <2>3 DEF Restore, At, Still, home, Done, Unanswered, CarriedOut, Both
      <3>2. call'[c].at # "restore"
        <4>1. ASSUME NEW l, Goto(c, l), l # "restore" PROVE call'[c].at # "restore"
          BY CallTyped, <4>1 DEF Goto, Go, TypeOK, Local
        <4>2. ASSUME NEW reason, Fail(c, reason) PROVE call'[c].at # "restore"
          BY <4>2 DEF Fail, Return, Answered, Rest, Go, TypeOK
        <4> QED  BY <2>3, <4>1, <4>2 DEF Restore, Unknown
      <3> QED  BY <3>1, <3>2 DEF Heeding, Heeds
    <2> QED  BY <1>2, <2>1, <2>2, <2>3
  <1>3. CASE Meddle
    BY <1>3 DEF Meddle, TypeOK
  <1>4. CASE Late
    BY <1>4 DEF Late
  <1>5. ASSUME NEW c \in Call, Enable(c) \/ Retry(c) \/ Close(c) \/ Recover(c) \/ Sweep(c) \/ PassStart(c)
        PROVE  FALSE
    BY <1>1, <1>5 DEF Enable, Retry, Close, Recover, Sweep, Begin, PassStart, Still, home
  <1>6. ASSUME NEW c \in Call, Continue(c) PROVE c \in overtaken /\ call'[c] # call[c]
    BY <1>1, <1>2, <1>6
    DEF Continue, Preflight, LookSource, LookTarget, Confirm, Settle, UndoTarget, Recheck, Withdrawn,
        LastSource, LastTarget, PassSource, PassTarget, Answer, Still, home
  <1>7. CASE Restart \/ UNCHANGED vars
    BY <1>1, <1>7 DEF Restart, Still, home, vars
  <1> QED  BY <1>3, <1>4, <1>5, <1>6, <1>7 DEF Next

(* No command of the Hub makes the rule and its automation run together on a   *)
(* home that is still what the call saw: whatever crashed, went unanswered,    *)
(* was retried or rolled back before it, and whoever acts beside it (deploy,   *)
(* recoverKnownFailure, recover, withdraw).                                    *)
THEOREM RulesNeverRunTogether == Spec => NeverBoth
  <1>1. IInv => TypeOK
    BY DEF IInv
  <1>2. Init => Heeding
    BY CutoverAssumption DEF Init, Heeding, Heeds, Rest, Pc
  <1>3. TypeOK /\ Heeding /\ [Next]_vars => Heeding'
    BY HeedingStep
  <1>4. TypeOK /\ Heeding /\ [Next]_vars
          => [~Both /\ Both' => \/ spent'.meddle # spent.meddle
                                \/ late' # late /\ UNCHANGED call
                                \/ \E c \in overtaken : call'[c] # call[c]]_vars
    BY CommandsApart
  <1> QED  BY <1>1, <1>2, <1>3, <1>4, Invariance, PTL DEF Spec, NeverBoth

=============================================================================
