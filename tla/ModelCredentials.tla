-------------------------- MODULE ModelCredentials --------------------------
(***************************************************************************)
(* The keys of the model service: written into the vault by a setup probe  *)
(* or a settings change, owned by the setup draft, the cleanup ledger or   *)
(* the product configuration, used by the runtime generations of           *)
(* model-provider-resolver.ts, and deleted once nothing needs them.  The   *)
(* code is in packages/hub/src: product-setup-draft-store.ts and           *)
(* product-setup-controller.ts, product-activation-controller.ts,          *)
(* product-operational-model-settings.ts, product-model-cleanup-ledger.ts, *)
(* product-bootstrap-config-store.ts, product-session-store.ts and         *)
(* product-runtime-supervisor.ts, which starts and stops them.             *)
(*                                                                         *)
(* Every replaced file and every vault operation is a step of its own: the *)
(* process may stop before and after each.                                 *)
(***************************************************************************)
EXTENDS Integers, FiniteSets, FiniteSetsExt

CONSTANTS
  Request,     \* activation requests that may be under way together
  None,
  MaxKeys,     \* bound on credentials written
  MaxRevision, \* bound on the draft's revision at which its identity is saved
  MaxGens,     \* bound on runtime generations held at once
  MaxTasks,    \* bound on retirements under way at once
  MaxFaults,   \* bound on failures of the vault, a file, a mount or a disposal, and on the
               \* commits of other settings, each of which makes a commit under way fail
  MaxStarts    \* bound on starts of the process

ASSUME CredentialsAssumption ==
  /\ MaxKeys \in Nat /\ MaxRevision \in Nat /\ MaxGens \in Nat /\ MaxTasks \in Nat
  /\ MaxFaults \in Nat /\ MaxStarts \in Nat
  /\ None \notin Nat

VARIABLES
  config,   \* product-config.json: its generation, 0 for no file, and the model's key
  ledger,   \* the cleanup ledger: key -> its entry
  draft,    \* setup-draft.json: stage, revision, evidence, lease and retired keys
  vault,    \* the keys the vault holds
  session,  \* is there an operational session file?
  mode,     \* of the supervisor
  boot,     \* where a start has got to
  probe,    \* the setup probe, one at a time
  tidy,     \* the sweep of the draft's retired keys
  act,      \* request -> an activation
  gens,     \* the resolver's generations
  change,   \* the settings mutation, one at a time
  task,     \* retirements; task 0 is the sweep of a start
  stopAt,   \* what a stop waits for
  spent     \* the bounds used up so far; and, as a history, the keys whose record in the
            \* draft or in the configuration was stored although the write failed

files == <<config, ledger, draft, vault, session>>
procs == <<mode, boot, probe, tidy, act, gens, change, task, stopAt>>
vars  == <<files, procs, spent>>

Keys  == 1..MaxKeys
Gens  == 1..MaxGens
Tasks == 0..MaxTasks

NoEntry == [phase |-> "none", expected |-> 0, committed |-> 0]
NoGen   == [state |-> "free", key |-> None, turn |-> FALSE]
NoTask  == [at |-> "done", gen |-> 0, old |-> None, todo |-> {}, key |-> None]
NoProbe == [at |-> "idle", key |-> None, rev |-> 0]
NoTidy  == [at |-> "done", todo |-> {}, key |-> None]
NoAct   == [at |-> "idle", gen |-> 0, key |-> None]
NoChange == [at |-> "idle", gen |-> 0, old |-> None, key |-> None, aborted |-> FALSE]
NoBoot  == [at |-> "done", todo |-> {}]

TypeOK ==
  LET Key == Keys \cup {None} IN
  /\ config \in [gen : Nat, key : Key]
  /\ ledger \in [Keys -> [phase : {"none", "staged", "active", "pending"}, expected : Int, committed : Nat]]
  /\ draft \in [stage : {"identity", "model", "map"}, rev : Nat, key : Key, staging : Key,
                cleanup : SUBSET Keys]
  /\ vault \subseteq Keys /\ session \in BOOLEAN
  /\ mode \in {"down", "starting", "setup", "operational", "stopping"}
  /\ boot \in [at : {"done", "adopt", "entries", "sweep", "staging", "tidy", "surface"}, todo : SUBSET Keys]
  /\ probe \in [at : {"idle", "write", "check", "record", "discard", "ack", "retire"}, key : Key, rev : Nat]
  /\ tidy \in [at : {"done", "delete", "ack"}, todo : SUBSET Keys, key : Key]
  /\ act \in [Request -> [at : {"idle", "asked", "mounted", "commit", "rollback", "dispose", "attach"},
                          gen : Nat, key : Key]]
  /\ gens \in [Gens -> [state : {"free", "active", "retired", "gone", "broken"}, key : Key, turn : BOOLEAN]]
  /\ change \in [at : {"idle", "adopt", "reserve", "write", "check", "commit", "promote", "swap",
                       "remount", "abandon", "delete", "ack"},
                 gen : Nat, old : Key, key : Key, aborted : BOOLEAN]
  /\ task \in [Tasks -> [at : {"done", "drain", "retire", "list", "delete", "ack"}, gen : 0..MaxGens,
                         old : Key, todo : SUBSET Keys, key : Key]]
  /\ stopAt \in {"none", "bundle", "resolver", "settings"}
  /\ spent \in [keys : 0..MaxKeys, faults : 0..MaxFaults, starts : 0..MaxStarts,
                recorded : SUBSET Keys, committed : SUBSET Keys]

Init ==
  /\ config = [gen |-> 0, key |-> None]
  /\ ledger = [k \in Keys |-> NoEntry]
  /\ draft = [stage |-> "identity", rev |-> 1, key |-> None, staging |-> None, cleanup |-> {}]
  /\ vault = {} /\ session = FALSE
  /\ mode = "down" /\ boot = NoBoot
  /\ probe = NoProbe /\ tidy = NoTidy /\ act = [a \in Request |-> NoAct]
  /\ gens = [g \in Gens |-> NoGen] /\ change = NoChange
  /\ task = [t \in Tasks |-> NoTask] /\ stopAt = "none"
  /\ spent = [keys |-> 0, faults |-> 0, starts |-> 0, recorded |-> {}, committed |-> {}]

Fail == spent.faults < MaxFaults /\ spent' = [spent EXCEPT !.faults = @ + 1]
Fine == UNCHANGED spent

\* A vault write that fails may have written.
WriteFails(k) == Fail /\ vault' \in {vault, vault \cup {k}}

\* A file write throws after its rename: the caller sees a failure, the file is replaced.
RecordTorn(k) == spent.faults < MaxFaults /\ spent' = [spent EXCEPT !.faults = @ + 1, !.recorded = @ \cup {k}]
CommitTorn(k) == spent.faults < MaxFaults /\ spent' = [spent EXCEPT !.faults = @ + 1, !.committed = @ \cup {k}]

NewKey == spent.keys + 1

-----------------------------------------------------------------------------
(* The cleanup ledger: what each of its mutations requires and leaves.         *)

Pending == {k \in Keys : ledger[k].phase = "pending"}

Taken(k, gen) == \E j \in Keys \ {k} : ledger[j].phase = "active" /\ ledger[j].committed = gen

Phase(k, phase) == [ledger EXCEPT ![k].phase = phase]

MayPromote(k) == ledger[k].phase = "staged" /\ ~Taken(k, ledger[k].expected + 1)

Promoted(k) == [ledger EXCEPT ![k].phase = "active", ![k].committed = ledger[k].expected + 1]

MayAdopt(k, gen) ==
  \/ ledger[k].phase = "active"
  \/ ledger[k].phase = "staged" /\ ledger[k].expected = gen - 1
  \/ ledger[k].phase = "none" /\ ~Taken(k, gen)

Adopted(k, gen) ==
  IF ledger[k].phase = "active" THEN ledger
  ELSE [ledger EXCEPT ![k] = [phase |-> "active", expected |-> gen - 1, committed |-> gen]]

-----------------------------------------------------------------------------
(* The resolver's generations.                                                 *)

Serving == {g \in Gens : gens[g].state = "active"}
Free    == {g \in Gens : gens[g].state = "free"}
Awaited(g) == \E t \in Tasks : task[t].at = "drain" /\ task[t].gen = g

\* A retired generation without a turn is disposed of in a step of its own.
Retired == [g \in Gens |-> IF g \in Serving THEN [gens[g] EXCEPT !.state = "retired"] ELSE gens[g]]

Serve(k) ==
  /\ Free # {}
  /\ gens' = [Retired EXCEPT ![Min(Free)] = [state |-> "active", key |-> k, turn |-> FALSE]]

Degrade == gens' = Retired

ResolverOpen == stopAt \in {"none", "bundle"}

BeginTurn ==
  /\ mode = "operational"
  /\ \E g \in Serving : ~gens[g].turn /\ gens' = [gens EXCEPT ![g].turn = TRUE]
  /\ UNCHANGED <<files, mode, boot, probe, tidy, act, change, task, stopAt, spent>>

EndTurn ==
  /\ \E g \in Gens : gens[g].turn /\ gens' = [gens EXCEPT ![g].turn = FALSE]
  /\ UNCHANGED <<files, mode, boot, probe, tidy, act, change, task, stopAt, spent>>

\* The generation is disposed of; a disposal that fails rejects its drain.
Drained ==
  /\ \E g \in Gens :
       /\ gens[g].state = "retired" /\ ~gens[g].turn
       /\ \E broken \in BOOLEAN :
            /\ IF broken THEN Fail ELSE Fine
            /\ gens' = [gens EXCEPT ![g] = IF Awaited(g)
                                          THEN [@ EXCEPT !.state = IF broken THEN "broken" ELSE "gone"]
                                          ELSE NoGen]
  /\ UNCHANGED <<files, mode, boot, probe, tidy, act, change, task, stopAt>>

-----------------------------------------------------------------------------
(* The setup draft.  Bridge, voice and map evidence is one stage, "map".       *)

Alive == mode \notin {"down", "starting"}
Asked == mode = "setup"   \* the setup surface is attached

\* saveIdentity asks for the revision only.
SaveIdentity ==
  /\ Asked /\ draft.rev < MaxRevision
  /\ draft' = [draft EXCEPT !.stage = "model", !.rev = @ + 1]
  /\ UNCHANGED <<config, ledger, vault, session, procs, spent>>

\* probeModel to the lease: reserveModelCredential.
MayReserve == draft.stage = "model" /\ draft.key = None /\ draft.staging = None

Reserve ==
  /\ Asked /\ probe.at = "idle" /\ MayReserve
  /\ spent.keys < MaxKeys /\ spent' = [spent EXCEPT !.keys = @ + 1]
  /\ draft' = [draft EXCEPT !.staging = NewKey]
  /\ probe' = [at |-> "write", key |-> NewKey, rev |-> draft.rev]
  /\ UNCHANGED <<config, ledger, vault, session, mode, boot, tidy, act, gens, change, task, stopAt>>

ProbeOnly == UNCHANGED <<config, ledger, session, mode, boot, tidy, act, gens, change, task, stopAt>>

\* execute: a cancelled probe writes nothing, a failed write ends the probe.
ProbeWrite ==
  /\ Alive /\ probe.at = "write"
  /\ \/ Fine /\ vault' = vault \cup {probe.key} /\ probe' = [probe EXCEPT !.at = "check"]
     \/ Fine /\ UNCHANGED vault /\ probe' = [probe EXCEPT !.at = "discard"]
     \/ WriteFails(probe.key) /\ probe' = [probe EXCEPT !.at = "discard"]
  /\ ProbeOnly /\ UNCHANGED draft

\* The provider's answer, or the household's cancellation.
ProbeAnswer ==
  /\ Alive /\ probe.at = "check"
  /\ \E at \in {"record", "discard"} : probe' = [probe EXCEPT !.at = at]
  /\ ProbeOnly /\ UNCHANGED <<draft, vault, spent>>

MayRecord == draft.rev = probe.rev /\ draft.stage = "model" /\ draft.staging = probe.key

Accepted == [draft EXCEPT !.stage = "map", !.rev = @ + 1, !.key = probe.key, !.staging = None]

\* recordModelProbe; the later stages of the draft follow.  Whatever error ends it, the
\* staged key is discarded, also where the draft already names it.
Record ==
  /\ Alive /\ probe.at = "record"
  /\ \/ Fine /\ MayRecord /\ draft' = Accepted /\ probe' = NoProbe
     \/ Fine /\ ~MayRecord /\ UNCHANGED draft /\ probe' = [probe EXCEPT !.at = "discard"]
     \/ Fail /\ UNCHANGED draft /\ probe' = [probe EXCEPT !.at = "discard"]
     \/ RecordTorn(probe.key) /\ MayRecord /\ draft' = Accepted /\ probe' = [probe EXCEPT !.at = "discard"]
  /\ ProbeOnly /\ UNCHANGED vault

\* discardStagedModelCredential
Discard ==
  /\ Alive /\ probe.at = "discard"
  /\ \/ Fine /\ vault' = vault \ {probe.key} /\ probe' = [probe EXCEPT !.at = "ack"]
     \/ Fail /\ UNCHANGED vault /\ probe' = [probe EXCEPT !.at = "retire"]
  /\ ProbeOnly /\ UNCHANGED draft

DraftRetired ==
  [draft EXCEPT !.staging = None,
                !.cleanup = IF draft.staging \in {None, draft.key} THEN @ ELSE @ \cup {draft.staging}]

Acknowledge ==
  /\ Alive /\ probe.at \in {"ack", "retire"}
  /\ \/ Fine /\ probe' = NoProbe
        /\ draft' = IF probe.at = "ack" THEN [draft EXCEPT !.staging = None] ELSE DraftRetired
     \/ Fail /\ UNCHANGED draft
        /\ probe' = IF probe.at = "ack" THEN [probe EXCEPT !.at = "retire"] ELSE NoProbe
  /\ ProbeOnly /\ UNCHANGED vault

TidyOnly == UNCHANGED <<config, ledger, session, mode, boot, probe, act, gens, change, task, stopAt>>

\* sweepModelCredentialCleanup, from any setup request.
Sweep ==
  /\ Asked /\ tidy.at = "done" /\ draft.cleanup # {}
  /\ tidy' = [at |-> "delete", todo |-> draft.cleanup, key |-> None]
  /\ TidyOnly /\ UNCHANGED <<draft, vault, spent>>

SweepDelete ==
  /\ mode # "down" /\ tidy.at = "delete"
  /\ IF tidy.todo = {} THEN Fine /\ tidy' = NoTidy /\ UNCHANGED vault
     ELSE LET k == Min(tidy.todo) IN
          \/ Fine /\ vault' = vault \ {k} /\ tidy' = [at |-> "ack", todo |-> tidy.todo \ {k}, key |-> k]
          \/ Fail /\ UNCHANGED vault /\ tidy' = [tidy EXCEPT !.todo = @ \ {k}]
  /\ TidyOnly /\ UNCHANGED draft

SweepAck ==
  /\ mode # "down" /\ tidy.at = "ack"
  /\ draft' = [draft EXCEPT !.cleanup = @ \ {tidy.key}]
  /\ tidy' = [tidy EXCEPT !.at = "delete", !.key = None]
  /\ TidyOnly /\ UNCHANGED <<vault, spent>>

-----------------------------------------------------------------------------
(* Activation: mount, session, commit, attach; or the way back.                *)

Activating == \E a \in Request : act[a].at \in {"mounted", "commit", "rollback", "dispose"}

Go(a, at) == act' = [act EXCEPT ![a] = IF at = "idle" THEN NoAct ELSE [@ EXCEPT !.at = at]]

ActOnly == UNCHANGED <<ledger, draft, vault, boot, probe, tidy, change, task, stopAt>>

\* activationCandidate, then the generation of the stored configuration.
Ask(a) ==
  /\ Asked /\ act[a].at = "idle"
  /\ draft.stage = "map" /\ draft.staging = None
  /\ act' = [act EXCEPT ![a] = [at |-> "asked", gen |-> config.gen, key |-> draft.key]]
  /\ ActOnly /\ UNCHANGED <<config, session, mode, gens, spent>>

\* A model that cannot be prepared leaves the resolver alone; a product that cannot be
\* mounted degrades it; what fails between the two leaves the candidate serving.
Mount(a) ==
  /\ Alive /\ act[a].at = "asked"
  /\ IF Activating \/ ~ResolverOpen THEN Fine /\ Go(a, "idle") /\ UNCHANGED gens
     ELSE \/ Fine /\ Serve(act[a].key) /\ Go(a, "mounted")
          \/ Fail /\ Go(a, "idle") /\ (Serve(act[a].key) \/ gens' \in {gens, Retired})
  /\ ActOnly /\ UNCHANGED <<config, session, mode>>

\* create: the session file must not exist; one that cannot be written may not go away.
CreateSession(a) ==
  /\ Alive /\ act[a].at = "mounted"
  /\ \/ Fine /\ session' = TRUE /\ Go(a, IF session THEN "dispose" ELSE "commit")
     \/ Fail /\ session' \in {session, TRUE} /\ Go(a, "dispose")
  /\ ActOnly /\ UNCHANGED <<config, mode, gens>>

Stored(key) == [gen |-> config.gen + 1, key |-> key]

Commit(a) ==
  /\ Alive /\ act[a].at = "commit"
  /\ \/ Fine /\ config.gen = act[a].gen /\ config' = Stored(act[a].key) /\ Go(a, "attach")
     \/ Fine /\ config.gen # act[a].gen /\ UNCHANGED config /\ Go(a, "rollback")
     \/ Fail /\ UNCHANGED config /\ Go(a, "rollback")
     \/ CommitTorn(act[a].key) /\ config.gen = act[a].gen /\ config' = Stored(act[a].key) /\ Go(a, "rollback")
  /\ ActOnly /\ UNCHANGED <<session, mode, gens>>

\* The attempt's own session is removed.
Rollback(a) ==
  /\ Alive /\ act[a].at = "rollback"
  /\ \/ Fine /\ session' = FALSE
     \/ Fail /\ UNCHANGED session
  /\ Go(a, "dispose") /\ ActOnly /\ UNCHANGED <<config, mode, gens>>

Dispose(a) ==
  /\ Alive /\ act[a].at = "dispose"
  /\ IF ResolverOpen THEN Degrade ELSE UNCHANGED gens
  /\ Go(a, "idle") /\ ActOnly /\ UNCHANGED <<config, session, mode, spent>>

\* Mutant: an attachment that fails is taken for an activation that failed.
AttachOrRollBack(a) ==
  /\ Alive /\ act[a].at = "attach"
  /\ \/ mode = "setup" /\ mode' = "operational" /\ Fine /\ Go(a, "idle")
     \/ mode = "setup" /\ Fail /\ UNCHANGED mode /\ Go(a, "rollback")
  /\ ActOnly /\ UNCHANGED <<config, session, gens>>

\* finishActivation: an attachment that fails is followed by a mount of what was stored,
\* degraded where its model cannot be prepared; that mount may fail as well.
Attach(a) ==
  /\ Alive /\ act[a].at = "attach"
  /\ \/ mode = "setup" /\ mode' = "operational" /\ Fine /\ UNCHANGED gens
     \/ mode = "setup" /\ Fail /\ mode' \in {mode, "operational"} /\ (Serve(config.key) \/ Degrade)
     \/ mode # "setup" /\ Fine /\ UNCHANGED <<mode, gens>>
  /\ Go(a, "idle") /\ ActOnly /\ UNCHANGED <<config, session>>

-----------------------------------------------------------------------------
(* A settings change, and a retry of the stored model.                         *)

Step(at)  == change' = [change EXCEPT !.at = at]
Settle    == change' = NoChange
ChangeOnly == UNCHANGED <<draft, session, mode, boot, probe, tidy, act, stopAt>>

Configure ==
  /\ mode = "operational" /\ change.at = "idle"
  /\ change' = [NoChange EXCEPT !.at = "adopt", !.gen = config.gen, !.old = config.key]
  /\ ChangeOnly /\ UNCHANGED <<config, ledger, vault, gens, task, spent>>

\* The household's task, or closeAndDrain, aborts the signal.
Cancel ==
  /\ mode = "operational" /\ change.at # "idle"
  /\ change' = [change EXCEPT !.aborted = TRUE]
  /\ ChangeOnly /\ UNCHANGED <<config, ledger, vault, gens, task, spent>>

AdoptCurrent ==
  /\ Alive /\ change.at = "adopt"
  /\ \/ Fine /\ MayAdopt(change.old, change.gen)
        /\ ledger' = Adopted(change.old, change.gen) /\ Step("reserve")
     \/ Fine /\ ~MayAdopt(change.old, change.gen) /\ UNCHANGED ledger /\ Settle
     \/ Fail /\ UNCHANGED ledger /\ Settle
  /\ ChangeOnly /\ UNCHANGED <<config, vault, gens, task>>

\* The entry is on disk before the vault is written.
ReserveKey ==
  /\ Alive /\ change.at = "reserve"
  /\ \/ change.aborted /\ Fine /\ Settle /\ UNCHANGED ledger
     \/ /\ ~change.aborted /\ spent.keys < MaxKeys
        /\ spent' = [spent EXCEPT !.keys = @ + 1]
        /\ ledger' = [ledger EXCEPT ![NewKey] = [phase |-> "staged", expected |-> change.gen, committed |-> 0]]
        /\ change' = [change EXCEPT !.at = "write", !.key = NewKey]
     \/ Settle /\ Fail /\ UNCHANGED ledger
  /\ ChangeOnly /\ UNCHANGED <<config, vault, gens, task>>

WriteKey ==
  /\ Alive /\ change.at = "write"
  /\ \/ Fine /\ ~change.aborted /\ vault' = vault \cup {change.key} /\ Step("check")
     \/ Fine /\ change.aborted /\ UNCHANGED vault /\ Step("abandon")
     \/ ~change.aborted /\ WriteFails(change.key) /\ Step("abandon")
  /\ ChangeOnly /\ UNCHANGED <<config, ledger, gens, task>>

\* The probe, and the preparation of a runtime generation; an abort ends both.
Check ==
  /\ Alive /\ change.at = "check"
  /\ \E at \in IF change.aborted THEN {"abandon"} ELSE {"commit", "abandon"} : Step(at)
  /\ ChangeOnly /\ UNCHANGED <<config, ledger, vault, gens, task, spent>>

CommitModel ==
  /\ Alive /\ change.at = "commit"
  /\ \/ Fine /\ config.gen = change.gen /\ config' = Stored(change.key) /\ Step("promote")
     \/ Fine /\ config.gen # change.gen /\ UNCHANGED config /\ Step("abandon")
     \/ Fail /\ UNCHANGED config /\ Step("abandon")
     \/ CommitTorn(change.key) /\ config.gen = change.gen /\ config' = Stored(change.key) /\ Step("abandon")
  /\ ChangeOnly /\ UNCHANGED <<ledger, vault, gens, task>>

\* Mutant: a promotion that fails is taken for a change that failed.
PromoteOrAbandon ==
  /\ Alive /\ change.at = "promote"
  /\ \/ Fine /\ MayPromote(change.key) /\ ledger' = Promoted(change.key) /\ Step("swap")
     \/ Fail /\ UNCHANGED ledger /\ Step("abandon")
  /\ ChangeOnly /\ UNCHANGED <<config, vault, gens, task>>

\* markCommitted, or else adoptCommitted, or else the next start.
Promote ==
  /\ Alive /\ change.at = "promote" /\ Step("swap")
  /\ \/ Fine /\ MayPromote(change.key) /\ ledger' = Promoted(change.key)
     \/ Fine /\ ~MayPromote(change.key) /\ MayAdopt(change.key, change.gen + 1)
        /\ ledger' = Adopted(change.key, change.gen + 1)
     \/ Fail /\ UNCHANGED ledger
  /\ ChangeOnly /\ UNCHANGED <<config, vault, gens, task>>

\* The generation that served until now, 0 where there was none, and what waits for it.
Predecessor == IF Serving = {} THEN 0 ELSE Min(Serving)

Await(old) ==
  LET slots == {t \in 1..MaxTasks : task[t].at = "done"} IN
  /\ slots # {}
  /\ task' = [task EXCEPT ![Min(slots)] =
                [NoTask EXCEPT !.at = "drain", !.gen = Predecessor, !.old = old]]

Swap ==
  /\ Alive /\ change.at = "swap" /\ Settle
  /\ IF mode = "stopping" /\ change.aborted
     THEN UNCHANGED <<gens, task>>
     ELSE Serve(change.key) /\ Await(change.old)
  /\ ChangeOnly /\ UNCHANGED <<config, ledger, vault, spent>>

Abandon ==
  /\ Alive /\ change.at = "abandon"
  /\ \/ Fine /\ ledger' = Phase(change.key, "pending") /\ Step("delete")
     \/ Fail /\ UNCHANGED ledger /\ Settle
  /\ ChangeOnly /\ UNCHANGED <<config, vault, gens, task>>

\* Mutant: the entry is acknowledged although its key could not be deleted.
AcksAnyway ==
  /\ Alive /\ change.at = "delete" /\ Step("ack")
  /\ \/ Fine /\ vault' = vault \ {change.key}
     \/ Fail /\ UNCHANGED vault
  /\ ChangeOnly /\ UNCHANGED <<config, ledger, gens, task>>

AbandonDelete ==
  /\ Alive /\ change.at = "delete"
  /\ \/ Fine /\ vault' = vault \ {change.key} /\ Step("ack")
     \/ Fail /\ UNCHANGED vault /\ Settle
  /\ ChangeOnly /\ UNCHANGED <<config, ledger, gens, task>>

AbandonAck ==
  /\ Alive /\ change.at = "ack" /\ Settle
  /\ ledger' = [ledger EXCEPT ![change.key] = NoEntry]
  /\ ChangeOnly /\ UNCHANGED <<config, vault, gens, task, spent>>

Retry ==
  /\ mode = "operational" /\ change.at = "idle"
  /\ change' = [NoChange EXCEPT !.at = "remount", !.key = config.key]
  /\ ChangeOnly /\ UNCHANGED <<config, ledger, vault, gens, task, spent>>

\* The old generation drains; its key stays.
Remount ==
  /\ Alive /\ change.at = "remount" /\ Settle
  /\ \/ ~change.aborted /\ Serve(change.key) /\ Await(None)
     \/ UNCHANGED <<gens, task>>
  /\ ChangeOnly /\ UNCHANGED <<config, ledger, vault, spent>>

-----------------------------------------------------------------------------
(* Retirements: wait for the drain, retire the replaced key, then sweep every  *)
(* key that is pending but the configured one.                                 *)

TaskOnly == UNCHANGED <<config, draft, session, mode, boot, probe, tidy, act, change, stopAt>>

To(t, at) == task' = [task EXCEPT ![t].at = at]

Settled(t) == task[t].gen # 0 => gens[task[t].gen].state \in {"gone", "broken"}

AfterDrain(t) ==
  /\ mode # "down" /\ task[t].at = "drain" /\ Settled(t)
  /\ IF task[t].gen = 0 THEN UNCHANGED gens ELSE gens' = [gens EXCEPT ![task[t].gen] = NoGen]
  /\ IF task[t].old = None \/ (task[t].gen # 0 /\ gens[task[t].gen].state = "broken")
     THEN task' = [task EXCEPT ![t] = NoTask]
     ELSE task' = [task EXCEPT ![t].at = "retire", ![t].gen = 0]
  /\ TaskOnly /\ UNCHANGED <<ledger, vault, spent>>

Retire(t) ==
  /\ mode # "down" /\ task[t].at = "retire"
  /\ LET k == task[t].old IN
     \/ Fine /\ To(t, "list")
        /\ ledger' = IF ledger[k].phase = "active" THEN Phase(k, "pending") ELSE ledger
     \/ Fail /\ task' = [task EXCEPT ![t] = NoTask] /\ UNCHANGED ledger
  /\ TaskOnly /\ UNCHANGED <<vault, gens>>

List(t) ==
  /\ mode # "down" /\ task[t].at = "list"
  /\ task' = [task EXCEPT ![t] = [NoTask EXCEPT !.at = "delete", !.todo = Pending \ {config.key}]]
  /\ TaskOnly /\ UNCHANGED <<ledger, vault, gens, spent>>

\* markCleanupAttempt refuses an entry another sweep has acknowledged.
Delete(t) ==
  /\ mode # "down" /\ task[t].at = "delete"
  /\ IF task[t].todo = {} THEN Fine /\ task' = [task EXCEPT ![t] = NoTask] /\ UNCHANGED vault
     ELSE LET k    == Min(task[t].todo)
              skip == task' = [task EXCEPT ![t].todo = @ \ {k}] /\ UNCHANGED vault
          IN \/ ledger[k].phase # "pending" /\ Fine /\ skip
             \/ ledger[k].phase = "pending" /\ Fail /\ skip
             \/ ledger[k].phase = "pending" /\ Fine /\ vault' = vault \ {k}
                /\ task' = [task EXCEPT ![t].at = "ack", ![t].key = k, ![t].todo = @ \ {k}]
  /\ TaskOnly /\ UNCHANGED <<ledger, gens>>

Ack(t) ==
  /\ mode # "down" /\ task[t].at = "ack"
  /\ LET k == task[t].key IN
     ledger' = IF ledger[k].phase = "pending" THEN [ledger EXCEPT ![k] = NoEntry] ELSE ledger
  /\ task' = [task EXCEPT ![t].at = "delete", ![t].key = None]
  /\ TaskOnly /\ UNCHANGED <<vault, gens, spent>>

-----------------------------------------------------------------------------
(* The process: start with its recovery, other commits, stop, crash.           *)

BootOnly == UNCHANGED <<config, vault, probe, act, change, stopAt>>

Start ==
  /\ mode = "down" /\ spent.starts < MaxStarts
  /\ spent' = [spent EXCEPT !.starts = @ + 1]
  /\ mode' = "starting" /\ boot' = [at |-> "adopt", todo |-> {}]
  /\ BootOnly /\ UNCHANGED <<ledger, draft, session, tidy, gens, task>>

\* Mutant: a start adopts the stored key for the generation that follows.
AdoptsForNext ==
  /\ boot.at = "adopt"
  /\ LET k == config.key IN
     ledger' = IF k # None /\ MayAdopt(k, config.gen + 1) THEN Adopted(k, config.gen + 1) ELSE ledger
  /\ boot' = [at |-> "entries", todo |-> {k \in Keys : ledger'[k].phase # "none"}]
  /\ BootOnly /\ UNCHANGED <<draft, session, mode, tidy, gens, task, spent>>

BootAdopt ==
  /\ boot.at = "adopt"
  /\ LET k == config.key IN
     ledger' = IF k # None /\ MayAdopt(k, config.gen) THEN Adopted(k, config.gen) ELSE ledger
  /\ boot' = [at |-> "entries", todo |-> {k \in Keys : ledger'[k].phase # "none"}]
  /\ BootOnly /\ UNCHANGED <<draft, session, mode, tidy, gens, task, spent>>

Reconciled(k) ==
  CASE ledger[k].phase = "staged" /\ k = config.key -> IF MayPromote(k) THEN Promoted(k) ELSE ledger
    [] ledger[k].phase \in {"staged", "active"} /\ k # config.key -> Phase(k, "pending")
    [] OTHER -> ledger

BootEntry ==
  /\ boot.at = "entries" /\ boot.todo # {}
  /\ LET k == Min(boot.todo) IN
     /\ boot' = [boot EXCEPT !.todo = @ \ {k}]
     /\ \/ Fine /\ ledger' = Reconciled(k)
        \/ Fail /\ UNCHANGED ledger
  /\ BootOnly /\ UNCHANGED <<draft, session, mode, tidy, gens, task>>

BootSweep ==
  /\ boot.at = "entries" /\ boot.todo = {}
  /\ boot' = [boot EXCEPT !.at = "sweep"] /\ task' = [task EXCEPT ![0] = [NoTask EXCEPT !.at = "list"]]
  /\ BootOnly /\ UNCHANGED <<ledger, draft, session, mode, tidy, gens, spent>>

\* recoverModelCredentialStaging, then the draft's sweep.
BootDraft ==
  /\ boot.at = "sweep" /\ task[0].at = "done"
  /\ boot' = [boot EXCEPT !.at = "tidy"]
  /\ draft' = DraftRetired
  /\ tidy' = [at |-> "delete", todo |-> DraftRetired.cleanup, key |-> None]
  /\ BootOnly /\ UNCHANGED <<ledger, session, mode, gens, task, spent>>

\* Without a configuration a session left behind goes; with one, a model that cannot be
\* prepared starts degraded.
BootSurface ==
  /\ boot.at = "tidy" /\ tidy.at = "done" /\ boot' = NoBoot
  /\ IF config.key = None
     THEN mode' = "setup" /\ session' = FALSE /\ Fine /\ UNCHANGED gens
     ELSE /\ mode' = "operational" /\ UNCHANGED session
          /\ \/ Fine /\ Serve(config.key)
             \/ Fail /\ UNCHANGED gens
  /\ BootOnly /\ UNCHANGED <<ledger, draft, tidy, task>>

\* Another setting is committed: the generation advances under the same key.  The budget
\* of faults bounds it too.
CommitVoice ==
  /\ mode = "operational" /\ Fail
  /\ config' = Stored(config.key)
  /\ UNCHANGED <<ledger, draft, vault, session, procs>>

Ended ==
  /\ mode' = "down" /\ boot' = NoBoot /\ probe' = NoProbe /\ tidy' = NoTidy
  /\ act' = [a \in Request |-> NoAct] /\ gens' = [g \in Gens |-> NoGen] /\ change' = NoChange
  /\ task' = [t \in Tasks |-> NoTask] /\ stopAt' = "none"
  /\ UNCHANGED <<files, spent>>

\* Mutant: the settings are awaited before the product ends its turns.
AwaitsSettingsFirst ==
  /\ mode \in {"setup", "operational"}
  /\ mode' = "stopping" /\ stopAt' = "settings"
  /\ change' = IF change.at = "idle" THEN change ELSE [change EXCEPT !.aborted = TRUE]
  /\ UNCHANGED <<files, boot, probe, tidy, act, gens, task, spent>>

\* closeAndDrain closes the settings and aborts what is under way, and is awaited last.
Stop ==
  /\ mode \in {"setup", "operational"}
  /\ mode' = "stopping" /\ stopAt' = "bundle"
  /\ change' = IF change.at = "idle" THEN change ELSE [change EXCEPT !.aborted = TRUE]
  /\ UNCHANGED <<files, boot, probe, tidy, act, gens, task, spent>>

\* The product ends its turns; then the resolver closes and retires what still serves.
StopBundle ==
  /\ stopAt = "bundle" /\ stopAt' = "resolver"
  /\ gens' = [g \in Gens |-> [Retired[g] EXCEPT !.turn = FALSE]]
  /\ UNCHANGED <<files, mode, boot, probe, tidy, act, change, task, spent>>

StopResolver ==
  /\ stopAt = "resolver" /\ \A g \in Gens : gens[g].state # "retired"
  /\ stopAt' = "settings"
  /\ UNCHANGED <<files, mode, boot, probe, tidy, act, gens, change, task, spent>>

StopSettings ==
  /\ stopAt = "settings" /\ change.at = "idle" /\ \A t \in Tasks : task[t].at = "done"
  /\ Ended

Crash == mode # "down" /\ Ended

DraftStep  == \/ SaveIdentity \/ Reserve \/ ProbeWrite \/ ProbeAnswer \/ Record \/ Discard \/ Acknowledge
              \/ Sweep \/ SweepDelete \/ SweepAck
Activate(a) == \/ Ask(a) \/ Mount(a) \/ CreateSession(a) \/ Commit(a) \/ Rollback(a) \/ Dispose(a)
               \/ Attach(a)
Ongoing    == \/ AdoptCurrent \/ ReserveKey \/ WriteKey \/ Check \/ CommitModel \/ Promote \/ Swap
              \/ Abandon \/ AbandonDelete \/ AbandonAck \/ Remount
Settings   == Configure \/ Retry \/ Cancel \/ Ongoing
Retirement(t) == AfterDrain(t) \/ Retire(t) \/ List(t) \/ Delete(t) \/ Ack(t)
Resolver   == BeginTurn \/ EndTurn \/ Drained
Boot       == Start \/ BootAdopt \/ BootEntry \/ BootSweep \/ BootDraft \/ BootSurface
Stopping   == StopBundle \/ StopResolver \/ StopSettings

Next ==
  \/ DraftStep \/ Settings \/ Resolver \/ Boot \/ CommitVoice \/ Stop \/ Stopping \/ Crash
  \/ \E a \in Request : Activate(a)
  \/ \E t \in Tasks : Retirement(t)

Spec == Init /\ [][Next]_vars

\* Once a stop is under way a settings change runs on, a disposal is carried out and
\* the stop proceeds; a turn may hang.
Fairness ==
  /\ WF_vars(mode = "stopping" /\ Ongoing) /\ WF_vars(mode = "stopping" /\ Drained)
  /\ WF_vars(Stopping) /\ WF_vars(mode = "stopping" /\ \E t \in Tasks : Retirement(t))

FairSpec == Spec /\ Fairness

-----------------------------------------------------------------------------

\* The keys whose caller took a write for failed and discards the key it had stored.
Forfeit == spent.recorded \cup (spent.committed \ {draft.key})

\* An activation mounted after another one was committed and its key replaced.
Outdated(g) == gens[g].key = draft.key /\ config.key \notin {None, draft.key}

\* The key the stored configuration names, and the key of the generation that serves new
\* turns, are in the vault: no discard, abandonment, sweep, retirement or recovery takes
\* them.  Two things can: the throw after a rename, for the very key of that write, and a
\* second activation that is mounted after the settings have replaced the draft's key.
KeysInForceKept ==
  /\ config.key # None => config.key \in vault \cup Forfeit
  /\ \A g \in Serving : gens[g].key \in vault \cup Forfeit \/ Outdated(g)

\* A key in the vault is the configuration's or stands in a record that some sweep works
\* through; the draft's evidence is such a record until a configuration is stored.
NoOrphanKey ==
  \A k \in vault :
    \/ k = config.key \/ ledger[k].phase # "none" \/ k \in draft.cleanup \/ k = draft.staging
    \/ config.key = None /\ k = draft.key

\* The ledger is refused whole when two active entries carry one generation.
LedgerLoads == \A k \in Keys : ledger[k].phase = "active" => ~Taken(k, ledger[k].committed)

\* Where a configuration is stored there is a session file: a lost browser token is
\* replaced through the recovery code, which rotates that file and cannot create it.  The
\* one way to lose it is an activation whose commit throws after its rename.
HouseholdCanReturn == config.key # None => session \/ draft.key \in spent.committed

\* A stop comes to its end although a turn hangs and a change is under way.
StopEnds == mode = "stopping" ~> mode = "down"

=============================================================================
