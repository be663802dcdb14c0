------------------------ MODULE ModelCredentialsProofs ------------------------
(***************************************************************************)
(* Theorems about ModelCredentials, for any number of activation requests, *)
(* keys, generations and retirements and any bounds on failures, starts    *)
(* and commits.                                                            *)
(***************************************************************************)
EXTENDS ModelCredentials, TLAPS, NaturalsInduction, WellFoundedInduction

(***************************************************************************)
(* Typing                                                                  *)
(***************************************************************************)

(* The keys handed out so far: a name is never used twice.                   *)
Used == 1..spent.keys \cup {None}

Entry == [phase : {"none", "staged", "active", "pending"}, expected : Int, committed : Int]
Names == Nat \cup {None}
Spending == [keys : Nat, faults : Nat, starts : Nat, recorded : SUBSET Names, committed : SUBSET Names]
ProbeAt == {"idle", "write", "check", "record", "discard", "ack", "retire"}
ActAt == {"idle", "asked", "mounted", "commit", "rollback", "dispose", "attach"}
ChangeAt == {"idle", "adopt", "reserve", "write", "check", "commit", "promote", "swap",
             "remount", "abandon", "delete", "ack"}

DraftOver(U) == [stage : {"identity", "model", "map"}, rev : Nat, key : U, staging : U,
                 cleanup : SUBSET Nat]
ProbeOver(U) == [at : ProbeAt, key : U, rev : Nat]
ActOver(U) == [at : ActAt, gen : Nat, key : U]
ChangeOver(U) == [at : ChangeAt, gen : Nat, old : U, key : U, aborted : BOOLEAN]

SpentTyped  == spent \in Spending
ConfigTyped == config \in [gen : Nat, key : Used]
LedgerTyped == ledger \in [Keys -> Entry]
DraftTyped  == draft \in DraftOver(Used)
ProbeTyped  == probe \in ProbeOver(Used)
ActTyped    == act \in [Request -> ActOver(Used)]
ChangeTyped == change \in ChangeOver(Used)

Typed == /\ SpentTyped /\ ConfigTyped /\ LedgerTyped
         /\ DraftTyped /\ ProbeTyped /\ ActTyped /\ ChangeTyped

(* A key once handed out stays known. *)
LEMMA Growing ==
  ASSUME Typed, SpentTyped', spent'.keys \in {spent.keys, NewKey}
  PROVE  /\ Used \subseteq Used'
         /\ UNCHANGED config => ConfigTyped'
         /\ UNCHANGED draft => DraftTyped'
         /\ UNCHANGED probe => ProbeTyped'
         /\ UNCHANGED act => ActTyped'
         /\ UNCHANGED change => ChangeTyped'
<1>1. Used \subseteq Used'
  BY DEF Typed, SpentTyped, Spending, Used, NewKey
<1> HIDE DEF Used
<1>2. UNCHANGED config => ConfigTyped'
  BY <1>1 DEF Typed, ConfigTyped
<1>3. UNCHANGED draft => DraftTyped'
  BY <1>1 DEF Typed, DraftTyped, DraftOver
<1>4. UNCHANGED probe => ProbeTyped'
  BY <1>1 DEF Typed, ProbeTyped, ProbeOver
<1>5. UNCHANGED act => ActTyped'
  BY <1>1 DEF Typed, ActTyped, ActOver
<1>6. UNCHANGED change => ChangeTyped'
  BY <1>1 DEF Typed, ChangeTyped, ChangeOver
<1> QED BY <1>1, <1>2, <1>3, <1>4, <1>5, <1>6

(* What a step may spend without naming a key. *)
LEMMA Spent ==
  ASSUME SpentTyped, Fail \/ Fine \/ spent' = [spent EXCEPT !.starts = @ + 1]
                       \/ \E k \in Names : RecordTorn(k) \/ CommitTorn(k)
  PROVE  SpentTyped' /\ spent'.keys = spent.keys
<1>1. CASE Fail \/ Fine \/ spent' = [spent EXCEPT !.starts = @ + 1]
  BY <1>1 DEF SpentTyped, Spending, Fail, Fine
<1>2. CASE \E k \in Names : RecordTorn(k) \/ CommitTorn(k)
  <2>1. PICK k \in Names : RecordTorn(k) \/ CommitTorn(k)
    BY <1>2
  <2>2. CASE RecordTorn(k)
    <3>1. spent' = [spent EXCEPT !.faults = @ + 1, !.recorded = @ \cup {k}]
      BY <2>2 DEF RecordTorn
    <3>2. spent.faults + 1 \in Nat /\ spent.recorded \cup {k} \in SUBSET Names
      BY DEF SpentTyped, Spending
    <3> QED BY <3>1, <3>2 DEF SpentTyped, Spending
  <2>3. CASE CommitTorn(k)
    <3>1. spent' = [spent EXCEPT !.faults = @ + 1, !.committed = @ \cup {k}]
      BY <2>3 DEF CommitTorn
    <3>2. spent.faults + 1 \in Nat /\ spent.committed \cup {k} \in SUBSET Names
      BY DEF SpentTyped, Spending
    <3> QED BY <3>1, <3>2 DEF SpentTyped, Spending
  <2> QED BY <2>1, <2>2, <2>3
<1> QED BY <1>1, <1>2

(* Naming one. *)
LEMMA Named ==
  ASSUME SpentTyped, spent' = [spent EXCEPT !.keys = @ + 1]
  PROVE  SpentTyped' /\ spent'.keys = NewKey /\ NewKey \in Used'
  BY DEF SpentTyped, Spending, NewKey, Used

(* A key that a call holds is a name. *)
LEMMA UsedNames == SpentTyped => Used \subseteq Names
  BY DEF SpentTyped, Spending, Used, Names

(* The same names are known after a step that names none. *)
LEMMA SameUsed == spent'.keys = spent.keys => Used' = Used
  BY DEF Used

(* Only the entry of k is written. *)
Entered(k) ==
  /\ DOMAIN ledger' = Keys
  /\ \A j \in Keys \ {k} : ledger'[j] = ledger[j]
  /\ ledger' = [j \in Keys |-> ledger'[j]]

(* What each way of writing the ledger does to it. *)
LEMMA PhaseEffect ==
  ASSUME LedgerTyped, NEW k, NEW p \in {"none", "staged", "active", "pending"}, ledger' = Phase(k, p)
  PROVE  Entered(k) /\ (k \in Keys => ledger'[k] = [phase |-> p, expected |-> ledger[k].expected,
                                                   committed |-> ledger[k].committed])
  BY DEF LedgerTyped, Phase, Entry, Entered

(* A promotion. *)
LEMMA PromotedEffect ==
  ASSUME LedgerTyped, NEW k, ledger' = Promoted(k)
  PROVE  Entered(k) /\ (k \in Keys => ledger'[k] = [phase |-> "active", expected |-> ledger[k].expected,
                                                   committed |-> ledger[k].expected + 1])
  BY DEF LedgerTyped, Promoted, Entry, Entered

(* An adoption. *)
LEMMA AdoptedEffect ==
  ASSUME LedgerTyped, NEW k, NEW g, ledger' = Adopted(k, g)
  PROVE  \/ UNCHANGED ledger
         \/ /\ Entered(k) /\ ledger[k].phase # "active"
            /\ k \in Keys => ledger'[k] = [phase |-> "active", expected |-> g - 1, committed |-> g]
  BY DEF LedgerTyped, Adopted, Entry, Entered

(* An entry written anew, or removed. *)
LEMMA EntryEffect ==
  ASSUME LedgerTyped, NEW k, NEW e, ledger' = [ledger EXCEPT ![k] = e]
  PROVE  Entered(k) /\ (k \in Keys => ledger'[k] = e)
  BY DEF LedgerTyped, Entry, Entered

(* They keep its type. *)
LEMMA LedgerKept ==
  ASSUME LedgerTyped, NEW k, Entered(k), k \in Keys => ledger'[k] \in Entry
  PROVE  LedgerTyped'
  BY DEF LedgerTyped, Entered

(* The steps that write one entry. *)
LEMMA LedgerTypes ==
  ASSUME LedgerTyped, NEW k, NEW g \in Int,
         \/ UNCHANGED ledger
         \/ ledger' = Phase(k, "pending")
         \/ ledger' = Promoted(k)
         \/ ledger' = Adopted(k, g)
         \/ ledger' = [ledger EXCEPT ![k] = NoEntry]
         \/ ledger' = [ledger EXCEPT ![k] = [phase |-> "staged", expected |-> g, committed |-> 0]]
  PROVE  LedgerTyped'
<1>e. k \in Keys => ledger[k].expected \in Int /\ ledger[k].committed \in Int
  BY DEF LedgerTyped, Entry
<1>1. CASE UNCHANGED ledger
  BY <1>1 DEF LedgerTyped
<1>2. CASE ledger' = Phase(k, "pending")
  <2>1. Entered(k) /\ (k \in Keys => ledger'[k] = [phase |-> "pending", expected |-> ledger[k].expected,
                                               committed |-> ledger[k].committed])
    BY <1>2, PhaseEffect
  <2>2. k \in Keys => ledger'[k] \in Entry
    BY <2>1, <1>e DEF Entry
  <2> QED BY <2>1, <2>2, LedgerKept
<1>3. CASE ledger' = Promoted(k)
  <2>1. Entered(k) /\ (k \in Keys => ledger'[k] = [phase |-> "active", expected |-> ledger[k].expected,
                                               committed |-> ledger[k].expected + 1])
    BY <1>3, PromotedEffect
  <2>2. k \in Keys => ledger'[k] \in Entry
    BY <2>1, <1>e DEF Entry
  <2> QED BY <2>1, <2>2, LedgerKept
<1>4. CASE ledger' = Adopted(k, g)
  <2>1. CASE Entered(k) /\ (k \in Keys => ledger'[k] = [phase |-> "active", expected |-> g - 1, committed |-> g])
    <3>1. k \in Keys => ledger'[k] \in Entry
      BY <2>1 DEF Entry
    <3> QED BY <2>1, <3>1, LedgerKept
  <2> QED BY <1>1, <1>4, <2>1, AdoptedEffect
<1>5. CASE ledger' = [ledger EXCEPT ![k] = NoEntry]
  <2>1. Entered(k) /\ (k \in Keys => ledger'[k] = NoEntry)
    BY <1>5, EntryEffect
  <2>2. k \in Keys => ledger'[k] \in Entry
    BY <2>1, <1>e DEF NoEntry, Entry
  <2> QED BY <2>1, <2>2, LedgerKept
<1>6. CASE ledger' = [ledger EXCEPT ![k] = [phase |-> "staged", expected |-> g, committed |-> 0]]
  <2>1. Entered(k) /\ (k \in Keys => ledger'[k] = [phase |-> "staged", expected |-> g, committed |-> 0])
    BY <1>6, EntryEffect
  <2>2. k \in Keys => ledger'[k] \in Entry
    BY <2>1, <1>e DEF Entry
  <2> QED BY <2>1, <2>2, LedgerKept
<1> QED BY <1>1, <1>2, <1>3, <1>4, <1>5, <1>6

(* A step that names no key. *)
Keyless == SpentTyped' /\ spent'.keys = spent.keys

(* Failing, going on, starting and settling other matters name none. *)
LEMMA KeylessSpends ==
  ASSUME SpentTyped,
         \/ Fail \/ Fine \/ spent' = [spent EXCEPT !.starts = @ + 1]
         \/ \E k \in Names : RecordTorn(k) \/ CommitTorn(k)
  PROVE  Keyless
  BY Spent DEF Keyless

(* Of such a step only what it writes is left to type. *)
LEMMA KeylessTypes ==
  ASSUME Typed, Keyless
  PROVE  /\ Used' = Used
         /\ UNCHANGED config => ConfigTyped'
         /\ UNCHANGED ledger => LedgerTyped'
         /\ UNCHANGED draft => DraftTyped'
         /\ UNCHANGED probe => ProbeTyped'
         /\ UNCHANGED act => ActTyped'
         /\ UNCHANGED change => ChangeTyped'
<1>1. Used' = Used
  BY SameUsed DEF Keyless
<1>2. UNCHANGED ledger => LedgerTyped'
  BY DEF Typed, LedgerTyped
<1> QED BY <1>1, <1>2, Growing DEF Typed, Keyless

(* A draft whose staged key is retired. *)
LEMMA RetiredTyped ==
  ASSUME DraftTyped, SpentTyped
  PROVE  DraftRetired \in DraftOver(Used)
<1>1. None \in Used /\ (draft.staging # None => draft.staging \in Nat)
  BY DEF DraftTyped, DraftOver, Used, SpentTyped, Spending
<1>2. draft.cleanup \in SUBSET Nat
  BY DEF DraftTyped, DraftOver
<1>3. ASSUME NEW d \in SUBSET Nat PROVE [draft EXCEPT !.staging = None, !.cleanup = d] \in DraftOver(Used)
  BY <1>1, <1>3 DEF DraftTyped, DraftOver
<1>4. CASE draft.staging \in {None, draft.key}
  BY <1>2, <1>3, <1>4 DEF DraftRetired
<1>5. CASE draft.staging \notin {None, draft.key}
  <2>1. draft.cleanup \cup {draft.staging} \in SUBSET Nat
    BY <1>1, <1>2, <1>5
  <2> QED BY <1>3, <1>5, <2>1 DEF DraftRetired
<1> QED BY <1>4, <1>5

(* The setup draft and its probe. *)
LEMMA DraftStepTyped == Typed /\ DraftStep => Typed'
<1> SUFFICES ASSUME Typed, DraftStep PROVE Typed'
  OBVIOUS
<1>t. SpentTyped /\ DraftTyped /\ ProbeTyped
  BY DEF Typed
<1>u. UNCHANGED <<config, ledger, act, change>>
  BY DEF DraftStep, SaveIdentity, Reserve, ProbeWrite, ProbeAnswer, Record, Discard, Acknowledge,
     Sweep, SweepDelete, SweepAck, ProbeOnly, TidyOnly, procs
<1>n. None \in Used /\ NoProbe \in ProbeOver(Used)
  BY DEF Used, NoProbe, ProbeOver, ProbeAt
<1>k. Keyless /\ DraftTyped' /\ ProbeTyped' => Typed'
  BY <1>u, KeylessTypes DEF Typed, Keyless
<1>p. ASSUME NEW l \in ProbeAt, probe' = [probe EXCEPT !.at = l], Used' = Used PROVE ProbeTyped'
  BY <1>p, <1>t DEF ProbeTyped, ProbeOver
<1>p0. probe' = NoProbe /\ Used' = Used => ProbeTyped'
  BY <1>n DEF ProbeTyped
<1>1. CASE SaveIdentity
  <2>1. Keyless /\ UNCHANGED probe
    BY <1>1, <1>t, KeylessSpends DEF SaveIdentity, procs, Fine
  <2>2. DraftTyped'
    <3>1. draft.rev \in Nat /\ draft.rev + 1 \in Nat
      BY <1>t DEF DraftTyped, DraftOver
    <3>2. [draft EXCEPT !.stage = "model", !.rev = draft.rev + 1] \in DraftOver(Used)
      BY <1>t, <3>1 DEF DraftTyped, DraftOver
    <3> QED BY <1>1, <2>1, <3>2, KeylessTypes DEF SaveIdentity, DraftTyped
  <2> QED BY <1>k, <2>1, <2>2, KeylessTypes
<1>2. CASE Reserve
  <2>1. SpentTyped' /\ spent'.keys = NewKey /\ NewKey \in Used'
    BY <1>2, <1>t, Named DEF Reserve
  <2>2. Used \subseteq Used' /\ ConfigTyped' /\ ActTyped' /\ ChangeTyped' /\ LedgerTyped'
    BY <2>1, <1>u, Growing DEF Typed, LedgerTyped
  <2>3. DraftTyped'
    BY <1>2, <1>t, <2>1, <2>2 DEF Reserve, DraftTyped, DraftOver
  <2>4. ProbeTyped'
    BY <1>2, <1>t, <2>1, <2>2 DEF Reserve, ProbeTyped, ProbeOver, ProbeAt, DraftTyped, DraftOver
  <2> QED BY <2>1, <2>2, <2>3, <2>4 DEF Typed
<1>3. CASE ProbeWrite \/ ProbeAnswer \/ Discard
  <2>1. Keyless /\ UNCHANGED draft
    BY <1>3, <1>t, KeylessSpends DEF ProbeWrite, ProbeAnswer, Discard, WriteFails, Fine
  <2>2. \E l \in ProbeAt : probe' = [probe EXCEPT !.at = l]
    BY <1>3 DEF ProbeWrite, ProbeAnswer, Discard, ProbeAt
  <2> QED BY <1>k, <1>p, <2>1, <2>2, KeylessTypes
<1>4. CASE Record
  <2>1. Keyless
    <3>1. probe.key \in Names
      BY <1>t, UsedNames DEF ProbeTyped, ProbeOver
    <3> QED BY <1>4, <1>t, <3>1, KeylessSpends DEF Record, Fine
  <2>2. DraftTyped'
    <3>1. CASE UNCHANGED draft
      BY <2>1, <3>1, KeylessTypes
    <3>2. CASE draft' = Accepted
      <4>1. draft.rev \in Nat /\ draft.rev + 1 \in Nat /\ probe.key \in Used
        BY <1>t DEF DraftTyped, DraftOver, ProbeTyped, ProbeOver
      <4>2. [draft EXCEPT !.stage = "map", !.rev = draft.rev + 1, !.key = probe.key, !.staging = None] \in DraftOver(Used)
        BY <1>t, <1>n, <4>1 DEF DraftTyped, DraftOver
      <4> QED BY <2>1, <3>2, <4>2, KeylessTypes DEF DraftTyped, Accepted
    <3> QED BY <1>4, <3>1, <3>2 DEF Record
  <2>3. ProbeTyped'
    BY <1>4, <1>p, <1>p0, <2>1, KeylessTypes DEF Record, ProbeAt
  <2> QED BY <1>k, <2>1, <2>2, <2>3
<1>5. CASE Acknowledge
  <2>1. Keyless
    BY <1>5, <1>t, KeylessSpends DEF Acknowledge
  <2>2. DraftTyped'
    <3>1. CASE UNCHANGED draft
      BY <2>1, <3>1, KeylessTypes
    <3>2. CASE draft' = [draft EXCEPT !.staging = None]
      BY <1>t, <1>n, <2>1, <3>2, KeylessTypes DEF DraftTyped, DraftOver
    <3>3. CASE draft' = DraftRetired
      BY <1>t, <2>1, <3>3, RetiredTyped, KeylessTypes DEF DraftTyped
    <3> QED BY <1>5, <3>1, <3>2, <3>3 DEF Acknowledge
  <2>3. ProbeTyped'
    BY <1>5, <1>p, <1>p0, <2>1, KeylessTypes DEF Acknowledge, ProbeAt, Typed
  <2> QED BY <1>k, <2>1, <2>2, <2>3
<1>6. CASE Sweep \/ SweepDelete \/ SweepAck
  <2>1. Keyless /\ UNCHANGED probe
    BY <1>6, <1>t, KeylessSpends DEF Sweep, SweepDelete, SweepAck, TidyOnly, Fine
  <2>2. DraftTyped'
    BY <1>6, <1>t, <2>1, KeylessTypes DEF Sweep, SweepDelete, SweepAck, DraftTyped, DraftOver
  <2> QED BY <1>k, <2>1, <2>2, KeylessTypes
<1> QED BY <1>1, <1>2, <1>3, <1>4, <1>5, <1>6 DEF DraftStep

(* An activation. *)
LEMMA ActivateTyped == ASSUME Typed, NEW a \in Request, Activate(a) PROVE Typed'
<1>t. SpentTyped /\ ConfigTyped /\ DraftTyped /\ ActTyped
  BY DEF Typed
<1>0. act[a].key \in Names
  BY <1>t, UsedNames DEF ActTyped, ActOver
<1>1. Keyless /\ UNCHANGED <<ledger, draft, probe, change>>
  BY <1>t, <1>0, KeylessSpends DEF Activate, Ask, Mount, CreateSession, Commit, Rollback, Dispose, Attach,
     ActOnly, Fine
<1>2. NoAct \in ActOver(Used)
  BY DEF NoAct, ActOver, ActAt, Used
<1>3. ASSUME NEW l \in ActAt, Go(a, l) PROVE ActTyped'
  BY <1>1, <1>2, <1>3, <1>t, KeylessTypes DEF Go, ActTyped, ActOver
<1>4. ActTyped'
  <2>1. CASE Ask(a)
    <3>1. [at |-> "asked", gen |-> config.gen, key |-> draft.key] \in ActOver(Used)
      BY <1>t DEF ActOver, ActAt, ConfigTyped, DraftTyped, DraftOver
    <3> QED BY <1>1, <1>t, <2>1, <3>1, KeylessTypes DEF Ask, ActTyped
  <2>2. CASE \E l \in ActAt : Go(a, l)
    BY <1>3, <2>2
  <2> QED BY <2>1, <2>2 DEF Activate, Mount, CreateSession, Commit, Rollback, Dispose, Attach, ActAt
<1>5. ConfigTyped'
  <2>1. CASE UNCHANGED config
    BY <1>1, <2>1, KeylessTypes
  <2>2. CASE config' = Stored(act[a].key)
    BY <1>1, <1>t, <2>2, KeylessTypes DEF Stored, ConfigTyped, ActTyped, ActOver
  <2> QED BY <2>1, <2>2 DEF Activate, Ask, Mount, CreateSession, Commit, Rollback, Dispose, Attach
<1> QED BY <1>1, <1>4, <1>5, KeylessTypes DEF Typed, Keyless

(* A settings change. *)
LEMMA SettingsTyped == Typed /\ Settings => Typed'
<1> SUFFICES ASSUME Typed, Settings PROVE Typed'
  OBVIOUS
<1>t. SpentTyped /\ ConfigTyped /\ LedgerTyped /\ ChangeTyped
  BY DEF Typed
<1>c. change.gen \in Nat /\ change.key \in Used
  BY <1>t DEF ChangeTyped, ChangeOver
<1>u. UNCHANGED <<draft, probe, act>>
  BY DEF Settings, Ongoing, Configure, Retry, Cancel, AdoptCurrent, ReserveKey, WriteKey, Check,
     CommitModel, Promote, Swap, Abandon, AbandonDelete, AbandonAck, Remount, ChangeOnly
<1>n. None \in Used /\ NoChange \in ChangeOver(Used)
  BY DEF Used, NoChange, ChangeOver, ChangeAt
<1>s. ASSUME Used' = Used, Settle \/ \E l \in ChangeAt : Step(l) PROVE ChangeTyped'
  BY <1>n, <1>s, <1>t DEF Settle, Step, ChangeTyped, ChangeOver
<1>1. CASE ReserveKey /\ spent' = [spent EXCEPT !.keys = @ + 1]
  <2>0. /\ ledger' = [ledger EXCEPT ![NewKey] = [phase |-> "staged", expected |-> change.gen, committed |-> 0]]
        /\ change' = [change EXCEPT !.at = "write", !.key = NewKey]
        /\ UNCHANGED config
    <3>1. spent'.keys # spent.keys
      BY <1>1, <1>t, Named DEF SpentTyped, Spending, NewKey
    <3>2. ~Fail /\ ~Fine
      BY <3>1, <1>t, Spent
    <3> QED BY <1>1, <3>2 DEF ReserveKey
  <2>1. SpentTyped' /\ spent'.keys = NewKey /\ NewKey \in Used'
    BY <1>1, <1>t, Named
  <2>2. Used \subseteq Used' /\ ConfigTyped' /\ DraftTyped' /\ ProbeTyped' /\ ActTyped'
    BY <2>0, <2>1, <1>u, Growing
  <2>3. ChangeTyped'
    BY <1>t, <2>0, <2>1, <2>2 DEF ChangeTyped, ChangeOver, ChangeAt
  <2>4. LedgerTyped'
    <3>1. Entered(NewKey) /\ (NewKey \in Keys => ledger'[NewKey] = [phase |-> "staged", expected |-> change.gen, committed |-> 0])
      BY <1>t, <2>0, EntryEffect
    <3>2. NewKey \in Keys => ledger'[NewKey] \in Entry
      BY <1>c, <3>1 DEF Entry
    <3> QED BY <1>t, <3>1, <3>2, LedgerKept
  <2> QED BY <2>1, <2>2, <2>3, <2>4 DEF Typed
<1>2. CASE ~(ReserveKey /\ spent' = [spent EXCEPT !.keys = @ + 1])
  <2>0. change.key \in Names
    BY <1>c, <1>t, UsedNames
  <2>1. Keyless
    BY <1>2, <1>t, <2>0, KeylessSpends DEF Settings, Ongoing, Configure, Retry, Cancel, AdoptCurrent, ReserveKey,
       WriteKey, WriteFails, Check, CommitModel, Promote, Swap, Abandon, AbandonDelete, AbandonAck, Remount, Fine
  <2>2. ConfigTyped'
    <3>1. CASE UNCHANGED config
      BY <2>1, <3>1, KeylessTypes
    <3>2. CASE config' = Stored(change.key)
      BY <1>t, <1>c, <2>1, <3>2, KeylessTypes DEF Stored, ConfigTyped
    <3> QED BY <3>1, <3>2 DEF Settings, Ongoing, Configure, Retry, Cancel, AdoptCurrent, ReserveKey,
       WriteKey, Check, CommitModel, Promote, Swap, Abandon, AbandonDelete, AbandonAck, Remount
  <2>3. LedgerTyped'
    <3>1.  
             \/ UNCHANGED ledger
             \/ ledger' = Phase(change.key, "pending")
             \/ ledger' = Promoted(change.key)
             \/ ledger' = Adopted(change.old, change.gen)
             \/ ledger' = Adopted(change.key, change.gen + 1)
             \/ ledger' = [ledger EXCEPT ![change.key] = NoEntry]
      BY <1>2 DEF Settings, Ongoing, Configure, Retry, Cancel, AdoptCurrent, ReserveKey,
         WriteKey, Check, CommitModel, Promote, Swap, Abandon, AbandonDelete, AbandonAck, Remount
    <3>2. change.gen \in Int /\ change.gen + 1 \in Int
      BY <1>c
    <3> QED BY <1>t, <3>1, <3>2, LedgerTypes
  <2>4. ChangeTyped'
    <3>1. CASE Settle \/ \E l \in ChangeAt : Step(l)
      BY <1>s, <2>1, <3>1, KeylessTypes
    <3>2. CASE Configure
      BY <1>n, <1>t, <2>1, <3>2, KeylessTypes DEF Configure, NoChange, ChangeTyped, ChangeOver, ChangeAt, ConfigTyped
    <3>3. CASE Retry
      BY <1>n, <1>t, <2>1, <3>3, KeylessTypes DEF Retry, NoChange, ChangeTyped, ChangeOver, ChangeAt, ConfigTyped
    <3>4. CASE Cancel
      BY <1>t, <2>1, <3>4, KeylessTypes DEF Cancel, ChangeTyped, ChangeOver
    <3> QED BY <1>2, <3>1, <3>2, <3>3, <3>4 DEF Settings, Ongoing, AdoptCurrent, ReserveKey, ChangeAt,
         WriteKey, Check, CommitModel, Promote, Swap, Abandon, AbandonDelete, AbandonAck, Remount
  <2> QED BY <1>u, <2>1, <2>2, <2>3, <2>4, KeylessTypes DEF Typed, Keyless
<1> QED BY <1>1, <1>2

(* A retirement. *)
LEMMA RetirementTyped == ASSUME Typed, NEW t \in Tasks, Retirement(t) PROVE Typed'
<1>1. Keyless /\ UNCHANGED <<config, draft, probe, act, change>>
  BY KeylessSpends DEF Typed, Retirement, AfterDrain, Retire, List, Delete, Ack, TaskOnly, Fine
<1>2. LedgerTyped'
  <2>1. \E k : \/ UNCHANGED ledger
               \/ ledger' = Phase(k, "pending")
               \/ ledger' = [ledger EXCEPT ![k] = NoEntry]
    BY DEF Retirement, AfterDrain, Retire, List, Delete, Ack
  <2> QED BY <2>1, LedgerTypes DEF Typed
<1> QED BY <1>1, <1>2, KeylessTypes DEF Typed, Keyless

(* A start. *)
LEMMA BootTyped == Typed /\ Boot => Typed'
<1> SUFFICES ASSUME Typed, Boot PROVE Typed'
  OBVIOUS
<1>1. Keyless /\ UNCHANGED <<config, probe, act, change>>
  BY KeylessSpends DEF Typed, Boot, Start, BootAdopt, BootEntry, BootSweep, BootDraft, BootSurface,
     BootOnly, Fine
<1>2. LedgerTyped'
  <2>1. \E k : \/ UNCHANGED ledger
               \/ ledger' = Phase(k, "pending")
               \/ ledger' = Promoted(k)
               \/ ledger' = Adopted(k, config.gen)
    BY DEF Boot, Start, BootAdopt, BootEntry, BootSweep, BootDraft, BootSurface, Reconciled
  <2>2. config.gen \in Int
    BY DEF Typed, ConfigTyped
  <2> QED BY <2>1, <2>2, LedgerTypes DEF Typed
<1>3. DraftTyped'
  <2>1. CASE UNCHANGED draft
    BY <1>1, <2>1, KeylessTypes
  <2>2. CASE draft' = DraftRetired
    BY <1>1, <2>2, RetiredTyped, KeylessTypes DEF Typed, DraftTyped
  <2> QED BY <2>1, <2>2 DEF Boot, Start, BootAdopt, BootEntry, BootSweep, BootDraft, BootSurface
<1> QED BY <1>1, <1>2, <1>3, KeylessTypes DEF Typed, Keyless

(* The end of a process forgets every call. *)
LEMMA EndedTyped == Typed /\ Ended => Typed'
<1> SUFFICES ASSUME Typed, Ended PROVE Typed'
  OBVIOUS
<1>1. Keyless /\ UNCHANGED <<config, ledger, draft>>
  BY KeylessSpends DEF Typed, Ended, files, Fine
<1>2. /\ probe' = NoProbe /\ NoProbe \in ProbeOver(Used)
      /\ act' = [a \in Request |-> NoAct] /\ NoAct \in ActOver(Used)
      /\ change' = NoChange /\ NoChange \in ChangeOver(Used)
  BY DEF Ended, NoProbe, ProbeOver, ProbeAt, NoAct, ActOver, ActAt, NoChange, ChangeOver, ChangeAt, Used
<1> QED BY <1>1, <1>2, KeylessTypes DEF Typed, Keyless, ProbeTyped, ActTyped, ChangeTyped

(* Every step keeps the types. *)
LEMMA TypedStep == Typed /\ [Next]_vars => Typed'
<1> SUFFICES ASSUME Typed, [Next]_vars PROVE Typed'
  OBVIOUS
<1>1. CASE DraftStep \/ Settings \/ Boot
  BY <1>1, DraftStepTyped, SettingsTyped, BootTyped
<1>2. CASE \E a \in Request : Activate(a)
  BY <1>2, ActivateTyped
<1>3. CASE \E t \in Tasks : Retirement(t)
  BY <1>3, RetirementTyped
<1>4. CASE Resolver \/ StopBundle \/ StopResolver \/ UNCHANGED vars
  <2>1. Keyless /\ UNCHANGED <<config, ledger, draft, probe, act, change>>
    BY <1>4, KeylessSpends DEF Typed, Resolver, BeginTurn, EndTurn, Drained, StopBundle, StopResolver,
       files, vars, procs, Fine
  <2> QED BY <2>1, KeylessTypes DEF Typed, Keyless
<1>5. CASE CommitVoice
  <2>1. Keyless /\ UNCHANGED <<ledger, draft, probe, act, change>>
    BY <1>5, KeylessSpends DEF Typed, CommitVoice, procs
  <2>2. ConfigTyped'
    BY <1>5, <2>1, KeylessTypes DEF CommitVoice, Stored, Typed, ConfigTyped
  <2> QED BY <2>1, <2>2, KeylessTypes DEF Typed, Keyless
<1>6. CASE Stop
  <2>1. Keyless /\ UNCHANGED <<config, ledger, draft, probe, act>>
    BY <1>6, KeylessSpends DEF Typed, Stop, files, Fine
  <2>2. ChangeTyped'
    BY <1>6, <2>1, KeylessTypes DEF Stop, Typed, ChangeTyped, ChangeOver
  <2> QED BY <2>1, <2>2, KeylessTypes DEF Typed, Keyless
<1>7. CASE StopSettings \/ Crash
  BY <1>7, EndedTyped DEF StopSettings, Crash
<1> QED BY <1>1, <1>2, <1>3, <1>4, <1>5, <1>6, <1>7 DEF Next, Stopping

(* The types hold when nothing is set up. *)
LEMMA TypedInit == Init => Typed
<1> SUFFICES ASSUME Init PROVE Typed
  OBVIOUS
<1>1. SpentTyped /\ ConfigTyped
  BY DEF Init, SpentTyped, Spending, ConfigTyped, Used
<1>2. LedgerTyped
  BY DEF Init, LedgerTyped, Entry, NoEntry
<1>3. DraftTyped
  BY DEF Init, DraftTyped, DraftOver, Used
<1>4. ProbeTyped /\ ActTyped /\ ChangeTyped
  BY DEF Init, ProbeTyped, ProbeOver, ProbeAt, NoProbe, ActTyped, ActOver, ActAt, NoAct,
     ChangeTyped, ChangeOver, ChangeAt, NoChange, Used
<1> QED BY <1>1, <1>2, <1>3, <1>4 DEF Typed

(***************************************************************************)
(* The cleanup ledger loads                                                *)
(***************************************************************************)
Active(k) == ledger[k].phase = "active"
Staged(k) == ledger[k].phase = "staged"

(* A process that has not started its surface has no call under way.         *)
Quiet ==
  /\ boot.at # "done" => mode = "starting"
  /\ mode \in {"down", "starting"} => change.at = "idle" /\ \A a \in Request : act[a].at = "idle"

(* What the ledger says of generations lies in the past: an active key was   *)
(* committed by now, and by the present generation only if it is the present *)
(* key; a staged key was reserved by now, and before now if it is.           *)
Dated(k) ==
  /\ Active(k) =>
       /\ ledger[k].committed <= config.gen
       /\ ledger[k].committed = config.gen => k = config.key
       /\ ~Taken(k, ledger[k].committed)
  /\ Staged(k) =>
       /\ ledger[k].expected <= config.gen
       /\ k = config.key => ledger[k].expected < config.gen

(* No other active key has the generation. *)
Only(k, g) == \A j \in Keys : Active(j) /\ ledger[j].committed = g => j = k

(* What a change knows of the generation it has read, and of its own.        *)
Informed ==
  /\ change.at \in {"adopt", "reserve", "write", "check", "commit", "promote"} => change.gen <= config.gen
  /\ change.at = "adopt" =>
       /\ change.gen = config.gen => change.old = config.key
       /\ \A j \in Keys : Active(j) /\ ledger[j].committed = change.gen => j = change.old
  /\ change.at \in {"write", "check", "commit", "promote"} =>
       change.key \in Keys /\ (Staged(change.key) => ledger[change.key].expected = change.gen)
  /\ change.at = "promote" =>
       /\ change.gen < config.gen
       /\ change.gen + 1 = config.gen => change.key = config.key
       /\ \A j \in Keys : Active(j) /\ ledger[j].committed = change.gen + 1 => j = change.key

LedgerInv == Quiet /\ Informed /\ \A k \in Keys : Dated(k)

(* A process without a surface has no call under way, whatever happens. *)
LEMMA QuietStep == Typed /\ Quiet /\ [Next]_vars => Quiet'
<1> SUFFICES ASSUME Typed, Quiet, [Next]_vars PROVE Quiet'
  OBVIOUS
<1>1. CASE DraftStep \/ Resolver \/ CommitVoice \/ StopBundle \/ StopResolver \/ UNCHANGED vars
           \/ \E t \in Tasks : Retirement(t)
  <2>1. UNCHANGED <<mode, boot, change, act>>
    BY <1>1 DEF DraftStep, SaveIdentity, Reserve, ProbeWrite, ProbeAnswer, Record, Discard, Acknowledge,
       Sweep, SweepDelete, SweepAck, ProbeOnly, TidyOnly, Resolver, BeginTurn, EndTurn, Drained,
       CommitVoice, StopBundle, StopResolver, Retirement, AfterDrain, Retire, List, Delete, Ack,
       TaskOnly, procs, vars
  <2> QED BY <2>1 DEF Quiet
<1>2. ASSUME NEW a \in Request, Activate(a) PROVE Quiet'
  <2>1. UNCHANGED <<boot, change>> /\ mode \notin {"down", "starting"} /\ mode' \in {mode, "operational"}
    BY <1>2 DEF Activate, Ask, Mount, CreateSession, Commit, Rollback, Dispose, Attach, ActOnly, Alive, Asked
  <2> QED BY <2>1 DEF Quiet
<1>3. CASE Settings
  <2>1. UNCHANGED <<boot, act, mode>> /\ mode \notin {"down", "starting"}
    BY <1>3 DEF Settings, Ongoing, Configure, Retry, Cancel, AdoptCurrent, ReserveKey, WriteKey, Check,
       CommitModel, Promote, Swap, Abandon, AbandonDelete, AbandonAck, Remount, ChangeOnly, Alive
  <2> QED BY <2>1 DEF Quiet
<1>4. CASE Boot
  <2>1. UNCHANGED <<act, change>> /\ mode \in {"down", "starting"}
    BY <1>4 DEF Quiet, Boot, Start, BootAdopt, BootEntry, BootSweep, BootDraft, BootSurface, BootOnly
  <2>2. mode' = "starting" \/ boot'.at = "done"
    BY <1>4 DEF Quiet, Boot, Start, BootAdopt, BootEntry, BootSweep, BootDraft, BootSurface, BootOnly, NoBoot
  <2> QED BY <2>1, <2>2 DEF Quiet
<1>5. CASE Stop
  BY <1>5 DEF Stop, Quiet
<1>6. CASE StopSettings \/ Crash
  BY <1>6 DEF StopSettings, Crash, Ended, Quiet, NoBoot, NoChange, NoAct
<1> QED BY <1>1, <1>2, <1>3, <1>4, <1>5, <1>6 DEF Next, Stopping

(* Entries only leave the ledger's account of generations. *)
Shrinks == \A j \in Keys : ledger'[j] = ledger[j] \/ ledger'[j].phase \notin {"active", "staged"}

(* Retiring or removing an entry does so. *)
LEMMA PhaseShrinks ==
  ASSUME LedgerTyped, NEW k, ledger' = Phase(k, "pending")
  PROVE  Shrinks
<1>1. Entered(k) /\ (k \in Keys => ledger'[k] = [phase |-> "pending", expected |-> ledger[k].expected,
                                                committed |-> ledger[k].committed])
  BY PhaseEffect
<1> QED BY <1>1 DEF Entered, Shrinks

Working == {"write", "check", "commit", "promote"}

(* A change that goes on with what it knows, and claims nothing new.         *)
GoesOn ==
  /\ change'.gen = change.gen /\ change'.old = change.old /\ change'.key = change.key
  /\ change'.at = "adopt" => change.at = "adopt"
  /\ change'.at \in Working \cup {"reserve"} => change.at \in Working \cup {"reserve", "adopt"}
  /\ change'.at \in Working => change.at \in Working
  /\ change'.at = "promote" => change.at = "promote"

Ends == change'.at \notin Working \cup {"reserve", "adopt"}

(* Such a step keeps the invariant. *)
LEMMA ShrinkKeeps ==
  ASSUME LedgerInv, UNCHANGED config, Shrinks, GoesOn \/ Ends
  PROVE  Informed' /\ \A k \in Keys : Dated(k)'
<1>1. \A k \in Keys : Dated(k)'
  BY DEF LedgerInv, Dated, Active, Staged, Taken, Shrinks
<1>2. CASE Ends
  BY <1>1, <1>2 DEF Ends, Working, Informed
<1>3. CASE GoesOn
  BY <1>1, <1>3 DEF GoesOn, Working, LedgerInv, Informed, Shrinks, Active, Staged
<1> QED BY <1>1, <1>2, <1>3

(* So does the commit of a configuration, which opens a generation of its    *)
(* own.                                                                      *)
LEMMA CommitKeeps ==
  ASSUME Typed, LedgerInv, UNCHANGED ledger, NEW key, config' = Stored(key), GoesOn \/ Ends
  PROVE  Informed' /\ \A k \in Keys : Dated(k)'
<1>t. /\ config.gen \in Int /\ change.gen \in Int /\ config'.gen = config.gen + 1
      /\ \A k \in Keys : ledger[k].expected \in Int /\ ledger[k].committed \in Int
  BY DEF Typed, ConfigTyped, ChangeTyped, ChangeOver, LedgerTyped, Entry, Stored
<1>1. \A k \in Keys : Dated(k)'
  BY <1>t DEF LedgerInv, Dated, Active, Staged, Taken
<1>2. CASE Ends
  BY <1>1, <1>2 DEF Ends, Working, Informed
<1>3. CASE GoesOn
  BY <1>1, <1>t, <1>3 DEF GoesOn, Working, LedgerInv, Informed, Active, Staged
<1> QED BY <1>1, <1>2, <1>3

(* A key may be made active for a generation of the past that no other key   *)
(* has, for the present one only if it is the present key.                   *)
LEMMA ActiveKeeps ==
  ASSUME LedgerInv, UNCHANGED config, NEW k, NEW g, Entered(k),
         k \in Keys => ledger'[k].phase = "active" /\ ledger'[k].committed = g,
         g <= config.gen, g = config.gen => k = config.key, Only(k, g)
  PROVE  \A j \in Keys : Dated(j)'
<1> SUFFICES ASSUME NEW j \in Keys PROVE Dated(j)'
  OBVIOUS
<1>1. CASE j = k
  BY <1>1 DEF Dated, Active, Staged, Taken, Only, Entered
<1>2. CASE j # k
  <2>1. ledger'[j] = ledger[j] /\ Dated(j)
    BY <1>2 DEF Entered, LedgerInv
  <2>2. Taken(j, ledger[j].committed)' /\ Active(j) => Taken(j, ledger[j].committed)
    BY <1>2, <2>1 DEF Taken, Only, Active, Entered
  <2> QED BY <2>1, <2>2 DEF Dated, Active, Staged
<1> QED BY <1>1, <1>2

(* Every step keeps the invariant: most write nothing of the ledger, the     *)
(* configuration or the change; the others are taken one by one.             *)
LEMMA LedgerStep == Typed /\ LedgerInv /\ [Next]_vars => LedgerInv'
<1> SUFFICES ASSUME Typed, LedgerInv, [Next]_vars PROVE LedgerInv'
  OBVIOUS
<1> DEFINE Kept == Informed' /\ \A k \in Keys : Dated(k)'
<1>q. Quiet'
  BY QuietStep DEF LedgerInv
<1>k. Kept => LedgerInv'
  BY <1>q DEF LedgerInv
<1>t. /\ ConfigTyped /\ LedgerTyped /\ ChangeTyped /\ SpentTyped
      /\ config.gen \in Nat /\ change.gen \in Nat
      /\ \A k \in Keys : ledger[k].expected \in Int /\ ledger[k].committed \in Int
  BY DEF Typed, ConfigTyped, ChangeTyped, ChangeOver, LedgerTyped, Entry
<1>i. Quiet /\ Informed /\ \A k \in Keys : Dated(k)
  BY DEF LedgerInv
<1>s. UNCHANGED ledger => Shrinks
  BY DEF Shrinks
<1>g. UNCHANGED change => GoesOn
  BY DEF GoesOn, Working
<1> HIDE DEF Kept
<1>w. UNCHANGED config /\ Shrinks /\ (GoesOn \/ Ends) => Kept
  BY ShrinkKeeps DEF Kept
<1>c. ASSUME NEW key, config' = Stored(key), UNCHANGED ledger, GoesOn \/ Ends PROVE Kept
  BY <1>c, CommitKeeps DEF Kept
<1>1. CASE DraftStep \/ Resolver \/ StopBundle \/ StopResolver \/ UNCHANGED vars
  <2>1. UNCHANGED <<config, ledger, change>>
    BY <1>1 DEF DraftStep, SaveIdentity, Reserve, ProbeWrite, ProbeAnswer, Record, Discard, Acknowledge,
       Sweep, SweepDelete, SweepAck, ProbeOnly, TidyOnly, Resolver, BeginTurn, EndTurn, Drained,
       StopBundle, StopResolver, files, procs, vars
  <2> QED BY <1>k, <1>s, <1>g, <1>w, <2>1
<1>2. ASSUME NEW a \in Request, Activate(a) PROVE LedgerInv'
  <2>1. UNCHANGED <<ledger, change>> /\ (UNCHANGED config \/ config' = Stored(act[a].key))
    BY <1>2 DEF Activate, Ask, Mount, CreateSession, Commit, Rollback, Dispose, Attach, ActOnly
  <2> QED BY <1>k, <1>s, <1>g, <1>w, <1>c, <2>1
<1>3. CASE \E t \in Tasks : Retirement(t)
  <2>1. UNCHANGED <<config, change>>
    BY <1>3 DEF Retirement, AfterDrain, Retire, List, Delete, Ack, TaskOnly
  <2>2. Shrinks
    <3>1. PICK k : UNCHANGED ledger \/ ledger' = Phase(k, "pending") \/ ledger' = [ledger EXCEPT ![k] = NoEntry]
      BY <1>3 DEF Retirement, AfterDrain, Retire, List, Delete, Ack
    <3>2. CASE ledger' = Phase(k, "pending")
      BY <1>t, <3>2, PhaseShrinks
    <3>3. CASE ledger' = [ledger EXCEPT ![k] = NoEntry]
      BY <1>t, <3>3, EntryEffect DEF Entered, Shrinks, NoEntry
    <3> QED BY <1>s, <3>1, <3>2, <3>3
  <2> QED BY <1>k, <1>g, <1>w, <2>1, <2>2
<1>4. CASE CommitVoice
  BY <1>4, <1>k, <1>g, <1>c DEF CommitVoice, procs
<1>5. CASE Stop
  <2>1. GoesOn
    BY <1>5, <1>t DEF Stop, GoesOn, Working, ChangeTyped, ChangeOver
  <2> QED BY <1>5, <1>k, <1>s, <1>w, <2>1 DEF Stop, files
<1>6. CASE StopSettings \/ Crash
  <2>1. Ends
    BY <1>6 DEF StopSettings, Crash, Ended, Ends, Working, NoChange
  <2> QED BY <1>6, <1>k, <1>s, <1>w, <2>1 DEF StopSettings, Crash, Ended, files
<1>7. CASE Boot
  <2>1. UNCHANGED <<config, change>>
    BY <1>7 DEF Boot, Start, BootAdopt, BootEntry, BootSweep, BootDraft, BootSurface, BootOnly
  <2>2. change.at = "idle" /\ change'.at = "idle"
    BY <1>7, <1>i, <2>1 DEF Quiet, Boot, Start, BootAdopt, BootEntry, BootSweep, BootDraft, BootSurface
  <2>3. Informed' /\ Ends
    BY <2>2 DEF Informed, Ends, Working
  <2>a. ASSUME NEW k, NEW g, Entered(k), k \in Keys => ledger'[k].phase = "active" /\ ledger'[k].committed = g,
               g <= config.gen, g = config.gen => k = config.key, Only(k, g)
        PROVE  Kept
    BY <2>1, <2>3, <2>a, ActiveKeeps DEF Kept
  <2>4. CASE BootAdopt
    <3> DEFINE k == config.key
    <3>1. CASE UNCHANGED ledger
      BY <1>k, <1>s, <1>w, <2>1, <2>3, <3>1
    <3>2. CASE /\ Entered(k) /\ ledger[k].phase # "active" /\ MayAdopt(k, config.gen)
               /\ k \in Keys => ledger'[k] = [phase |-> "active", expected |-> config.gen - 1, committed |-> config.gen]
      <4>1. Only(k, config.gen)
        BY <1>i DEF Only, Dated
      <4> HIDE DEF k
      <4>2. k \in Keys => ledger'[k].phase = "active" /\ ledger'[k].committed = config.gen
        BY <3>2
      <4>3. config.gen <= config.gen /\ (config.gen = config.gen => k = config.key)
        BY <1>t DEF k
      <4> QED BY <1>k, <2>a, <3>2, <4>1, <4>2, <4>3
    <3> HIDE DEF k
    <3>3. UNCHANGED ledger \/ (MayAdopt(k, config.gen) /\ ledger' = Adopted(k, config.gen))
      BY <2>4 DEF BootAdopt, k
    <3> QED BY <1>k, <1>t, <3>1, <3>2, <3>3, AdoptedEffect
  <2>5. CASE BootEntry
    <3>1. PICK k : ledger' = Reconciled(k) \/ UNCHANGED ledger
      BY <2>5 DEF BootEntry
    <3>2. CASE ledger' = Phase(k, "pending")
      <4>1. Shrinks
        BY <1>t, <3>2, PhaseShrinks
      <4> QED BY <1>k, <1>w, <2>1, <2>3, <4>1
    <3>3. CASE Staged(k) /\ k = config.key /\ MayPromote(k) /\ ledger' = Promoted(k)
      <4>0. Entered(k) /\ (k \in Keys => ledger'[k] = [phase |-> "active", expected |-> ledger[k].expected,
                                                      committed |-> ledger[k].expected + 1])
        BY <1>t, <3>3, PromotedEffect
      <4>1. Entered(k) /\ (k \in Keys => ledger'[k].phase = "active" /\ ledger'[k].committed = ledger[k].expected + 1)
        BY <4>0
      <4>2. CASE k \in Keys
        <5>1. ledger[k].expected + 1 <= config.gen
          BY <1>i, <1>t, <3>3, <4>2 DEF Dated
        <5>2. Only(k, ledger[k].expected + 1)
          BY <3>3 DEF MayPromote, Taken, Only, Active
        <5> QED BY <1>k, <2>a, <3>3, <4>1, <5>1, <5>2
      <4>3. CASE k \notin Keys
        BY <1>k, <1>w, <2>1, <2>3, <4>1, <4>3 DEF Entered, Shrinks
      <4> QED BY <4>2, <4>3
    <3>4. UNCHANGED ledger \/ ledger' = Phase(k, "pending") \/ (Staged(k) /\ k = config.key /\ MayPromote(k) /\ ledger' = Promoted(k))
      BY <3>1 DEF Reconciled, Staged
    <3> QED BY <1>k, <1>s, <1>w, <2>1, <2>3, <3>2, <3>3, <3>4
  <2>6. CASE UNCHANGED ledger
    BY <1>k, <1>s, <1>w, <2>1, <2>3, <2>6
  <2> QED BY <1>7, <2>4, <2>5, <2>6 DEF Boot, Start, BootSweep, BootDraft, BootSurface
<1>8. CASE Settings
  <2>e. ASSUME Settle \/ \E l \in {"swap", "remount", "abandon", "delete", "ack"} : Step(l) PROVE Ends
    BY <2>e, <1>t DEF Settle, Step, Ends, Working, NoChange, ChangeTyped, ChangeOver
  <2>p. ASSUME NEW k, ledger' = Phase(k, "pending") PROVE Shrinks
    BY <1>t, <2>p, PhaseShrinks
  <2>1. CASE Configure
    <3>1. /\ UNCHANGED <<config, ledger>> /\ change'.at = "adopt"
          /\ change'.gen = config.gen /\ change'.old = config.key
      BY <2>1 DEF Configure, NoChange
    <3>2. Ends \/ \A k \in Keys : Dated(k)'
      BY <1>i, <3>1 DEF Dated, Active, Staged, Taken
    <3>3. Informed' /\ \A k \in Keys : Dated(k)'
      BY <1>i, <1>t, <3>1, <3>2 DEF Informed, Dated, Active, Staged, Taken, Ends, Working
    <3> QED BY <1>k, <3>3 DEF Kept
  <2>2. CASE Retry \/ Swap \/ Remount \/ AbandonDelete
    <3>1. UNCHANGED <<config, ledger>> /\ Ends
      BY <2>2, <2>e, <1>t DEF Retry, Swap, Remount, AbandonDelete, NoChange, Ends, Working
    <3> QED BY <1>k, <1>s, <1>w, <3>1
  <2>3. CASE Cancel \/ Check \/ WriteKey
    <3>1. UNCHANGED <<config, ledger>>
      BY <2>3 DEF Cancel, Check, WriteKey
    <3>2. Ends \/ GoesOn
      <4>1. CASE Cancel
        BY <4>1, <1>t DEF Cancel, GoesOn, Working, ChangeTyped, ChangeOver
      <4>2. CASE \E l \in {"check", "commit"} : change.at \in {"write", "check"} /\ Step(l)
        BY <4>2, <1>t DEF Step, GoesOn, Working, ChangeTyped, ChangeOver
      <4>3. CASE Step("abandon")
        BY <4>3, <2>e
      <4> QED BY <2>3, <4>1, <4>2, <4>3 DEF Check, WriteKey
    <3> QED BY <1>k, <1>s, <1>w, <3>1, <3>2
  <2>4. CASE Abandon \/ AbandonAck
    <3>1. UNCHANGED config /\ Ends
      BY <2>4, <2>e DEF Abandon, AbandonAck
    <3>2. Shrinks
      <4>1. CASE ledger' = [ledger EXCEPT ![change.key] = NoEntry]
        <5>1. Entered(change.key) /\ (change.key \in Keys => ledger'[change.key] = NoEntry)
          BY <1>t, <4>1, EntryEffect
        <5> QED BY <5>1 DEF Entered, Shrinks, NoEntry
      <4> QED BY <2>4, <2>p, <1>s, <4>1 DEF Abandon, AbandonAck
    <3> QED BY <1>k, <1>w, <3>1, <3>2
  <2>5. CASE AdoptCurrent
    <3>1. change.at = "adopt" /\ UNCHANGED config
      BY <2>5 DEF AdoptCurrent
    <3>2. CASE Settle /\ UNCHANGED ledger
      BY <1>k, <1>s, <1>w, <2>e, <3>1, <3>2
    <3>3. CASE MayAdopt(change.old, change.gen) /\ ledger' = Adopted(change.old, change.gen) /\ Step("reserve")
      <4>1. change'.at = "reserve" /\ change'.gen = change.gen
        BY <1>t, <3>3 DEF Step, ChangeTyped, ChangeOver
      <4>2. Informed'
        BY <1>i, <3>1, <4>1 DEF Informed
      <4>3. CASE UNCHANGED ledger
        BY <1>i, <3>1, <4>2, <4>3, <1>k DEF Kept, Dated, Active, Staged, Taken
      <4>4. CASE /\ Entered(change.old)
                 /\ change.old \in Keys => ledger'[change.old] = [phase |-> "active", expected |-> change.gen - 1,
                                                                  committed |-> change.gen]
        <5>1. /\ change.gen <= config.gen /\ (change.gen = config.gen => change.old = config.key)
              /\ Only(change.old, change.gen)
          BY <1>i, <3>1 DEF Informed, Only
        <5> QED BY <1>k, <3>1, <4>2, <4>4, <5>1, ActiveKeeps DEF Kept
      <4> QED BY <1>t, <3>3, <4>3, <4>4, AdoptedEffect
    <3> QED BY <2>5, <3>2, <3>3 DEF AdoptCurrent
  <2>6. CASE ReserveKey
    <3>1. change.at = "reserve" /\ UNCHANGED config
      BY <2>6 DEF ReserveKey
    <3>2. CASE Settle /\ UNCHANGED ledger
      BY <1>k, <1>s, <1>w, <2>e, <3>1, <3>2
    <3>3. CASE /\ spent.keys < MaxKeys
               /\ ledger' = [ledger EXCEPT ![NewKey] = [phase |-> "staged", expected |-> change.gen, committed |-> 0]]
               /\ change' = [change EXCEPT !.at = "write", !.key = NewKey]
      <4>1. change'.at = "write" /\ change'.gen = change.gen /\ change'.key = NewKey
        BY <1>t, <3>3 DEF ChangeTyped, ChangeOver
      <4>2. NewKey \in Keys /\ NewKey # config.key
        BY <1>t, <3>3, CredentialsAssumption DEF NewKey, Keys, SpentTyped, Spending, ConfigTyped, Used
      <4>3. /\ Entered(NewKey)
            /\ ledger'[NewKey] = [phase |-> "staged", expected |-> change.gen, committed |-> 0]
        BY <1>t, <3>3, <4>2, EntryEffect
      <4>4. Informed'
        BY <1>i, <3>1, <4>1, <4>2, <4>3 DEF Informed, Staged
      <4>5. ASSUME NEW j \in Keys PROVE Dated(j)'
        <5>1. CASE j = NewKey
          BY <1>i, <3>1, <4>2, <4>3, <5>1 DEF Informed, Dated, Active, Staged
        <5>2. CASE j # NewKey
          <6>1. ledger'[j] = ledger[j] /\ Dated(j)
            BY <1>i, <4>3, <5>2 DEF Entered
          <6>2. Taken(j, ledger[j].committed)' /\ Active(j) => Taken(j, ledger[j].committed)
            BY <4>2, <4>3, <6>1 DEF Taken, Active, Entered
          <6> QED BY <3>1, <6>1, <6>2 DEF Dated, Active, Staged
        <5> QED BY <5>1, <5>2
      <4> QED BY <1>k, <4>4, <4>5 DEF Kept
    <3> QED BY <2>6, <3>2, <3>3 DEF ReserveKey
  <2>7. CASE CommitModel
    <3>1. change.at = "commit" /\ UNCHANGED ledger
      BY <2>7 DEF CommitModel
    <3>2. CASE Step("abandon") /\ (UNCHANGED config \/ config' = Stored(change.key))
      BY <1>k, <1>s, <1>w, <1>c, <2>e, <3>1, <3>2
    <3>3. CASE config.gen = change.gen /\ config' = Stored(change.key) /\ Step("promote")
      <4>1. /\ change'.at = "promote" /\ change'.gen = change.gen /\ change'.key = change.key
            /\ config'.gen = config.gen + 1 /\ config'.key = change.key
        BY <1>t, <3>3 DEF Step, ChangeTyped, ChangeOver, Stored
      <4>2. \A k \in Keys : Dated(k)'
        BY <1>i, <1>t, <3>1, <4>1 DEF Dated, Active, Staged, Taken
      <4>3. Informed'
        BY <1>i, <1>t, <3>1, <3>3, <4>1 DEF Informed, Dated, Active, Staged
      <4> QED BY <1>k, <4>2, <4>3 DEF Kept
    <3> QED BY <2>7, <3>2, <3>3 DEF CommitModel
  <2>8. CASE Promote
    <3>1. change.at = "promote" /\ UNCHANGED config /\ Step("swap")
      BY <2>8 DEF Promote
    <3>2. Ends /\ Informed'
      <4>1. change'.at = "swap"
        BY <1>t, <3>1 DEF Step, ChangeTyped, ChangeOver
      <4> QED BY <4>1 DEF Ends, Working, Informed
    <3>3. /\ change.key \in Keys /\ change.gen + 1 <= config.gen
          /\ change.gen + 1 = config.gen => change.key = config.key
          /\ Only(change.key, change.gen + 1)
          /\ Staged(change.key) => ledger[change.key].expected = change.gen
      BY <1>i, <1>t, <3>1 DEF Informed, Only
    <3>a. ASSUME Entered(change.key), ledger'[change.key].phase = "active", ledger'[change.key].committed = change.gen + 1
          PROVE  Kept
      BY <3>1, <3>2, <3>3, <3>a, ActiveKeeps DEF Kept
    <3>4. CASE UNCHANGED ledger
      BY <1>k, <1>s, <1>w, <3>1, <3>2, <3>4
    <3>5. CASE MayPromote(change.key) /\ ledger' = Promoted(change.key)
      <4>1. Entered(change.key) /\ ledger'[change.key].phase = "active"
            /\ ledger'[change.key].committed = change.gen + 1
        <5>1. Entered(change.key) /\ ledger'[change.key] =
                [phase |-> "active", expected |-> ledger[change.key].expected, committed |-> ledger[change.key].expected + 1]
          BY <1>t, <3>3, <3>5, PromotedEffect
        <5> QED BY <3>3, <3>5, <5>1 DEF MayPromote, Staged
      <4> QED BY <1>k, <3>a, <4>1
    <3>6. CASE ledger' = Adopted(change.key, change.gen + 1)
      <4>1. CASE Entered(change.key) /\ ledger'[change.key] =
                   [phase |-> "active", expected |-> (change.gen + 1) - 1, committed |-> change.gen + 1]
        BY <1>k, <3>a, <4>1
      <4> QED BY <1>t, <3>3, <3>4, <3>6, <4>1, AdoptedEffect
    <3> QED BY <2>8, <3>4, <3>5, <3>6 DEF Promote
  <2> QED BY <1>8, <2>1, <2>2, <2>3, <2>4, <2>5, <2>6, <2>7, <2>8 DEF Settings, Ongoing
<1> QED BY <1>1, <1>2, <1>3, <1>4, <1>5, <1>6, <1>7, <1>8 DEF Next, Stopping

(* Whatever fails, and whenever the process stops: no two active entries of  *)
(* the cleanup ledger ever carry one generation, so a start can load it.     *)
THEOREM LedgerAlwaysLoads == Spec => []LedgerLoads
<1>1. Init => LedgerInv
  BY DEF Init, LedgerInv, Quiet, Informed, Dated, Active, Staged, NoEntry, NoBoot, NoChange, NoAct
<1>2. LedgerInv => LedgerLoads
  BY DEF LedgerInv, Dated, Active, LedgerLoads
<1> QED BY <1>1, <1>2, TypedInit, TypedStep, LedgerStep, PTL DEF Spec
(***************************************************************************)
(* Every stored key has a record                                           *)
(***************************************************************************)
Handed == 1..spent.keys

TidyOver(H) == [at : {"done", "delete", "ack"}, todo : SUBSET H, key : H \cup {None}]
TaskOver(H) == [at : {"done", "drain", "retire", "list", "delete", "ack"}, gen : Nat,
                old : H \cup {None}, todo : SUBSET H, key : H \cup {None}]

(* No record names a key that was not handed out.                            *)
Known ==
  /\ spent.keys <= MaxKeys
  /\ vault \subseteq Handed
  /\ draft.cleanup \subseteq Handed
  /\ tidy \in TidyOver(Handed)
  /\ task \in [Tasks -> TaskOver(Handed)]
  /\ \A k \in Keys : ledger[k].phase # "none" => k \in Handed

(* The keys the draft's sweep is to take, and those a retirement names.      *)
Swept == draft.cleanup \cup tidy.todo \cup {tidy.key}
Listed(t) == task[t].todo \cup {task[t].key, task[t].old}

(* A probe works on the staged key; only when its record was stored although *)
(* the write failed does it discard the accepted one.                        *)
Staging == draft.staging = probe.key /\ probe.key \notin Swept
Mistaken ==
  /\ probe.at \in {"discard", "ack", "retire"}
  /\ draft.key = probe.key /\ draft.staging = None /\ probe.key \in spent.recorded

(* The draft holds a staged key or an accepted one, and the accepted one     *)
(* before a configuration is stored.                                         *)
Drafted ==
  /\ config.key # None => draft.key # None
  /\ draft.stage = "map" => draft.key # None
  /\ draft.staging # None => draft.key = None
  /\ mode = "setup" => config.key \in {None, draft.key}
  /\ \A k \in spent.recorded : k = draft.key /\ k # None
  /\ probe.at # "idle" =>
       /\ mode \notin {"down", "starting"} /\ probe.key # None
       /\ Staging \/ Mistaken

(* Before a configuration is stored nobody changes it or retires its keys.   *)
Unconfigured ==
  config.key = None =>
    /\ change.at = "idle" /\ mode # "operational"
    /\ \A a \in Request : act[a].at # "attach"
    /\ \A k \in Keys : ledger[k].phase = "none"
    /\ \A t \in Tasks : task[t].todo = {} /\ task[t].at # "ack" /\ task[t].old = None

Heading == {"asked", "mounted", "commit"}

(* An activation that can still commit holds the draft's key.                *)
Bound ==
  \A a \in Request : act[a].at \in Heading =>
    /\ act[a].key = draft.key /\ draft.key # None
    /\ act[a].gen <= config.gen
    /\ act[a].gen = config.gen => config.key \in {None, draft.key}

(* Nobody but a change under way knows its key.                              *)
Own(k) ==
  /\ k \in Handed /\ Staged(k)
  /\ k \notin {draft.key, config.key, change.old} \cup Swept
  /\ \A t \in Tasks : k \notin Listed(t)

(* A change that can still commit found the configuration's key active and   *)
(* has a key of its own; a replaced key is never the present one.            *)
Replacing ==
  /\ change.at # "idle" => mode \in {"operational", "stopping"}
  /\ change.at \in {"adopt", "reserve", "write", "check", "commit"} =>
       /\ change.gen <= config.gen
       /\ change.gen = config.gen => change.old = config.key
  /\ change.at \in {"reserve", "write", "check", "commit"} /\ change.gen = config.gen => Active(change.old)
  /\ change.at \in {"write", "check", "commit"} => Own(change.key)
  /\ change.at \in {"promote", "swap"} => change.old # config.key
  /\ \A t \in Tasks : task[t].old # None => task[t].old # config.key

(* A key is only forgotten once the vault has lost it.                       *)
Lost ==
  /\ probe.at = "ack" => probe.key \notin vault
  /\ tidy.at = "ack" => tidy.key \notin vault
  /\ change.at = "ack" => change.key \notin vault
  /\ \A t \in Tasks : task[t].at = "ack" => task[t].key \notin vault

Custody == Known /\ Drafted /\ Unconfigured /\ Bound /\ Replacing /\ Lost /\ NoOrphanKey

(* No key is None. *)
LEMMA HandedNames == None \notin Handed /\ Handed \subseteq Nat
  BY CredentialsAssumption DEF Handed

(* Every key handed out is within the bound. *)
LEMMA HandedKeys == ASSUME Typed, spent.keys <= MaxKeys PROVE Handed \subseteq Keys /\ Used = Handed \cup {None}
<1>1. spent.keys \in Nat /\ MaxKeys \in Nat
  BY CredentialsAssumption DEF Typed, SpentTyped, Spending
<1> QED BY <1>1 DEF Handed, Keys, Used

(* The smallest element of a set of numbers is one of them. *)
LEMMA MinIn == ASSUME NEW S \in SUBSET Nat, S # {} PROVE Min(S) \in S
<1>1. PICK m \in S : \A y \in S : ~ (<<y, m>> \in OpToRel(<, Nat))
  BY NatLessThanWellFounded, WFMin
<1>2. \A y \in S : ~ (y < m)
  BY <1>1 DEF OpToRel
<1>3. \A y \in S : m =< y
  BY <1>2
<1> QED BY <1>3 DEF Min

(* What a step may spend that hands out no key. *)
Spends ==
  \/ Fail \/ Fine \/ spent' = [spent EXCEPT !.starts = @ + 1]
  \/ Record /\ RecordTorn(probe.key)
  \/ CommitTorn(change.key) \/ \E a \in Request : CommitTorn(act[a].key)

(* Every other step spends so. *)
LEMMA SpendingSteps == [Next]_vars => Reserve \/ (ReserveKey /\ ~Fail /\ ~Fine) \/ Spends
  BY DEF Next, DraftStep, SaveIdentity, ProbeWrite, ProbeAnswer, Record, Discard,
     Acknowledge, Sweep, SweepDelete, SweepAck, ProbeOnly, TidyOnly, Resolver, BeginTurn, EndTurn,
     Drained, Stopping, StopBundle, StopResolver, StopSettings, Crash, Ended, Stop, CommitVoice,
     Retirement, AfterDrain, Retire, List, Delete, Ack, Activate, Ask, Mount, CreateSession, Commit,
     Rollback, Dispose, Attach, Settings, Ongoing, Configure, Retry, Cancel, AdoptCurrent, ReserveKey,
     WriteKey, WriteFails, Check, CommitModel, Promote, Swap, Abandon, AbandonDelete, AbandonAck, Remount,
     Boot, Start, BootAdopt, BootEntry, BootSweep, BootDraft, BootSurface, procs, vars, Fine, Spends

(* The number of keys handed out only grows, within its bound. *)
LEMMA HandedGrows ==
  ASSUME Typed, spent.keys <= MaxKeys, [Next]_vars
  PROVE  spent'.keys <= MaxKeys /\ Handed \subseteq Handed' /\ Used \subseteq Used'
<1>t. SpentTyped /\ spent.keys \in Nat /\ MaxKeys \in Nat
  BY CredentialsAssumption DEF Typed, SpentTyped, Spending
<1>0. probe.key \in Names /\ change.key \in Names /\ \A a \in Request : act[a].key \in Names
  BY <1>t, UsedNames DEF Typed, ProbeTyped, ProbeOver, ChangeTyped, ChangeOver, ActTyped, ActOver
<1>1. CASE Reserve \/ (ReserveKey /\ ~Fail /\ ~Fine)
  <2>1. spent'.keys = spent.keys + 1 /\ spent.keys < MaxKeys
    BY <1>1, <1>t, Named DEF Reserve, ReserveKey, NewKey
  <2> QED BY <1>t, <2>1 DEF Handed, Used
<1>2. CASE Spends
  <2>1. \/ Fail \/ Fine \/ spent' = [spent EXCEPT !.starts = @ + 1]
        \/ \E k \in Names : RecordTorn(k) \/ CommitTorn(k)
    BY <1>0, <1>2 DEF Spends
  <2> QED BY <1>t, <2>1, Spent DEF Handed, Used
<1> QED BY <1>1, <1>2, SpendingSteps

(* What is stored although its write failed stays so; only the probe's       *)
(* record names a key in the draft.                                          *)
LEMMA HistoryStep ==
  ASSUME SpentTyped, [Next]_vars
  PROVE  /\ spent.recorded \subseteq spent'.recorded
         /\ spent.committed \subseteq spent'.committed
         /\ ~Record => spent'.recorded = spent.recorded
<1>1. CASE spent' = [spent EXCEPT !.keys = @ + 1]
  BY <1>1 DEF SpentTyped, Spending
<1>2. CASE Spends
  <2>1. CASE Fail \/ Fine \/ spent' = [spent EXCEPT !.starts = @ + 1]
    BY <2>1 DEF SpentTyped, Spending, Fail, Fine
  <2>2. ASSUME NEW k, CommitTorn(k) PROVE spent'.recorded = spent.recorded /\ spent.committed \subseteq spent'.committed
    BY <2>2 DEF SpentTyped, Spending, CommitTorn
  <2>3. ASSUME NEW k, RecordTorn(k) PROVE spent.recorded \subseteq spent'.recorded /\ spent'.committed = spent.committed
    BY <2>3 DEF SpentTyped, Spending, RecordTorn
  <2> QED BY <1>2, <2>1, <2>2, <2>3 DEF Spends
<1> QED BY <1>1, <1>2, SpendingSteps DEF Reserve, ReserveKey

(* A step that leaves the probe alone records nothing. *)
LEMMA NothingRecorded ==
  ASSUME Typed, [Next]_vars, UNCHANGED probe
  PROVE  spent'.recorded = spent.recorded
<1>1. Record => probe' # probe
  BY DEF Record, NoProbe, Typed, ProbeTyped, ProbeOver
<1> QED BY <1>1, HistoryStep DEF Typed

(* The setup draft, its probe and its sweep keep every key on record. *)
LEMMA DraftCustody == ASSUME Typed, Typed', Custody, DraftStep, [Next]_vars PROVE Custody'
<1>u. UNCHANGED <<config, ledger, mode, act, change, task>>
  BY DEF DraftStep, SaveIdentity, Reserve, ProbeWrite, ProbeAnswer, Record, Discard, Acknowledge,
     Sweep, SweepDelete, SweepAck, ProbeOnly, TidyOnly, procs
<1>t. DraftTyped /\ ProbeTyped /\ spent.keys \in Nat /\ MaxKeys \in Nat /\ NewKey \notin Handed /\ NewKey # None
  BY CredentialsAssumption DEF Typed, SpentTyped, Spending, Handed, NewKey
<1>h. /\ Handed \subseteq Nat /\ Handed \subseteq Handed' /\ None \notin Nat
      /\ spent'.keys <= MaxKeys
  BY HandedGrows, CredentialsAssumption DEF Custody, Known, Handed
<1>y. tidy \in TidyOver(Handed) /\ tidy \in TidyOver(Handed')
  BY <1>h DEF Custody, Known, TidyOver
<1>k. ASSUME vault' \subseteq Handed', draft'.cleanup \subseteq Handed', tidy' \in TidyOver(Handed') PROVE Known'
  <2>1. task \in [Tasks -> TaskOver(Handed')]
    BY <1>h DEF Custody, Known, TaskOver
  <2> QED BY <1>k, <1>u, <1>h, <2>1 DEF Custody, Known
<1>b. draft'.key = draft.key \/ draft.key = None => Bound'
  BY <1>u DEF Custody, Bound, Heading
<1>n. Unconfigured'
  BY <1>u DEF Custody, Unconfigured
<1>r. ASSUME config.key # None => draft'.key = draft.key /\ Swept' \subseteq Swept \cup {None}
      PROVE  Replacing'
  <2>1. change.at \in {"write", "check", "commit"} => Own(change.key)'
    <3>1. change.at \in {"write", "check", "commit"} => Own(change.key) /\ config.key # None
      BY DEF Custody, Replacing, Unconfigured
    <3> QED BY <1>h, <1>u, <1>r, <3>1 DEF Own, Staged, Listed
  <2> QED BY <1>u, <2>1 DEF Custody, Replacing, Active
<1>l. ASSUME \A k \in vault' \ vault : k \in Handed' /\ k = draft.staging /\ config.key = None /\ k \notin Swept,
             probe'.at = "ack" => probe'.key \notin vault', tidy'.at = "ack" => tidy'.key \in Swept /\ tidy'.key \notin vault
      PROVE  Lost'
  <2>1. change.at = "ack" => change.key \notin vault'
    BY <1>l DEF Custody, Lost, Unconfigured
  <2>2. \A t \in Tasks : task[t].at = "ack" => task[t].key \notin vault'
    BY <1>l DEF Custody, Lost, Unconfigured
  <2> QED BY <1>u, <1>l, <2>1, <2>2 DEF Lost
<1>d. /\ config.key # None => draft.key # None
      /\ draft.stage = "map" => draft.key # None
      /\ draft.staging # None => draft.key = None
      /\ mode = "setup" => config.key \in {None, draft.key}
  BY DEF Custody, Drafted
<1>p. probe.at # "idle" =>
        /\ mode \notin {"down", "starting"} /\ probe.key # None
        /\ \/ /\ draft.key = None /\ draft.staging = probe.key /\ config.key = None
              /\ probe.key \notin Swept
           \/ /\ probe.at \in {"discard", "ack", "retire"} /\ draft.staging = None
              /\ draft.key = probe.key /\ probe.key \in spent.recorded
  BY DEF Custody, Drafted, Staging, Mistaken
<1>q. spent.recorded \subseteq spent'.recorded /\ (~Record => spent'.recorded = spent.recorded)
  BY HistoryStep DEF Typed
<1>v. \A k \in spent.recorded : k = draft.key /\ k # None
  BY DEF Custody, Drafted
<1>o. NoOrphanKey /\ vault \subseteq Handed /\ draft.cleanup \subseteq Handed
  BY DEF Custody, Known
<1>1. CASE SaveIdentity /\ ~Record
  <2>1. /\ draft'.key = draft.key /\ draft'.staging = draft.staging /\ draft'.cleanup = draft.cleanup
        /\ draft'.stage = "model" /\ UNCHANGED <<vault, probe, tidy>>
    BY <1>1, <1>t DEF SaveIdentity, procs, DraftTyped, DraftOver
  <2>2. Swept' = Swept
    BY <2>1 DEF Swept
  <2>3. Known'
    BY <1>k, <1>h, <1>o, <1>y, <2>1
  <2>4. Drafted'
    BY <1>u, <1>d, <1>p, <1>q, <1>v, <1>1, <2>1, <2>2 DEF Drafted, Staging, Mistaken
  <2>5. Bound' /\ Replacing'
    BY <1>b, <1>r, <2>1, <2>2
  <2>6. Lost'
    BY <1>u, <2>1 DEF Custody, Lost
  <2>7. NoOrphanKey'
    BY <1>u, <1>o, <2>1 DEF NoOrphanKey
  <2> QED BY <1>n, <2>3, <2>4, <2>5, <2>6, <2>7 DEF Custody
<1>2. CASE Reserve /\ ~Record
  <2>1. /\ draft'.key = draft.key /\ draft'.staging = NewKey /\ draft'.cleanup = draft.cleanup
        /\ draft'.stage = draft.stage /\ UNCHANGED <<vault, tidy>>
        /\ probe'.at = "write" /\ probe'.key = NewKey
        /\ mode = "setup" /\ draft.key = None /\ draft.staging = None
    BY <1>2, <1>t DEF Reserve, Asked, MayReserve, DraftTyped, DraftOver
  <2>2. Swept' = Swept /\ NewKey \notin Swept
    BY <1>t, <1>o, <1>y, <2>1 DEF Swept, TidyOver
  <2>3. Known'
    BY <1>k, <1>h, <1>o, <1>y, <2>1
  <2>4. Drafted'
    BY <1>u, <1>d, <1>t, <1>q, <1>v, <1>2, <2>1, <2>2 DEF Drafted, Staging, Mistaken
  <2>5. Bound' /\ Replacing'
    BY <1>b, <1>r, <2>1, <2>2
  <2>6. Lost'
    BY <1>u, <2>1 DEF Custody, Lost
  <2>7. NoOrphanKey'
    BY <1>u, <1>h, <1>o, <2>1 DEF NoOrphanKey
  <2> QED BY <1>n, <2>3, <2>4, <2>5, <2>6, <2>7 DEF Custody
<1>3. CASE ProbeWrite /\ ~Record
  <2>1. /\ probe.at = "write" /\ probe'.at \in {"check", "discard"} /\ probe'.key = probe.key
        /\ UNCHANGED <<draft, tidy>> /\ vault' \in {vault, vault \cup {probe.key}}
    BY <1>3, <1>t DEF ProbeWrite, ProbeOnly, WriteFails, ProbeTyped, ProbeOver
  <2>2. Swept' = Swept /\ probe.key \in Handed /\ Handed \subseteq Handed'
    BY <1>h, <1>t, <1>p, <2>1 DEF Swept, ProbeTyped, ProbeOver, Used, Handed
  <2>3. Known'
    BY <1>k, <1>h, <1>o, <1>y, <2>1, <2>2
  <2>4. Drafted'
    BY <1>u, <1>d, <1>p, <1>q, <1>v, <1>3, <2>1, <2>2 DEF Drafted, Staging, Mistaken
  <2>5. Bound' /\ Replacing'
    BY <1>b, <1>r, <2>1, <2>2
  <2>6. Lost'
    <3>1. \A k \in vault' \ vault : k \in Handed' /\ k = draft.staging /\ config.key = None /\ k \notin Swept
      BY <1>p, <2>1, <2>2
    <3>2. tidy'.at = "ack" => tidy'.key \in Swept /\ tidy'.key \notin vault
      BY <2>1 DEF Swept, Custody, Lost
    <3> QED BY <1>l, <2>1, <3>1, <3>2
  <2>7. NoOrphanKey'
    BY <1>u, <1>o, <1>p, <2>1 DEF NoOrphanKey
  <2> QED BY <1>n, <2>3, <2>4, <2>5, <2>6, <2>7 DEF Custody
<1>4. CASE (ProbeAnswer \/ Discard) /\ ~Record
  <2>1. /\ probe.at \in {"check", "discard"} /\ probe'.at \in {"record", "discard", "ack", "retire"}
        /\ probe'.key = probe.key
        /\ probe.at = "check" \/ probe'.at \in {"ack", "retire"}
        /\ probe'.at = "ack" => probe.key \notin vault'
        /\ UNCHANGED <<draft, tidy>> /\ vault' \subseteq vault
    BY <1>4, <1>t DEF ProbeAnswer, Discard, ProbeOnly, ProbeTyped, ProbeOver
  <2>2. Swept' = Swept
    BY <2>1 DEF Swept
  <2>3. Known'
    BY <1>k, <1>h, <1>o, <1>y, <2>1
  <2>4. Drafted'
    BY <1>u, <1>d, <1>p, <1>q, <1>v, <1>4, <2>1, <2>2 DEF Drafted, Staging, Mistaken
  <2>5. Bound' /\ Replacing'
    BY <1>b, <1>r, <2>1, <2>2
  <2>6. Lost'
    BY <1>u, <2>1 DEF Custody, Lost
  <2>7. NoOrphanKey'
    BY <1>u, <1>o, <2>1 DEF NoOrphanKey
  <2> QED BY <1>n, <2>3, <2>4, <2>5, <2>6, <2>7 DEF Custody
<1>5. CASE Record
  <2>1. /\ probe.at = "record" /\ UNCHANGED <<vault, tidy>> /\ draft'.cleanup = draft.cleanup
        /\ \/ /\ UNCHANGED draft /\ probe'.at = "discard" /\ probe'.key = probe.key
              /\ spent'.recorded = spent.recorded
           \/ /\ draft'.key = probe.key /\ draft'.staging = None /\ draft'.stage = "map"
              /\ \/ probe'.at = "idle" /\ spent'.recorded = spent.recorded
                 \/ /\ probe'.at = "discard" /\ probe'.key = probe.key
                    /\ spent'.recorded = spent.recorded \cup {probe.key}
    <3>0. Fine \/ Fail => spent'.recorded = spent.recorded
      BY DEF Fine, Fail, Typed, SpentTyped, Spending
    <3>1. CASE UNCHANGED draft /\ probe' = [probe EXCEPT !.at = "discard"] /\ (Fine \/ Fail)
      BY <1>5, <1>t, <3>0, <3>1 DEF Record, ProbeOnly, TidyOnly, ProbeTyped, ProbeOver
    <3>2. CASE draft' = Accepted /\ probe' = NoProbe /\ Fine
      BY <1>5, <1>t, <3>0, <3>2 DEF Record, ProbeOnly, Accepted, NoProbe, DraftTyped, DraftOver
    <3>3. CASE draft' = Accepted /\ probe' = [probe EXCEPT !.at = "discard"] /\ RecordTorn(probe.key)
      <4>1. draft'.key = probe.key /\ draft'.staging = None /\ draft'.stage = "map" /\ draft'.cleanup = draft.cleanup
        BY <1>t, <3>3 DEF Accepted, DraftTyped, DraftOver
      <4>2. probe'.at = "discard" /\ probe'.key = probe.key
        BY <1>t, <3>3 DEF ProbeTyped, ProbeOver
      <4>3. spent'.recorded = spent.recorded \cup {probe.key}
        BY <3>3 DEF Typed, SpentTyped, Spending, RecordTorn
      <4> QED BY <1>5, <4>1, <4>2, <4>3 DEF Record, ProbeOnly
    <3> QED BY <1>5, <3>1, <3>2, <3>3 DEF Record
  <2>2. Swept' = Swept
    BY <2>1 DEF Swept
  <2>3. Known'
    BY <1>k, <1>h, <1>o, <1>y, <2>1
  <2>4. Drafted'
    BY <1>u, <1>d, <1>p, <1>q, <1>v, <1>5, <2>1, <2>2 DEF Drafted, Staging, Mistaken
  <2>5. Bound' /\ Replacing'
    BY <1>b, <1>r, <1>p, <2>1, <2>2
  <2>6. Lost'
    BY <1>u, <2>1 DEF Custody, Lost
  <2>7. NoOrphanKey'
    BY <1>u, <1>o, <1>p, <2>1 DEF NoOrphanKey
  <2> QED BY <1>n, <2>3, <2>4, <2>5, <2>6, <2>7 DEF Custody
<1>6. CASE Acknowledge /\ ~Record
  <2>1. /\ probe.at \in {"ack", "retire"} /\ UNCHANGED <<vault, tidy>>
        /\ draft'.key = draft.key /\ draft'.stage = draft.stage
        /\ \/ UNCHANGED draft /\ probe'.at = "retire" /\ probe'.key = probe.key
           \/ UNCHANGED draft /\ probe'.at = "idle"
           \/ probe.at = "ack" /\ draft'.staging = None /\ draft'.cleanup = draft.cleanup /\ probe'.at = "idle"
           \/ draft' = DraftRetired /\ probe'.at = "idle"
    <3>1. draft' \in {draft, [draft EXCEPT !.staging = None], DraftRetired}
      BY <1>6 DEF Acknowledge
    <3>2. draft'.key = draft.key /\ draft'.stage = draft.stage
      BY <1>t, <3>1 DEF DraftRetired, DraftTyped, DraftOver
    <3>3. draft' = [draft EXCEPT !.staging = None] => draft'.staging = None /\ draft'.cleanup = draft.cleanup
      BY <1>t DEF DraftTyped, DraftOver
    <3>4. /\ probe' = NoProbe => probe'.at = "idle"
          /\ probe' = [probe EXCEPT !.at = "retire"] => probe'.at = "retire" /\ probe'.key = probe.key
      BY <1>t DEF ProbeTyped, ProbeOver, NoProbe
    <3> QED BY <1>6, <3>2, <3>3, <3>4 DEF Acknowledge, ProbeOnly
  <2>2. draft' = DraftRetired =>
          /\ draft'.staging = None
          /\ draft'.cleanup = IF draft.staging = None THEN draft.cleanup ELSE draft.cleanup \cup {probe.key}
    BY <1>t, <1>p, <2>1 DEF DraftRetired, DraftTyped, DraftOver
  <2>3. Known'
    <3>1. probe.key \in Handed
      BY <1>t, <1>p, <2>1 DEF ProbeTyped, ProbeOver, Used, Handed
    <3> QED BY <1>k, <1>h, <1>o, <1>y, <2>1, <2>2, <3>1
  <2>4. Drafted'
    BY <1>u, <1>d, <1>p, <1>q, <1>v, <1>6, <2>1, <2>2 DEF Drafted, Swept, Staging, Mistaken
  <2>5. Bound' /\ Replacing'
    <3>1. config.key # None => Swept' \subseteq Swept
      BY <1>p, <2>1, <2>2 DEF Swept
    <3> QED BY <1>b, <1>r, <2>1, <3>1
  <2>6. Lost'
    BY <1>u, <2>1 DEF Custody, Lost
  <2>7. NoOrphanKey'
    BY <1>u, <1>o, <1>p, <2>1, <2>2 DEF NoOrphanKey, Custody, Lost
  <2> QED BY <1>n, <2>3, <2>4, <2>5, <2>6, <2>7 DEF Custody
<1>7. CASE (Sweep \/ SweepDelete \/ SweepAck) /\ ~Record
  <2>0. draft.cleanup \in SUBSET Nat /\ tidy.todo \in SUBSET Nat /\ tidy.todo \subseteq Handed
        /\ tidy.at \in {"done", "delete", "ack"}
    BY <1>h, <1>o, <1>y DEF TidyOver
  <2>1. /\ draft'.key = draft.key /\ draft'.stage = draft.stage /\ draft'.staging = draft.staging
        /\ vault' \subseteq vault /\ UNCHANGED probe
        /\ \/ draft'.cleanup = draft.cleanup
           \/ tidy.at = "ack" /\ draft'.cleanup = draft.cleanup \ {tidy.key}
    BY <1>7, <1>t DEF Sweep, SweepDelete, SweepAck, TidyOnly, DraftTyped, DraftOver
  <2>2. /\ Swept' \subseteq Swept \cup {None} /\ tidy' \in TidyOver(Handed')
        /\ tidy'.at = "ack" => tidy'.key \notin vault'
    <3>1. CASE Sweep
      BY <1>h, <1>o, <3>1 DEF Sweep, Swept, TidyOver
    <3>2. CASE SweepDelete
      <4>1. CASE tidy.todo = {}
        BY <1>h, <3>2, <4>1, <2>1 DEF SweepDelete, Swept, TidyOver, NoTidy
      <4>2. CASE tidy.todo # {}
        <5>1. Min(tidy.todo) \in tidy.todo
          BY <2>0, <4>2, MinIn
        <5> DEFINE k == Min(tidy.todo)
        <5> HIDE DEF k
        <5>2. \/ vault' = vault \ {k} /\ tidy' = [at |-> "ack", todo |-> tidy.todo \ {k}, key |-> k]
              \/ UNCHANGED vault /\ tidy' = [tidy EXCEPT !.todo = @ \ {k}]
          BY <3>2, <4>2 DEF SweepDelete, k
        <5>3. tidy'.todo \subseteq tidy.todo /\ tidy'.key \in {k, tidy.key} /\ k \in tidy.todo
          BY <1>y, <5>1, <5>2 DEF TidyOver, k
        <5>4. Swept' \subseteq Swept
          BY <2>1, <5>3 DEF Swept
        <5>5. tidy' \in TidyOver(Handed')
          BY <1>y, <1>h, <2>0, <5>2, <5>3 DEF TidyOver
        <5>6. tidy'.at = "ack" => tidy'.key \notin vault'
          BY <1>y, <3>2, <5>2 DEF SweepDelete, TidyOver
        <5> QED BY <5>4, <5>5, <5>6
      <4> QED BY <4>1, <4>2
    <3>3. CASE SweepAck
      BY <1>y, <1>t, <3>3 DEF SweepAck, Swept, TidyOver, DraftTyped, DraftOver
    <3> QED BY <1>7, <3>1, <3>2, <3>3
  <2>3. Known'
    BY <1>k, <1>h, <1>o, <2>1, <2>2
  <2>4. Drafted'
    BY <1>u, <1>d, <1>p, <1>q, <1>v, <1>7, <2>1, <2>2 DEF Drafted, Staging, Mistaken
  <2>5. Bound' /\ Replacing'
    BY <1>b, <1>r, <2>1, <2>2
  <2>6. Lost'
    BY <1>u, <2>1, <2>2 DEF Custody, Lost
  <2>7. NoOrphanKey'
    BY <1>u, <1>o, <2>1 DEF NoOrphanKey, Custody, Lost
  <2> QED BY <1>n, <2>3, <2>4, <2>5, <2>6, <2>7 DEF Custody
<1> QED BY <1>1, <1>2, <1>3, <1>4, <1>5, <1>6, <1>7 DEF DraftStep

(* An activation heads for a commit only if it did before, with what it held. *)
NoneHeads ==
  \A a \in Request :
    /\ act'[a].at \in Heading => /\ act[a].at \in Heading
                                 /\ act'[a].key = act[a].key /\ act'[a].gen = act[a].gen
    /\ act'[a].at = "attach" => act[a].at = "attach"

(* A step that leaves the files alone and opens no call.                     *)
Detached ==
  /\ UNCHANGED <<config, ledger, draft, vault>>
  /\ spent'.keys = spent.keys /\ spent'.recorded = spent.recorded
  /\ (probe' = probe /\ mode' \notin {"down", "starting"}) \/ probe' = NoProbe
  /\ tidy' \in {tidy, NoTidy} /\ DOMAIN task' = Tasks
  /\ task' = [t \in Tasks |-> task'[t]] /\ \A t \in Tasks : task'[t] \in {task[t], NoTask}
  /\ \/ change'.at = "idle"
     \/ /\ change'.at = change.at /\ change'.gen = change.gen
        /\ change'.old = change.old /\ change'.key = change.key
  /\ NoneHeads
  /\ mode' = "setup" => config.key \in {None, draft.key}
  /\ mode' = "operational" => config.key # None
  /\ change'.at # "idle" => mode' \in {"operational", "stopping"}

(* Such a step loses track of no key. *)
LEMMA DetachedCustody == ASSUME Custody, Detached PROVE Custody'
<1>u. UNCHANGED <<config, ledger, draft, vault>> /\ Handed' = Handed
  BY DEF Detached, Handed
<1>s. Swept' \subseteq Swept \cup {None} /\ \A t \in Tasks : Listed(t)' \subseteq Listed(t) \cup {None}
  BY <1>u DEF Detached, Swept, Listed, NoTidy, NoTask
<1>n. None \notin Handed
  BY HandedNames
<1>1. Known'
  <2>1. NoTidy \in TidyOver(Handed) /\ NoTask \in TaskOver(Handed)
    BY DEF NoTidy, NoTask, TidyOver, TaskOver
  <2>2. task' \in [Tasks -> TaskOver(Handed)]
    BY <2>1 DEF Detached, Custody, Known
  <2> QED BY <1>u, <2>1, <2>2 DEF Detached, Custody, Known
<1>2. Drafted'
  <2>1. probe' = NoProbe => probe'.at = "idle"
    BY DEF NoProbe
  <2> QED BY <1>u, <1>s, <2>1 DEF Detached, Custody, Drafted, Staging, Mistaken
<1>3. Unconfigured'
  BY <1>u DEF Detached, NoneHeads, Custody, Unconfigured, NoTask
<1>4. Bound'
  BY <1>u DEF Detached, NoneHeads, Custody, Bound
<1>5. Replacing'
  <2>1. change'.at \in {"write", "check", "commit"} => Own(change.key)'
    BY <1>u, <1>s, <1>n DEF Detached, Custody, Replacing, Own, Staged
  <2> QED BY <1>u, <2>1 DEF Detached, Custody, Replacing, Active, NoTask
<1>6. Lost'
  BY <1>u DEF Detached, Custody, Lost, NoTask, NoTidy, NoProbe
<1>7. NoOrphanKey'
  BY <1>u DEF Custody, NoOrphanKey
<1> QED BY <1>1, <1>2, <1>3, <1>4, <1>5, <1>6, <1>7 DEF Custody

(* A commit names the key of the draft. *)
LEMMA FoundCustody ==
  ASSUME Typed, Custody, NEW a \in Request, act[a].at = "commit", config.gen = act[a].gen,
         config' = Stored(act[a].key), UNCHANGED mode,
         spent'.keys = spent.keys, spent'.recorded = spent.recorded,
         UNCHANGED <<ledger, draft, vault, probe, tidy, change, task>>,
         \A b \in Request : act'[b].at \in Heading => act'[b] = act[b]
  PROVE  Custody'
<1>u. Handed' = Handed /\ Swept' = Swept /\ \A t \in Tasks : Listed(t)' = Listed(t)
  BY DEF Handed, Swept, Listed
<1>c. /\ config'.key = draft.key /\ draft.key # None /\ config.key \in {None, draft.key}
      /\ config'.gen = config.gen + 1 /\ config.gen \in Nat /\ change.gen \in Nat
  BY DEF Custody, Bound, Heading, Stored, Typed, ConfigTyped, ChangeTyped, ChangeOver
<1>1. Known'
  BY <1>u DEF Custody, Known
<1>2. Drafted' /\ Unconfigured'
  BY <1>u, <1>c DEF Custody, Drafted, Staging, Mistaken, Unconfigured
<1>3. Bound'
  <2>1. \A b \in Request : act[b].gen \in Nat
    BY DEF Typed, ActTyped, ActOver
  <2> QED BY <1>c, <2>1 DEF Custody, Bound
<1>4. Replacing'
  <2>1. change.at \in {"write", "check", "commit"} => Own(change.key)'
    BY <1>u, <1>c DEF Custody, Replacing, Own, Staged
  <2>2. change.at # "idle" \/ (\E t \in Tasks : task[t].old # None) => config'.key = config.key
    BY <1>c DEF Custody, Unconfigured
  <2> QED BY <1>c, <2>1, <2>2 DEF Custody, Replacing, Active
<1>5. Lost'
  BY DEF Custody, Lost
<1>6. NoOrphanKey'
  <2>1. None \notin vault
    BY HandedNames DEF Custody, Known
  <2> QED BY <1>c, <2>1 DEF Custody, NoOrphanKey
<1> QED BY <1>1, <1>2, <1>3, <1>4, <1>5, <1>6 DEF Custody

(* An activation keeps every key on record. *)
LEMMA ActivateCustody == ASSUME Typed, Custody, NEW a \in Request, Activate(a) PROVE Custody'
<1>t. ActTyped /\ SpentTyped /\ act[a].key \in Names
  BY UsedNames DEF Typed, ActTyped, ActOver
<1>v. spent'.recorded = spent.recorded
  <2>1. Fail \/ Fine \/ CommitTorn(act[a].key)
    BY DEF Activate, Ask, Mount, CreateSession, Commit, Rollback, Dispose, Attach, Fine
  <2>2. Fail \/ Fine => spent'.recorded = spent.recorded
    BY <1>t DEF Fail, Fine, SpentTyped, Spending
  <2>3. CommitTorn(act[a].key) => spent'.recorded = spent.recorded
    BY <1>t DEF CommitTorn, SpentTyped, Spending
  <2> QED BY <2>1, <2>2, <2>3
<1>u. /\ UNCHANGED <<ledger, draft, vault, probe, tidy, change, task>> /\ spent'.keys = spent.keys
      /\ \A b \in Request \ {a} : act'[b] = act[b]
  BY <1>t, Spent DEF Activate, Ask, Mount, CreateSession, Commit, Rollback, Dispose, Attach, ActOnly,
     Go, ActTyped, Fine
<1>g. ASSUME NEW l, Go(a, l)
      PROVE  act'[a].at = l /\ (l # "idle" => act'[a].key = act[a].key /\ act'[a].gen = act[a].gen)
  BY <1>t, <1>g DEF Go, NoAct, ActTyped, ActOver
<1>k. task \in [Tasks -> TaskOver(Handed)]
  BY DEF Custody, Known
<1>d. ASSUME UNCHANGED config, NEW l, Go(a, l), l \in Heading => act[a].at \in Heading,
             l # "attach", mode' = mode \/ (mode' = "operational" /\ config.key # None),
             mode \notin {"down", "starting"}
      PROVE  Custody'
  <2>1. NoneHeads
    BY <1>u, <1>g, <1>d DEF NoneHeads, Heading
  <2>2. /\ DOMAIN task' = Tasks /\ task' = [t \in Tasks |-> task'[t]]
        /\ \A t \in Tasks : task'[t] \in {task[t], NoTask}
    BY <1>u, <1>k
  <2>3. mode' = "setup" => config.key \in {None, draft.key}
    BY <1>d DEF Custody, Drafted
  <2>4. mode' = "operational" => config.key # None
    BY <1>d DEF Custody, Unconfigured
  <2>5. mode' \notin {"down", "starting"}
    BY <1>d
  <2>6. change'.at # "idle" => mode' \in {"operational", "stopping"}
    BY <1>u, <1>d DEF Custody, Replacing
  <2>7. Detached
    BY <1>u, <1>v, <1>d, <2>1, <2>2, <2>3, <2>4, <2>5, <2>6 DEF Detached
  <2> QED BY <2>7, DetachedCustody
<1>1. CASE Ask(a)
  <2>1. /\ mode = "setup" /\ draft.stage = "map" /\ UNCHANGED <<config, mode>>
        /\ act'[a].at = "asked" /\ act'[a].gen = config.gen /\ act'[a].key = draft.key
    BY <1>t, <1>1 DEF Ask, Asked, ActTyped
  <2>2. draft.key # None /\ config.key \in {None, draft.key} /\ config.gen \in Nat
    BY <2>1 DEF Custody, Drafted, Typed, ConfigTyped
  <2>3. Bound'
    BY <1>u, <2>1, <2>2 DEF Custody, Bound, Heading
  <2>4. Unconfigured'
    BY <1>u, <2>1 DEF Custody, Unconfigured
  <2>5. (Known /\ Drafted /\ Replacing /\ Lost /\ NoOrphanKey)'
    BY <1>u, <1>v, <2>1 DEF Custody, Known, Drafted, Staging, Mistaken, Replacing, Lost, NoOrphanKey, Handed,
       Swept, Own, Staged, Active, Listed
  <2> QED BY <2>3, <2>4, <2>5 DEF Custody
<1>2. CASE Mount(a) \/ CreateSession(a) \/ Rollback(a) \/ Dispose(a)
  <2>1. UNCHANGED <<config, mode>> /\ mode \notin {"down", "starting"}
    BY <1>2 DEF Mount, CreateSession, Rollback, Dispose, Alive
  <2>2. PICK l : Go(a, l) /\ l # "attach" /\ (l \in Heading => act[a].at \in Heading)
    <3>1. CreateSession(a) => act[a].at = "mounted" /\ (Go(a, "dispose") \/ Go(a, "commit"))
      BY DEF CreateSession
    <3>2. Mount(a) => act[a].at = "asked" /\ (Go(a, "idle") \/ Go(a, "mounted"))
      BY DEF Mount
    <3>3. Rollback(a) \/ Dispose(a) => Go(a, "dispose") \/ Go(a, "idle")
      BY DEF Rollback, Dispose
    <3> QED BY <1>2, <3>1, <3>2, <3>3 DEF Heading
  <2>3. mode' = mode /\ UNCHANGED config
    BY <2>1
  <2> QED BY <1>d, <2>1, <2>2, <2>3
<1>3. CASE Commit(a)
  <2>1. UNCHANGED mode /\ act[a].at = "commit" /\ mode \notin {"down", "starting"}
    BY <1>3 DEF Commit, Alive
  <2>2. CASE UNCHANGED config /\ Go(a, "rollback")
    <3>1. mode' = mode /\ UNCHANGED config /\ "rollback" \notin Heading
      BY <2>1, <2>2 DEF Heading
    <3> QED BY <1>d, <2>1, <2>2, <3>1
  <2>3. CASE /\ config.gen = act[a].gen /\ config' = Stored(act[a].key)
             /\ Go(a, "attach") \/ Go(a, "rollback")
    <3>1. \A b \in Request : act'[b].at \in Heading => act'[b] = act[b]
      BY <1>u, <1>g, <2>3 DEF Heading
    <3> QED BY <1>u, <1>v, <2>1, <2>3, <3>1, FoundCustody
  <2> QED BY <1>3, <2>2, <2>3 DEF Commit
<1>4. CASE Attach(a)
  <2>1. /\ UNCHANGED config /\ Go(a, "idle") /\ mode \notin {"down", "starting"}
        /\ mode' = mode \/ mode' = "operational"
    BY <1>4 DEF Attach, Alive
  <2>2. config.key # None
    BY <1>4 DEF Attach, Custody, Unconfigured
  <2> QED BY <1>d, <2>1, <2>2 DEF Heading
<1> QED BY <1>1, <1>2, <1>3, <1>4 DEF Activate

(* Of a settings change: what its steps may do to the records it shares.     *)
ChangesOnly ==
  /\ UNCHANGED <<draft, mode, probe, tidy, act>> /\ spent'.recorded = spent.recorded
  /\ \A t \in Tasks : /\ task'[t].todo \subseteq task[t].todo
                      /\ task'[t].key \in {task[t].key, None}
                      /\ task'[t].old \in {task[t].old, None, change.old}
                      /\ task'[t].at = "ack" => task[t].at = "ack" /\ task'[t].key = task[t].key
  /\ DOMAIN task' = Tasks

(* A settings change keeps every key on record: what it must answer for. *)
LEMMA ChangeCustody ==
  ASSUME Typed, Custody, ChangesOnly, change.at # "idle" \/ mode = "operational",
         Known', Replacing', NoOrphanKey',
         \A k \in vault' \ vault : change.at = "write" /\ k = change.key,
         change'.at = "ack" => change'.key \notin vault',
         UNCHANGED config \/ (config.gen = change.gen /\ config' = Stored(change.key) /\ change.at = "commit")
  PROVE  Custody'
<1>c. /\ config.key # None /\ draft.key # None /\ draft.staging = None
      /\ probe.at # "idle" => probe.key = draft.key
  BY DEF Custody, Unconfigured, Drafted, Staging, Mistaken
<1>k. config'.gen >= config.gen /\ config'.key # None
  BY <1>c, HandedNames DEF Typed, ConfigTyped, Stored, Custody, Replacing, Own
<1>m. mode \in {"operational", "stopping"}
  BY DEF Custody, Replacing
<1>w. \A k \in vault' \ vault : change.at = "write" /\ Own(k)
  BY DEF Custody, Replacing
<1>1. Drafted'
  BY <1>c, <1>k, <1>m DEF ChangesOnly, Custody, Drafted, Staging, Mistaken, Swept
<1>2. Unconfigured'
  BY <1>k DEF Unconfigured
<1>3. Bound'
  <2>1. \A b \in Request : act[b].gen \in Nat
    BY DEF Typed, ActTyped, ActOver
  <2>2. CASE UNCHANGED config
    BY <2>2 DEF ChangesOnly, Custody, Bound
  <2>3. CASE config' = Stored(change.key)
    <3>1. config'.gen = config.gen + 1 /\ config.gen \in Nat
      BY <2>3 DEF Stored, Typed, ConfigTyped
    <3> QED BY <2>1, <3>1 DEF ChangesOnly, Custody, Bound
  <2> QED BY <2>2, <2>3
<1>4. Lost'
  <2>1. /\ tidy.at = "ack" => tidy.key \notin vault'
        /\ probe.at = "ack" => probe.key \notin vault'
    BY <1>c, <1>w DEF Custody, Lost, Own, Swept
  <2>2. \A t \in Tasks : task'[t].at = "ack" => task'[t].key \notin vault'
    BY <1>w DEF ChangesOnly, Custody, Lost, Own, Listed
  <2> QED BY <1>c, <2>1, <2>2 DEF ChangesOnly, Lost
<1> QED BY <1>1, <1>2, <1>3, <1>4 DEF Custody

(* A drain to wait for is a task of its own, with one key to retire at most. *)
LEMMA AwaitEffect ==
  ASSUME Known, NEW old \in Used, Await(old)
  PROVE  \E s \in Tasks :
           /\ task[s].at = "done"
           /\ task'[s].at = "drain" /\ task'[s].old = old /\ task'[s].todo = {} /\ task'[s].key = None
           /\ \A t \in Tasks \ {s} : task'[t] = task[t]
           /\ task' \in [Tasks -> TaskOver(Handed)]
<1> DEFINE slots == {t \in 1..MaxTasks : task[t].at = "done"}
           s == Min(slots)
           entry == [NoTask EXCEPT !.at = "drain", !.gen = Predecessor, !.old = old]
<1>1. slots # {} /\ task' = [task EXCEPT ![s] = entry]
  BY DEF Await
<1>2. s \in slots
  <2>1. slots \in SUBSET Nat
    OBVIOUS
  <2> HIDE DEF slots
  <2> QED BY <1>1, <2>1, MinIn
<1>3. s \in Tasks /\ task[s].at = "done"
  BY <1>2, CredentialsAssumption DEF Tasks
<1>4. Predecessor \in Nat
  <2>1. Serving \in SUBSET Nat
    BY DEF Serving, Gens
  <2> QED BY <2>1, MinIn DEF Predecessor
<1> HIDE DEF s
<1>5. entry \in TaskOver(Handed) /\ entry.at = "drain" /\ entry.old = old /\ entry.todo = {} /\ entry.key = None
  BY <1>4 DEF NoTask, TaskOver, Used, Handed
<1> HIDE DEF entry
<1>6. task'[s] = entry /\ task' \in [Tasks -> TaskOver(Handed)] /\ \A t \in Tasks \ {s} : task'[t] = task[t]
  BY <1>1, <1>3, <1>5 DEF Known
<1> QED BY <1>3, <1>5, <1>6

(* The entry of a known key may be written. *)
LEMMA KnownEntry ==
  ASSUME Known, Handed \subseteq Handed', NEW k \in Used', Entered(k)
  PROVE  \A j \in Keys : ledger'[j].phase # "none" => j \in Handed'
  BY CredentialsAssumption DEF Known, Entered, Used, Handed, Keys

(* Every key keeps its record if every entry of a stored key stays one. *)
LEMMA RecordsKept ==
  ASSUME NoOrphanKey, UNCHANGED <<config, draft>>,
         \A k \in vault' : \/ ledger'[k].phase # "none"
                           \/ k \in vault /\ (ledger[k].phase # "none" => ledger'[k].phase # "none")
  PROVE  NoOrphanKey'
  BY DEF NoOrphanKey

(* What the stages of a change write. *)
LEMMA StepEffect ==
  ASSUME ChangeTyped, NEW l, Step(l)
  PROVE  /\ change'.at = l /\ change'.gen = change.gen /\ change'.old = change.old
         /\ change'.key = change.key
  BY DEF Step, ChangeTyped, ChangeOver

(* A settings change keeps every key on record. *)
LEMMA SettingsCustody == ASSUME Typed, Typed', Custody, Settings, [Next]_vars PROVE Custody'
<1>u. /\ UNCHANGED <<draft, mode, probe, tidy, act>> /\ (change.at # "idle" \/ mode = "operational")
      /\ spent'.recorded = spent.recorded
  <2>1. /\ UNCHANGED <<draft, mode, probe, tidy, act>> /\ (change.at # "idle" \/ mode = "operational")
    BY DEF Settings, Ongoing, Configure, Retry, Cancel, AdoptCurrent, ReserveKey, WriteKey, Check,
       CommitModel, Promote, Swap, Abandon, AbandonDelete, AbandonAck, Remount, ChangeOnly
  <2> QED BY <2>1, NothingRecorded
<1>t. /\ ConfigTyped /\ LedgerTyped /\ ChangeTyped /\ DraftTyped /\ SpentTyped
      /\ config.gen \in Nat /\ change.gen \in Nat /\ change.old \in Used /\ change.key \in Used
      /\ config.key \in Used /\ draft.key \in Used
  BY DEF Typed, ConfigTyped, ChangeTyped, ChangeOver, DraftTyped, DraftOver
<1>i. Known /\ Drafted /\ Unconfigured /\ Replacing /\ Lost /\ NoOrphanKey
  BY DEF Custody
<1>h. /\ spent'.keys <= MaxKeys /\ Handed \subseteq Handed' /\ Used \subseteq Used'
      /\ Used = Handed \cup {None} /\ None \notin Handed /\ Handed \subseteq Keys
      /\ \A k \in Keys : k # None
  <2>1. spent.keys \in Nat /\ spent.keys <= MaxKeys /\ MaxKeys \in Nat
    BY <1>i, <1>t, CredentialsAssumption DEF Known, SpentTyped, Spending
  <2>2. \A k \in Keys : k # None
    BY CredentialsAssumption DEF Keys
  <2>3. Handed \subseteq Keys /\ Used = Handed \cup {None}
    BY <2>1 DEF Handed, Keys, Used
  <2> QED BY <2>1, <2>2, <2>3, HandedGrows, HandedNames
<1>k. ASSUME vault' \subseteq Handed', task' \in [Tasks -> TaskOver(Handed')],
             \A k \in Keys : ledger'[k].phase # "none" => k \in Handed'
      PROVE  Known'
  <2>1. tidy \in TidyOver(Handed') /\ draft.cleanup \subseteq Handed'
    BY <1>h, <1>i DEF Known, TidyOver
  <2> QED BY <1>k, <1>u, <1>h, <2>1 DEF Known
<1>o. task \in [Tasks -> TaskOver(Handed)] /\ task \in [Tasks -> TaskOver(Handed')] /\ vault \subseteq Handed
  BY <1>h, <1>i DEF Known, TaskOver
<1>l. ASSUME NEW k \in Used', UNCHANGED ledger \/ Entered(k)
      PROVE  \A j \in Keys : ledger'[j].phase # "none" => j \in Handed'
  <2>1. CASE UNCHANGED ledger
    BY <2>1, <1>h, <1>i DEF Known
  <2> QED BY <1>h, <1>i, <1>l, <2>1, KnownEntry
<1>s. ASSUME UNCHANGED task PROVE ChangesOnly
  BY <1>u, <1>o, <1>s DEF ChangesOnly
<1>z. Settle => change'.at = "idle"
  BY DEF Settle, NoChange
<1>a. ASSUME UNCHANGED <<config, ledger, vault, task>>, Replacing', change'.at # "ack" PROVE Custody'
  <2>1. Known' /\ ChangesOnly
    BY <1>a, <1>h, <1>i, <1>k, <1>o, <1>s DEF Known
  <2>2. NoOrphanKey'
    BY <1>a, <1>u, <1>i DEF NoOrphanKey
  <2> QED BY <1>a, <1>u, <2>1, <2>2, ChangeCustody
<1>x. ASSUME Settle, UNCHANGED <<config, ledger, vault, task>> PROVE Custody'
  <2>1. Replacing'
    BY <1>x, <1>z, <1>i DEF Replacing
  <2> QED BY <1>a, <1>x, <1>z, <2>1
<1>1. CASE Configure \/ Retry
  <2>1. /\ UNCHANGED <<config, ledger, vault, task>> /\ change'.at \in {"adopt", "remount"}
        /\ change'.at = "adopt" => change'.gen = config.gen /\ change'.old = config.key
        /\ mode = "operational"
    BY <1>1 DEF Configure, Retry, NoChange
  <2>2. Replacing'
    BY <1>u, <1>i, <1>t, <2>1 DEF Replacing
  <2> QED BY <1>a, <2>1, <2>2
<1>2. CASE Cancel \/ Check
  <2>1. /\ UNCHANGED <<config, ledger, vault, task>>
        /\ change'.gen = change.gen /\ change'.old = change.old /\ change'.key = change.key
        /\ \/ change'.at = change.at
           \/ change.at = "check" /\ change'.at \in {"commit", "abandon"}
    BY <1>2, <1>t DEF Cancel, Check, Step, ChangeTyped, ChangeOver
  <2>2. Replacing'
    <3>1. change'.at \in {"write", "check", "commit"} => Own(change.key)'
      BY <1>h, <1>i, <1>u, <2>1 DEF Replacing, Own, Staged, Swept, Listed
    <3> QED BY <1>u, <1>i, <1>t, <2>1, <3>1 DEF Replacing, Active
  <2>3. change'.at = "ack" => change'.key \notin vault'
    BY <1>i, <2>1 DEF Lost
  <2>4. Known' /\ ChangesOnly
    BY <2>1, <1>h, <1>i, <1>k, <1>o, <1>s DEF Known
  <2>5. NoOrphanKey'
    BY <2>1, <1>u, <1>i DEF NoOrphanKey
  <2> QED BY <1>u, <2>1, <2>2, <2>3, <2>4, <2>5, ChangeCustody
<1>3. CASE AdoptCurrent
  <2>0. change.at = "adopt" /\ UNCHANGED <<config, vault, task>>
    BY <1>3 DEF AdoptCurrent
  <2>1. CASE ledger' = Adopted(change.old, change.gen) /\ Step("reserve")
    <3>1. \/ UNCHANGED ledger /\ Active(change.old)
          \/ Entered(change.old) /\ (change.old \in Keys => ledger'[change.old].phase = "active")
      <4>1. CASE Active(change.old)
        BY <2>1, <4>1 DEF Adopted, Active
      <4>2. CASE ~Active(change.old)
        <5>1. ledger' = [ledger EXCEPT ![change.old] = [phase |-> "active", expected |-> change.gen - 1,
                                                        committed |-> change.gen]]
          BY <2>1, <4>2 DEF Adopted, Active
        <5>2. Entered(change.old) /\ (change.old \in Keys => ledger'[change.old] =
                [phase |-> "active", expected |-> change.gen - 1, committed |-> change.gen])
          BY <1>t, <5>1, EntryEffect
        <5> QED BY <5>2
      <4> QED BY <4>1, <4>2
    <3>2. Known' /\ ChangesOnly
      BY <1>h, <1>k, <1>l, <1>o, <1>s, <1>t, <2>0, <3>1
    <3>3. NoOrphanKey'
      <4>1. \A k \in Keys : ledger[k].phase # "none" => ledger'[k].phase # "none"
        BY <3>1 DEF Entered
      <4> QED BY <4>1, <1>h, <1>i, <1>o, <1>u, <2>0, RecordsKept
    <3>4. Replacing'
      <4>1. config.key # None
        BY <1>i, <2>0 DEF Unconfigured
      <4>2. change.gen = config.gen => change.old = config.key /\ change.old \in Keys
        BY <1>h, <1>i, <1>t, <2>0, <4>1 DEF Replacing
      <4>3. change.gen = config.gen => Active(change.old)'
        BY <3>1, <4>2, StepEffect, <1>t, <2>1 DEF Active
      <4> QED BY <1>u, <1>i, <1>t, <2>0, <2>1, <4>2, <4>3, StepEffect DEF Replacing
    <3> QED BY <1>t, <1>u, <2>0, <2>1, <3>2, <3>3, <3>4, StepEffect, ChangeCustody
  <2> QED BY <1>3, <1>x, <2>0, <2>1 DEF AdoptCurrent
<1>4. CASE ReserveKey
  <2>0. change.at = "reserve" /\ UNCHANGED <<config, vault, task>>
    BY <1>4 DEF ReserveKey
  <2>1. CASE /\ spent' = [spent EXCEPT !.keys = @ + 1] /\ spent.keys < MaxKeys
             /\ ledger' = [ledger EXCEPT ![NewKey] = [phase |-> "staged", expected |-> change.gen, committed |-> 0]]
             /\ change' = [change EXCEPT !.at = "write", !.key = NewKey]
    <3>1. /\ change'.at = "write" /\ change'.gen = change.gen /\ change'.old = change.old
          /\ change'.key = NewKey
      BY <1>t, <2>1 DEF ChangeTyped, ChangeOver
    <3>2. NewKey \in Keys /\ NewKey \notin Used /\ NewKey \in Handed'
      BY <1>t, <2>1, Named, CredentialsAssumption DEF NewKey, Keys, Used, Handed, SpentTyped, Spending
    <3>3. Entered(NewKey) /\ ledger'[NewKey].phase = "staged"
      BY <1>t, <2>1, <3>2, EntryEffect
    <3>4. Known' /\ ChangesOnly
      <4>1. NewKey \in Used'
        BY <1>t, <2>1, Named
      <4> QED BY <1>h, <1>k, <1>l, <1>o, <1>s, <2>0, <3>3, <4>1
    <3>5. NoOrphanKey'
      <4>1. \A k \in Keys : ledger[k].phase # "none" => ledger'[k].phase # "none"
        BY <3>3 DEF Entered
      <4> QED BY <4>1, <1>h, <1>i, <1>o, <1>u, <2>0, RecordsKept
    <3>6. Replacing'
      <4>1. Own(change.key)'
        <5>1. NewKey \notin Swept /\ \A t \in Tasks : NewKey \notin Listed(t)
          BY <1>h, <1>i, <3>2 DEF Swept, Listed, Known, TidyOver, TaskOver
        <5>3. Swept' = Swept /\ \A t \in Tasks : Listed(t)' = Listed(t)
          BY <1>u, <2>0 DEF Swept, Listed
        <5>4. ledger'[change'.key].phase = "staged" /\ change'.key \in Handed'
          BY <3>1, <3>2, <3>3
        <5>5. change'.key \notin {draft.key, config.key, change.old}
          BY <1>t, <3>1, <3>2
        <5> QED BY <1>u, <2>0, <3>1, <5>1, <5>3, <5>4, <5>5 DEF Own, Staged
      <4>2. change.gen = config.gen => change.old = config.key /\ Active(change.old)
        BY <1>i, <2>0 DEF Replacing
      <4>3. Active(change.old) /\ change.old \in Keys => ledger'[change.old].phase = "active"
        BY <1>t, <3>2, <3>3 DEF Active, Entered
      <4>4. change.gen = config.gen => Active(change.old)'
        BY <1>h, <1>i, <1>t, <2>0, <3>1, <4>2, <4>3 DEF Active, Unconfigured
      <4> QED BY <1>u, <1>i, <1>t, <2>0, <3>1, <4>1, <4>2, <4>4 DEF Replacing
    <3> QED BY <1>u, <2>0, <3>1, <3>4, <3>5, <3>6, ChangeCustody
  <2> QED BY <1>4, <1>x, <2>0, <2>1 DEF ReserveKey
<1>5. CASE WriteKey
  <2>1. /\ change.at = "write" /\ UNCHANGED <<config, ledger, task>>
        /\ vault' \in {vault, vault \cup {change.key}}
        /\ change'.gen = change.gen /\ change'.old = change.old /\ change'.key = change.key
        /\ change'.at \in {"check", "abandon"}
    BY <1>5, <1>t DEF WriteKey, WriteFails, Step, ChangeTyped, ChangeOver
  <2>2. Own(change.key)
    BY <1>i, <2>1 DEF Replacing
  <2>3. Replacing'
    <3>1. Own(change.key)'
      BY <1>h, <1>u, <2>1, <2>2 DEF Own, Staged, Swept, Listed
    <3> QED BY <1>u, <1>i, <1>t, <2>1, <3>1 DEF Replacing, Active
  <2>4. Known' /\ ChangesOnly
    <3>1. vault' \subseteq Handed'
      BY <1>h, <1>o, <2>1, <2>2 DEF Own
    <3>2. \A j \in Keys : ledger'[j].phase # "none" => j \in Handed'
      BY <1>h, <1>l, <1>t, <2>1
    <3> QED BY <1>k, <1>o, <1>s, <2>1, <3>1, <3>2
  <2>5. NoOrphanKey'
    BY <1>i, <1>u, <2>1, <2>2, RecordsKept DEF Own, Staged
  <2> QED BY <1>u, <2>1, <2>3, <2>4, <2>5, ChangeCustody
<1>6. CASE CommitModel
  <2>0. change.at = "commit" /\ UNCHANGED <<ledger, vault, task>>
    BY <1>6 DEF CommitModel
  <2>1. change'.at \in {"promote", "abandon"} /\ change'.old = change.old
    BY <1>6, <1>t DEF CommitModel, Step, ChangeTyped, ChangeOver
  <2>2. CASE UNCHANGED config /\ Step("abandon")
    <3>1. Replacing'
      BY <1>u, <1>i, <1>t, <2>0, <2>2, StepEffect DEF Replacing
    <3> QED BY <1>a, <1>t, <2>0, <2>2, <3>1, StepEffect
  <2>3. CASE config.gen = change.gen /\ config' = Stored(change.key)
    <3>1. config'.key = change.key /\ Own(change.key)
      BY <1>i, <2>0, <2>3 DEF Stored, Replacing
    <3>2. Replacing'
      BY <1>u, <1>i, <2>0, <2>1, <3>1 DEF Replacing, Own, Listed
    <3>3. Known' /\ ChangesOnly
      BY <2>0, <1>h, <1>i, <1>k, <1>o, <1>s DEF Known
    <3>4. NoOrphanKey'
      <4>1. Active(config.key) /\ config.key # None
        BY <1>i, <2>0, <2>3 DEF Replacing, Unconfigured
      <4> QED BY <1>i, <1>u, <2>0, <3>1, <4>1 DEF NoOrphanKey, Active
    <3> QED BY <1>u, <2>0, <2>1, <2>3, <3>2, <3>3, <3>4, ChangeCustody
  <2> QED BY <1>6, <2>2, <2>3 DEF CommitModel
<1>7. CASE Promote
  <2>1. /\ change.at = "promote" /\ Step("swap") /\ UNCHANGED <<config, vault, task>>
        /\ UNCHANGED ledger \/ ledger' = Promoted(change.key) \/ ledger' = Adopted(change.key, change.gen + 1)
    BY <1>7 DEF Promote
  <2>2. /\ change'.at = "swap" /\ change'.old = change.old
    BY <1>t, <2>1, StepEffect
  <2>3. UNCHANGED ledger \/ (Entered(change.key) /\ (change.key \in Keys => ledger'[change.key].phase = "active"))
    <3>1. CASE ledger' = Promoted(change.key)
      <4>1. Entered(change.key) /\ (change.key \in Keys => ledger'[change.key] =
              [phase |-> "active", expected |-> ledger[change.key].expected,
               committed |-> ledger[change.key].expected + 1])
        BY <1>t, <3>1, PromotedEffect
      <4> QED BY <4>1
    <3>2. CASE ledger' = Adopted(change.key, change.gen + 1)
      <4>1. \/ UNCHANGED ledger
            \/ Entered(change.key) /\ (change.key \in Keys => ledger'[change.key] =
                  [phase |-> "active", expected |-> change.gen + 1 - 1, committed |-> change.gen + 1])
        BY <1>t, <3>2, AdoptedEffect
      <4> QED BY <4>1
    <3> QED BY <2>1, <3>1, <3>2
  <2>e. \A k \in Keys : ledger[k].phase # "none" => ledger'[k].phase # "none"
    BY <2>3 DEF Entered
  <2>4. Known' /\ ChangesOnly
    BY <1>h, <1>k, <1>l, <1>o, <1>s, <1>t, <2>1, <2>3
  <2>5. NoOrphanKey'
    BY <1>h, <1>i, <1>o, <1>u, <2>1, <2>e, RecordsKept
  <2>6. Replacing'
    BY <1>u, <1>i, <2>1, <2>2 DEF Replacing
  <2> QED BY <1>u, <2>1, <2>2, <2>4, <2>5, <2>6, ChangeCustody
<1>8. CASE Swap \/ Remount
  <2>1. /\ change.at \in {"swap", "remount"} /\ UNCHANGED <<config, ledger, vault>> /\ Settle
        /\ UNCHANGED task \/ Await(None) \/ (change.at = "swap" /\ Await(change.old))
    BY <1>8 DEF Swap, Remount
  <2>2. ASSUME NEW old \in Used, Await(old), old = None \/ (change.at = "swap" /\ old = change.old)
        PROVE  Custody'
    <3>1. PICK s \in Tasks :
            /\ task'[s].at = "drain" /\ task'[s].old = old /\ task'[s].todo = {} /\ task'[s].key = None
            /\ \A t \in Tasks \ {s} : task'[t] = task[t]
            /\ task' \in [Tasks -> TaskOver(Handed)]
      BY <1>i, <2>2, AwaitEffect
    <3>2. task' \in [Tasks -> TaskOver(Handed')]
      BY <3>1, <1>h DEF TaskOver
    <3>3. ChangesOnly
      BY <1>u, <2>2, <3>1 DEF ChangesOnly
    <3>4. Known'
      BY <1>h, <1>i, <1>k, <1>o, <2>1, <3>2 DEF Known
    <3>5. Replacing'
      BY <1>i, <1>z, <2>1, <2>2, <3>1 DEF Replacing
    <3>6. NoOrphanKey'
      BY <1>i, <1>u, <2>1 DEF NoOrphanKey
    <3> QED BY <1>u, <1>z, <2>1, <3>3, <3>4, <3>5, <3>6, ChangeCustody
  <2> QED BY <1>h, <1>t, <1>x, <2>1, <2>2
<1>9. CASE Abandon
  <2>0. change.at = "abandon" /\ UNCHANGED <<config, vault, task>>
    BY <1>9 DEF Abandon
  <2>1. CASE ledger' = Phase(change.key, "pending") /\ Step("delete")
    <3>1. change'.at = "delete"
      BY <1>t, <2>1, StepEffect
    <3>e. Entered(change.key) /\ (change.key \in Keys => ledger'[change.key].phase = "pending")
      <4>1. Entered(change.key) /\ (change.key \in Keys => ledger'[change.key] =
              [phase |-> "pending", expected |-> ledger[change.key].expected,
               committed |-> ledger[change.key].committed])
        BY <1>t, <2>1, PhaseEffect
      <4> QED BY <4>1
    <3>2. /\ Entered(change.key)
          /\ \A k \in Keys : ledger[k].phase # "none" => ledger'[k].phase # "none"
      BY <3>e DEF Entered
    <3>3. Known' /\ ChangesOnly
      BY <1>h, <1>k, <1>l, <1>o, <1>s, <1>t, <2>0, <3>2
    <3>4. NoOrphanKey'
      BY <1>h, <1>i, <1>o, <1>u, <2>0, <3>2, RecordsKept
    <3>5. Replacing'
      BY <1>u, <1>i, <2>0, <3>1 DEF Replacing
    <3> QED BY <1>u, <2>0, <3>1, <3>3, <3>4, <3>5, ChangeCustody
  <2> QED BY <1>9, <1>x, <2>0, <2>1 DEF Abandon
<1>10. CASE AbandonDelete
  <2>0. change.at = "delete" /\ UNCHANGED <<config, ledger, task>>
    BY <1>10 DEF AbandonDelete
  <2>1. CASE vault' = vault \ {change.key} /\ Step("ack")
    <3>1. change'.at = "ack" /\ change'.key = change.key
      BY <1>t, <2>1, StepEffect
    <3>2. Known' /\ ChangesOnly
      BY <1>h, <1>i, <1>k, <1>o, <1>s, <2>0, <2>1 DEF Known
    <3>3. NoOrphanKey'
      BY <1>i, <1>u, <2>0, <2>1, RecordsKept
    <3>4. Replacing'
      BY <1>u, <1>i, <2>0, <3>1 DEF Replacing
    <3> QED BY <1>u, <2>0, <2>1, <3>1, <3>2, <3>3, <3>4, ChangeCustody
  <2> QED BY <1>10, <1>x, <2>0, <2>1 DEF AbandonDelete
<1>11. CASE AbandonAck
  <2>0. /\ change.at = "ack" /\ Settle /\ UNCHANGED <<config, vault, task>>
        /\ ledger' = [ledger EXCEPT ![change.key] = NoEntry]
    BY <1>11 DEF AbandonAck
  <2>1. Entered(change.key) /\ change.key \notin vault
    BY <1>i, <1>t, <2>0, EntryEffect DEF Lost
  <2>2. Known' /\ ChangesOnly
    BY <1>h, <1>k, <1>l, <1>o, <1>s, <1>t, <2>0, <2>1
  <2>3. NoOrphanKey'
    BY <1>h, <1>i, <1>o, <1>u, <2>0, <2>1, RecordsKept DEF Entered
  <2>4. Replacing'
    BY <1>i, <1>z, <2>0 DEF Replacing
  <2> QED BY <1>u, <1>z, <2>0, <2>2, <2>3, <2>4, ChangeCustody
<1> QED BY <1>1, <1>2, <1>3, <1>4, <1>5, <1>6, <1>7, <1>8, <1>9, <1>10, <1>11 DEF Settings, Ongoing

(* What a retirement may do: it forgets a key only once the vault has lost   *)
(* it, and retires the key it was given.                                     *)
Retires(t) ==
  /\ UNCHANGED <<config, draft, mode, probe, tidy, act, change>>
  /\ spent'.keys = spent.keys /\ spent'.recorded = spent.recorded
  /\ vault' \subseteq vault /\ vault \ vault' \subseteq task[t].todo
  /\ task' \in [Tasks -> TaskOver(Handed)]
  /\ \A j \in Tasks :
       /\ task'[j].old \in {task[j].old, None}
       /\ Listed(j)' \subseteq Listed(j) \cup {None} \cup Pending
       /\ task'[j].at = "ack" => task'[j].key \notin vault' /\ config.key # None
       /\ task'[j].todo \subseteq task[j].todo \cup Pending
  /\ \A k \in Keys :
       \/ ledger'[k] = ledger[k]
       \/ ledger[k].phase = "active" /\ ledger'[k].phase = "pending" /\ k # config.key /\ k = task[t].old
       \/ ledger[k].phase = "pending" /\ ledger'[k].phase = "none" /\ k \notin vault

(* That keeps every key on record. *)
LEMMA RetiringCustody == ASSUME Typed, Custody, NEW t \in Tasks, Retires(t) PROVE Custody'
<1>i. Known /\ Drafted /\ Unconfigured /\ Bound /\ Replacing /\ Lost /\ NoOrphanKey
  BY DEF Custody
<1>h. Handed' = Handed /\ None \notin Handed /\ Handed \subseteq Keys /\ Swept' = Swept
  BY <1>i, HandedKeys, HandedNames DEF Known, Handed, Swept, Retires
<1>1. Known'
  BY <1>h, <1>i DEF Known, Retires
<1>2. Drafted' /\ Bound'
  BY <1>h, <1>i DEF Drafted, Staging, Mistaken, Bound, Retires
<1>3. Unconfigured'
  BY <1>i DEF Unconfigured, Pending, Retires
<1>4. Replacing'
  <2>1. ASSUME change.at \in {"write", "check", "commit"} PROVE Own(change.key)'
    <3>1. Own(change.key) /\ change.key \notin Pending
      BY <1>i, <2>1 DEF Replacing, Own, Staged, Pending
    <3>2. Staged(change.key)'
      BY <1>h, <3>1 DEF Own, Staged, Retires
    <3> QED BY <1>h, <3>1, <3>2 DEF Own, Retires
  <2>2. ASSUME change.at \in {"reserve", "write", "check", "commit"}, change.gen = config.gen
        PROVE  Active(change.old)'
    <3>1. change.old = config.key /\ Active(change.old)
      BY <1>i, <2>2 DEF Replacing
    <3>2. config.key \in Keys
      BY <1>i, <2>2, HandedKeys DEF Unconfigured, Known, Typed, ConfigTyped
    <3> QED BY <3>1, <3>2 DEF Active, Retires
  <2> QED BY <1>i, <2>1, <2>2 DEF Replacing, Retires
<1>5. Lost'
  BY <1>i DEF Lost, Retires
<1>6. NoOrphanKey'
  BY <1>h, <1>i DEF Known, NoOrphanKey, Retires
<1> QED BY <1>1, <1>2, <1>3, <1>4, <1>5, <1>6 DEF Custody

(* A retirement does no more. *)
LEMMA RetirementRetires == ASSUME Typed, Custody, NEW t \in Tasks, Retirement(t) PROVE Retires(t)
<1>u. /\ UNCHANGED <<config, draft, mode, probe, tidy, act, change>>
      /\ spent'.keys = spent.keys /\ spent'.recorded = spent.recorded
  <2>1. UNCHANGED <<config, draft, mode, probe, tidy, act, change>> /\ spent'.keys = spent.keys
    BY KeylessSpends DEF Retirement, AfterDrain, Retire, List, Delete, Ack, TaskOnly, Fine, Typed, Keyless
  <2> QED BY <2>1, NothingRecorded DEF Next
<1>i. Known /\ Unconfigured /\ Replacing /\ Lost
  BY DEF Custody
<1>t. task \in [Tasks -> TaskOver(Handed)] /\ LedgerTyped
  BY <1>i DEF Known, Typed
<1>o. /\ task[t].gen \in Nat /\ task[t].old \in Handed \cup {None} /\ task[t].key \in Handed \cup {None}
      /\ task[t].todo \subseteq Handed
      /\ task[t].at \in {"done", "drain", "retire", "list", "delete", "ack"}
  BY <1>t DEF TaskOver
<1>n. NoTask \in TaskOver(Handed)
  BY DEF NoTask, TaskOver
<1>a. ASSUME NEW r \in TaskOver(Handed), task' = [task EXCEPT ![t] = r], vault' \subseteq vault, vault \ vault' \subseteq task[t].todo,
             r.old \in {task[t].old, None}, r.todo \subseteq task[t].todo \cup Pending,
             r.key \in {task[t].key, None} \cup task[t].todo,
             r.at = "ack" => r.key \notin vault' /\ r.key \in task[t].todo,
             \A k \in Keys : \/ ledger'[k] = ledger[k]
                             \/ ledger[k].phase = "active" /\ ledger'[k].phase = "pending" /\ k # config.key /\ k = task[t].old
                             \/ ledger[k].phase = "pending" /\ ledger'[k].phase = "none" /\ k \notin vault
      PROVE  Retires(t)
  <2>1. /\ task' \in [Tasks -> TaskOver(Handed)] /\ task'[t] = r
        /\ \A j \in Tasks \ {t} : task'[j] = task[j]
    BY <1>t, <1>a
  <2>2. ASSUME NEW j \in Tasks
        PROVE  /\ task'[j].old \in {task[j].old, None}
               /\ Listed(j)' \subseteq Listed(j) \cup {None} \cup Pending
               /\ task'[j].at = "ack" => task'[j].key \notin vault' /\ config.key # None
               /\ task'[j].todo \subseteq task[j].todo \cup Pending
    <3>1. CASE j = t
      BY <1>a, <1>i, <2>1, <3>1 DEF Listed, Unconfigured
    <3>2. CASE j # t
      BY <1>a, <1>i, <2>1, <2>2, <3>2 DEF Listed, Unconfigured, Lost
    <3> QED BY <3>1, <3>2
  <2> QED BY <1>a, <1>u, <2>1, <2>2 DEF Retires
<1>s. UNCHANGED ledger =>
        \A k \in Keys : \/ ledger'[k] = ledger[k]
                        \/ ledger[k].phase = "active" /\ ledger'[k].phase = "pending" /\ k # config.key /\ k = task[t].old
                        \/ ledger[k].phase = "pending" /\ ledger'[k].phase = "none" /\ k \notin vault
  OBVIOUS
<1>x. ASSUME task' = [task EXCEPT ![t] = NoTask], UNCHANGED <<ledger, vault>> PROVE Retires(t)
  BY <1>a, <1>n, <1>s, <1>x DEF NoTask
<1>1. CASE AfterDrain(t)
  <2>1. UNCHANGED <<ledger, vault>> /\ task[t].at = "drain"
    BY <1>1 DEF AfterDrain
  <2>2. CASE task' = [task EXCEPT ![t].at = "retire", ![t].gen = 0]
    <3> DEFINE r == [task[t] EXCEPT !.at = "retire", !.gen = 0]
    <3>1. task' = [task EXCEPT ![t] = r]
      BY <1>t, <2>2 DEF TaskOver
    <3>2. /\ r \in TaskOver(Handed) /\ r.old = task[t].old /\ r.todo = task[t].todo /\ r.key = task[t].key
          /\ r.at = "retire"
      BY <1>t, <1>o DEF TaskOver
    <3> HIDE DEF r
    <3> QED BY <1>a, <1>s, <2>1, <3>1, <3>2
  <2> QED BY <1>1, <1>x, <2>1, <2>2 DEF AfterDrain
<1>2. CASE Retire(t)
  <2> DEFINE k == task[t].old
  <2>0. task[t].at = "retire" /\ UNCHANGED vault
    BY <1>2 DEF Retire
  <2>1. CASE To(t, "list") /\ ledger' = IF ledger[k].phase = "active" THEN Phase(k, "pending") ELSE ledger
    <3> DEFINE r == [task[t] EXCEPT !.at = "list"]
    <3>1. task' = [task EXCEPT ![t] = r]
      BY <1>t, <2>1 DEF To, TaskOver
    <3>2. /\ r \in TaskOver(Handed) /\ r.old = task[t].old /\ r.todo = task[t].todo /\ r.key = task[t].key
          /\ r.at = "list"
      BY <1>t, <1>o DEF TaskOver
    <3>3. \A j \in Keys : ledger'[j] = ledger[j] \/ (ledger[j].phase = "active" /\ ledger'[j].phase = "pending" /\ j # config.key /\ j = k)
      <4>1. CASE ledger[k].phase = "active"
        <5>1. Entered(k) /\ (k \in Keys => ledger'[k] = [phase |-> "pending", expected |-> ledger[k].expected,
                                                   committed |-> ledger[k].committed])
          BY <1>t, <2>1, <4>1, PhaseEffect
        <5>2. k \in Keys => k # config.key
          BY <1>i, CredentialsAssumption DEF Replacing, Keys
        <5> HIDE DEF k
        <5> QED BY <4>1, <5>1, <5>2 DEF Entered
      <4> QED BY <2>1, <4>1
    <3> HIDE DEF r
    <3> QED BY <1>a, <2>0, <3>1, <3>2, <3>3
  <2> QED BY <1>2, <1>x, <2>0, <2>1 DEF Retire
<1>3. CASE List(t)
  <2> DEFINE r == [NoTask EXCEPT !.at = "delete", !.todo = Pending \ {config.key}]
  <2>1. task' = [task EXCEPT ![t] = r] /\ UNCHANGED <<ledger, vault>>
    BY <1>3 DEF List
  <2>2. /\ r \in TaskOver(Handed) /\ r.old = None /\ r.todo \subseteq Pending /\ r.key = None
        /\ r.at = "delete"
    BY <1>i DEF Known, Pending, TaskOver, NoTask
  <2> HIDE DEF r
  <2> QED BY <1>a, <1>s, <2>1, <2>2
<1>4. CASE Delete(t)
  <2>1. CASE task[t].todo = {}
    BY <1>4, <1>x, <2>1 DEF Delete
  <2>2. CASE task[t].todo # {}
    <3> DEFINE k == Min(task[t].todo)
    <3>0. k \in task[t].todo /\ task[t].at = "delete" /\ UNCHANGED ledger
      <4>1. task[t].todo \in SUBSET Nat
        BY <1>o, HandedNames
      <4> QED BY <1>4, <2>2, <4>1, MinIn DEF Delete
    <3>1. CASE task' = [task EXCEPT ![t].todo = @ \ {k}] /\ UNCHANGED vault
      <4> DEFINE r == [task[t] EXCEPT !.todo = @ \ {k}]
      <4>1. task' = [task EXCEPT ![t] = r]
        BY <1>t, <3>1 DEF TaskOver
      <4> HIDE DEF k
      <4>2. /\ r \in TaskOver(Handed) /\ r.old = task[t].old /\ r.todo = task[t].todo \ {k}
            /\ r.key = task[t].key /\ r.at = "delete"
        BY <1>t, <1>o, <3>0 DEF TaskOver
      <4> HIDE DEF r
      <4> QED BY <1>a, <1>s, <3>0, <3>1, <4>1, <4>2
    <3>2. CASE /\ vault' = vault \ {k}
               /\ task' = [task EXCEPT ![t].at = "ack", ![t].key = k, ![t].todo = @ \ {k}]
      <4> DEFINE r == [task[t] EXCEPT !.at = "ack", !.key = k, !.todo = @ \ {k}]
      <4>1. task' = [task EXCEPT ![t] = r]
        BY <1>t, <3>2 DEF TaskOver
      <4> HIDE DEF k
      <4>2. /\ r \in TaskOver(Handed) /\ r.old = task[t].old /\ r.todo = task[t].todo \ {k}
            /\ r.key = k /\ r.at = "ack"
        BY <1>t, <1>o, <3>0 DEF TaskOver
      <4> HIDE DEF r
      <4> QED BY <1>a, <1>s, <3>0, <3>2, <4>1, <4>2
    <3> HIDE DEF k
    <3> QED BY <1>4, <2>2, <3>1, <3>2 DEF Delete, k
  <2> QED BY <2>1, <2>2
<1>5. CASE Ack(t)
  <2> DEFINE k == task[t].key
             r == [task[t] EXCEPT !.at = "delete", !.key = None]
  <2>0. /\ task[t].at = "ack" /\ UNCHANGED vault
        /\ ledger' = IF ledger[k].phase = "pending" THEN [ledger EXCEPT ![k] = NoEntry] ELSE ledger
    BY <1>5 DEF Ack
  <2>1. task' = [task EXCEPT ![t] = r]
    BY <1>t, <1>5 DEF Ack, TaskOver
  <2>2. /\ r \in TaskOver(Handed) /\ r.old = task[t].old /\ r.todo = task[t].todo /\ r.key = None
        /\ r.at = "delete"
    BY <1>t, <1>o DEF TaskOver
  <2>3. \A j \in Keys : ledger'[j] = ledger[j] \/ (ledger[j].phase = "pending" /\ ledger'[j].phase = "none" /\ j \notin vault)
    <3>1. CASE ledger[k].phase = "pending"
      <4>1. Entered(k) /\ (k \in Keys => ledger'[k] = NoEntry)
        BY <1>t, <2>0, <3>1, EntryEffect
      <4>2. k \notin vault
        BY <1>i, <2>0 DEF Lost
      <4> HIDE DEF k
      <4> QED BY <3>1, <4>1, <4>2 DEF Entered, NoEntry
    <3> QED BY <2>0, <3>1
  <2> HIDE DEF r, k
  <2> QED BY <1>a, <2>0, <2>1, <2>2, <2>3
<1> QED BY <1>1, <1>2, <1>3, <1>4, <1>5 DEF Retirement

(* A start, with its recovery, keeps every key on record. *)
LEMMA BootCustody == ASSUME Typed, Quiet, Custody, Boot PROVE Custody'
<1>i. Known /\ Drafted /\ Unconfigured /\ Replacing /\ Lost /\ NoOrphanKey
  BY DEF Custody
<1>t. LedgerTyped /\ ConfigTyped /\ DraftTyped /\ SpentTyped /\ config.key \in Used
  BY DEF Typed, ConfigTyped
<1>u. /\ UNCHANGED <<config, vault, probe, act, change>>
      /\ spent'.keys = spent.keys /\ spent'.recorded = spent.recorded
      /\ mode \in {"down", "starting"} /\ change.at = "idle" /\ probe.at = "idle"
      /\ \A a \in Request : act[a].at = "idle"
  <2>1. mode \in {"down", "starting"}
    BY DEF Quiet, Boot, Start, BootAdopt, BootEntry, BootSweep, BootDraft, BootSurface
  <2>2. spent'.keys = spent.keys
    BY KeylessSpends, <1>t DEF Boot, Start, BootAdopt, BootEntry, BootSweep, BootDraft, BootSurface, Fine, Keyless
  <2>3. UNCHANGED <<config, vault, probe, act, change>>
    BY DEF Boot, Start, BootAdopt, BootEntry, BootSweep, BootDraft, BootSurface, BootOnly
  <2>4. spent'.recorded = spent.recorded
    BY <2>3, NothingRecorded DEF Next
  <2> QED BY <2>1, <2>2, <2>3, <2>4, <1>i DEF Quiet, Drafted
<1>h. /\ Handed' = Handed /\ None \notin Handed /\ Handed \subseteq Nat /\ Handed \subseteq Keys
      /\ Used = Handed \cup {None} /\ None \notin Keys
  BY <1>u, <1>i, HandedNames, HandedKeys, CredentialsAssumption DEF Known, Handed, Keys
<1>f. ASSUME draft'.key = draft.key, draft'.stage = draft.stage, draft'.staging \in {draft.staging, None},
             draft'.cleanup \subseteq Handed, tidy' \in TidyOver(Handed),
             tidy'.at = "ack" => tidy'.key \notin vault,
             task' \in [Tasks -> TaskOver(Handed)],
             \A t \in Tasks : task'[t] = task[t] \/ (task'[t].old = None /\ task'[t].todo = {} /\ task'[t].at # "ack"),
             \A k \in Keys : \/ ledger'[k] = ledger[k]
                             \/ config.key # None /\ k \in Handed /\ ledger'[k].phase # "none",
             mode' = "setup" => config.key = None, mode' = "operational" => config.key # None,
             \A k \in vault : k \in draft.cleanup \cup {draft.staging} => k \in draft'.cleanup \cup {draft'.staging}
      PROVE  Custody'
  <2>1. Known'
    BY <1>f, <1>h, <1>i, <1>u DEF Known
  <2>2. Drafted'
    BY <1>f, <1>i, <1>u DEF Drafted
  <2>3. Unconfigured'
    BY <1>f, <1>i, <1>u DEF Unconfigured
  <2>4. Bound' /\ Replacing' /\ Lost'
    BY <1>f, <1>i, <1>u DEF Bound, Heading, Replacing, Lost
  <2>5. NoOrphanKey'
    BY <1>f, <1>h, <1>i, <1>u DEF NoOrphanKey, Known
  <2> QED BY <2>1, <2>2, <2>3, <2>4, <2>5 DEF Custody
<1>o. /\ draft.cleanup \subseteq Handed /\ tidy \in TidyOver(Handed) /\ task \in [Tasks -> TaskOver(Handed)]
      /\ tidy.at = "ack" => tidy.key \notin vault
  BY <1>i DEF Known, Lost
<1>g. ASSUME UNCHANGED <<draft, tidy, task>>, mode' = "starting",
             \A k \in Keys : \/ ledger'[k] = ledger[k]
                             \/ config.key # None /\ k \in Handed /\ ledger'[k].phase # "none"
      PROVE  Custody'
  BY <1>f, <1>g, <1>o
<1>1. CASE Start
  BY <1>1, <1>g DEF Start
<1>2. CASE BootAdopt
  <2>1. UNCHANGED <<draft, tidy, task, mode>> /\ mode = "starting"
    BY <1>2 DEF BootAdopt, Quiet
  <2>2. \/ UNCHANGED ledger
        \/ config.key # None /\ Entered(config.key)
           /\ (config.key \in Keys => ledger'[config.key] =
                 [phase |-> "active", expected |-> config.gen - 1, committed |-> config.gen])
    <3>1. CASE UNCHANGED ledger
      BY <3>1
    <3>2. CASE config.key # None /\ ledger' = Adopted(config.key, config.gen)
      BY <1>t, <3>2, AdoptedEffect
    <3> QED BY <1>2, <3>1, <3>2 DEF BootAdopt
  <2>3. config.key # None => config.key \in Handed
    BY <1>h, <1>t
  <2> QED BY <1>g, <2>1, <2>2, <2>3 DEF Entered
<1>3. CASE BootEntry
  <2>1. UNCHANGED <<draft, tidy, task, mode>> /\ mode = "starting"
    BY <1>3 DEF BootEntry, Quiet
  <2>2. PICK k : ledger' = Reconciled(k) \/ UNCHANGED ledger
    BY <1>3 DEF BootEntry
  <2>3. CASE k \in Keys /\ ledger[k].phase # "none"
    <3>1. config.key # None /\ k \in Handed
      BY <1>i, <2>3 DEF Unconfigured, Known
    <3>2. CASE ledger' = Promoted(k)
      <4>1. Entered(k) /\ (k \in Keys => ledger'[k] = [phase |-> "active", expected |-> ledger[k].expected,
                                                   committed |-> ledger[k].expected + 1])
        BY <1>t, <3>2, PromotedEffect
      <4> QED BY <1>g, <2>1, <3>1, <4>1 DEF Entered
    <3>3. CASE ledger' = Phase(k, "pending")
      <4>1. Entered(k) /\ (k \in Keys => ledger'[k] = [phase |-> "pending", expected |-> ledger[k].expected,
                                                   committed |-> ledger[k].committed])
        BY <1>t, <3>3, PhaseEffect
      <4> QED BY <1>g, <2>1, <3>1, <4>1 DEF Entered
    <3> QED BY <1>g, <2>1, <2>2, <3>2, <3>3 DEF Reconciled
  <2>4. CASE k \in Keys /\ ledger[k].phase = "none"
    BY <1>g, <2>1, <2>2, <2>4 DEF Reconciled
  <2>5. CASE k \notin Keys
    <3>1. \A j \in Keys : ledger'[j] = ledger[j]
      BY <1>t, <2>2, <2>5, PhaseEffect, PromotedEffect DEF Reconciled, Entered
    <3> QED BY <1>g, <2>1, <3>1
  <2> QED BY <2>3, <2>4, <2>5
<1>4. CASE BootSweep
  <2> DEFINE r == [NoTask EXCEPT !.at = "list"]
  <2>1. /\ UNCHANGED <<draft, tidy, ledger, mode>> /\ mode = "starting" /\ task' = [task EXCEPT ![0] = r]
    BY <1>4 DEF BootSweep, Quiet
  <2>2. r \in TaskOver(Handed) /\ r.old = None /\ r.todo = {} /\ r.at = "list"
    BY DEF NoTask, TaskOver
  <2> HIDE DEF r
  <2>3. task' \in [Tasks -> TaskOver(Handed)] /\ \A t \in Tasks : task'[t] \in {task[t], r}
    BY <1>o, <2>1, <2>2
  <2> QED BY <1>f, <1>o, <2>1, <2>2, <2>3
<1>5. CASE BootDraft
  <2>1. /\ UNCHANGED <<ledger, mode, task>> /\ mode = "starting" /\ draft' = DraftRetired
        /\ tidy' = [at |-> "delete", todo |-> DraftRetired.cleanup, key |-> None]
    BY <1>5 DEF BootDraft, Quiet
  <2>2. draft.staging \in Handed \cup {None} /\ (draft.staging # None => draft.key = None)
    BY <1>h, <1>i, <1>t DEF DraftTyped, DraftOver, Drafted
  <2>3. /\ draft'.key = draft.key /\ draft'.stage = draft.stage /\ draft'.staging = None
        /\ draft'.cleanup = IF draft.staging \in {None, draft.key} THEN draft.cleanup
                            ELSE draft.cleanup \cup {draft.staging}
    BY <1>t, <2>1 DEF DraftRetired, DraftTyped, DraftOver
  <2>4. /\ draft'.cleanup \subseteq Handed
        /\ \A k \in vault : k \in draft.cleanup \cup {draft.staging} => k \in draft'.cleanup
    BY <1>h, <1>i, <1>o, <2>2, <2>3 DEF Known
  <2>5. tidy' \in TidyOver(Handed) /\ tidy'.at = "delete"
    BY <2>1, <2>4 DEF TidyOver
  <2> QED BY <1>f, <1>o, <2>1, <2>3, <2>4, <2>5
<1>6. CASE BootSurface
  BY <1>6, <1>f, <1>o DEF BootSurface
<1> QED BY <1>1, <1>2, <1>3, <1>4, <1>5, <1>6 DEF Boot

(* Every step keeps every key on record. *)
LEMMA CustodyStep == ASSUME Typed, Typed', Quiet, Custody, [Next]_vars PROVE Custody'
<1>i. Known /\ Drafted /\ Unconfigured /\ Replacing
  BY DEF Custody
<1>k. task \in [Tasks -> TaskOver(Handed)]
  BY <1>i DEF Known
<1>a. UNCHANGED act => NoneHeads
  BY DEF NoneHeads
<1>1. CASE Resolver \/ StopBundle \/ StopResolver \/ UNCHANGED vars
  <2>1. /\ UNCHANGED <<config, ledger, draft, vault, mode, probe, tidy, act, change, task>>
        /\ spent'.keys = spent.keys
    BY <1>1, KeylessSpends DEF Typed, Keyless, Resolver, BeginTurn, EndTurn, Drained, StopBundle,
       StopResolver, files, procs, vars, Fine
  <2>2. spent'.recorded = spent.recorded
    BY <2>1, NothingRecorded
  <2> QED BY <2>1, <2>2 DEF Custody, Known, Drafted, Staging, Mistaken, Unconfigured, Bound, Replacing, Lost,
       NoOrphanKey, Handed, Swept, Own, Staged, Active, Listed
<1>2. CASE CommitVoice
  <2>1. /\ UNCHANGED <<ledger, draft, vault, mode, probe, tidy, act, change, task>>
        /\ spent'.keys = spent.keys /\ config' = Stored(config.key) /\ mode = "operational"
    BY <1>2, KeylessSpends DEF Typed, Keyless, CommitVoice, procs
  <2>2. config'.key = config.key /\ config'.gen = config.gen + 1 /\ config.gen \in Nat
    BY <2>1 DEF Stored, Typed, ConfigTyped
  <2>3. (Known /\ Drafted /\ Unconfigured /\ Lost /\ NoOrphanKey)'
    BY <2>1, <2>2, NothingRecorded DEF Custody, Known, Drafted, Staging, Mistaken, Unconfigured, Lost,
       NoOrphanKey, Handed, Swept
  <2>4. Bound'
    <3>1. \A b \in Request : act[b].gen \in Nat
      BY DEF Typed, ActTyped, ActOver
    <3> QED BY <2>1, <2>2, <3>1 DEF Custody, Bound
  <2>5. Replacing'
    <3>1. change.at \in {"write", "check", "commit"} => Own(change.key)'
      BY <1>i, <2>1, <2>2 DEF Replacing, Own, Staged, Handed, Swept, Listed
    <3>2. change.gen \in Nat
      BY DEF Typed, ChangeTyped, ChangeOver
    <3> QED BY <1>i, <2>1, <2>2, <3>1, <3>2 DEF Replacing
  <2> QED BY <2>3, <2>4, <2>5 DEF Custody
<1>3. CASE Stop
  <2>1. /\ UNCHANGED <<config, ledger, draft, vault, probe, tidy, act, task, spent>> /\ mode' = "stopping"
        /\ change'.at = change.at /\ change'.gen = change.gen
        /\ change'.old = change.old /\ change'.key = change.key
    BY <1>3 DEF Stop, files, Typed, ChangeTyped, ChangeOver
  <2>2. Detached
    BY <1>a, <1>k, <2>1 DEF Detached
  <2> QED BY <2>2, DetachedCustody
<1>4. CASE StopSettings \/ Crash
  <2>1. Ended
    BY <1>4 DEF StopSettings, Crash
  <2>2. NoneHeads
    BY <2>1 DEF Ended, NoneHeads, NoAct, Heading
  <2>3. task' = [t \in Tasks |-> NoTask] /\ change'.at = "idle"
    BY <2>1 DEF Ended, NoChange
  <2>4. Detached
    BY <2>1, <2>2, <2>3 DEF Ended, Detached, files
  <2> QED BY <2>4, DetachedCustody
<1> QED BY <1>1, <1>2, <1>3, <1>4, DraftCustody, ActivateCustody, SettingsCustody, RetirementRetires,
     RetiringCustody,
     BootCustody DEF Next, Stopping

(* Before the first start there is no key. *)
LEMMA CustodyInit == Init => Custody /\ Quiet
<1> SUFFICES ASSUME Init PROVE Custody /\ Quiet
  OBVIOUS
<1>1. Known
  BY CredentialsAssumption DEF Init, Known, Handed, TidyOver, TaskOver, NoTidy, NoTask, NoEntry
<1>2. Drafted /\ Unconfigured /\ Bound /\ Replacing /\ Lost /\ NoOrphanKey
  BY DEF Init, Drafted, Unconfigured, Bound, Heading, Replacing, Lost, NoOrphanKey, NoTidy, NoTask,
     NoEntry, NoAct, NoChange, NoProbe
<1>3. Quiet
  BY DEF Init, Quiet, NoBoot, NoChange, NoAct
<1> QED BY <1>1, <1>2, <1>3 DEF Custody

(* Whatever fails, whenever the process stops, and whether or not a commit   *)
(* that failed was stored: every key in the vault is the configuration's, or *)
(* the draft's before there is one, or stands in a record some sweep works   *)
(* through.                                                                  *)
THEOREM EveryKeyOnRecord == Spec => []NoOrphanKey
<1>1. Custody => NoOrphanKey
  BY DEF Custody
<1> QED BY <1>1, TypedInit, TypedStep, QuietStep, CustodyInit, CustodyStep, PTL DEF Spec

(***************************************************************************)
(* The household can return                                                *)
(***************************************************************************)
Busy(a) == act[a].at \in {"mounted", "commit", "rollback", "dispose"}

(* The configuration with the draft's key was stored although the activation *)
(* took its commit for failed.                                               *)
Founded == draft.key # None /\ draft.key \in spent.committed

(* One activation at a time creates the session, and it does so before a     *)
(* configuration is stored; what is stored names a key from then on.         *)
Founding ==
  /\ config.key # None => session
  /\ \A a \in Request :
       /\ act[a].at \in {"commit", "rollback"} => config.key = None
       /\ act[a].at = "commit" => session
       /\ act[a].at = "attach" => config.key # None
       /\ act[a].at # "idle" => act[a].key # None
       /\ \A b \in Request : Busy(a) /\ Busy(b) => a = b
  /\ draft.stage = "map" => draft.key # None
  /\ probe.at \in {"write", "check", "record"} => probe.key # None
  /\ change.at \in {"write", "check", "commit"} => change.key # None
  /\ mode = "operational" \/ change.at # "idle" => config.key # None

(* A step that leaves the founding files and calls alone.                    *)
Apart ==
  /\ UNCHANGED <<config, session, act>>
  /\ draft'.stage = "map" => draft.stage = "map" /\ draft'.key = draft.key
  /\ probe'.at \in {"write", "check", "record"} =>
       probe.at \in {"write", "check", "record"} /\ probe'.key = probe.key
  /\ change'.at \in {"write", "check", "commit"} =>
       change.at \in {"write", "check", "commit"} /\ change'.key = change.key
  /\ mode' = "operational" => mode = "operational"
  /\ change'.at # "idle" => change.at # "idle" \/ mode = "operational"

(* Such a step keeps the invariant. *)
LEMMA ApartKeeps == Founding /\ Apart => Founding'
  BY DEF Founding, Apart, Busy

(* An accepted key stays the draft's. *)
LEMMA DraftKeyKept ==
  ASSUME Typed, Custody, draft.key # None, [Next]_vars
  PROVE  draft'.key = draft.key
<1>t. DraftTyped
  BY DEF Typed
<1>1. ~Record
  BY DEF Custody, Drafted, Staging, Mistaken, Record
<1>2. CASE SaveIdentity \/ Reserve \/ Acknowledge \/ SweepAck \/ BootDraft
  BY <1>t, <1>2 DEF SaveIdentity, Reserve, Acknowledge, SweepAck, BootDraft, DraftRetired, DraftTyped, DraftOver
<1>3. CASE UNCHANGED draft
  BY <1>3
<1> QED BY <1>1, <1>2, <1>3 DEF Next, DraftStep, ProbeWrite, ProbeAnswer, Discard, Sweep, SweepDelete,
     Resolver, BeginTurn, EndTurn, Drained, Stopping, StopBundle,
     StopResolver, StopSettings, Crash, Ended, Stop, CommitVoice, Activate, Ask, Mount, CreateSession,
     Commit, Rollback, Dispose, Attach, ActOnly, Settings, Ongoing, Configure, Retry, Cancel,
     AdoptCurrent, ReserveKey, WriteKey, Check, CommitModel, Promote, Swap, Abandon, AbandonDelete,
     AbandonAck, Remount, ChangeOnly, Retirement, AfterDrain, Retire, List, Delete, Ack, TaskOnly,
     Boot, Start, BootAdopt, BootEntry, BootSweep, BootSurface, files, procs, vars

(* What was founded stays so. *)
LEMMA FoundedStep == ASSUME Typed, Custody, Founded, [Next]_vars PROVE Founded'
  BY DraftKeyKept, HistoryStep DEF Founded, Typed

(* Every other step keeps the invariant. *)
LEMMA FoundingStep ==
  ASSUME Typed, Quiet, Custody, Founding, [Next]_vars, ~Founded'
  PROVE  Founding'
<1>t. /\ DraftTyped /\ ProbeTyped /\ ActTyped /\ ChangeTyped /\ SpentTyped /\ NewKey # None
  BY CredentialsAssumption DEF Typed, SpentTyped, Spending, NewKey
<1>1. CASE Resolver \/ StopBundle \/ StopResolver \/ UNCHANGED vars \/ \E t \in Tasks : Retirement(t)
  <2>1. UNCHANGED <<config, session, act, draft, probe, change, mode>>
    BY <1>1 DEF Resolver, BeginTurn, EndTurn, Drained, StopBundle, StopResolver, Retirement,
       AfterDrain, Retire, List, Delete, Ack, TaskOnly, files, procs, vars
  <2> QED BY <2>1, ApartKeeps DEF Apart
<1>2. CASE DraftStep
  <2>0. UNCHANGED <<config, session, act, change, mode>>
    BY <1>2 DEF DraftStep, SaveIdentity, Reserve, ProbeWrite, ProbeAnswer, Record, Discard, Acknowledge,
       Sweep, SweepDelete, SweepAck, ProbeOnly, TidyOnly, procs
  <2>1. CASE SaveIdentity
    <3>1. draft'.stage = "model" /\ UNCHANGED probe
      BY <1>t, <2>1 DEF SaveIdentity, procs, DraftTyped, DraftOver
    <3> QED BY <2>0, <3>1, ApartKeeps DEF Apart
  <2>2. CASE Reserve
    <3>1. draft'.stage = draft.stage /\ draft'.key = draft.key /\ probe'.key = NewKey
      BY <1>t, <2>2 DEF Reserve, DraftTyped, DraftOver
    <3> QED BY <1>t, <2>0, <3>1 DEF Founding, Busy
  <2>3. CASE ProbeWrite \/ ProbeAnswer \/ Discard
    <3>1. UNCHANGED draft
      BY <2>3 DEF ProbeWrite, ProbeAnswer, Discard
    <3>2. PICK l \in ProbeAt : /\ probe' = [probe EXCEPT !.at = l]
                               /\ l \in {"check", "record"} => probe.at \in {"write", "check"}
                               /\ l # "write"
      BY <2>3 DEF ProbeWrite, ProbeAnswer, Discard, ProbeAt
    <3>3. probe'.at = l /\ probe'.key = probe.key
      BY <1>t, <3>2 DEF ProbeTyped, ProbeOver
    <3> QED BY <2>0, <3>1, <3>2, <3>3, ApartKeeps DEF Apart
  <2>4. CASE Record
    <3>1. CASE draft' = Accepted /\ probe' \in {NoProbe, [probe EXCEPT !.at = "discard"]}
      <4>1. draft'.key = probe.key /\ probe.key # None
        BY <1>t, <2>4, <3>1 DEF DraftTyped, DraftOver, Accepted, Record, Founding
      <4>2. probe'.at \in {"idle", "discard"}
        BY <1>t, <3>1 DEF NoProbe, ProbeTyped, ProbeOver
      <4> QED BY <2>0, <4>1, <4>2 DEF Founding, Busy
    <3>2. CASE probe' = [probe EXCEPT !.at = "discard"] /\ UNCHANGED draft
      <4>1. probe'.at = "discard"
        BY <1>t, <3>2 DEF ProbeTyped, ProbeOver
      <4> QED BY <2>0, <3>2, <4>1, ApartKeeps DEF Apart
    <3> QED BY <2>4, <3>1, <3>2 DEF Record
  <2>5. CASE Acknowledge
    <3>1. draft'.stage = draft.stage /\ draft'.key = draft.key
      BY <1>t, <2>5 DEF Acknowledge, DraftRetired, DraftTyped, DraftOver
    <3>2. probe'.at \in {"idle", "retire"}
      BY <1>t, <2>5 DEF Acknowledge, NoProbe, ProbeTyped, ProbeOver
    <3> QED BY <2>0, <3>1, <3>2, ApartKeeps DEF Apart
  <2>6. CASE Sweep \/ SweepDelete \/ SweepAck
    <3>1. draft'.stage = draft.stage /\ draft'.key = draft.key /\ UNCHANGED probe
      BY <1>t, <2>6 DEF Sweep, SweepDelete, SweepAck, TidyOnly, DraftTyped, DraftOver
    <3> QED BY <2>0, <3>1, ApartKeeps DEF Apart
  <2> QED BY <1>2, <2>1, <2>2, <2>3, <2>4, <2>5, <2>6 DEF DraftStep
<1>3. CASE Settings
  <2>0. UNCHANGED <<session, act, draft, probe, mode>>
    BY <1>3 DEF Settings, Ongoing, Configure, Retry, Cancel, AdoptCurrent, ReserveKey, WriteKey, Check,
       CommitModel, Promote, Swap, Abandon, AbandonDelete, AbandonAck, Remount, ChangeOnly
  <2>1. change.at # "idle" \/ mode = "operational"
    BY <1>3 DEF Settings, Ongoing, Configure, Retry, Cancel, AdoptCurrent, ReserveKey, WriteKey, Check,
       CommitModel, Promote, Swap, Abandon, AbandonDelete, AbandonAck, Remount
  <2>a. ASSUME UNCHANGED config, change'.at \notin {"write", "check", "commit"} PROVE Founding'
    BY <2>0, <2>1, <2>a, ApartKeeps DEF Apart
  <2>s. ASSUME Settle \/ \E l \in {"reserve", "promote", "swap", "abandon", "delete", "ack"} : Step(l)
        PROVE  change'.at \notin {"write", "check", "commit"}
    BY <1>t, <2>s DEF Settle, Step, NoChange, ChangeTyped, ChangeOver
  <2>2. CASE Configure \/ Retry
    BY <2>2, <2>a DEF Configure, Retry, NoChange
  <2>3. CASE Cancel
    <3>1. change'.at = change.at /\ change'.key = change.key /\ UNCHANGED config
      BY <1>t, <2>3 DEF Cancel, ChangeTyped, ChangeOver
    <3> QED BY <2>0, <2>1, <3>1, ApartKeeps DEF Apart
  <2>4. CASE ReserveKey
    <3>1. CASE change' = [change EXCEPT !.at = "write", !.key = NewKey]
      <4>1. change'.key = NewKey
        BY <1>t, <3>1 DEF ChangeTyped, ChangeOver
      <4>2. UNCHANGED config
        BY <2>4 DEF ReserveKey
      <4> QED BY <1>t, <2>0, <2>1, <4>1, <4>2 DEF Founding, Busy
    <3> QED BY <2>4, <2>a, <2>s, <3>1 DEF ReserveKey
  <2>5. CASE WriteKey \/ Check
    <3>1. CASE change.at \in {"write", "check"} /\ \E l \in {"check", "commit"} : Step(l)
      <4>1. change'.key = change.key /\ UNCHANGED config
        BY <1>t, <2>5, <3>1 DEF Step, ChangeTyped, ChangeOver, WriteKey, Check
      <4> QED BY <2>0, <2>1, <3>1, <4>1, ApartKeeps DEF Apart
    <3> QED BY <2>5, <2>a, <2>s, <3>1 DEF WriteKey, Check
  <2>6. CASE CommitModel
    <3>1. CASE config' = Stored(change.key) /\ (Step("promote") \/ Step("abandon")) /\ change.at = "commit"
      <4>1. config'.key = change.key /\ change.key # None /\ change'.at \in {"promote", "abandon"}
        BY <1>t, <3>1 DEF Stored, Step, ChangeTyped, ChangeOver, Founding
      <4>2. config.key # None
        BY <3>1 DEF Founding
      <4> QED BY <2>0, <4>1, <4>2 DEF Founding, Busy
    <3> QED BY <2>6, <2>a, <2>s, <3>1 DEF CommitModel
  <2>7. CASE AdoptCurrent \/ Promote \/ Swap \/ Abandon \/ AbandonDelete \/ AbandonAck \/ Remount
    BY <2>7, <2>a, <2>s DEF AdoptCurrent, Promote, Swap, Abandon, AbandonDelete, AbandonAck, Remount
  <2> QED BY <1>3, <2>2, <2>3, <2>4, <2>5, <2>6, <2>7 DEF Settings, Ongoing
<1>4. ASSUME NEW a \in Request, Activate(a) PROVE Founding'
  <2>0. UNCHANGED <<draft, probe, change>> /\ \A b \in Request \ {a} : act'[b] = act[b]
    BY <1>t, <1>4 DEF Activate, Ask, Mount, CreateSession, Commit, Rollback, Dispose, Attach, ActOnly,
       Go, ActTyped
  <2>g. ASSUME NEW l, Go(a, l) PROVE act'[a].at = l /\ (l # "idle" => act'[a].key = act[a].key)
    BY <1>t, <2>g DEF Go, NoAct, ActTyped, ActOver
  <2>i. ASSUME Go(a, "idle"), UNCHANGED <<config, session>>,
               mode' = "operational" => config.key # None
        PROVE  Founding'
    BY <2>0, <2>g, <2>i DEF Founding, Busy
  <2>1. CASE Ask(a)
    <3>1. /\ act'[a].at = "asked" /\ act'[a].key = draft.key /\ draft.stage = "map"
          /\ UNCHANGED <<config, session, mode>>
      BY <1>t, <2>1 DEF Ask, ActTyped
    <3> QED BY <2>0, <3>1 DEF Founding, Busy
  <2>2. CASE Mount(a)
    <3>1. UNCHANGED <<config, session, mode>>
      BY <2>2 DEF Mount
    <3>2. CASE Go(a, "mounted") /\ ~Activating
      BY <2>0, <2>g, <2>2, <3>1, <3>2 DEF Founding, Busy, Activating, Mount
    <3> QED BY <2>2, <2>i, <3>1, <3>2 DEF Mount, Founding
  <2>3. CASE CreateSession(a)
    <3>1. /\ act[a].at = "mounted" /\ UNCHANGED <<config, mode>>
          /\ \/ session' = TRUE /\ act'[a].at = IF session THEN "dispose" ELSE "commit"
             \/ session' \in {session, TRUE} /\ act'[a].at = "dispose"
          /\ act'[a].key = act[a].key
      <4>1. CASE session' = TRUE /\ Go(a, IF session THEN "dispose" ELSE "commit")
        BY <2>3, <2>g, <4>1 DEF CreateSession
      <4>2. CASE session' \in {session, TRUE} /\ Go(a, "dispose")
        <5>1. act'[a].at = "dispose" /\ act'[a].key = act[a].key
          BY <2>g, <4>2
        <5>2. act[a].at = "mounted" /\ UNCHANGED <<config, mode>>
          BY <2>3 DEF CreateSession
        <5> QED BY <4>2, <5>1, <5>2
      <4> QED BY <2>3, <4>1, <4>2 DEF CreateSession
    <3> QED BY <2>0, <3>1 DEF Founding, Busy
  <2>4. CASE Commit(a)
    <3>1. act[a].at = "commit" /\ UNCHANGED <<session, mode>>
      BY <2>4 DEF Commit
    <3>2. CASE config' = Stored(act[a].key) /\ Go(a, "attach")
      BY <2>0, <2>g, <3>1, <3>2 DEF Founding, Busy, Stored
    <3>3. CASE UNCHANGED config /\ Go(a, "rollback")
      BY <2>0, <2>g, <3>1, <3>3 DEF Founding, Busy
    <3>4. CASE CommitTorn(act[a].key)
      <4>1. act[a].key = draft.key /\ draft.key # None
        BY <3>1 DEF Custody, Bound, Heading
      <4>2. spent'.committed = spent.committed \cup {draft.key}
        BY <1>t, <3>4, <4>1 DEF CommitTorn, SpentTyped, Spending
      <4> QED BY <2>0, <4>1, <4>2 DEF Founded
    <3> QED BY <2>4, <3>2, <3>3, <3>4 DEF Commit
  <2>5. CASE Rollback(a)
    <3>1. /\ act[a].at = "rollback" /\ act'[a].at = "dispose" /\ act'[a].key = act[a].key
          /\ UNCHANGED <<config, mode>>
      BY <2>5, <2>g DEF Rollback
    <3> QED BY <2>0, <2>5, <3>1 DEF Founding, Busy, Rollback
  <2>6. CASE Dispose(a)
    BY <2>6, <2>i DEF Dispose, Founding
  <2>7. CASE Attach(a)
    BY <2>7, <2>i DEF Attach, Founding
  <2> QED BY <1>4, <2>1, <2>2, <2>3, <2>4, <2>5, <2>6, <2>7 DEF Activate
<1>5. CASE CommitVoice
  <2>1. config'.key = config.key /\ UNCHANGED <<session, act, draft, probe, change, mode>>
    BY <1>5 DEF CommitVoice, Stored, procs
  <2> QED BY <2>1 DEF Founding, Busy
<1>6. CASE Stop
  <2>1. change'.at = change.at /\ change'.key = change.key
    BY <1>t, <1>6 DEF Stop, ChangeTyped, ChangeOver
  <2> QED BY <1>6, <2>1, ApartKeeps DEF Stop, files, Apart
<1>7. CASE StopSettings \/ Crash
  BY <1>7 DEF StopSettings, Crash, Ended, files, NoProbe, NoAct, NoChange, Founding, Busy
<1>8. CASE Boot
  <2>1. UNCHANGED <<config, probe, act, change>> /\ mode \in {"down", "starting"}
    BY <1>8 DEF Quiet, Boot, Start, BootAdopt, BootEntry, BootSweep, BootDraft, BootSurface, BootOnly
  <2>2. draft'.stage = draft.stage /\ draft'.key = draft.key
    BY <1>t, <1>8 DEF Boot, Start, BootAdopt, BootEntry, BootSweep, BootDraft, BootSurface, DraftRetired,
       DraftTyped, DraftOver
  <2>3. CASE UNCHANGED session /\ (mode' = "operational" => mode = "operational")
    BY <2>1, <2>2, <2>3, ApartKeeps DEF Apart
  <2>4. CASE BootSurface
    BY <2>1, <2>2, <2>4 DEF BootSurface, Founding, Busy, Quiet
  <2> QED BY <1>8, <2>3, <2>4 DEF Boot, Start, BootAdopt, BootEntry, BootSweep, BootDraft
<1> QED BY <1>1, <1>2, <1>3, <1>4, <1>5, <1>6, <1>7, <1>8 DEF Next, Stopping

(* Wherever a configuration is stored the session file is there, whatever    *)
(* activations, changes, stops, failures and crashes have come between: the  *)
(* recovery code can rotate it.  One step alone breaks it, the commit of an  *)
(* activation that throws after its rename.                                  *)
THEOREM HouseholdAlwaysReturns == Spec => []HouseholdCanReturn
<1>1. Init => Founding
  BY DEF Init, Founding, Quiet, Busy, NoBoot, NoChange, NoAct, NoProbe
<1>2. Typed /\ Quiet /\ Custody /\ (Founding \/ Founded) /\ [Next]_vars => Founding' \/ Founded'
  BY FoundingStep, FoundedStep
<1>3. Founding \/ Founded => HouseholdCanReturn
  BY DEF Founding, Founded, HouseholdCanReturn
<1> QED BY <1>1, <1>2, <1>3, TypedInit, TypedStep, QuietStep, CustodyInit, CustodyStep, PTL DEF Spec

(***************************************************************************)
(* The keys in force are kept                                              *)
(***************************************************************************)
Holding == {"write", "check", "commit", "abandon", "delete", "ack"}

(* The key is stored and no record that a sweep, an abandonment or a probe's *)
(* discard works through names it.                                           *)
Safe(k) ==
  /\ k \in vault /\ k \notin spent.recorded
  /\ k \notin draft.cleanup \cup tidy.todo
  /\ ledger[k].phase # "pending"
  /\ \A t \in Tasks : k \notin task[t].todo /\ k # task[t].old
  /\ change.at \in Holding => k # change.key

(* What a step must not do to a safe key.                                    *)
Spares(k) ==
  /\ k \in vault'
  /\ k \in draft'.cleanup \cup tidy'.todo => k \in draft.cleanup \cup tidy.todo
  /\ ledger'[k].phase = "pending" => ledger[k].phase = "pending"
  /\ \A t \in Tasks : /\ k \in task'[t].todo => k \in task[t].todo \cup Pending
                      /\ k = task'[t].old => k = task[t].old
  /\ change'.at \in Holding /\ k = change'.key => change.at \in Holding /\ k = change.key

(* A key that is safe and spared stays safe. *)
LEMMA SparedSafe == ASSUME NEW k, Safe(k), Spares(k), spent'.recorded = spent.recorded PROVE Safe(k)'
  BY DEF Safe, Spares, Pending

(* The setup draft spares the keys beside an accepted one. *)
LEMMA DraftSpares == ASSUME Typed, Custody, NEW k, Safe(k), draft.key # None, DraftStep PROVE Spares(k)
<1>u. UNCHANGED <<ledger, change, task>>
  BY DEF DraftStep, SaveIdentity, Reserve, ProbeWrite, ProbeAnswer, Record, Discard, Acknowledge,
     Sweep, SweepDelete, SweepAck, ProbeOnly, TidyOnly, procs
<1>t. DraftTyped
  BY DEF Typed
<1>p. draft.staging = None /\ (probe.at # "idle" => Mistaken)
  BY DEF Custody, Drafted, Staging
<1>s. ASSUME k \in vault', k \in draft'.cleanup \cup tidy'.todo => k \in draft.cleanup \cup tidy.todo PROVE Spares(k)
  BY <1>s, <1>u DEF Spares
<1>1. CASE SaveIdentity \/ Reserve
  BY <1>1, <1>s, <1>t DEF SaveIdentity, Reserve, MayReserve, procs, DraftTyped, DraftOver, Safe
<1>2. CASE Sweep \/ SweepDelete \/ SweepAck
  <2>1. draft'.cleanup \subseteq draft.cleanup
    BY <1>2, <1>t DEF Sweep, SweepDelete, SweepAck, TidyOnly, DraftTyped, DraftOver
  <2>2. tidy'.todo \subseteq draft.cleanup \cup tidy.todo /\ \A j \in vault \ vault' : j \in tidy.todo
    <3>0. tidy \in TidyOver(Handed) /\ Handed \subseteq Nat
      BY HandedNames DEF Custody, Known
    <3>1. CASE SweepDelete /\ tidy.todo # {}
      <4>1. tidy.todo \in SUBSET Nat
        BY <3>0 DEF TidyOver
      <4>2. Min(tidy.todo) \in tidy.todo
        BY <3>1, <4>1, MinIn
      <4> DEFINE j == Min(tidy.todo)
      <4>3. \/ vault' = vault \ {j} /\ tidy' = [at |-> "ack", todo |-> tidy.todo \ {j}, key |-> j]
            \/ UNCHANGED vault /\ tidy' = [tidy EXCEPT !.todo = @ \ {j}]
        BY <3>1 DEF SweepDelete
      <4> HIDE DEF j
      <4> QED BY <3>0, <4>2, <4>3 DEF TidyOver, j
    <3>2. CASE SweepDelete /\ tidy.todo = {}
      BY <3>2 DEF SweepDelete, NoTidy
    <3>3. CASE Sweep
      BY <3>3 DEF Sweep
    <3>4. CASE SweepAck
      BY <3>0, <3>4 DEF SweepAck, TidyOver
    <3> QED BY <1>2, <3>1, <3>2, <3>3, <3>4
  <2> QED BY <1>s, <2>1, <2>2 DEF Safe
<1>3. CASE Discard
  <2>1. vault' \in {vault, vault \ {probe.key}} /\ k # probe.key
    BY <1>p, <1>3 DEF Discard, Mistaken, Safe
  <2> QED BY <1>3, <1>s, <2>1 DEF Discard, ProbeOnly, Safe
<1>4. CASE Acknowledge
  <2>1. draft'.cleanup = draft.cleanup
    BY <1>p, <1>t, <1>4 DEF Acknowledge, DraftRetired, DraftTyped, DraftOver
  <2> QED BY <1>4, <1>s, <2>1 DEF Acknowledge, ProbeOnly, Safe
<1>5. ~ProbeWrite /\ ~ProbeAnswer /\ ~Record
  BY <1>p DEF ProbeWrite, ProbeAnswer, Record, Mistaken
<1> QED BY <1>1, <1>2, <1>3, <1>4, <1>5 DEF DraftStep

(* So does an activation. *)
LEMMA ActivateSpares == ASSUME Typed, NEW k, Safe(k), NEW a \in Request, Activate(a) PROVE Spares(k)
<1>1. UNCHANGED <<ledger, draft, vault, tidy, change, task>>
  BY DEF Activate, Ask, Mount, CreateSession, Commit, Rollback, Dispose, Attach, ActOnly
<1> QED BY <1>1 DEF Spares, Safe

(* A settings change spares the other keys, but hands the replaced one to a  *)
(* retirement.                                                               *)
LEMMA SettingsSpares ==
  ASSUME Typed, Custody, NEW k, Safe(k), Settings, Swap => k # change.old
  PROVE  Spares(k)
<1>u. UNCHANGED <<draft, tidy>>
  BY DEF Settings, Ongoing, Configure, Retry, Cancel, AdoptCurrent, ReserveKey, WriteKey, Check,
     CommitModel, Promote, Swap, Abandon, AbandonDelete, AbandonAck, Remount, ChangeOnly
<1>t. LedgerTyped /\ ChangeTyped /\ SpentTyped /\ change.gen \in Nat
  BY DEF Typed, ChangeTyped, ChangeOver
<1>k. k \in Handed /\ k # None /\ k # NewKey /\ k \in Keys /\ Known
  <2>1. Known /\ k \in Handed /\ spent.keys \in Nat
    BY <1>t DEF Custody, Known, Safe, SpentTyped, Spending
  <2> QED BY <2>1, HandedKeys, HandedNames DEF Known, Handed, NewKey
<1>c. change'.at \in Holding /\ k = change'.key => change.at \in Holding /\ k = change.key
  <2>1. CASE Settle \/ Configure \/ Retry
    <3>1. Settle => change'.at = "idle"
      BY DEF Settle, NoChange
    <3>2. Configure \/ Retry => change'.at \in {"adopt", "remount"}
      BY DEF Configure, Retry, NoChange
    <3> QED BY <2>1, <3>1, <3>2 DEF Holding
  <2>2. ASSUME NEW l, Step(l), l \in Holding => change.at \in Holding
        PROVE  change'.at \in Holding /\ k = change'.key => change.at \in Holding /\ k = change.key
    BY <1>t, <2>2, StepEffect
  <2>3. CASE Cancel
    BY <1>t, <2>3 DEF Cancel, ChangeTyped, ChangeOver
  <2>4. CASE ReserveKey
    BY <1>t, <1>k, <2>1, <2>4 DEF ReserveKey, ChangeTyped, ChangeOver
  <2>5. CASE AdoptCurrent
    BY <2>1, <2>2, <2>5 DEF AdoptCurrent, Holding
  <2>6. CASE WriteKey \/ Check \/ CommitModel
    <3>1. change.at \in Holding
      BY <2>6 DEF WriteKey, Check, CommitModel, Holding
    <3> QED BY <2>2, <2>6, <3>1 DEF WriteKey, Check, CommitModel
  <2>7. CASE Promote
    BY <2>2, <2>7 DEF Promote, Holding
  <2>8. CASE Abandon \/ AbandonDelete
    <3>1. change.at \in Holding
      BY <2>8 DEF Abandon, AbandonDelete, Holding
    <3> QED BY <2>1, <2>2, <2>8, <3>1 DEF Abandon, AbandonDelete
  <2>9. CASE Swap \/ AbandonAck \/ Remount
    BY <2>1, <2>9 DEF Swap, AbandonAck, Remount
  <2> QED BY <2>1, <2>3, <2>4, <2>5, <2>6, <2>7, <2>8, <2>9 DEF Settings, Ongoing
<1>v. k \in vault'
  BY DEF Settings, Ongoing, Configure, Retry, Cancel, AdoptCurrent, ReserveKey, WriteKey, WriteFails, Check,
     CommitModel, Promote, Swap, Abandon, AbandonDelete, AbandonAck, Remount, Safe, Holding
<1>e. ledger'[k].phase = "pending" => ledger[k].phase = "pending"
  <2>1. CASE UNCHANGED ledger
    BY <2>1
  <2>2. CASE ledger' = Adopted(change.old, change.gen)
    <3>1. \/ UNCHANGED ledger
          \/ Entered(change.old) /\ (change.old \in Keys => ledger'[change.old] =
                [phase |-> "active", expected |-> change.gen - 1, committed |-> change.gen])
      BY <1>t, <2>2, AdoptedEffect
    <3> QED BY <1>k, <3>1 DEF Entered
  <2>3. CASE ledger' = Adopted(change.key, change.gen + 1)
    <3>1. \/ UNCHANGED ledger
          \/ Entered(change.key) /\ (change.key \in Keys => ledger'[change.key] =
                [phase |-> "active", expected |-> change.gen + 1 - 1, committed |-> change.gen + 1])
      BY <1>t, <2>3, AdoptedEffect
    <3> QED BY <1>k, <3>1 DEF Entered
  <2>4. CASE ledger' = Promoted(change.key)
    <3>1. Entered(change.key) /\ (change.key \in Keys => ledger'[change.key] =
            [phase |-> "active", expected |-> ledger[change.key].expected,
             committed |-> ledger[change.key].expected + 1])
      BY <1>t, <2>4, PromotedEffect
    <3> QED BY <1>k, <3>1 DEF Entered
  <2>5. CASE Abandon \/ AbandonAck
    <3>1. k # change.key
      BY <2>5 DEF Abandon, AbandonAck, Safe, Holding
    <3>2. UNCHANGED ledger \/ Entered(change.key)
      BY <1>t, <2>5, PhaseEffect, EntryEffect DEF Abandon, AbandonAck
    <3> QED BY <1>k, <3>1, <3>2 DEF Entered
  <2>6. CASE ReserveKey
    <3>1. UNCHANGED ledger \/ Entered(NewKey)
      BY <1>t, <2>6, EntryEffect DEF ReserveKey
    <3> QED BY <1>k, <3>1 DEF Entered
  <2> QED BY <2>1, <2>2, <2>3, <2>4, <2>5, <2>6 DEF Settings, Ongoing, Configure, Retry, Cancel, AdoptCurrent,
       WriteKey, Check, CommitModel, Promote, Swap, AbandonDelete, Remount
<1>w. \A t \in Tasks : /\ k \in task'[t].todo => k \in task[t].todo
                       /\ k = task'[t].old => k = task[t].old
  <2>1. ASSUME NEW old \in Used, Await(old), k # old
        PROVE  \A t \in Tasks : /\ k \in task'[t].todo => k \in task[t].todo
                                /\ k = task'[t].old => k = task[t].old
    BY <1>k, <2>1, AwaitEffect
  <2>2. CASE UNCHANGED task
    BY <2>2
  <2>3. UNCHANGED task \/ Await(None) \/ (Swap /\ Await(change.old))
    BY DEF Settings, Ongoing, Configure, Retry, Cancel, AdoptCurrent, ReserveKey, WriteKey, Check,
       CommitModel, Promote, Swap, Abandon, AbandonDelete, AbandonAck, Remount
  <2>4. None \in Used /\ change.old \in Used
    BY <1>t DEF Used, ChangeTyped, ChangeOver
  <2> QED BY <1>k, <2>1, <2>2, <2>3, <2>4
<1> QED BY <1>c, <1>e, <1>u, <1>v, <1>w DEF Spares

(* A retirement spares what is pending nowhere. *)
LEMMA RetiringSpares ==
  ASSUME Typed, Custody, NEW k, Safe(k), NEW t \in Tasks, Retires(t)
  PROVE  Spares(k)
<1>1. k \in Keys
  BY HandedKeys DEF Custody, Known, Safe
<1>2. k \in vault' /\ (ledger'[k].phase = "pending" => ledger[k].phase = "pending")
  BY <1>1 DEF Safe, Retires
<1>3. k # None
  BY HandedNames DEF Custody, Known, Safe
<1>4. \A j \in Tasks : /\ k \in task'[j].todo => k \in task[j].todo \cup Pending
                       /\ k = task'[j].old => k = task[j].old
  BY <1>3 DEF Retires
<1>5. UNCHANGED <<draft, tidy, change>>
  BY DEF Retires
<1> QED BY <1>2, <1>4, <1>5 DEF Spares

(* A start spares the configured key, and before there is one the draft's. *)
LEMMA BootSpares ==
  ASSUME Typed, Quiet, Custody, NEW k, Safe(k), draft.key # None, config.key \in {None, k}, Boot
  PROVE  Spares(k)
<1>t. LedgerTyped /\ DraftTyped /\ Known /\ Unconfigured
  BY DEF Typed, Custody
<1>u. UNCHANGED <<vault, change>> /\ change.at = "idle" /\ draft.staging = None
  BY DEF Quiet, Boot, Start, BootAdopt, BootEntry, BootSweep, BootDraft, BootSurface, BootOnly,
     Custody, Drafted
<1>k. k \in Keys
  BY <1>t, HandedKeys DEF Known, Safe
<1>1. draft'.cleanup = draft.cleanup /\ tidy'.todo \subseteq draft.cleanup \cup tidy.todo
  <2>1. draft' = DraftRetired => draft'.cleanup = draft.cleanup /\ DraftRetired.cleanup = draft.cleanup
    BY <1>t, <1>u DEF DraftRetired, DraftTyped, DraftOver
  <2> QED BY <2>1 DEF Boot, Start, BootAdopt, BootEntry, BootSweep, BootDraft, BootSurface
<1>2. ledger'[k].phase = "pending" => ledger[k].phase = "pending"
  <2>1. CASE BootAdopt
    <3>1. \/ UNCHANGED ledger
          \/ Entered(config.key) /\ (config.key \in Keys => ledger'[config.key] =
                [phase |-> "active", expected |-> config.gen - 1, committed |-> config.gen])
      <4>1. CASE UNCHANGED ledger
        BY <4>1
      <4>2. CASE ledger' = Adopted(config.key, config.gen)
        BY <1>t, <4>2, AdoptedEffect
      <4> QED BY <2>1, <4>1, <4>2 DEF BootAdopt
    <3> QED BY <1>k, <3>1 DEF Entered
  <2>2. CASE BootEntry
    <3>1. PICK j : ledger' = Reconciled(j) \/ UNCHANGED ledger
      BY <2>2 DEF BootEntry
    <3>2. CASE UNCHANGED ledger
      BY <3>2
    <3>3. CASE ledger' = Promoted(j)
      <4>1. Entered(j) /\ (j \in Keys => ledger'[j] = [phase |-> "active", expected |-> ledger[j].expected,
                                                   committed |-> ledger[j].expected + 1])
        BY <1>t, <3>3, PromotedEffect
      <4> QED BY <1>k, <4>1 DEF Entered
    <3>4. CASE /\ ledger' = Phase(j, "pending") /\ j # config.key
               /\ ledger[j].phase \in {"staged", "active"}
      <4>1. Entered(j)
        BY <1>t, <3>4, PhaseEffect
      <4>2. j # k
        BY <1>k, <1>t, <3>4 DEF Unconfigured
      <4> QED BY <1>k, <4>1, <4>2 DEF Entered
    <3> QED BY <3>1, <3>2, <3>3, <3>4 DEF Reconciled
  <2> QED BY <2>1, <2>2 DEF Boot, Start, BootSweep, BootDraft, BootSurface
<1>3. \A t \in Tasks : task'[t] = task[t] \/ (task'[t].todo = {} /\ task'[t].old = None)
  <2>1. CASE UNCHANGED task
    BY <2>1
  <2>2. CASE task' = [task EXCEPT ![0] = [NoTask EXCEPT !.at = "list"]]
    <3> DEFINE r == [NoTask EXCEPT !.at = "list"]
    <3>1. r.todo = {} /\ r.old = None
      BY DEF NoTask
    <3> HIDE DEF r
    <3> QED BY <1>t, <2>2, <3>1 DEF Known, r
  <2> QED BY <2>1, <2>2 DEF Boot, Start, BootAdopt, BootEntry, BootSweep, BootDraft, BootSurface
<1>4. k # None
  BY <1>t, HandedNames DEF Known, Safe
<1> QED BY <1>1, <1>2, <1>3, <1>4, <1>u DEF Spares, Safe

(* So does everything else. *)
LEMMA SafeStep ==
  ASSUME Typed, Quiet, Custody, NEW k, Safe(k), draft.key # None,
         mode \in {"down", "starting"} => config.key \in {None, k},
         Swap => k # change.old, [Next]_vars
  PROVE  Safe(k)'
<1>k. k # None
  BY HandedNames DEF Custody, Known, Safe
<1>r. spent'.recorded = spent.recorded
  <2>1. ~Record
    BY DEF Custody, Drafted, Staging, Mistaken, Record
  <2> QED BY <2>1, HistoryStep DEF Typed
<1>1. CASE Boot
  <2>1. mode \in {"down", "starting"}
    BY <1>1 DEF Quiet, Boot, Start, BootAdopt, BootEntry, BootSweep, BootDraft, BootSurface
  <2> QED BY <1>1, <1>r, <2>1, BootSpares, SparedSafe
<1>2. CASE Resolver \/ StopBundle \/ StopResolver \/ UNCHANGED vars \/ CommitVoice
  BY <1>2, <1>r DEF Resolver, BeginTurn, EndTurn, Drained, StopBundle, StopResolver, CommitVoice,
     files, procs, vars, Safe
<1>3. CASE Stop
  <2>1. change'.at = change.at /\ change'.key = change.key
    BY <1>3 DEF Stop, Typed, ChangeTyped, ChangeOver
  <2> QED BY <1>3, <1>r, <2>1 DEF Stop, files, Safe
<1>4. CASE StopSettings \/ Crash
  BY <1>4, <1>k, <1>r DEF StopSettings, Crash, Ended, files, Safe, NoTidy, NoTask, NoChange, Holding
<1>5. CASE \E t \in Tasks : Retirement(t)
  BY <1>5, <1>r, RetirementRetires, RetiringSpares, SparedSafe
<1>6. CASE DraftStep \/ Settings \/ \E a \in Request : Activate(a)
  BY <1>6, <1>r, DraftSpares, SettingsSpares, ActivateSpares, SparedSafe
<1> QED BY <1>1, <1>2, <1>3, <1>4, <1>5, <1>6 DEF Next, Stopping

(* A key that is checked was written; the configured key is safe, and before *)
(* there is one the draft's, unless a write that failed had stored its name. *)
InForce ==
  /\ probe.at \in {"check", "record"} => probe.key \in vault
  /\ change.at \in {"check", "commit"} => change.key \in vault
  /\ draft.key # None /\ config.key = None /\ draft.key \notin spent.recorded => Safe(draft.key)
  /\ config.key # None /\ config.key \notin Forfeit => Safe(config.key)

(* A key that is forfeited stays so. *)
LEMMA ForfeitKept ==
  ASSUME Typed, Custody, draft.key # None, [Next]_vars
  PROVE  Forfeit \subseteq Forfeit'
  BY DraftKeyKept, HistoryStep DEF Forfeit, Typed

(* No step takes the key of a probe that has written it. *)
LEMMA ProbeKeyKept ==
  ASSUME Typed, Custody, InForce, [Next]_vars, probe'.at \in {"check", "record"}
  PROVE  probe'.key \in vault'
<1>t. ProbeTyped
  BY DEF Typed
<1>1. CASE ProbeWrite
  BY <1>1, <1>t DEF ProbeWrite, ProbeTyped, ProbeOver
<1>2. CASE ProbeAnswer
  BY <1>2, <1>t DEF ProbeAnswer, ProbeTyped, ProbeOver, InForce
<1>3. CASE Reserve \/ Record \/ Discard \/ Acknowledge \/ StopSettings \/ Crash
  BY <1>3, <1>t DEF Reserve, Record, Discard, Acknowledge, StopSettings, Crash, Ended, NoProbe,
     ProbeTyped, ProbeOver
<1>4. CASE UNCHANGED probe /\ (UNCHANGED vault \/ SweepDelete \/ WriteKey \/ AbandonDelete
                                \/ \E t \in Tasks : Retirement(t))
  <2>1. /\ probe.at \in {"check", "record"} /\ probe.key \in vault /\ probe.key \notin Swept
        /\ draft.key = None /\ config.key = None
    BY <1>4 DEF InForce, Custody, Drafted, Staging, Mistaken
  <2>2. change.at = "idle" /\ \A t \in Tasks : task[t].todo = {}
    BY <2>1 DEF Custody, Unconfigured
  <2>3. CASE SweepDelete
    <3>1. tidy.todo \in SUBSET Nat
      BY HandedNames DEF Custody, Known, TidyOver
    <3>2. CASE tidy.todo # {}
      <4>1. Min(tidy.todo) \in tidy.todo /\ \A j \in vault \ vault' : j = Min(tidy.todo)
        BY <2>3, <3>1, <3>2, MinIn DEF SweepDelete
      <4> QED BY <1>4, <2>1, <4>1 DEF Swept
    <3> QED BY <1>4, <2>1, <2>3, <3>2 DEF SweepDelete
  <2>4. CASE WriteKey \/ AbandonDelete
    BY <2>2, <2>4 DEF WriteKey, AbandonDelete
  <2>5. CASE \E t \in Tasks : Retirement(t)
    BY <1>4, <2>1, <2>2, <2>5, RetirementRetires DEF Retires
  <2> QED BY <1>4, <2>1, <2>3, <2>4, <2>5
<1> QED BY <1>1, <1>2, <1>3, <1>4 DEF Next, DraftStep, SaveIdentity, Sweep, SweepDelete, SweepAck, TidyOnly,
     Resolver, BeginTurn, EndTurn, Drained, Stopping, StopBundle, StopResolver, Stop, CommitVoice,
     Retirement, AfterDrain, Retire, List, Delete, Ack, TaskOnly, Activate, Ask, Mount, CreateSession,
     Commit, Rollback, Dispose, Attach, ActOnly, Settings, Ongoing, Configure, Retry, Cancel,
     AdoptCurrent, ReserveKey, WriteKey, Check, CommitModel, Promote, Swap, Abandon, AbandonDelete, AbandonAck,
     Remount, ChangeOnly, Boot, Start, BootAdopt, BootEntry, BootSweep, BootDraft, BootSurface, BootOnly,
     files, procs, vars

(* No step takes the key of a change that has written it. *)
LEMMA ChangeKeyKept ==
  ASSUME Typed, Quiet, Custody, InForce, [Next]_vars, change'.at \in {"check", "commit"}
  PROVE  change'.key \in vault'
<1>t. ChangeTyped
  BY DEF Typed
<1>1. CASE WriteKey
  BY <1>1, <1>t, StepEffect DEF WriteKey
<1>2. ASSUME change.at \in {"check", "commit"}, change'.key = change.key PROVE change'.key \in vault'
  <2>1. change.key \in vault /\ Own(change.key)
    BY <1>2 DEF InForce, Custody, Replacing
  <2>2. probe.at # "idle" => probe.at \in {"discard", "ack", "retire"} /\ probe.key = draft.key
    BY <1>2 DEF Custody, Unconfigured, Drafted, Staging, Mistaken
  <2>3. CASE UNCHANGED vault
    BY <1>2, <2>1, <2>3
  <2>4. CASE SweepDelete
    <3>1. tidy.todo \in SUBSET Nat
      BY HandedNames DEF Custody, Known, TidyOver
    <3>2. CASE tidy.todo # {}
      <4>1. Min(tidy.todo) \in tidy.todo /\ \A j \in vault \ vault' : j = Min(tidy.todo)
        BY <2>4, <3>1, <3>2, MinIn DEF SweepDelete
      <4> QED BY <1>2, <2>1, <4>1 DEF Own, Swept
    <3> QED BY <1>2, <2>1, <2>4, <3>2 DEF SweepDelete
  <2>5. CASE \E t \in Tasks : Retirement(t)
    BY <1>2, <2>1, <2>5, RetirementRetires DEF Retires, Own, Listed
  <2>6. CASE ProbeWrite \/ Discard \/ WriteKey \/ AbandonDelete
    BY <1>2, <2>1, <2>2, <2>6 DEF ProbeWrite, Discard, WriteKey, AbandonDelete, Own
  <2> QED BY <2>3, <2>4, <2>5, <2>6 DEF Next, DraftStep, SaveIdentity, Reserve, ProbeAnswer, Record,
       Acknowledge, Sweep, SweepAck, Resolver, BeginTurn, EndTurn, Drained, Stopping, StopBundle,
       StopResolver, StopSettings, Crash, Ended, Stop, CommitVoice, Activate, Ask, Mount, CreateSession,
       Commit, Rollback, Dispose, Attach, ActOnly, Settings, Ongoing, Configure, Retry, Cancel,
       AdoptCurrent, ReserveKey, Check, CommitModel, Promote, Swap, Abandon, AbandonAck, Remount,
       Boot, Start, BootAdopt, BootEntry, BootSweep, BootDraft, BootSurface, BootOnly, files, procs, vars
<1>3. CASE Settings /\ ~WriteKey
  <2>1. CASE Cancel
    BY <1>2, <1>t, <2>1 DEF Cancel, ChangeTyped, ChangeOver
  <2>2. CASE Check
    <3>1. change.at = "check" /\ \E l \in {"commit", "abandon"} : Step(l)
      BY <2>2 DEF Check
    <3> QED BY <1>2, <1>t, <3>1, StepEffect
  <2>3. CASE Configure \/ Retry
    BY <2>3 DEF Configure, Retry, NoChange
  <2>4. CASE ReserveKey
    <3>1. Settle => change'.at = "idle"
      BY DEF Settle, NoChange
    <3>2. change' = [change EXCEPT !.at = "write", !.key = NewKey] => change'.at = "write"
      BY <1>t DEF ChangeTyped, ChangeOver
    <3> QED BY <2>4, <3>1, <3>2 DEF ReserveKey
  <2>5. CASE Settle \/ \E l \in {"reserve", "promote", "swap", "abandon", "delete", "ack"} : Step(l)
    BY <1>t, <2>5, StepEffect DEF Settle, NoChange
  <2> QED BY <1>3, <2>1, <2>2, <2>3, <2>4, <2>5 DEF Settings, Ongoing, AdoptCurrent, CommitModel, Promote, Swap,
       Abandon, AbandonDelete, AbandonAck, Remount
<1>4. CASE UNCHANGED change
  BY <1>2, <1>4
<1>5. CASE Stop \/ StopSettings \/ Crash
  BY <1>2, <1>5, <1>t DEF Stop, StopSettings, Crash, Ended, NoChange, ChangeTyped, ChangeOver
<1> QED BY <1>1, <1>3, <1>4, <1>5 DEF Next, DraftStep, SaveIdentity, Reserve, ProbeWrite, ProbeAnswer,
     Record, Discard, Acknowledge, Sweep, SweepDelete, SweepAck, TidyOnly, ProbeOnly,
     Resolver, BeginTurn, EndTurn, Drained, Stopping, StopBundle, StopResolver, CommitVoice,
     Retirement, AfterDrain, Retire, List, Delete, Ack, TaskOnly, Activate, Ask, Mount, CreateSession,
     Commit, Rollback, Dispose, Attach, ActOnly,
     Boot, Start, BootAdopt, BootEntry, BootSweep, BootDraft, BootSurface, BootOnly, files, procs, vars

(* Every step keeps the keys in force. *)
LEMMA InForceStep ==
  ASSUME Typed, Quiet, Custody, InForce, [Next]_vars
  PROVE  InForce'
<1>i. Known /\ Drafted /\ Unconfigured /\ Bound /\ Replacing
  BY DEF Custody
<1>k. \A k \in vault : k # None
  BY <1>i, HandedNames DEF Known
<1>1. (probe.at \in {"check", "record"} => probe.key \in vault)' /\ (change.at \in {"check", "commit"} => change.key \in vault)'
  BY ProbeKeyKept, ChangeKeyKept
<1>h. spent.recorded \subseteq spent'.recorded
  BY HistoryStep DEF Typed
<1>2. ASSUME NEW k, k = config.key, k # None, k \notin Forfeit' PROVE Safe(k)'
  <2>1. draft.key # None
    BY <1>i, <1>2 DEF Drafted
  <2>2. Safe(k)
    BY <1>2, <2>1, ForfeitKept DEF InForce
  <2>3. Swap => k # change.old
    BY <1>i, <1>2 DEF Swap, Replacing
  <2> QED BY <1>2, <2>1, <2>2, <2>3, SafeStep
<1>3. ASSUME NEW k, k = draft.key, k # None, config.key \in {None, k}, k \notin spent'.recorded PROVE Safe(k)'
  <2>1. Safe(k)
    BY <1>h, <1>3 DEF InForce, Forfeit
  <2>2. Swap => k # change.old
    BY <1>i, <1>3 DEF Swap, Replacing, Unconfigured
  <2> QED BY <1>3, <2>1, <2>2, SafeStep
<1>a. ASSUME config'.key = config.key, draft'.key = draft.key PROVE InForce'
  <2>1. draft.key # None /\ config.key = None /\ draft.key \notin spent'.recorded => Safe(draft.key)'
    BY <1>3, <1>a
  <2>2. config.key # None /\ config.key \notin Forfeit' => Safe(config.key)'
    BY <1>2, <1>a
  <2> QED BY <1>1, <1>a, <2>1, <2>2 DEF InForce
<1>4. CASE Record
  <2>1. CASE UNCHANGED draft
    BY <1>4, <1>a, <2>1 DEF Record, ProbeOnly
  <2>2. CASE draft' = Accepted
    <3>1. /\ draft'.key = probe.key /\ draft'.cleanup = draft.cleanup
          /\ UNCHANGED <<config, ledger, vault, tidy, change, task>> /\ probe.at = "record"
      BY <1>4, <2>2 DEF Record, Accepted, ProbeOnly, TidyOnly, Typed, DraftTyped, DraftOver
    <3>2. /\ probe.key \in vault /\ probe.key \notin Swept /\ probe.key # None /\ config.key = None
          /\ probe.key \notin spent.recorded
      BY <1>i, <3>1 DEF InForce, Drafted, Staging, Mistaken
    <3>3. /\ change.at = "idle" /\ ledger[probe.key].phase # "pending"
          /\ \A t \in Tasks : task[t].todo = {} /\ task[t].old = None
      BY <1>i, <3>1, <3>2, HandedKeys DEF Unconfigured, Known
    <3>4. draft'.key \notin spent'.recorded => Safe(draft.key)'
      BY <3>1, <3>2, <3>3 DEF Safe, Swept, Holding
    <3> QED BY <1>1, <3>1, <3>2, <3>4 DEF InForce
  <2> QED BY <1>4, <2>1, <2>2 DEF Record
<1>5. ASSUME NEW a \in Request, Activate(a) PROVE InForce'
  <2>1. UNCHANGED draft
    BY <1>5 DEF Activate, Ask, Mount, CreateSession, Commit, Rollback, Dispose, Attach, ActOnly
  <2>2. CASE act[a].at = "commit" /\ config.gen = act[a].gen /\ config' = Stored(act[a].key)
    <3>1. config'.key = draft.key /\ draft.key # None /\ config.key \in {None, draft.key}
      BY <1>i, <2>2 DEF Bound, Heading, Stored
    <3>2. config'.key \notin spent'.recorded => Safe(config.key)'
      BY <1>3, <3>1
    <3> QED BY <1>1, <3>1, <3>2 DEF InForce, Forfeit
  <2>3. CASE UNCHANGED config
    BY <1>a, <2>1, <2>3
  <2> QED BY <1>5, <2>2, <2>3 DEF Activate, Ask, Mount, CreateSession, Commit, Rollback, Dispose, Attach
<1>6. CASE CommitModel
  <2>1. CASE UNCHANGED config
    BY <1>6, <1>a, <2>1 DEF CommitModel, ChangeOnly
  <2>2. CASE config' = Stored(change.key) /\ Step("promote") /\ Fine
    <3>1. /\ config'.key = change.key /\ change'.at = "promote" /\ change.at = "commit"
          /\ UNCHANGED <<draft, tidy, ledger, vault, task>>
      BY <1>6, <2>2, StepEffect DEF CommitModel, ChangeOnly, Stored, Typed
    <3>2. change.key \in vault /\ Own(change.key) /\ change.key \notin spent'.recorded
      BY <1>i, <2>2, <3>1 DEF InForce, Replacing, Drafted, Own, Fine
    <3>3. Safe(config.key)'
      BY <3>1, <3>2 DEF Safe, Own, Staged, Swept, Listed, Holding
    <3> QED BY <1>1, <1>k, <3>1, <3>2, <3>3 DEF InForce
  <2>3. CASE config' = Stored(change.key) /\ CommitTorn(change.key)
    <3>1. config'.key = change.key /\ UNCHANGED draft /\ Own(change.key)
      BY <1>i, <1>6, <2>3 DEF CommitModel, ChangeOnly, Stored, Replacing
    <3>2. change.key \in spent'.committed
      BY <2>3 DEF CommitTorn, Typed, SpentTyped, Spending
    <3>3. config'.key \in Forfeit' /\ config'.key # None
      BY <3>1, <3>2, HandedNames DEF Forfeit, Own
    <3> QED BY <1>1, <3>3 DEF InForce
  <2> QED BY <1>6, <2>1, <2>2, <2>3 DEF CommitModel
<1>7. CASE (DraftStep /\ ~Record) \/ Boot
  <2>1. UNCHANGED config /\ draft'.key = draft.key
    BY <1>7 DEF DraftStep, SaveIdentity, Reserve, ProbeWrite, ProbeAnswer, Discard, Acknowledge,
       Sweep, SweepDelete, SweepAck, TidyOnly, ProbeOnly, Boot, Start, BootAdopt, BootEntry, BootSweep,
       BootDraft, BootSurface, BootOnly, DraftRetired, Typed, DraftTyped, DraftOver
  <2> QED BY <1>a, <2>1
<1>8. CASE CommitVoice
  <2>1. config'.key = config.key /\ UNCHANGED draft
    BY <1>8 DEF CommitVoice, Stored
  <2> QED BY <1>a, <2>1
<1>9. CASE UNCHANGED <<config, draft>>
  BY <1>a, <1>9
<1> QED BY <1>4, <1>5, <1>6, <1>7, <1>8, <1>9 DEF Next, Settings, Ongoing, Configure, Retry, Cancel,
     AdoptCurrent, ReserveKey, WriteKey, Check, Promote, Swap, Abandon, AbandonDelete, AbandonAck, Remount,
     ChangeOnly, Resolver, BeginTurn, EndTurn, Drained, Stop, Stopping, StopBundle, StopResolver,
     StopSettings, Crash, Ended, Retirement, AfterDrain, Retire, List, Delete, Ack, TaskOnly, files, vars

(* Nothing is in force when nothing is set up. *)
LEMMA InForceInit == Init => InForce
  BY DEF Init, InForce, NoProbe, NoChange

(* The resolver's generations over a set of keys.                            *)
GenOver(U) == [state : {"free", "active", "retired", "gone", "broken"}, key : U, turn : BOOLEAN]
GensTyped == gens \in [Gens -> GenOver(Used)]

(* The key is safe, was forfeited, or belongs to an activation that came     *)
(* after another had been committed and its key replaced.                    *)
Late(k) == k = draft.key /\ config.key \notin {None, draft.key}
Backed(k) == Safe(k) \/ k \in Forfeit \/ Late(k)

(* Whoever serves has such a key, and only while a surface is there.         *)
ServedSafe == \A g \in Serving : Backed(gens[g].key)
Surfaced == Serving # {} => draft.key # None /\ mode \notin {"down", "starting"}

(* A change that has committed mounts the configured key, a new one.         *)
Committed ==
  /\ change.at \in {"promote", "swap", "remount"} => change.key = config.key
  /\ change.at \in {"promote", "swap"} => change.key # draft.key

InUse == GensTyped /\ ServedSafe /\ Surfaced /\ Committed

(* Who serves is retired. *)
LEMMA RetiredEffect == ASSUME GensTyped PROVE Retired \in [Gens -> GenOver(Used)] /\ \A g \in Gens : Retired[g].state # "active"
<1>1. ASSUME NEW g \in Gens PROVE Retired[g] \in GenOver(Used) /\ Retired[g].state # "active"
  BY <1>1 DEF GensTyped, Retired, Serving, GenOver
<1>2. DOMAIN Retired = Gens /\ Retired = [g \in Gens |-> Retired[g]]
  BY DEF Retired
<1> QED BY <1>1, <1>2

(* One generation serves after a mount, with the mounted key. *)
LEMMA ServeEffect ==
  ASSUME GensTyped, NEW k \in Used, Serve(k)
  PROVE  /\ gens' \in [Gens -> GenOver(Used)]
         /\ \A g \in Gens : gens'[g].state = "active" => gens'[g].key = k
<1> DEFINE m == Min(Free)
           e == [state |-> "active", key |-> k, turn |-> FALSE]
<1>1. gens' = [Retired EXCEPT ![m] = e] /\ m \in Gens
  <2>1. Free \in SUBSET Nat /\ Free # {} /\ Free \subseteq Gens
    BY DEF Serve, Free, Gens
  <2>2. m \in Free
    BY <2>1, MinIn
  <2> QED BY <2>1, <2>2 DEF Serve
<1>2. e \in GenOver(Used) /\ e.key = k
  BY DEF GenOver
<1> HIDE DEF m, e
<1> QED BY <1>1, <1>2, RetiredEffect

(* A step that mounts nothing. *)
GoesOnServing ==
  /\ gens' \in [Gens -> GenOver(Used)]
  /\ \A g \in Gens : gens'[g].state = "active" => gens[g].state = "active" /\ gens'[g].key = gens[g].key

(* Turns, disposals and the end of a process mount nothing. *)
LEMMA ResolverServing ==
  ASSUME GensTyped, \/ BeginTurn \/ EndTurn \/ Drained \/ Degrade \/ StopBundle \/ UNCHANGED gens
                    \/ gens' = [g \in Gens |-> NoGen]
                    \/ \E t \in Tasks : gens' = [gens EXCEPT ![task[t].gen] = NoGen]
  PROVE  GoesOnServing
<1>n. NoGen \in GenOver(Used) /\ NoGen.state = "free"
  BY DEF NoGen, GenOver, Used
<1>r. Retired \in [Gens -> GenOver(Used)] /\ \A g \in Gens : Retired[g].state # "active"
  BY RetiredEffect
<1>a. ASSUME NEW g \in Gens, NEW e \in GenOver(Used), gens' = [gens EXCEPT ![g] = e],
             e.state # "active" \/ (e.state = gens[g].state /\ e.key = gens[g].key)
      PROVE  GoesOnServing
  BY <1>a DEF GensTyped, GoesOnServing
<1>1. CASE BeginTurn \/ EndTurn
  <2>1. PICK g \in Gens, b \in BOOLEAN : gens' = [gens EXCEPT ![g].turn = b]
    BY <1>1 DEF BeginTurn, EndTurn, Serving
  <2> DEFINE e == [gens[g] EXCEPT !.turn = b]
  <2>2. gens' = [gens EXCEPT ![g] = e]
    BY <2>1 DEF GensTyped
  <2>3. e \in GenOver(Used) /\ e.state = gens[g].state /\ e.key = gens[g].key
    BY DEF GensTyped, GenOver
  <2> HIDE DEF e
  <2> QED BY <1>a, <2>2, <2>3
<1>2. CASE Drained
  <2>1. PICK g \in Gens, l \in {"broken", "gone"} :
          gens[g].state = "retired" /\ gens' = [gens EXCEPT ![g] = IF Awaited(g) THEN [@ EXCEPT !.state = l] ELSE NoGen]
    BY <1>2 DEF Drained
  <2> DEFINE e == IF Awaited(g) THEN [gens[g] EXCEPT !.state = l] ELSE NoGen
  <2>2. gens' = [gens EXCEPT ![g] = e]
    BY <2>1 DEF GensTyped
  <2>3. e \in GenOver(Used) /\ e.state # "active"
    BY <1>n DEF GensTyped, GenOver
  <2> HIDE DEF e
  <2> QED BY <1>a, <2>2, <2>3
<1>3. CASE StopBundle
  <2>1. gens' = [g \in Gens |-> [Retired[g] EXCEPT !.turn = FALSE]]
    BY <1>3 DEF StopBundle
  <2>2. \A g \in Gens : gens'[g] \in GenOver(Used) /\ gens'[g].state # "active"
    BY <1>r, <2>1 DEF GenOver
  <2>3. DOMAIN gens' = Gens /\ gens' = [g \in Gens |-> gens'[g]]
    BY <2>1
  <2> QED BY <2>2, <2>3 DEF GoesOnServing
<1>4. CASE Degrade \/ UNCHANGED gens \/ gens' = [g \in Gens |-> NoGen]
  BY <1>4, <1>n, <1>r DEF Degrade, GensTyped, GoesOnServing
<1>5. CASE \E t \in Tasks : gens' = [gens EXCEPT ![task[t].gen] = NoGen]
  BY <1>5, <1>n DEF GensTyped, GoesOnServing
<1> QED BY <1>1, <1>2, <1>3, <1>4, <1>5

(* A step that mounts a model serves with its key alone. *)
Mounts(k) ==
  /\ gens' \in [Gens -> GenOver(Used)]
  /\ \A g \in Gens : gens'[g].state = "active" => gens'[g].key = k

(* The key in force is backed, and the draft's, whatever is configured. *)
LEMMA ForcedBacked ==
  ASSUME InForce', NEW k, k # None, config'.key = k \/ draft'.key = k
  PROVE  Backed(k)'
<1>1. CASE config'.key = k
  <2>1. k \in Forfeit' \/ Safe(config.key)'
    BY <1>1 DEF InForce
  <2> QED BY <1>1, <2>1 DEF Backed, Safe
<1>2. CASE config'.key = None /\ draft'.key = k
  <2>1. k \in spent'.recorded \/ Safe(draft.key)'
    BY <1>2 DEF InForce
  <2> QED BY <1>2, <2>1 DEF Backed, Forfeit, Safe
<1>3. CASE config'.key \notin {None, k} /\ draft'.key = k
  BY <1>3 DEF Backed, Late
<1> QED BY <1>1, <1>2, <1>3

(* Once the draft's key is replaced only another change replaces the key. *)
LEMMA ReplacedStays ==
  ASSUME Typed, Custody, [Next]_vars, draft.key # None, config.key \notin {None, draft.key}
  PROVE  config'.key \notin {None, draft'.key}
<1>d. draft'.key = draft.key
  BY DraftKeyKept
<1>1. CASE config'.key = config.key
  BY <1>d, <1>1
<1>2. CASE CommitModel /\ config' = Stored(change.key)
  <2>1. Own(change.key) /\ config'.key = change.key
    BY <1>2 DEF CommitModel, Custody, Replacing, Stored
  <2> QED BY <1>d, <2>1, HandedNames DEF Own
<1>3. ASSUME NEW a \in Request, Commit(a), config.gen = act[a].gen PROVE FALSE
  BY <1>3 DEF Commit, Custody, Bound, Heading
<1>4. UNCHANGED config => config'.key = config.key
  OBVIOUS
<1>5. CommitVoice => config'.key = config.key
  BY DEF CommitVoice, Stored
<1>6. UNCHANGED config \/ CommitVoice \/ (CommitModel /\ config' = Stored(change.key))
        \/ \E a \in Request : Commit(a) /\ config.gen = act[a].gen
  BY DEF Next, DraftStep, SaveIdentity, Reserve, ProbeWrite, ProbeAnswer,
     Record, Discard, Acknowledge, Sweep, SweepDelete, SweepAck, TidyOnly, ProbeOnly,
     Resolver, BeginTurn, EndTurn, Drained, Stopping, StopBundle, StopResolver, StopSettings, Crash, Ended, Stop,
     Retirement, AfterDrain, Retire, List, Delete, Ack, TaskOnly, Activate, Ask, Mount, CreateSession,
     Commit, Rollback, Dispose, Attach, Settings, Ongoing, Configure, Retry, Cancel,
     AdoptCurrent, ReserveKey, WriteKey, Check, CommitModel, Promote, Swap, Abandon, AbandonDelete, AbandonAck,
     Remount, Boot, Start, BootAdopt, BootEntry, BootSweep, BootDraft, BootSurface, BootOnly, files, procs, vars
<1> QED BY <1>1, <1>2, <1>3, <1>4, <1>5, <1>6

(* A key that is backed stays so until a change replaces it. *)
LEMMA BackedStep ==
  ASSUME Typed, Quiet, Custody, NEW k, Backed(k), draft.key # None, mode \notin {"down", "starting"},
         Swap => k # change.old, [Next]_vars
  PROVE  Backed(k)'
<1>1. CASE Safe(k)
  BY <1>1, SafeStep DEF Backed
<1>2. CASE k \in Forfeit
  BY <1>2, ForfeitKept DEF Backed
<1>3. CASE Late(k)
  BY <1>3, ReplacedStays, DraftKeyKept DEF Backed, Late
<1> QED BY <1>1, <1>2, <1>3 DEF Backed

(* What a step must show to keep the serving keys safe. *)
LEMMA ServingKept ==
  ASSUME Typed, Quiet, Custody, InUse, [Next]_vars,
         Used \subseteq Used',
         \/ GoesOnServing /\ (Swap => UNCHANGED <<files, task, tidy, spent>> /\ change'.at = "idle")
         \/ \E k : Mounts(k) /\ Backed(k)'
  PROVE  GensTyped' /\ ServedSafe'
<1>1. GensTyped'
  BY DEF GoesOnServing, Mounts, GensTyped, GenOver
<1>2. ASSUME GoesOnServing, Swap => UNCHANGED <<files, task, tidy, spent>> /\ change'.at = "idle",
             NEW g \in Serving', NEW k, k = gens'[g].key
      PROVE  Backed(k)'
  <2>1. g \in Serving /\ k = gens[g].key
    BY <1>2 DEF GoesOnServing, Serving
  <2>2. Backed(k) /\ draft.key # None /\ mode \notin {"down", "starting"}
    BY <2>1 DEF InUse, ServedSafe, Surfaced
  <2>3. CASE Swap
    <3>1. Safe(k) => Safe(k)'
      BY <1>2, <2>3 DEF Safe, files, Holding
    <3> QED BY <1>2, <2>2, <2>3, <3>1 DEF Backed, Late, Forfeit, files
  <2>4. CASE ~Swap
    BY <2>2, <2>4, BackedStep
  <2> QED BY <2>3, <2>4
<1>3. ASSUME NEW k, Mounts(k), Backed(k)', NEW g \in Serving', NEW j, j = gens'[g].key PROVE Backed(j)'
  <2>1. j = k
    BY <1>3 DEF Mounts, Serving
  <2> QED BY <1>3, <2>1
<1>4. ServedSafe'
  BY <1>2, <1>3 DEF ServedSafe
<1> QED BY <1>1, <1>4

(* Steps that mount nothing and leave activation and change where they are. *)
LEMMA GoingOnInUse ==
  ASSUME Typed, Quiet, Custody, InUse, [Next]_vars, GoesOnServing,
         UNCHANGED act, change'.at = change.at, change'.key = change.key, config'.key = config.key,
         \/ draft'.key = draft.key
         \/ draft.key = None /\ config.key = None /\ draft'.key # None,
         mode' = mode \/ mode' = "stopping"
  PROVE  InUse'
<1>1. Used \subseteq Used' /\ ~Swap
  BY HandedGrows DEF Custody, Known, Swap, Settle, NoChange
<1>2. GensTyped' /\ ServedSafe'
  BY <1>1, ServingKept
<1>3. Surfaced'
  BY DEF InUse, Surfaced, Serving, GoesOnServing
<1>4. Committed'
  BY DEF InUse, Committed, Custody, Unconfigured
<1> QED BY <1>2, <1>3, <1>4 DEF InUse

(* The setup draft, turns, disposals, stops and other commits are such steps. *)
LEMMA PlainInUse ==
  ASSUME Typed, Quiet, Custody, InUse, [Next]_vars,
         \/ DraftStep \/ Resolver \/ StopBundle \/ StopResolver \/ Stop \/ CommitVoice \/ UNCHANGED vars
         \/ \E t \in Tasks : Retirement(t)
  PROVE  InUse'
<1>g. GensTyped
  BY DEF InUse
<1>1. GoesOnServing
  <2>1. \/ BeginTurn \/ EndTurn \/ Drained \/ StopBundle \/ UNCHANGED gens
        \/ \E t \in Tasks : gens' = [gens EXCEPT ![task[t].gen] = NoGen]
    BY DEF DraftStep, SaveIdentity, Reserve, ProbeWrite, ProbeAnswer, Record, Discard, Acknowledge,
       Sweep, SweepDelete, SweepAck, ProbeOnly, TidyOnly, Resolver, StopResolver, Stop, CommitVoice,
       Retirement, AfterDrain, Retire, List, Delete, Ack, procs, vars
  <2> QED BY <1>g, <2>1, ResolverServing
<1>2. CASE DraftStep
  <2>1. UNCHANGED <<config, mode, act, change>>
    BY <1>2 DEF DraftStep, SaveIdentity, Reserve, ProbeWrite, ProbeAnswer, Record, Discard, Acknowledge,
       Sweep, SweepDelete, SweepAck, ProbeOnly, TidyOnly, procs
  <2>2. \/ draft'.key = draft.key
        \/ draft.key = None /\ config.key = None /\ draft'.key # None
    <3>t. DraftTyped
      BY DEF Typed
    <3>1. CASE Record
      <4>1. draft.key = None /\ config.key = None /\ probe.key # None
        BY <3>1 DEF Record, Custody, Drafted, Staging, Mistaken
      <4> QED BY <3>t, <3>1, <4>1 DEF Record, Accepted, DraftTyped, DraftOver
    <3>2. CASE ~Record
      BY <1>2, <3>t, <3>2 DEF DraftStep, SaveIdentity, Reserve, ProbeWrite, ProbeAnswer, Discard,
         Acknowledge, Sweep, SweepDelete, SweepAck, ProbeOnly, TidyOnly, DraftRetired, DraftTyped, DraftOver
    <3> QED BY <3>1, <3>2
  <2> QED BY <1>1, <2>1, <2>2, GoingOnInUse
<1>3. CASE Stop
  <2>1. /\ UNCHANGED <<config, draft, act>> /\ mode' = "stopping"
        /\ change'.at = change.at /\ change'.key = change.key
    BY <1>3 DEF Stop, files, Typed, ChangeTyped, ChangeOver
  <2> QED BY <1>1, <2>1, GoingOnInUse
<1>4. CASE CommitVoice
  <2>1. UNCHANGED <<draft, mode, act, change>> /\ config'.key = config.key
    BY <1>4 DEF CommitVoice, Stored, procs
  <2> QED BY <1>1, <2>1, GoingOnInUse
<1>5. CASE \/ Resolver \/ StopBundle \/ StopResolver \/ UNCHANGED vars
           \/ \E t \in Tasks : Retirement(t)
  <2>1. UNCHANGED <<config, draft, mode, act, change>>
    BY <1>5 DEF Resolver, BeginTurn, EndTurn, Drained, StopBundle, StopResolver, Retirement, AfterDrain,
       Retire, List, Delete, Ack, TaskOnly, files, procs, vars
  <2> QED BY <1>1, <2>1, GoingOnInUse
<1> QED BY <1>2, <1>3, <1>4, <1>5

(* A process that has ended serves nobody. *)
LEMMA EndedInUse == ASSUME Ended PROVE InUse'
<1>1. GensTyped' /\ Serving' = {}
  BY DEF Ended, GensTyped, GenOver, Used, NoGen, Serving
<1>2. \A a \in Request : act'[a].at = "idle"
  BY DEF Ended, NoAct
<1>3. change'.at = "idle"
  BY DEF Ended, NoChange
<1> QED BY <1>1, <1>2, <1>3 DEF InUse, ServedSafe, Surfaced, Committed

(* A start mounts the configured key. *)
LEMMA BootInUse ==
  ASSUME Typed, Quiet, Custody, InUse, InForce', Boot, [Next]_vars
  PROVE  InUse'
<1>u. /\ UNCHANGED <<config, act, change>> /\ draft'.key = draft.key
      /\ mode \in {"down", "starting"} /\ change.at = "idle"
      /\ \A a \in Request : act[a].at = "idle"
  <2>1. UNCHANGED <<config, act, change>> /\ draft'.key = draft.key
    BY DEF Boot, Start, BootAdopt, BootEntry, BootSweep, BootDraft, BootSurface, BootOnly,
       DraftRetired, Typed, DraftTyped, DraftOver
  <2>2. mode \in {"down", "starting"}
    BY DEF Quiet, Boot, Start, BootAdopt, BootEntry, BootSweep, BootDraft, BootSurface
  <2> QED BY <2>1, <2>2 DEF Quiet
<1>s. Serving = {} /\ GensTyped
  BY <1>u DEF InUse, Surfaced
<1>h. Used \subseteq Used' /\ ~Swap
  BY <1>u, HandedGrows DEF Custody, Known, Swap
<1>e. Committed'
  BY <1>u DEF Committed
<1>1. CASE UNCHANGED gens
  <2>1. GoesOnServing /\ Serving' = {}
    BY <1>1, <1>s DEF GensTyped, GoesOnServing, Serving
  <2>2. GensTyped' /\ ServedSafe'
    BY <1>h, <2>1, ServingKept
  <2> QED BY <1>e, <2>1, <2>2 DEF InUse, Surfaced
<1>2. CASE /\ Serve(config.key) /\ config.key # None /\ mode' = "operational"
  <2>0. PICK k : k = config.key
    OBVIOUS
  <2>1. k \in Used /\ k # None /\ config'.key = k /\ draft'.key # None
    BY <1>u, <1>2, <2>0 DEF Typed, ConfigTyped, Custody, Drafted
  <2>2. Mounts(k)
    BY <1>s, <1>2, <2>0, <2>1, ServeEffect DEF Mounts
  <2>3. Backed(k)'
    BY <2>1, ForcedBacked
  <2>4. GensTyped' /\ ServedSafe'
    BY <1>h, <2>2, <2>3, ServingKept
  <2> QED BY <1>2, <1>e, <2>1, <2>4 DEF InUse, Surfaced
<1> QED BY <1>1, <1>2 DEF Boot, Start, BootAdopt, BootEntry, BootSweep, BootDraft, BootSurface

(* A change mounts the key it has committed. *)
LEMMA SettingsInUse ==
  ASSUME Typed, Quiet, Custody, InUse, InForce', Settings, [Next]_vars
  PROVE  InUse'
<1>t. ConfigTyped /\ ChangeTyped
  BY DEF Typed
<1>u. /\ UNCHANGED <<draft, mode, act>> /\ mode \notin {"down", "starting"}
      /\ change.at = "idle" => mode = "operational" /\ change'.at \in {"idle", "adopt", "remount"}
      /\ change'.at = "remount" /\ change.at = "idle" => change'.key = config'.key
  <2>1. UNCHANGED <<draft, mode, act>> /\ (change.at # "idle" \/ mode = "operational")
    BY DEF Settings, Ongoing, Configure, Retry, Cancel, AdoptCurrent, ReserveKey, WriteKey, Check,
       CommitModel, Promote, Swap, Abandon, AbandonDelete, AbandonAck, Remount, ChangeOnly
  <2>2. mode \notin {"down", "starting"}
    BY <2>1 DEF Quiet
  <2>3. change.at = "idle" => Configure \/ Retry
    BY DEF Settings, Ongoing, Cancel, AdoptCurrent, ReserveKey, WriteKey, Check,
       CommitModel, Promote, Swap, Abandon, AbandonDelete, AbandonAck, Remount
  <2>4. /\ Configure => change'.at = "adopt"
        /\ Retry => change'.at = "remount" /\ change'.key = config'.key
    BY DEF Configure, Retry, NoChange
  <2> QED BY <2>1, <2>2, <2>3, <2>4
<1>h. Used \subseteq Used'
  BY HandedGrows DEF Custody, Known
<1>c. Committed'
  <2>1. CASE change.at = "idle"
    BY <1>u, <2>1 DEF Committed
  <2>2. CASE CommitModel
    <3>1. CASE Step("abandon")
      BY <1>t, <3>1, StepEffect DEF Committed
    <3>2. CASE config' = Stored(change.key) /\ Step("promote") /\ change.at = "commit"
      <4>1. change.key # draft.key
        BY <3>2 DEF Custody, Replacing, Own
      <4> QED BY <1>t, <1>u, <3>2, <4>1, StepEffect DEF Committed, Stored
    <3> QED BY <2>2, <3>1, <3>2 DEF CommitModel
  <2>3. CASE Settle
    BY <2>3 DEF Settle, NoChange, Committed
  <2>4. CASE \E l \in {"reserve", "check", "commit", "abandon", "delete", "ack"} : Step(l)
    BY <1>t, <2>4, StepEffect DEF Committed
  <2>5. CASE Promote
    BY <1>t, <1>u, <2>5, StepEffect DEF Promote, InUse, Committed
  <2>6. CASE Cancel
    BY <1>t, <1>u, <2>6 DEF Cancel, InUse, Committed, ChangeTyped, ChangeOver
  <2>7. CASE ReserveKey
    BY <1>t, <2>3, <2>7 DEF ReserveKey, Committed, ChangeTyped, ChangeOver
  <2> QED BY <2>1, <2>2, <2>3, <2>4, <2>5, <2>6, <2>7 DEF Settings, Ongoing, Configure, Retry,
       AdoptCurrent, WriteKey, Check, Swap, Abandon, AbandonDelete, AbandonAck, Remount
<1>1. CASE UNCHANGED gens
  <2>1. GoesOnServing
    BY <1>1, ResolverServing DEF InUse
  <2>2. Swap => UNCHANGED <<files, task, tidy, spent>> /\ change'.at = "idle"
    <3>1. ASSUME Swap, Serve(change.key) PROVE FALSE
      <4>1. \E g \in Gens : gens[g].state = "free" /\ gens'[g].state = "active"
        <5> DEFINE m == Min(Free)
                   e == [state |-> "active", key |-> change.key, turn |-> FALSE]
        <5>1. Free \in SUBSET Nat /\ Free # {}
          BY <3>1 DEF Serve, Free, Gens
        <5>2. m \in Free /\ gens' = [Retired EXCEPT ![m] = e] /\ e.state = "active"
          BY <3>1, <5>1, MinIn DEF Serve
        <5> HIDE DEF m, e
        <5> QED BY <5>2 DEF Free, Retired
      <4> QED BY <1>1, <4>1
    <3> QED BY <3>1 DEF Swap, Settle, NoChange, ChangeOnly, files
  <2>3. GensTyped' /\ ServedSafe'
    BY <1>h, <2>1, <2>2, ServingKept
  <2> QED BY <1>1, <1>u, <1>c, <2>3 DEF InUse, Surfaced, Serving
<1>2. CASE /\ Serve(change.key) /\ change.at \in {"swap", "remount"} /\ UNCHANGED config
  <2>0. PICK k : k = change.key
    OBVIOUS
  <2>1. k \in Used /\ k # None /\ config'.key = k /\ draft'.key # None
    BY <1>t, <1>u, <1>2, <2>0 DEF ChangeTyped, ChangeOver, InUse, Committed, Custody, Unconfigured, Drafted
  <2>2. Mounts(k)
    BY <1>2, <2>0, <2>1, ServeEffect DEF Mounts, InUse
  <2>3. Backed(k)'
    BY <2>1, ForcedBacked
  <2>4. GensTyped' /\ ServedSafe'
    BY <1>h, <2>2, <2>3, ServingKept
  <2> QED BY <1>u, <1>c, <2>1, <2>4 DEF InUse, Surfaced
<1> QED BY <1>1, <1>2 DEF Settings, Ongoing, Configure, Retry, Cancel, AdoptCurrent, ReserveKey, WriteKey,
     Check, CommitModel, Promote, Swap, Abandon, AbandonDelete, AbandonAck, Remount, ChangeOnly

(* An activation mounts the draft's key, and what was stored if the surface  *)
(* could not be attached.                                                    *)
LEMMA ActivateInUse ==
  ASSUME Typed, Quiet, Custody, InUse, InForce', NEW a \in Request, Activate(a), [Next]_vars
  PROVE  InUse'
<1>t. ConfigTyped /\ ActTyped
  BY DEF Typed
<1>i. Custody /\ InUse /\ GensTyped
  BY DEF InUse
<1>u. UNCHANGED <<draft, change>>
  BY DEF Activate, Ask, Mount, CreateSession, Commit, Rollback, Dispose, Attach, ActOnly
<1>h. Used \subseteq Used' /\ ~Swap
  BY <1>i, <1>u, HandedGrows DEF Custody, Known, Swap, Settle, NoChange
<1>m. mode \notin {"down", "starting"}
  BY DEF Activate, Ask, Mount, CreateSession, Commit, Rollback, Dispose, Attach, Asked, Alive
<1>c. Committed'
  <2>1. CASE change.at = "idle"
    BY <1>u, <2>1 DEF Committed
  <2>2. CASE change.at # "idle" /\ UNCHANGED config
    BY <1>i, <1>u, <2>2 DEF InUse, Committed
  <2>3. CASE change.at # "idle" /\ Commit(a) /\ config.gen = act[a].gen /\ config' = Stored(act[a].key)
    <3>1. config.key # None
      BY <1>i, <2>3 DEF Custody, Unconfigured
    <3>2. config.key = draft.key /\ config'.key = draft.key
      BY <1>i, <2>3, <3>1 DEF Commit, Custody, Bound, Heading, Stored
    <3> QED BY <1>i, <1>u, <3>2 DEF InUse, Committed
  <2> QED BY <2>1, <2>2, <2>3 DEF Activate, Ask, Mount, CreateSession, Commit, Rollback, Dispose, Attach
<1>1. CASE UNCHANGED gens \/ Degrade
  <2>1. GoesOnServing
    BY <1>i, <1>1, ResolverServing
  <2>2. GensTyped' /\ ServedSafe'
    BY <1>h, <2>1, ServingKept
  <2>3. mode' \in {mode, "operational"}
    BY DEF Activate, Ask, Mount, CreateSession, Commit, Rollback, Dispose, Attach
  <2>4. Surfaced'
    BY <1>i, <1>u, <2>1, <2>3 DEF InUse, Surfaced, Serving, GoesOnServing
  <2> QED BY <1>c, <2>2, <2>4 DEF InUse
<1>2. ASSUME NEW k, Serve(k), UNCHANGED config, mode' \in {mode, "operational"},
             \/ k = act[a].key /\ act[a].at = "asked"
             \/ k = config.key /\ act[a].at = "attach"
      PROVE  InUse'
  <2>1. k \in Used /\ k # None /\ draft'.key # None
    BY <1>t, <1>i, <1>u, <1>2 DEF ConfigTyped, ActTyped, ActOver, Custody, Bound, Heading, Unconfigured, Drafted
  <2>2. config'.key = k \/ draft'.key = k
    BY <1>i, <1>u, <1>2 DEF Custody, Bound, Heading
  <2>3. Mounts(k)
    BY <1>i, <1>2, <2>1, ServeEffect DEF Mounts
  <2>4. Backed(k)'
    BY <2>1, <2>2, ForcedBacked
  <2>5. GensTyped' /\ ServedSafe'
    BY <1>h, <2>3, <2>4, ServingKept
  <2>6. Surfaced'
    BY <1>m, <1>2, <2>1 DEF Surfaced
  <2> QED BY <1>c, <2>5, <2>6 DEF InUse
<1> QED BY <1>1, <1>2 DEF Activate, Ask, Mount, CreateSession, Commit, Rollback, Dispose, Attach, Degrade

(* Every step keeps the serving keys backed. *)
LEMMA InUseStep ==
  ASSUME Typed, Quiet, Custody, InUse, InForce', [Next]_vars
  PROVE  InUse'
<1>1. StopSettings \/ Crash => Ended
  BY DEF StopSettings, Crash
<1> QED BY <1>1, PlainInUse, EndedInUse, BootInUse, SettingsInUse, ActivateInUse DEF Next, Stopping

(* The key the stored configuration names and the key of the generation that *)
(* serves new turns are in the vault, through every sweep, retirement,       *)
(* abandonment, failure and restart and any number of activations together,  *)
(* but for a key whose own write threw after its rename, and for an          *)
(* activation mounted after the settings have replaced the draft's key.      *)
THEOREM KeysAlwaysInForce == Spec => []KeysInForceKept
<1>1. Init => InUse
  <2> SUFFICES ASSUME Init PROVE InUse
    OBVIOUS
  <2>1. GensTyped /\ Serving = {}
    BY DEF Init, GensTyped, GenOver, Used, NoGen, Serving
  <2> QED BY <2>1 DEF Init, InUse, ServedSafe, Surfaced, Committed, NoChange
<1>2. InForce /\ InUse => KeysInForceKept
  BY DEF InForce, InUse, ServedSafe, Backed, Late, Outdated, Safe, KeysInForceKept
<1>3. Typed /\ Quiet /\ Custody /\ InForce /\ [Next]_vars => InForce'
  BY InForceStep
<1>4. Typed /\ Quiet /\ Custody /\ InUse /\ InForce' /\ [Next]_vars => InUse'
  BY InUseStep
<1> QED BY <1>1, <1>2, <1>3, <1>4, TypedInit, TypedStep, QuietStep, CustodyInit, CustodyStep, InForceInit,
        PTL DEF Spec

=============================================================================
