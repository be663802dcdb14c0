# Verification of hob-agent

TLA+ models of the Hub of hob-agent, the TLC runs that check them on small
instances and the TLAPS proofs of what holds for every instance.  Paths are
relative to the repository; line numbers are those `PROJECT.json` maps.

## Running it

    tlc -workers 2 -config ActionRequests.cfg MCOneShotActionPlane
    tlapm OneShotActionPlaneProofs.tla
    tlapm AutomationLifecycleProofs.tla
    tlapm MigrationCutoverProofs.tla
    tlapm MediaTurnProofs.tla
    tlapm ProposalStoreProofs.tla
    tlapm BridgeIngestProofs.tla
    tlapm RuntimeOwnerLeaseProofs.tla
    tlapm ModelCredentialsProofs.tla

Every run is listed in `PROJECT.json` with its module, its configuration and
its properties.  Runs marked `violation` reproduce a disagreement between the
code and its documentation: TLC is expected to print a counterexample.

## The system

A household runs one Hub process.  It observes the home through bridges (Home
Assistant, Xiaomi), keeps a world model, lets a language-model agent suggest
automations and one-shot actions, and does nothing the household has not
authorised.  Durable state lives in SQLite databases and a few files under
`HOB_DATA_DIR`.  Inside the process there is one event loop: code runs
undisturbed from one `await` to the next, every durable commit between two
awaits stands alone if the process stops.

| component | state it keeps | operations | talks to | what is hard |
|---|---|---|---|---|
| Runtime owner lease (`runtime-owner-lease.ts`) | one sidecar file, its inode, a heartbeat | acquire, reclaim a stale file, heartbeat, release | Hub and operator commands on one data directory | several processes between any two file-system calls; crash; inode reuse |
| One-shot action plane (`authority/one-shot-action-plane.ts`, `-store.ts`) | tickets, activities, expiry cursor; in-flight requests in memory | request, approve, reject, undo, expire, summaries, recovery | policy, world read-back, bridge gateway, review page | duplicate requests, restart between commits, unknown outcomes, undo of an undo |
| Proposal store (`home/proposal-store.ts`) | proposals with lifecycle and revision, jobs, idempotency aliases, latches | admit, merge, snooze, decide, block, return, sweep | producers, review page, job runner | two capacity budgets, lazy promotion, redelivery, revisions racing preparations |
| Preparation runner (`artifact/artifact-preparation-job-runner.ts`) | running attempts in memory | wake, retry, complete, stop | proposal store, artifact pipeline | two transactions per completion, stop between them |
| Automation lifecycle (`home/home-proposal-service.ts` 633-1096, `bridge-automation-deployment.ts`) | the approved half of the proposal row | enable, retry, pause, resume, close, recover, reconcile | bridge, proposal store | store and bridge disagree; reconciliation races a deploy |
| Bridge ingest (`world/bridge-ingest.ts`, `ingest-journal.ts`, `world-state.ts`) | journal, gaps, watermarks, sequence fence, shadow, connection state | ingest, replay, exchange, resync, capacity pause, retention, restore | bridges, home world | gaps, broken epochs, a replay the journal refuses, restart at every commit |
| Home world (`world/home-world-service.ts`) | projected entities, identities | read, snapshot, bind | ingest, plane, artifacts | staleness |
| Artifact pipeline (`artifact/`) | immutable artifacts, assessments, history cuts | compile, assess, replay | runner, world, journal | consistency of one cut |
| Read-side authority (`authority/authority-coordinator.ts`, `authority-candidate-registry.ts`) | candidates, authority epochs | observe, resync, revoke | world, plane | resynchronisation |
| Migration (`home/home-automation-migration-*.ts`, `migration-cutover-recovery.ts`) | a workflow row per rule beside the proposal's row in another database | prepare, switch, verify, roll back, recover, sweep | bridges, proposal service | a crash with both or neither rule running; a command without an answer; a sweep beside a decision |
| Media turns (`media/home-media-*.ts`, `agent-layer/.../home-agent-service.ts`) | one row per turn, a revocable scope, the Agent's lease | start, cancel, time out, settle, close, recover | action plane, Agent, Music Assistant | a ticket racing a cancellation; an Agent that never answers; a store that breaks |
| Batch actions | recorded batches | submit, repeat | action plane | partial completion, repeat after a crash |
| Product setup, model service, supervision (`product-*.ts`) | configuration generation, setup draft, session, cleanup ledger, vault, generations | probe, activate, commit, roll back, configure, retry, stop | every component | one change over five files, a vault and running generations; every pair of writes may be cut |
| OAuth refresh lock (`agent-layer/.../oauth-refresh-lock.ts`) | lock file per profile | acquire, reclaim, release | model credentials | the lease's races, without its checks |
| Safety, corrections, observation, onboarding | small stores, one scheduler | record, acknowledge, schedule | agent, review page | timers after a restart |
| Voice, agent layer, web inbox | connections, prompts, pages | transport | the Hub | network I/O |

What makes each of the modelled components correct:

* lease: at most one owner, nobody removes a file that is not his, and a crash
  never locks the directory for good;
* action plane: a request is executed at most once, a command that needs a
  confirmation only leaves after one that is on the durable timeline, and every
  ticket comes to a final status;
* automation lifecycle: an enablement ends unless Home Assistant has the automation
  paused, the card and Home Assistant come to agree, and what is closed stays closed;
* proposal store and runner: what the household sees as ready is compiled from
  exactly the plan on the card, budgets hold, one card per behavior, repeated
  suggestions count once, decisions are final, no card stays open while the inbox can be read;
* bridge ingest: the journal has no hole, what a restart goes back to was read in
  full and counted by its manifest, and the failure of a bridge never reaches the
  verified view;
* migration: on the home it looked at, the Hub never makes the old rule and the new
  run together, the card says what the workflow's row has verified, a decided switch
  ends;
* model service: no key that is needed is deleted, none that is not needed is
  forgotten, and a stored configuration always leaves a way back in;
* media turns: a ticket is never denied, an ended turn neither asks nor acts, and
  every turn that was put in hand ends.

`PROJECT.json` lists every component, the ones not modelled too, and every
hazard with its line, the properties that watch it or why none does yet.

## The modules

| module | models | state and actions |
|---|---|---|
| `RuntimeOwnerLease` | `runtime-owner-lease.ts` | the directory entry, inodes with owner, size class and mtime, one program counter per contender; one action per file-system call |
| `OneShotActionPlane` | `one-shot-action-plane.ts` and its store | tickets, activities, the local state of concurrent calls; one action per stretch between two commits or awaits |
| `ActionLifecycle` | the promise of `docs/one-shot-action-plane.md` | one phase and one command count per ticket |
| `MediaTurn` | a household's request for music, over `ActionLifecycle` | the turn's row, its scope and tool call, the Agent's answer, the service; one action per stretch between two awaits |
| `ProposalStore` | `proposal-store.ts`, the runner, the calls before an approval | proposals, jobs, attempts, aliases, latches; one action per transaction |
| `AutomationLifecycle` | the approved half: `home-proposal-service.ts` 634-1096, the store's transitions, the bridge's automation commands | the card, what Home Assistant runs, one record per concurrent call or pass; one action per request to Home Assistant |
| `MigrationCutover` | the same for a rule that replaces one of Home Assistant's: `home-automation-migration-deployment.ts`, its store, the recovery sweep | the card, the workflow's row, the old rule and the new, one record per call, sweep or pass; one action per request to Home Assistant |
| `BridgeIngest` | `bridge-ingest.ts`, `ingest-journal.ts`, `world-state.ts`, the reading loop of `home-world-service.ts` | the durable tables, the sequence fence, the shadow, the shown world, the loop and its subscription; one action per envelope, commit or timer |
| `ModelCredentials` | `product-setup-*.ts`, `product-activation-controller.ts`, `product-operational-model-settings.ts`, the ledger, the configuration, the session and the supervisor | five files, the vault, runtime generations and the calls over them; one action per replaced file or vault operation |
| `*Proofs` | | theorems about the lease, the plane, the store, the lifecycle, the cutover, the ingest, the credentials and the media turns |
| `MC*` | | symmetry sets and small definitions for TLC |

`MediaTurn` and `OneShotActionPlane` meet in `ActionLifecycle`: the plane is
shown to implement it, the media turns are built on it, so what holds of the
turns holds over the real plane.  `MigrationCutover` begins where
`ProposalStore` ends, as `AutomationLifecycle` does, in the other review lane.

### RuntimeOwnerLease

`open("wx")`, `lstat`, `rename`, `unlink` and `futimes` are single steps and
contenders interleave between them, as the code does at each await.  Inode
numbers are reused, which is why `reclaimStaleLease` compares size and mtime as
well; the model does the same with `written` and `mtime`.  A file left at an
`.abandoned` path keeps its inode only until its process moves another one.
`Tick` advances time only while every live holder can still refresh its file
before it is stale (`Punctual`): the assumption under which a heartbeat lease
means anything.  A suspended owner is therefore outside the model, and listed
as a hazard.

### OneShotActionPlane

`running` names the call that holds the event loop between two commits.  A
`Restart` may come anywhere, also between such commits, and runs the recovery
of the constructor; `CommitFails` lets the store refuse a commit.  Waiting
calls (`pc` in `Await`) interleave freely.  The bridge, the policy and the
world are external: they may answer anything their types allow.  Deadlines are
the moment they pass (`lapsed`, `undoLapsed`); the length of a window does not
matter to any property.  Actors are four: an administrator and a member on
their own device, one on a shared panel, one away, because `isEligible` and
`canRejectFrom` tell these apart.

`ActionLifecycle` says what a ticket's life may look like and that a command
leaves at most once and only on the way to `executing`.
`ImplementsLifecycle` is the refinement: `phase` is the stored status, `commands`
the gateway calls.  It is checked by `action_requests` and proved.

### ProposalStore

The code runs every store call in one immediate transaction, so a call is one
step, and the calls that begin with `expireDue` work on `Swept`, the tables a
sweep may leave.  Which prepared cards take the last slots is the database's
choice: the query has no order.  A card call that carries the revision the
household saw is enabled only on a card the sweep leaves alone (`Card`).  A plan
is an element of `Plans` (it has an artifact to compile) or `Texts`.  Times are
`due` and `snooze`.  `readable` records whether `fromRow` would accept the row:
it refuses a sleeping row whose wake-up time is not after its last update.
`woken = FALSE` and `CompleteAndStop` are a process that stops between two
transactions.

The module ends where `Enable` hands a card to the automation lifecycle.

### AutomationLifecycle

One card from `Enable` to its end, in the standard review lane.  A household call
writes the card and then asks the bridge (`close` asks first); the bridge looks,
acts and looks again, three requests to Home Assistant between which anything
may happen.  An outcome the bridge cannot know is one Home Assistant may or may
not have carried out.  The last answer and the store transition that follows it
are one step, since nothing awaits between them.  The store's revisions serve
one purpose here, the `expectedRevision` of `recordProposalDeployment`; it is
the flag `fresh` of a call, cleared whenever somebody else writes the card.  The
other transitions are guarded by the lifecycle alone, as the page sends no
revision.  The inbox starts a pass with every reading, without waiting for the
one before (`proposal-inbox-service.ts:705`), so passes are as concurrent as
calls.  A pass acts on the lifecycle it read before it awaited the bridge.

Left out: `recovery_required` and every branch of the migration lane, which
`MigrationCutover` models, and the drift flag, which no transition looks at.
Home Assistant may be changed (`Meddle`) under a card in any state.

### MigrationCutover

One prepared rule from its approval to `verified` or `restored`.  The workflow's
row lives in a second database, so the answer of the deployment and the write of
the card are two steps (`Answer`), and the process may stop between them.  Every
reading and every command is a step.  A command is done, refused, or not answered
within its deadline: then it was done, or never will be, or is one of the commands
in `late`, which Home Assistant may carry out at any time (`Late`), after the
reading that follows, after the call and after a crash.  A call carries the row it
looked up first (`saw`), the operation it opened (`op`) and the failure it would
record (`why`): the store compares and sets, and an operator such as `Failed` or
`Operating` yields the row that follows, the present one where the store refuses.
Operation ids are numbers, the program's are hashes of the attempt; both are
compared for equality only.  `enableProposal` does not take the lease of
`claimAutomationMutation`, so a sweep may run beside it (see the findings).

`overtaken` is a history variable: the calls that stand before a command, `place`
or `restore`, on a home that is no longer the one they looked at.  It says exactly
where `NeverBoth` cannot hold the Hub to account: an edit, a late command, or a
home changed between the look and the command, be it by either of these or by a
call beside.  `NeverTogether` has the edit alone, as the document does, and is
refuted.  What the household does in Home Assistant itself (`Meddle`) is external.

Left out: assessment, selection and preparation of a rule, pausing and resuming
a verified automation, the drift flag, the bridge's ledger of operation ids.

### BridgeIngest

A bridge opens epochs, each a numbered stream that starts with a replay of the
whole home into a shadow and exchanges it for the shown world when the manifest
is complete.  The stream loses, repeats and reorders.  The durable tables are
the journal's: envelopes, gaps, the watermark of the last commit, the
consistent watermark and the epochs marked verified.  `finishReplay` is two
commits and an exchange between them (`FinishReplay`, `MarkConsistent`), and a
`Restart` may fall anywhere, rebuilding fence and world from the tables as
`restoreWatermark` and `rebuildConsistent` do.  A commit fails for want of room,
which pauses the bridge, or by an error, and then with its rows stored or not: the
file's mode is looked at after the commit, in a `finally` that may throw
(`ingest-journal.ts:318`, outcome `late`).  `refused` is the history of these
attempts.  An envelope whose row is there already is refused by the table's key when
it is sent again (`Append`), but for rejections and merged heartbeats
(`Repeatable`).  Retention removes whole old epochs.  The reading loop aborts,
disposes and opens its subscription anew in steps of their own, since
`control.pause` and a requested resync come back late.

Assumed of a bridge: a new subscription sends only epochs of its own, and an
envelope sent again is the same envelope.  The identity validator answers at
once, as the program's does; the fold buffer is empty between two steps.

### ModelCredentials

A key is a number, in the vault or not.  It is owned by the setup draft, an
entry of the cleanup ledger or the product configuration, and used by the
resolver's generations, each with at most one turn in flight.  A settings change
(`change`), a retirement (`task`), a probe, an activation and a start are
program counters over these files; each replaced file and each vault operation
is one step, before and after which the process may stop.  Bridge, voice and map
evidence are one stage of the draft.  A write of the draft or of the configuration
may throw after its file was renamed (`RecordTorn`, `CommitTorn`): the caller sees a
failure and takes back what it had prepared, while the file says it was done.
`spent` remembers the keys this happened to, and `KeysInForceKept` and
`HouseholdCanReturn` name them.  The instance has two activation requests.

Left out: sweep limits and attempt counts, the lock of each file (a read and
replace is atomic), keys the product does not manage.

### MediaTurn

A turn is the idempotency key it was begun by.  Its scope lends the household's
authority to one tool call, which is suspended in the catalog, the preparation
or the plane while the turn is cancelled, times out or is closed with the
service.  `call` is that scope and call with the Agent's lease (`busy`) and
whether its signal is cut; `run` is the turn in hand.  A broken store stays
broken until a restart.  `StartStumbles` is a turn whose first read of its row throws
inside `run`, before the service has put it in hand.

Left out: events and subscriptions, completion notices, projections, the
catalog's and the player's content, the provider's connection.

## The runs

Bounds are named in the configurations; the sizes were chosen so that every
action and every disjunct of the next-state relations fires in some passing
run, and each property was seen to fail on a plausible bug (`mutants`).

| run | question | bounds, and why they suffice |
|---|---|---|
| `lease_crash` | before any crash, is there one owner, and does everyone remove only his own file? after a crash anywhere, are only abandoned files discarded, and is the lease owned again? | two processes, three inodes (one crashed, one new, one reused), refused writes, a clock that reaches staleness once |
| `lease_race` (violation) | does "one owner" survive recovery? | one crash and two reclaimers |
| `action_requests` | can a request execute twice, or without its confirmation? does the plane implement `ActionLifecycle`? | two concurrent calls, a duplicated request, its undo, one restart and one refused commit |
| `action_undo` | do the undo records agree with the undo tickets, is no ticket orphaned, is everything concluded? | an action and its undo, two reads per verification, two restarts; one call at a time, because two concurrent undos do break the agreement (see hazards) |
| `store_cards` | budgets, one card per behavior, redelivery, finality | two standard cards for one ready slot, two behaviors, three suggestions; the lanes meet in `store_jobs`, and the theorems hold of any |
| `store_jobs` | does a ready card carry the artifact of its plan? one attempt per job? does every card close? | one card in either lane, two plans, two suggestions, up to five revisions, two attempts per job; it may be put to sleep in any state and wake while it is written |
| `auto_live` | does an enablement end unless the automation is paused in Home Assistant? do the card and Home Assistant come to agree? is a closed card final? | three concurrent calls or passes, three household calls, one change in Home Assistant, one restart |
| `cutover_safe` | do the rule and the automation ever run together, does the card say what was verified, does a decided switch end? | two concurrent calls, three in all besides the switches a sweep resumes, one edit in Home Assistant, one late command at a time, two crashes between any two requests: enough for a switch, its failure and its second attempt or its way back, each with a sweep beside it |
| `cutover_overlap` (violation) | may a sweep run beside an enablement? | two calls, no crash, no edit, no late command |
| `ingest_journal` | has the journal a hole, is what a restart restores complete and equal to what was shown, does a failing bridge touch the verified view? | one device with two values, two epochs of up to four envelopes (a replay and a live event), five rows, one crash, broken connection or failed commit; a manifest may name any number up to two, right or wrong |
| `credentials` | is a needed key deleted, an unneeded one forgotten, the ledger unreadable, the household locked out, a stop endless? | two activation requests, two keys (setup, change), two generations, one retirement, one failure of a write, before or after its rename, or one commit of other settings, two starts |
| `media_turns` | is a ticket denied, does an ended turn ask or act, does every turn end? | two requests, one restart, one read that fails or store that breaks |

The capacities of the code (5 ready, 3 preparing, 5 attempts) are constants;
the runs use 1 or 2, the least at which a budget can be full, shared and freed.
`MaxRevision` bounds the calls of the household, never the store's own sweep.
`CHECK_DEADLOCK` is off everywhere but in the lease: once ids and bounds are used
up, or a card is closed, the instance stops, and the program has no duty to act
when nobody asks.  `TicketLeft` is such a bound of the plane: a call that needs
a ticket starts only while one is left.  In `MigrationCutover` a sweep that
resumes a decided deployment does not count as a call (`MaxAsk`): a call or a
crash, both bounded, comes before each.

### Fairness

* `RuntimeOwnerLease!Fairness`: pending file-system calls complete, the clock
  advances, heartbeats are timers, a failed contender is started again by its
  supervisor or operator, and a disk does not refuse every write (strong
  fairness of `Write`).
* `OneShotActionPlane!Fairness`: a call that awaits is continued (gateway and
  reads have their own deadlines, verification a hard window); time passes for
  a pending confirmation; and some call eventually sweeps a due ticket, because
  every listing of the review page does.  The last is strong fairness since the
  event loop may be busy again and again.
* `ProposalStore!LiveSpec`: time passes and the inbox is read again.  Nothing is
  assumed of preparations or of the household.
* `AutomationLifecycle!FairSpec`: every request has a deadline (`status` 10 s,
  commands 15 s), so a call goes on; the inbox is read, or a bridge becomes
  ready, again and again; and a pass that asks again and again is answered in
  the end (strong fairness, the bridge may fail many times before).
* `MigrationCutover!FairSpec`: every request has a deadline, so a call goes on;
  sweeps come again and again, as bridges become ready and the Hub starts (strong
  fairness, since a lease may keep each of them away for a while).
* `ModelCredentials!Fairness`: once a stop is under way a change runs on, a disposal
  is carried out and the stop proceeds.  A turn may hang for ever.
* `MediaTurn!FairSpec`: the turn's timer fires and a settled promise is
  continued.  Nothing is asked of the Agent, the catalog or the plane.
* `BridgeIngest!Spec` has none: its properties are of safety, and a bridge may
  stay away for ever.

## What is proved

`OneShotActionPlaneProofs` proves, for any sets of requests, tickets and calls
and any bounds, from the assumptions of `OneShotActionPlane` alone
(`PlaneAssumption`: `None` is no id and the bounds are naturals;
`NoneIsNoRecord` and `NoneIsNoStatus`: `None` is no ticket record, no status and
no state of an undo):

* `Invariance`: `Spec => []IInv`.  `IInv` is the type invariant, that a call
  only names stored tickets (`CallsKnowTickets`), that what a call carries fits
  the stored status of its ticket (`Fits`), that two calls never carry one
  ticket (`Alone`), and that every stored ticket is sound (`Sound`: its class,
  approval, timeline and number of commands agree with its status).  The last
  two are why it is inductive: a command leaves from a call's local state, so
  the stored record alone does not bound the number of commands.
* `TypeCorrect`, `ConfirmedCommands` (`ConfirmedBeforeExecution`) and
  `LifecycleRefined` (`ImplementsLifecycle`) follow from `IInv`.
* `ExactlyOneExecution` (`OneExecutionPerRequest`) needs `RequestInv` besides:
  a request id belongs to at most one ticket, and to none while a call for it
  is still being evaluated.
* `DecisionsAreRecorded` (`DecisionOnTimeline`) and `ExpiriesAnnouncedOnce`
  (`AnnouncedOnce`) need `HistoryInv`: the decision activities of a ticket agree
  with its approver and status, and a ticket whose expiry a call is still
  recording has not been told.
* `NothingLeftOver` (`NoOrphan`): while the store has refused no commit
  (`faults.failure = 0`, the bound the run sets too), an approved or executing
  ticket has a live call.  `OrphanInv` says it of every ticket; a call lets go of
  its ticket only by closing it (`Attends`), and the recovery of a restart closes
  what its dead calls had open.  With a refused commit it is false: the ticket
  then waits for the next restart.
* `UndoRecordsAgree` (`UndoAgrees`), over behaviours in which no two undos of one
  ticket overlap (`SingleUndo`; always so where there is one call, as in the run).
  `UndoInv` relates three things: an undo finds the record of its ticket as it left
  it until it settles, the ticket it made names the one it undoes, and a settled
  record agrees with the final status of that ticket (`Undoes`, `Agrees`).  Two
  overlapping undos do break it, see the hazards.

`AutomationLifecycleProofs` proves, from `LifecycleAssumption` alone, that the
lifecycle keeps its types (`TypeCorrect`) and that a closed card is final and a
decided one never returns to review (`ClosedForEver`, the property
`ClosedIsFinal`).  No strengthening is needed beyond the type invariant, because
every transition asks the stored lifecycle again in its own transaction; the
proof shows which question that is in each step (`Forward`).

`MigrationCutoverProofs` proves, from `CutoverAssumption` (the bounds are
naturals, `None` is no kind, path or place of a call), for any number of calls,
sweeps and passes in any overlap, that a closed migration's
workflow was read back as restored (`ClosedRulesAreRestored`, `ClosedIsRestored`)
and that an active automation was placed by a switch that was verified
(`ActiveRulesWereVerified`, `ActiveWasVerified`).  `IInv` adds what the answer of a
call is worth by the time it reaches the card (`Fits`): a good answer of a closing
is backed by a restored row, one of a deployment by a row that was verified.
This is inductive because the row only ever moves `Onward`: restored stays
restored, deployed stays deployed.
`RulesNeverRunTogether` (`NeverBoth`) needs no assumption on who runs beside whom.
`Heeding` says of every call that is about to command, and is not overtaken, that
the rule was stopped before it places the automation, and the automation was seen
gone before it restores the rule; it is inductive because a call only gets there on
that sight (`Sighted`) and any change of the home puts it among `overtaken`
(`StepsWatched`).  `CommandsApart` goes through the commands: what makes both run
is one of the three causes the property names.

`MediaTurnProofs` proves, from `MediaAssumption`, for any number of requests,
restarts and breakdowns, `NobodyIsForgotten` (`NoOrphanTurn`), `RevocationIsFinal`
(`RevokedCannotRequest`), `TicketAlwaysWins` (`TicketWins`) and `LateTicketsWait`
(`EndedNeverActs`).  `IInv` is the type invariant, `NoOrphanTurn` and seven facts of
each turn (`Sound`) on how its row, its scope, its signal and its ticket agree; a
signal that is cut is what makes an ended turn harmless (`EndedIsQuiet`).

`ProposalStoreProofs` proves, from `StoreAssumption` (the capacities are naturals,
plans and texts are different things, there are finitely many proposals), every
safety property the runs of the store check: `CapacityHolds`
(`ReadyWithinCapacity`), `BehaviorsHoldOneCard` (`OneCardPerBehavior`),
`ReadyCardsArePrepared` (`ReadyIsPrepared`), `RequestsAreHeardOnce` (`HeardOnce`),
`AttemptsAreSingle` (`OneAttemptAtATime`) and `DecisionsStand`
(`DecisionsAreFinal`).  The argument goes row by row: a step leaves a row (`Kept`),
writes it under a later revision (`Rewritten`) or hands it out (`Admitted`), and
`SweptMoves` shows this of every table a sweep may leave.  `IInv` adds that a job is
never ahead of its card and that one at the card's revision compiled its plan
(`JobFits`, `SourceFits`); that is why a card which a sweep has just written is not
promoted by a job of its earlier revision (`PromotableFits`).

`BridgeIngestProofs` proves, from `IngestAssumption` (what a stream may hold, the
bounds are naturals) and `NoneIsNothing` (`None` is no epoch, view or shadow), for
any devices, streams, faults and bounds, every property `ingest_journal` checks:
`JournalIsWhole` (`JournalHasNoHole`), `MarkedEpochIsWhole`
(`ConsistentIsComplete`), `RestartShowsVerified` (`RebuildsVerified`) and
`ViewIsProtected` (`VerifiedViewHolds`).  `IInv` says where each reader of the
journal stands: the rows of an unverified epoch are numbered without a hole and
the fence is at their end, or before one row whose commit was reported as failed
(`Standing`), as is the watermark or the refusals beyond it, which is why a restart
finds its place (`JournalFits`); the shadow is the content of the accepted rows and
its count that of the rows and of the failed commits (`ReplayFits`), so the exchange
shows what a rebuilding will find and the manifest counted what is on record
(`FinishFits`, `Whole`); and nothing is written or removed below the mark afterwards
(`ConsistentFits`).  `LoopFits` carries the view property: a subscription that is
open, unbroken and without a shadow belongs to a verified epoch.

`RuntimeOwnerLeaseProofs` proves, from `LeaseAssumption` (`NoFile` is no inode, the
limits are naturals, at least one attempt and one unit of staleness), for any
contenders, inodes and limits, the three safety properties of `lease_crash`:
`OwnersAreAlone` (`OneOwnerUntilCrash`), `LiveFilesAreKept`
(`DiscardsOnlyAbandoned`) and `RemovalsAreOwn` (`RemovesOnlyItsOwn`).  They rest, as
the model does, on `Punctual`: a live process refreshes its file before it is
stale.  `IInv` says that a file held open is fresh (`HolderFits`) and what a
reclaimer isolates is not (`ReclaimFits`), so the two are never one file, and that
before any crash the path is the file of the only process that is not done with it
(`Undisturbed`), so nothing is ever seen stale.

`ModelCredentialsProofs` proves every safety property the run checks, from
`CredentialsAssumption`, for any number of keys, generations, retirements and
failures, writes that throw after their rename included, and any number of
activation requests:

* `LedgerAlwaysLoads` (`LedgerLoads`) rests on `LedgerInv`: the generation of an
  active key is not ahead of the stored one and equals it only for the configured
  key (`Dated`), what a change has read stays true of the ledger until it writes
  (`Informed`), and no call is under way without a surface (`Quiet`).
* `EveryKeyOnRecord` (`NoOrphanKey`) rests on `Custody`, which says who owns a key
  at every step: no record names a key that was not handed out (`Known`), so a new
  key is in nobody's list; a probe's key is the draft's staged one (`Drafted`);
  the ledger is empty until a configuration is stored (`Unconfigured`); an
  activation that can still commit holds the draft's key (`Bound`); a change's new
  key is staged and its own, and the key it replaces is active in the ledger, which
  is why the commit that drops it leaves a record behind (`Replacing`); and a key is
  struck from a list only once the vault has lost it (`Lost`).
* `HouseholdAlwaysReturns` (`HouseholdCanReturn`), by `Founding`: one activation
  at a time is past its mounting, the session exists before it commits, and a
  rollback only removes a session no configuration is stored over, unless the
  commit stored it and threw (`Founded`).
* `KeysAlwaysInForce` (`KeysInForceKept`).  A key is `Safe` if it is in the vault
  and in no list a sweep, a retirement, a discard or an abandonment works through;
  `SafeStep` shows that every step `Spares` a safe key, and `InForce` that the
  configured key is safe, or the draft's before there is one, unless its own write
  threw after the rename (`Forfeit`).  `InUse` says the same of whoever serves, or
  that it was mounted by an activation after its key had been replaced (`Late`); a
  change mounts the key it has committed (`Committed`).

The preservation proofs have one step or one lemma per action and, under it, one
step per part of the invariant that the action can disturb; those of the
lifecycle and of the cutover have one lemma per way of writing the rows and cite
it from each action.

With these every safety property of a passing run is a theorem.  Only
model-checked: liveness under fairness, which the prover cannot reach
(`Recoverable`, `Concludes`, `EveryCardCloses`, `EnablingEnds`, `Converges`,
`DecidedSwitchEnds`, `StopEnds`, `TurnEnds`).

## What the runs found

Both are in `PROJECT.json` under `findings`, with the sentence they contradict.

1. *Two owners after a reclaim* (`lease_race`).  `rename` moves whatever is at
   the path; a contender suspended after its second `lstat` moves the new
   owner's file away.  It then fails closed, but the path is empty.
2. *Both rules run* (`cutover_overlap`).  `enableProposal` deploys without the
   lease `retryEnable` takes, so a sweep that a reconnected bridge starts resumes
   the switch that is still going on: it restores the paused rule under a fresh
   operation while the first call's command creates the automation.

Seen while modelling and not given a run, by component.

Proposal store and automation lifecycle:

* A row the store cannot read: blocking a sleeping card across its wake-up time
  keeps `snoozedUntil` before `updatedAt` (`proposal-store.ts:1460`, against
  `proposal-store.test.ts:1159`).  The same row results from sleeping a card that
  prepares, which `snoozeProposal` allows (`:1809`), and completing it after its
  wake-up time.  From then on every sweep fails, so no card is closed any more:
  `EveryCardCloses` ends at `~Readable`.
* An interrupted preparation cannot be retried (`proposal-store.ts:2361`, against
  `docs/approved-proposal-preparation.md:214`).
* A repeated suggestion meets a constraint error (`proposal-store.ts:1030`, against
  lines 91 and 202 of the same document).
* An automation under a closed card: a pass that reads `missing` during a
  deployment records `enable_failed`; closing finds nothing to withdraw and notes
  the home restored; then the deployment's write lands, and reconciliation passes
  over closed cards (`home-proposal-service.ts:1077`, against its comment at 835).
* A merge into a ready card returns it to preparation without asking whether
  that budget is full (`proposal-store.ts:2821`, `:364`).
* An automation paused in Home Assistant while its enablement is cut short by a
  stop stays `enabling`: a pass concludes `running` and `missing` only
  (`home-proposal-service.ts:1064`, against its comment at 986).  `EnablingEnds`
  says that this is the only case.
* A deployment with an unknown outcome is recorded as failed
  (`bridge-automation-deployment.ts:221`), and no pass looks at `enable_failed`
  cards: `Converges` promises nothing of them.

Action plane:

* `docs/one-shot-action-plane.md:40` says an expiry records an activity; status
  and activity are two commits, and a stop between them leaves an expired ticket
  that no timeline mentions (`one-shot-action-plane.ts:721`).
* `docs/one-shot-action-plane.md:42` against `one-shot-action-plane.ts:953`, where
  any present member may approve an action of the administrator class.

Migration:

* Nothing holds a command to its deadline: the signal of 15 s ends the Hub's wait
  only (`home-automation-migration-deployment.ts:1327`).  A deployment carried out
  after the read-back that found nothing, when the rule has been restored, leaves
  both running; `NeverBoth` names it.
* A switch that a sweep resumed and gave up while the decision's own deployment went
  on, with a stop after that: the card is `enable_failed` over a row that says
  `switching`, and no sweep looks at it (`DecidedSwitchEnds` names that card; the
  household can retry).
* A rule restored after a failed switch that deployed nothing has no deployment id,
  so `verifyRestoredState` (`:1163`) answers recovery required for good, and the card
  is not closed.
* A crash between restoring the workflow and closing the card leaves an active
  card over a restored rule (`home-proposal-service.ts:872`).
* A crash after the target was created and before the switch is verified: the
  target has no recorded fingerprint, is foreign for ever, and the card cannot
  be retried without removing it by hand.
* A crash between `fail(ready, source_stale)` and the card's write leaves the card
  `enabling`: no sweep resumes a stale rule (`DecidedSwitchEnds` speaks of
  switches that began).  One during a reconciliation started from
  `recovery_required` or by closing leaves the workflow `switching`.
* A decision retried after `ready` was verified has another revision, so a
  deployment finds no branch for it (`DeployPath`); and a rule that was put back
  needs a second retry.

Bridge ingest:

* A stream that ends during a replay leaves the shadow and its start time
  (`home-world-service.ts:2948`); the timeout then quarantines the bridge while it
  waits to reconnect, and the new subscription is dropped (`bridge-ingest.ts:480`,
  `:234`), against `docs/bridge-design.md:103`.
* A quarantine is lifted by a missed heartbeat (`bridge-ingest.ts:478`) and by a
  late resync failure (`:779`), against the comment at `home-world-service.ts:2965`.
* "Each seq reaches this function once" (`bridge-ingest.ts:759`) fails when an
  envelope whose commit failed is sent again: it is counted twice, a right manifest
  is taken for a wrong one and a wrong one for right, against
  `docs/bridge-design.md:161`.  `ConsistentIsComplete` says by how much.
* A commit that is reported as failed after its rows were stored
  (`ingest-journal.ts:318`) leaves the fence before them: the envelope sent again
  meets the table's key, and the epoch goes no further.
* A restart forgets the present-but-invalid marks (`docs/bridge-design.md:273`).
* An epoch that breaks outside a replay and whose fresh epoch never comes is not
  quarantined (`bridge-ingest.ts:135`).

Model service:

* `retry()` while a turn of the first generation is in flight, then a change:
  `retireAfterDrain` waits for the retried generation alone and deletes the key
  the first turn still reads (`product-operational-model-settings.ts:109`, `:255`,
  against `docs/operational-model-provider-lifecycle.md:105` and `:146`).  It needs
  three generations and two retirements, more than the run has.
* A write that throws after its rename (`product-bootstrap-config-store.ts:167`,
  `product-setup-draft-store.ts:675`) is taken for one that failed: abandoning the
  change deletes the key of the stored configuration, discarding the probe the key
  the draft names, and a rolled-back activation removes the session under a stored
  configuration, which recovery cannot create again.
* A second activation that read its candidate before the first was attached may
  be held up while the household changes the model, and then mounts the replaced
  key, which the change's retirement deletes (`Outdated`).
* An activation that fails after the resolver was activated leaves its generation
  serving (`product-runtime-supervisor.ts:477`).
* `markCommitted` and `adoptCommitted` failing one after the other, then a commit
  of other settings: configuring is unavailable until a restart.

Media turns:

* A turn that ends while its request is suspended in the plane reads
  `cancelled_before_action`, yet the ticket is created after it
  (`one-shot-action-plane.ts:334`, against `docs/voice-and-media-interaction.md:208`
  and `:179`).  `EndedNeverActs` is what is left: it does nothing without approval.
* `start` notes the turn it runs after `run` was called (`:231`, `:238`): when the
  first read of the row throws, `run` is over before, and the service stays occupied
  until a restart (`StartStumbles`).  `TurnEnds` names that turn.

Batch actions (read, not modelled): a batch repeated after a crash, when its ticket
has been approved meanwhile, reports `action_owner_result_mismatch`; a transient
refusal is stored for good as `unknown`.

## What is not modelled, and why

* Contents: names, texts, device values, artifacts, fingerprints.  They are
  model values, or choices of the environment.
* SQLite itself: a transaction is atomic and durable.  File permissions and
  ownership checks of the lease are left out: they end in the same error.
* A process suspended longer than the staleness limit (see the lease).
* SQLite is also assumed to be written by one process: the lease guards that.
* Batch actions, the OAuth refresh lock, imported history, the artifact pipeline,
  read-side authority, the home world's projections and identities, the bridges'
  own protocols but for the automation commands, safety, corrections, observation
  and onboarding, private voice, the agent layer and the web inbox: each is a
  component in `PROJECT.json` with its reason.  Most of the repository's lines are
  in these: transport, rendering, schema checks and prompts have no state whose
  interleavings a model would add to.
* Crashes that leave two databases apart for good are described above and under
  the hazards without a property.

## Plan

1. Proofs: the progress that liveness rests on and that is an invariant, as
   `NothingLeftOver` is for `Concludes`: a running job has an attempt that ends it
   (`EveryCardCloses`), a deciding card a call or a pass that concludes it
   (`EnablingEnds`), a stop something left that it waits for (`StopEnds`).
2. `BatchAction` over `ActionLifecycle`, as `MediaTurn` is: a repeated batch executes
   each target once and reports what happened.
3. `OAuthRefreshLock` on the file-system steps of `RuntimeOwnerLease`.
4. The preparation of a migration, so that `MigrationCutover` begins with a rule
   that is found rather than one that is ready.
