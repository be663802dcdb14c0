--------------------------- MODULE ProposalStore ---------------------------
(***************************************************************************)
(* Proposal governance: SqliteProposalStore                                *)
(* (packages/hub/src/home/proposal-store.ts) with the preparation job      *)
(* runner, the calls HomeProposalService makes on the store before a       *)
(* decision, and the clock.  Every store call is one BEGIN IMMEDIATE       *)
(* transaction and therefore one step; a call that starts with expireDue   *)
(* works on a swept table.                                                 *)
(*                                                                         *)
(* A plan stands for everything the household sees and authorises          *)
(* (preparedPlanSnapshot); a member of Plans carries an artifact to        *)
(* compile, a member of Texts does not.  Times are abstracted to what the  *)
(* code compares them for: `due` (expiresAt has passed) and `snooze`.      *)
(* What follows an approval is the subject of AutomationLifecycle.         *)
(***************************************************************************)
EXTENDS Integers, FiniteSets

CONSTANTS
  Proposals,     \* proposal ids the store may hand out
  Keys,          \* behavior identities (dedupKey)
  Plans,         \* plans with an artifact candidate
  Texts,         \* plans without one
  Requests,      \* idempotency keys of the producers
  Lanes,         \* review lanes in use, of {"standard", "migration"}
  MaxReady,      \* MAX_PROPOSAL_CAPACITY (5 in the code)
  MaxPreparing,  \* MAX_PREPARING_PROPOSALS (3 in the code)
  MaxAttempts,   \* MAX_ARTIFACT_PREPARATION_ATTEMPTS (5 in the code)
  MaxRevision,   \* bound: callers revise a proposal up to this revision
  None

ASSUME StoreAssumption ==
  /\ MaxReady \in Nat /\ MaxPreparing \in Nat
  /\ MaxAttempts \in Nat \ {0} /\ MaxRevision \in Nat \ {0}
  /\ Lanes \subseteq {"standard", "migration"}
  /\ IsFiniteSet(Proposals)
  /\ Plans \cap Texts = {} /\ None \notin Plans \cup Texts \cup Proposals

VARIABLES
  proposal,  \* the proposals table
  job,       \* the preparation jobs, by proposal and proposal revision
  runner,    \* the preparation attempts this process is running
  alias,     \* idempotency key -> the proposal it was accepted into, or None
  latched,   \* behavior identities with a do-not-suggest latch
  heard      \* history: idempotency key -> proposals it was accepted into

vars == <<proposal, job, runner, alias, latched, heard>>

Statuses   == {"absent", "pending_review", "approved", "rejected", "expired"}
Lifecycles == {"preparing", "ready", "enabling"}  \* nothing calls requestProposalInfo

Proposal ==
  [status : Statuses, lifecycle : Lifecycles, revision : Nat \ {0}, key : Keys \cup {None},
   lane : {"standard", "migration"}, kind : {"automation-draft", "household-insight"},
   plan : Plans \cup Texts \cup {None}, hash : Plans \cup Texts \cup {None},
   refs : Plans \cup {None}, snooze : {"awake", "asleep", "elapsed"},
   blocked : BOOLEAN, due : BOOLEAN, readable : BOOLEAN]

Job == [status : {"none", "queued", "running", "succeeded", "failed"},
        attempt : 0..MaxAttempts, refs : Plans \cup {None}]

Attempt == [proposal : Proposals, revision : 1..MaxRevision, attempt : 1..MaxAttempts,
            source : Plans \cup {None}]

NoProposal == [status |-> "absent", lifecycle |-> "preparing", revision |-> 1, key |-> None,
               lane |-> "standard", kind |-> "automation-draft", plan |-> None, hash |-> None,
               refs |-> None, snooze |-> "awake", blocked |-> FALSE, due |-> FALSE, readable |-> TRUE]
NoJob == [status |-> "none", attempt |-> 0, refs |-> None]

TypeOK ==
  /\ proposal \in [Proposals -> Proposal]
  /\ job \in [Proposals -> [1..MaxRevision -> Job]]
  /\ runner \subseteq Attempt
  /\ alias \in [Requests -> Proposals \cup {None}]
  /\ latched \subseteq Keys
  /\ heard \in [Requests -> SUBSET Proposals]

Init ==
  /\ proposal = [p \in Proposals |-> NoProposal]
  /\ job = [p \in Proposals |-> [n \in 1..MaxRevision |-> NoJob]]
  /\ runner = {}
  /\ alias = [r \in Requests |-> None]
  /\ latched = {}
  /\ heard = [r \in Requests |-> {}]

-----------------------------------------------------------------------------
(* Rows *)

Pending(row)    == row.status = "pending_review"
Preparable(row) == row.lifecycle \in {"preparing", "ready"}

\* requiresPreparation: a draft with something to compile.
RequiresPreparation(row) == row.kind = "automation-draft" /\ row.plan \in Plans

PreparingCount(ps) ==
  Cardinality({p \in Proposals : Pending(ps[p]) /\ ps[p].lifecycle = "preparing"})

ReadyCount(ps) ==
  Cardinality({p \in Proposals :
                 Pending(ps[p]) /\ ps[p].lifecycle = "ready" /\ ps[p].lane # "migration"})

\* Every write stamps the next revision and updatedAt.  fromRow refuses a row
\* that is asleep until a time not after updatedAt; calls that sweep or clear
\* the sleep never write one.
Revised(row) == [row EXCEPT !.revision = @ + 1, !.readable = row.snooze # "elapsed"]
Awake(row)   == [row EXCEPT !.snooze = "awake"]

\* The pending rows expireDueInTransaction reads back through fromRow: one
\* unreadable row makes every call that sweeps fail.
Readable == \A p \in Proposals : Pending(proposal[p]) => proposal[p].readable

\* Leaving `ready` drops everything the preparation established.
Unprepared(row) == [Awake(row) EXCEPT !.hash = None, !.refs = None, !.blocked = FALSE]

\* The ready envelope: the hash of the plan as it is now, the refs of the job.
Prepared(row, refs) ==
  [Revised(row) EXCEPT !.lifecycle = "ready",
                       !.hash = IF row.plan \in Plans THEN row.plan ELSE @,
                       !.refs = IF refs = None THEN @ ELSE refs]

-----------------------------------------------------------------------------
(* The sweep: expireDueInTransaction, then promotePreparedInTransaction *)

Expired(row) == [Revised(Awake(row)) EXCEPT !.status = "expired"]

\* Mutant: a card still in preparation is not expired.
ExpireReady(ps) ==
  [p \in Proposals |->
     IF Pending(ps[p]) /\ ps[p].due /\ ps[p].lifecycle = "ready" THEN Expired(ps[p])
     ELSE IF Pending(ps[p]) /\ ps[p].snooze = "elapsed" THEN Revised(Awake(ps[p]))
     ELSE ps[p]]

ExpireDue(ps) ==
  [p \in Proposals |->
     IF Pending(ps[p]) /\ ps[p].due THEN Expired(ps[p])
     ELSE IF Pending(ps[p]) /\ ps[p].snooze = "elapsed" THEN Revised(Awake(ps[p]))
     ELSE ps[p]]

\* Mutant: a prepared job of any revision serves the card.
AnyJobOf(row, p) ==
  IF \E n \in 1..MaxRevision : job[p][n].status = "succeeded"
  THEN job[p][CHOOSE n \in 1..MaxRevision : job[p][n].status = "succeeded"] ELSE NoJob

JobOf(row, p) == IF row.revision \in 1..MaxRevision THEN job[p][row.revision] ELSE NoJob

\* Mutant: the cards already ready do not count.
AllSlots(ps) == MaxReady

FreeSlots(ps) == IF ReadyCount(ps) < MaxReady THEN MaxReady - ReadyCount(ps) ELSE 0

Promotable(ps) ==
  {p \in Proposals : Pending(ps[p]) /\ ps[p].lifecycle = "preparing"
                     /\ JobOf(ps[p], p).status = "succeeded"}

\* The query has no ORDER BY: which of the prepared standard cards take the
\* free slots is the database's choice.
Promotions(ps) ==
  {chosen \in SUBSET Promotable(ps) :
     LET standard == {p \in Promotable(ps) : ps[p].lane # "migration"} IN
       /\ Promotable(ps) \ standard \subseteq chosen
       /\ Cardinality(chosen \cap standard) <= FreeSlots(ps)
       /\ standard \subseteq chosen \/ Cardinality(chosen \cap standard) = FreeSlots(ps)}

Promoted(ps, chosen) ==
  [p \in Proposals |-> IF p \in chosen THEN Prepared(ps[p], JobOf(ps[p], p).refs) ELSE ps[p]]

\* The tables a sweep may leave.
Swept == {Promoted(ExpireDue(proposal), chosen) : chosen \in Promotions(ExpireDue(proposal))}

\* Any read of the inbox (get, list, proposalCapacity, expireDue), and every
\* suggestion that is only answered: replayed, suppressed by a latch, or
\* refused for capacity.
Sweep ==
  /\ Readable
  /\ proposal' \in Swept
  /\ UNCHANGED <<job, runner, alias, latched, heard>>

-----------------------------------------------------------------------------
(* Preparation jobs *)

\* enqueuePreparationJob (or retryPreparationJob) commits, then the wake claims
\* the job in the same turn of the event loop.  ~woken: the process stopped in
\* between, and every attempt it was running with it.
Launch(p, n, attempt, woken) ==
  /\ job' = [job EXCEPT ![p][n] = [status  |-> IF woken THEN "running" ELSE "queued",
                                   attempt |-> attempt, refs |-> None]]
  /\ runner' = IF woken
               THEN runner \cup {[proposal |-> p, revision |-> n, attempt |-> attempt, source |-> None]}
               ELSE {}

PrepareAnew(p, row, woken) ==
  IF RequiresPreparation(row) THEN Launch(p, row.revision, 1, woken)
                              ELSE woken /\ UNCHANGED <<job, runner>>

\* A job row for this exact revision already exists: the insert violates the
\* table's keys and the whole transaction rolls back.
Collides(p, row) == RequiresPreparation(row) /\ job[p][row.revision].status # "none"

\* withApprovedProposalAtRevision: the exact source of the attempt's revision.
SourceOpen(row, n) ==
  /\ row.revision = n /\ row.readable
  /\ RequiresPreparation(row) /\ Pending(row) /\ Preparable(row)

ReadSource(x) ==
  /\ x.source = None
  /\ SourceOpen(proposal[x.proposal], x.revision)
  /\ runner' = (runner \ {x}) \cup {[x EXCEPT !.source = proposal[x.proposal].plan]}
  /\ UNCHANGED <<proposal, job, alias, latched, heard>>

\* Mutant: the completion does not ask for the revision it prepared.
CanReadyAtAnyRevision(p, n) ==
  /\ proposal[p].readable /\ proposal[p].lifecycle = "preparing"
  /\ proposal[p].lane = "migration" \/ ReadyCount(proposal) < MaxReady

\* markProposalReady for the completed revision; it does not sweep first.
CanReady(p, n) ==
  /\ proposal[p].revision = n /\ proposal[p].readable
  /\ proposal[p].lifecycle = "preparing"
  /\ proposal[p].lane = "migration" \/ ReadyCount(proposal) < MaxReady

Succeed(x) ==
  /\ x.source # None
  /\ job' = [job EXCEPT ![x.proposal][x.revision] =
              [job[x.proposal][x.revision] EXCEPT !.status = "succeeded", !.refs = x.source]]

CompletePreparation(x) ==
  /\ Succeed(x)
  /\ runner' = runner \ {x}
  /\ proposal' = IF CanReady(x.proposal, x.revision)
                 THEN [proposal EXCEPT ![x.proposal] = Prepared(proposal[x.proposal], x.source)]
                 ELSE proposal
  /\ UNCHANGED <<alias, latched, heard>>

\* The process stops between completePreparationJob and markProposalReady.
CompleteAndStop(x) ==
  /\ Succeed(x)
  /\ runner' = {}
  /\ UNCHANGED <<proposal, alias, latched, heard>>

\* A stage failed, or the source is no longer the attempt's revision.
FailPreparation(x) ==
  /\ job' = [job EXCEPT ![x.proposal][x.revision] = [job[x.proposal][x.revision] EXCEPT !.status = "failed"]]
  /\ runner' = runner \ {x}
  /\ UNCHANGED <<proposal, alias, latched, heard>>

\* Mutant: an attempt still running is retried.
RetryRunning(j)  == j.status \in {"failed", "running"} /\ j.attempt < MaxAttempts

CanRetry(j) == j.status = "failed" /\ j.attempt < MaxAttempts

\* The explicit retry of the review page (HomeAgentRuntime.retryPreparation).
RetryPreparation(p, n, woken) ==
  /\ CanRetry(job[p][n])
  /\ Launch(p, n, job[p][n].attempt + 1, woken)
  /\ UNCHANGED <<proposal, alias, latched, heard>>

\* Shutdown or crash: attempts disappear, their jobs stay `running`.
Stop ==
  /\ runner # {}
  /\ runner' = {}
  /\ UNCHANGED <<proposal, job, alias, latched, heard>>

-----------------------------------------------------------------------------
(* createGoverned: a suggestion arrives *)

KindOf(plan) == IF plan \in Plans THEN "automation-draft" ELSE "household-insight"

WithKey(ps, k)    == {p \in Proposals : ps[p].status # "absent" /\ ps[p].key = k}
\* Mutant: a card in preparation is not looked for.
UnresolvedReady(ps, k) == {p \in WithKey(ps, k) : Pending(ps[p]) /\ ps[p].lifecycle = "ready"}
Unresolved(ps, k) == {p \in WithKey(ps, k) : Pending(ps[p])}

\* Only the Hub's own ingress files in the migration lane, and only drafts.
Admissible(plan, lane) == lane = "migration" => plan \in Plans

CrossesLane(ps, k, lane) == \E p \in WithKey(ps, k) : ps[p].lane # lane

AdmissionFull(ps, plan) ==
  IF plan \in Plans THEN PreparingCount(ps) >= MaxPreparing ELSE ReadyCount(ps) >= MaxReady

NewProposal(k, plan, lane) ==
  [NoProposal EXCEPT !.status = "pending_review",
                     !.lifecycle = IF plan \in Plans THEN "preparing" ELSE "ready",
                     !.key = k, !.lane = lane, !.kind = KindOf(plan), !.plan = plan]

\* mergeProposalEvidence: nothing new leaves the row alone; new evidence or a
\* revised plan wakes it and sends a plan with an artifact back to preparation.
Merged(row, plan, fresh) ==
  IF ~fresh /\ plan = row.plan THEN row
  ELSE LET revised == [Revised(Unprepared(row)) EXCEPT !.plan = plan] IN
         IF RequiresPreparation(revised) THEN [revised EXCEPT !.lifecycle = "preparing"]
                                         ELSE revised

\* Mutant: the idempotency key is not remembered.
AcceptOnly(r, p) == UNCHANGED alias /\ heard' = [heard EXCEPT ![r] = @ \cup {p}]

Accept(r, p) ==
  /\ alias' = [alias EXCEPT ![r] = p]
  /\ heard' = [heard EXCEPT ![r] = @ \cup {p}]

Admit(r, k, plan, lane, p, woken) ==
  /\ proposal[p].status = "absent" /\ alias[r] = None /\ k \notin latched
  /\ Admissible(plan, lane) /\ ~CrossesLane(proposal, k, lane) /\ Readable
  /\ \E ps \in Swept :
       /\ Unresolved(ps, k) = {} /\ ~AdmissionFull(ps, plan)
       /\ proposal' = [ps EXCEPT ![p] = NewProposal(k, plan, lane)]
  /\ PrepareAnew(p, NewProposal(k, plan, lane), woken)
  /\ Accept(r, p)
  /\ UNCHANGED latched

MergeSuggestion(r, k, plan, lane, p, fresh, woken) ==
  /\ p \in WithKey(proposal, k) /\ alias[r] = None /\ k \notin latched
  /\ Admissible(plan, lane) /\ ~CrossesLane(proposal, k, lane) /\ Readable
  /\ \E ps \in Swept :
       /\ p \in Unresolved(ps, k)
       /\ LET merged == Merged(ps[p], plan, fresh) IN
            /\ merged.revision <= MaxRevision
            /\ ~Collides(p, merged)   \* the insert fails and the call is rolled back
            /\ proposal' = [ps EXCEPT ![p] = merged]
            /\ PrepareAnew(p, merged, woken)
            /\ Accept(r, p)
  /\ UNCHANGED latched

-----------------------------------------------------------------------------
(* The household and the world *)

\* A card call carries the revision the household saw: it only takes effect on
\* a card the sweep of its own first read leaves as it is.
Card(p) == Pending(proposal[p]) /\ Readable /\ proposal \in Swept

\* The bound on the calls a household may repeat.
Revisable(p) == proposal[p].revision < MaxRevision

Change(p, row) ==
  /\ proposal' = [proposal EXCEPT ![p] = row]
  /\ UNCHANGED <<alias, heard>>

Snooze(p) ==
  /\ Revisable(p) /\ Card(p)
  /\ Change(p, [Revised(Awake(proposal[p])) EXCEPT !.snooze = "asleep"])
  /\ UNCHANGED <<job, runner, latched>>

Deployable(row) == RequiresPreparation(row)

\* Only a prepared card is decided, and only on the plan that was prepared.
Decidable(row) == row.lifecycle = "ready" /\ (Deployable(row) => row.hash = row.plan)

Decided(row, status) == [Revised(Awake(row)) EXCEPT !.status = status]

\* Declining, an insight's "helpful", or a review closed as expired.
Decide(p, status) ==
  /\ Decidable(proposal[p]) /\ Card(p)
  /\ status = "approved" => ~Deployable(proposal[p])
  /\ Change(p, Decided(proposal[p], status))
  /\ UNCHANGED <<job, runner, latched>>

DoNotSuggest(p) ==
  /\ Decidable(proposal[p]) /\ proposal[p].key \notin latched /\ Card(p)
  /\ Change(p, Decided(proposal[p], "rejected"))
  /\ latched' = latched \cup {proposal[p].key}
  /\ UNCHANGED <<job, runner>>

ClearLatch(k) ==
  /\ k \in latched /\ latched' = latched \ {k}
  /\ UNCHANGED <<proposal, job, runner, alias, heard>>

\* enableProposal, when the world resolves the plan to a deployment intent.
Enable(p) ==
  /\ Deployable(proposal[p]) /\ Decidable(proposal[p]) /\ Card(p)
  /\ Change(p, [Decided(proposal[p], "approved") EXCEPT !.lifecycle = "enabling"])
  /\ UNCHANGED <<job, runner, latched>>

\* The row a later read of the same call finds: its wake-up time may have passed.
Later(row) ==
  {row} \cup IF row.snooze = "asleep" THEN {[row EXCEPT !.snooze = "elapsed"]} ELSE {}

\* enableProposal or recheckBlockedEnablement: an action lost its authority.
MarkBlocked(p) ==
  /\ Revisable(p) /\ RequiresPreparation(proposal[p]) /\ proposal[p].lifecycle = "ready" /\ Card(p)
  /\ \E row \in Later(proposal[p]) : Change(p, [Revised(row) EXCEPT !.blocked = TRUE])
  /\ UNCHANGED <<job, runner, latched>>

\* recheckBlockedEnablement: a fresh validation lifts the block.
ClearBlock(p) ==
  /\ Revisable(p) /\ proposal[p].lifecycle = "ready" /\ proposal[p].blocked /\ Card(p)
  /\ \E row \in Later(proposal[p]) : Change(p, [Revised(row) EXCEPT !.blocked = FALSE])
  /\ UNCHANGED <<job, runner, latched>>

\* The world changed under a prepared plan: it prepares again.
ReturnToPreparation(p, woken) ==
  /\ Revisable(p) /\ RequiresPreparation(proposal[p]) /\ proposal[p].lifecycle = "ready" /\ Card(p)
  /\ LET row == [Revised(Unprepared(proposal[p])) EXCEPT !.lifecycle = "preparing"] IN
       /\ ~Collides(p, row)
       /\ Change(p, row)
       /\ PrepareAnew(p, row, woken)
  /\ UNCHANGED latched

\* The clock; a card is woken at the latest an hour before it expires.
WakeUpTime(p) ==
  /\ Pending(proposal[p]) /\ proposal[p].snooze = "asleep"
  /\ proposal' = [proposal EXCEPT ![p].snooze = "elapsed"]
  /\ UNCHANGED <<job, runner, alias, latched, heard>>

ExpiryTime(p) ==
  /\ Pending(proposal[p]) /\ proposal[p].snooze # "asleep" /\ ~proposal[p].due
  /\ proposal' = [proposal EXCEPT ![p].due = TRUE]
  /\ UNCHANGED <<job, runner, alias, latched, heard>>

-----------------------------------------------------------------------------

Suggestion ==
  \E r \in Requests, k \in Keys, plan \in Plans \cup Texts, lane \in Lanes,
    p \in Proposals, woken \in BOOLEAN :
      \/ Admit(r, k, plan, lane, p, woken)
      \/ \E fresh \in BOOLEAN : MergeSuggestion(r, k, plan, lane, p, fresh, woken)

Preparation ==
  \/ \E x \in runner : \/ ReadSource(x)          \/ CompletePreparation(x)
                       \/ CompleteAndStop(x)     \/ FailPreparation(x)
  \/ \E p \in Proposals, n \in 1..MaxRevision, woken \in BOOLEAN : RetryPreparation(p, n, woken)
  \/ Stop

Household ==
  \/ \E p \in Proposals :
       \/ Snooze(p)      \/ DoNotSuggest(p)  \/ Enable(p)
       \/ MarkBlocked(p) \/ ClearBlock(p)
       \/ \E status \in {"approved", "rejected", "expired"} : Decide(p, status)
       \/ \E woken \in BOOLEAN : ReturnToPreparation(p, woken)
  \/ \E k \in Keys : ClearLatch(k)

Clock == \E p \in Proposals : WakeUpTime(p) \/ ExpiryTime(p)

Next == Sweep \/ Suggestion \/ Preparation \/ Household \/ Clock

Spec == Init /\ [][Next]_vars

\* Time passes, and the inbox is read again and again.
LiveSpec ==
  Spec /\ WF_vars(Sweep) /\ \A p \in Proposals : WF_vars(WakeUpTime(p)) /\ WF_vars(ExpiryTime(p))

-----------------------------------------------------------------------------

\* Ready and sleeping standard cards together never exceed the household's
\* capacity, however completions, lazy promotions, merges and admissions race
\* (readyCountInTransaction and its three users).
ReadyWithinCapacity == ReadyCount(proposal) <= MaxReady

\* A behavior is discussed in at most one card at a time, and not at all while
\* its do-not-suggest latch stands (createGovernedInLane, decideProposal).
OneCardPerBehavior ==
  \A k \in Keys :
    LET open == {p \in Proposals : Pending(proposal[p]) /\ proposal[p].key = k} IN
      Cardinality(open) <= 1 /\ (k \in latched => open = {})

\* What the household is shown as ready, and what it enabled, is compiled from
\* exactly the plan on the card: a merge that revises the plan while its
\* preparation runs never meets the old artifact (markProposalReady,
\* promotePreparedInTransaction, mergeProposalEvidence).
ReadyIsPrepared ==
  \A p \in Proposals :
    LET row == proposal[p] IN
      row.lifecycle \in {"ready", "enabling"} /\ RequiresPreparation(row) =>
        row.refs = row.plan /\ row.hash = row.plan

\* A suggestion delivered again, also after its card was merged, declined or
\* expired, never counts towards a second card (the idempotency aliases).
HeardOnce == \A r \in Requests : Cardinality(heard[r]) <= 1

\* A job has at most one attempt running, and a running attempt is the one its
\* row records, across retries, wakes and restarts (claimPreparationJob).
OneAttemptAtATime ==
  \A x \in runner :
    /\ job[x.proposal][x.revision].status = "running"
    /\ job[x.proposal][x.revision].attempt = x.attempt
    /\ \A y \in runner : y.proposal = x.proposal /\ y.revision = x.revision => y = x

\* A decided or expired card never changes again in this store, whatever late
\* completion or merge arrives (the revision checks of transition and merge).
DecisionsAreFinal ==
  [][\A p \in Proposals :
       proposal[p].status \in {"approved", "rejected", "expired"} => proposal'[p] = proposal[p]]_vars

\* No card stays open for ever: expiry closes what the household never chose,
\* asleep, preparing or ready (expireDueInTransaction, snoozeProposal), as long
\* as the inbox can be read at all.  A card that wakes while it is written
\* leaves a row fromRow refuses, and from then on every sweep fails (Readable).
EveryCardCloses ==
  \A p \in Proposals : Pending(proposal[p]) ~> ~Pending(proposal[p]) \/ ~Readable

=============================================================================
