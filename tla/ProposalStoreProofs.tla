------------------------ MODULE ProposalStoreProofs ------------------------
(***************************************************************************)
(* Theorems about ProposalStore: what holds of the inbox for every set of  *)
(* proposals, behaviors, plans and requests, for every capacity and for    *)
(* every number of revisions, retries and restarts.                        *)
(***************************************************************************)
EXTENDS ProposalStore, FiniteSetTheorems, TLAPS

-----------------------------------------------------------------------------
(* The inductive invariant                                                 *)

\* A card shown as ready is prepared on the plan it carries.
FitRow(row) ==
  row.lifecycle \in {"ready", "enabling"} /\ RequiresPreparation(row) =>
    row.refs = row.plan /\ row.hash = row.plan

\* An id not handed out yet has never been written.
Rows ==
  \A p \in Proposals : FitRow(proposal[p]) /\ (proposal[p].status = "absent" => proposal[p].revision = 1)

\* A job serves a revision the card has reached; one for the revision the card
\* is at is for an open card, and what it compiled is the plan of that card.
JobFits(row, j, n) ==
  j.status # "none" =>
    /\ n <= row.revision
    /\ n = row.revision => Pending(row) /\ (j.status = "succeeded" => j.refs = row.plan)

Jobs == \A p \in Proposals, n \in 1..MaxRevision : JobFits(proposal[p], job[p][n], n)

\* A source read at the card's revision is the plan the card still has.
SourceFits(row, x) == x.source # None /\ x.revision = row.revision => x.source = row.plan

Attempts == OneAttemptAtATime /\ \A x \in runner : SourceFits(proposal[x.proposal], x)

\* One open card per behavior, and none under a latch, card by card.
Alone ==
  /\ \A p, q \in Proposals :
       Pending(proposal[p]) /\ Pending(proposal[q]) /\ proposal[p].key = proposal[q].key => p = q
  /\ \A p \in Proposals : Pending(proposal[p]) => proposal[p].key \in Keys \ latched

\* The alias of a request is the only card it was ever counted towards.
Heard == \A r \in Requests : heard[r] = IF alias[r] = None THEN {} ELSE {alias[r]}

IInv ==
  /\ TypeOK /\ Rows /\ Jobs /\ Attempts /\ Alone /\ Heard /\ ReadyWithinCapacity

-----------------------------------------------------------------------------
(* What one step may do to one row                                         *)

SameContent(old, new) ==
  /\ new.lifecycle = old.lifecycle /\ new.kind = old.kind /\ new.plan = old.plan
  /\ new.hash = old.hash /\ new.refs = old.refs

SamePlace(old, new) == new.key = old.key /\ new.lane = old.lane

\* The row is left as it is, but for its clock.
Kept(old, new) ==
  /\ SameContent(old, new) /\ SamePlace(old, new)
  /\ new.status = old.status /\ new.revision = old.revision
  /\ Pending(old) \/ new = old

\* An open row is written under a later revision.
Rewritten(old, new) ==
  /\ SamePlace(old, new) /\ FitRow(new)
  /\ Pending(old) /\ new.status # "absent" /\ old.revision < new.revision

Moves(old, new) == new \in Proposal /\ (Kept(old, new) \/ Rewritten(old, new))

\* A row is handed out.
Admitted(old, new) ==
  /\ new \in Proposal /\ FitRow(new)
  /\ old.status = "absent" /\ Pending(new) /\ new.revision = old.revision

Follows(old, new) == Moves(old, new) \/ Admitted(old, new)

\* The card takes a slot of the household's capacity.
Occupies(row) == Pending(row) /\ row.lifecycle = "ready" /\ row.lane # "migration"

LEMMA MovesCompose ==
  ASSUME NEW a \in Proposal, NEW b, NEW c, Moves(a, b), Moves(b, c)
  PROVE  Moves(a, c)
  <1>1. a.revision \in Nat /\ b.revision \in Nat /\ c.revision \in Nat
    BY DEF Proposal, Moves
  <1> QED  BY <1>1 DEF Moves, Kept, Rewritten, SameContent, SamePlace, FitRow, Pending, RequiresPreparation

LEMMA RevisedRow ==
  ASSUME NEW row \in Proposal
  PROVE  /\ Revised(row) \in Proposal /\ Awake(row) \in Proposal
         /\ SameContent(row, Revised(row)) /\ SamePlace(row, Revised(row))
         /\ SameContent(row, Awake(row)) /\ SamePlace(row, Awake(row))
         /\ Revised(row).status = row.status /\ Awake(row).status = row.status
         /\ Revised(row).revision = row.revision + 1 /\ Awake(row).revision = row.revision
  <1>1. (row.snooze # "elapsed") \in BOOLEAN
    OBVIOUS
  <1>2. Revised(row) \in Proposal
    <2>1. PICK b \in BOOLEAN : Revised(row) = [row EXCEPT !.revision = row.revision + 1, !.readable = b]
      BY <1>1 DEF Revised
    <2>2. row.revision + 1 \in Nat \ {0}
      BY DEF Proposal
    <2> QED  BY <2>1, <2>2 DEF Proposal
  <1>3. Awake(row) \in Proposal
    BY DEF Awake, Proposal
  <1>4. /\ SameContent(row, Revised(row)) /\ SamePlace(row, Revised(row))
        /\ Revised(row).status = row.status /\ Revised(row).revision = row.revision + 1
    BY DEF Revised, Proposal, SameContent, SamePlace
  <1>5. /\ SameContent(row, Awake(row)) /\ SamePlace(row, Awake(row))
        /\ Awake(row).status = row.status /\ Awake(row).revision = row.revision
    BY DEF Awake, Proposal, SameContent, SamePlace
  <1> QED  BY <1>2, <1>3, <1>4, <1>5

\* Waking and stamping a row leaves what the household sees of it.
LEMMA WokenMoves ==
  ASSUME NEW row \in Proposal, Pending(row), FitRow(row)
  PROVE  /\ Moves(row, Revised(Awake(row))) /\ SameContent(row, Revised(Awake(row)))
         /\ Pending(Revised(Awake(row)))
         /\ Revised(Awake(row)) \in Proposal /\ Revised(Awake(row)).revision = row.revision + 1
  <1>1. Awake(row) \in Proposal /\ row.revision \in Nat
    BY RevisedRow DEF Proposal
  <1> QED
    BY <1>1, RevisedRow DEF Moves, Rewritten, SameContent, SamePlace, FitRow, Pending, RequiresPreparation

\* Deciding or expiring a row.
LEMMA ClosedMoves ==
  ASSUME NEW row \in Proposal, Pending(row), FitRow(row),
         NEW status \in {"approved", "rejected", "expired"}
  PROVE  /\ Moves(row, Decided(row, status)) /\ ~Pending(Decided(row, status))
         /\ Decided(row, status) \in Proposal /\ SameContent(row, Decided(row, status))
  <1> DEFINE w == Revised(Awake(row))
  <1>1. /\ w \in Proposal /\ SamePlace(row, w) /\ SameContent(row, w)
        /\ w.revision = row.revision + 1 /\ row.revision \in Nat
    BY RevisedRow DEF Proposal, SamePlace, SameContent
  <1>2. Decided(row, status) = [w EXCEPT !.status = status]
    BY DEF Decided
  <1> HIDE DEF w
  <1>3. /\ Decided(row, status) \in Proposal
        /\ SameContent(w, Decided(row, status)) /\ SamePlace(w, Decided(row, status))
        /\ Decided(row, status).status = status /\ Decided(row, status).revision = w.revision
    BY <1>1, <1>2 DEF Proposal, Statuses, SameContent, SamePlace
  <1> QED
    BY <1>1, <1>3 DEF Moves, Rewritten, SameContent, SamePlace, FitRow, Pending, RequiresPreparation

LEMMA ExpiredMoves ==
  ASSUME NEW row \in Proposal, Pending(row), FitRow(row)
  PROVE  Moves(row, Expired(row)) /\ ~Pending(Expired(row)) /\ Rewritten(row, Expired(row))
  <1>1. Expired(row) = Decided(row, "expired")
    BY DEF Expired, Decided
  <1> QED  BY <1>1, ClosedMoves DEF Moves, Kept, Pending

MadeReady(w, x, h, g) == x = [w EXCEPT !.lifecycle = "ready", !.hash = h, !.refs = g]

\* A row made ready is a row, in the same place.
LEMMA ReadyRow ==
  ASSUME NEW w \in Proposal, NEW h \in Plans \cup Texts \cup {None}, NEW g \in Plans \cup {None},
         NEW x, MadeReady(w, x, h, g)
  PROVE  /\ x \in Proposal /\ SamePlace(w, x)
         /\ x.revision = w.revision /\ x.status = w.status /\ x.plan = w.plan /\ x.kind = w.kind
         /\ x.hash = h /\ x.refs = g
  <1>1. "ready" \in Lifecycles
    BY DEF Lifecycles
  <1>2. x \in Proposal
    BY <1>1 DEF Proposal, MadeReady
  <1> QED  BY <1>2 DEF Proposal, SamePlace, MadeReady

\* Preparing a row on refs compiled from its own plan.
LEMMA PreparedMoves ==
  ASSUME NEW row \in Proposal, Pending(row), NEW refs \in Plans \cup {None},
         refs = row.plan \/ ~RequiresPreparation(row)
  PROVE  Moves(row, Prepared(row, refs)) /\ Pending(Prepared(row, refs))
  <1> USE StoreAssumption
  <1> DEFINE w == Revised(row)
  <1>1. /\ w \in Proposal /\ SamePlace(row, w) /\ SameContent(row, w)
        /\ w.revision = row.revision + 1 /\ row.revision \in Nat /\ w.status = row.status
    BY RevisedRow DEF Proposal
  <1>2. Prepared(row, refs) =
          [w EXCEPT !.lifecycle = "ready",
                    !.hash = IF row.plan \in Plans THEN row.plan ELSE w.hash,
                    !.refs = IF refs = None THEN w.refs ELSE refs]
    BY DEF Prepared
  <1> HIDE DEF w
  <1>3. PICK h \in Plans \cup Texts \cup {None}, g \in Plans \cup {None} :
          /\ Prepared(row, refs) = [w EXCEPT !.lifecycle = "ready", !.hash = h, !.refs = g]
          /\ row.plan \in Plans => h = row.plan
          /\ refs # None => g = refs
    <2>1. w.hash \in Plans \cup Texts \cup {None} /\ w.refs \in Plans \cup {None}
      BY <1>1 DEF Proposal
    <2> QED  BY <1>2, <2>1
  <1>4. /\ Prepared(row, refs) \in Proposal /\ SamePlace(w, Prepared(row, refs))
        /\ Prepared(row, refs).revision = w.revision /\ Prepared(row, refs).status = w.status
        /\ Prepared(row, refs).plan = w.plan /\ Prepared(row, refs).kind = w.kind
        /\ Prepared(row, refs).hash = h /\ Prepared(row, refs).refs = g
    <2>1. w \in Proposal
      BY <1>1
    <2>2. MadeReady(w, Prepared(row, refs), h, g)
      BY <1>3 DEF MadeReady
    <2> HIDE StoreAssumption
    <2> QED  BY <2>1, <2>2, ReadyRow
  <1> QED
    BY <1>1, <1>3, <1>4 DEF Moves, Rewritten, SameContent, SamePlace, FitRow, Pending, RequiresPreparation

-----------------------------------------------------------------------------
(* The capacity                                                            *)

ReadySet(ps) == {p \in Proposals : Occupies(ps[p])}

LEMMA ReadyCountIs ==
  ASSUME NEW ps
  PROVE  /\ ReadyCount(ps) = Cardinality(ReadySet(ps)) /\ ReadyCount(ps) \in Nat
         /\ IsFiniteSet(ReadySet(ps))
  <1>1. ReadyCount(ps) = Cardinality(ReadySet(ps))
    BY DEF ReadyCount, ReadySet, Occupies
  <1>2. ReadySet(ps) \in SUBSET Proposals
    BY DEF ReadySet
  <1>3. IsFiniteSet(ReadySet(ps))
    BY <1>2, FS_Subset, StoreAssumption
  <1> QED  BY <1>1, <1>3, FS_CardinalityType

\* Nobody takes a slot that was free.
LEMMA NoNewSlot ==
  ASSUME NEW ps, NEW qs, \A p \in Proposals : Occupies(qs[p]) => Occupies(ps[p])
  PROVE  ReadyCount(qs) <= ReadyCount(ps)
  <1>1. ReadySet(qs) \in SUBSET ReadySet(ps)
    BY DEF ReadySet
  <1>2. Cardinality(ReadySet(qs)) <= Cardinality(ReadySet(ps))
    BY <1>1, ReadyCountIs, FS_Subset
  <1> QED  BY <1>2, ReadyCountIs

\* One card takes one slot.
LEMMA OneNewSlot ==
  ASSUME NEW ps, NEW qs, NEW c \in Proposals,
         \A p \in Proposals : Occupies(qs[p]) => Occupies(ps[p]) \/ p = c
  PROVE  ReadyCount(qs) <= ReadyCount(ps) + 1
  <1> DEFINE more == ReadySet(ps) \cup {c}
  <1>1. ReadySet(qs) \in SUBSET more
    BY DEF ReadySet
  <1>2. IsFiniteSet(more) /\ Cardinality(more) <= Cardinality(ReadySet(ps)) + 1
    <2>1. CASE c \in ReadySet(ps)
      <3>1. more = ReadySet(ps)
        BY <2>1
      <3> QED  BY <3>1, ReadyCountIs
    <2>2. CASE c \notin ReadySet(ps)
      <3>1. IsFiniteSet(ReadySet(ps)) /\ Cardinality(ReadySet(ps)) \in Nat
        BY ReadyCountIs
      <3>2. IsFiniteSet(more) /\ Cardinality(more) = Cardinality(ReadySet(ps)) + 1
        BY <2>2, <3>1, FS_AddElement
      <3> HIDE DEF more
      <3> QED  BY <3>1, <3>2
    <2> QED  BY <2>1, <2>2
  <1> HIDE DEF more
  <1>3. Cardinality(ReadySet(qs)) <= Cardinality(more) /\ Cardinality(more) \in Nat
    BY <1>1, <1>2, FS_Subset, FS_CardinalityType
  <1> QED  BY <1>2, <1>3, ReadyCountIs

\* The cards of `chosen` take a slot each.
LEMMA ChosenSlots ==
  ASSUME NEW ps, NEW qs, NEW chosen \in SUBSET Proposals,
         \A p \in Proposals : Occupies(qs[p]) => Occupies(ps[p]) \/ p \in chosen
  PROVE  ReadyCount(qs) <= ReadyCount(ps) + Cardinality(chosen)
  <1> DEFINE more == ReadySet(ps) \cup chosen
  <1>1. ReadySet(qs) \in SUBSET more
    BY DEF ReadySet
  <1>2. IsFiniteSet(chosen) /\ IsFiniteSet(ReadySet(ps))
    BY StoreAssumption, FS_Subset, ReadyCountIs
  <1>3. /\ IsFiniteSet(more)
        /\ Cardinality(more) =
             Cardinality(ReadySet(ps)) + Cardinality(chosen) - Cardinality(ReadySet(ps) \cap chosen)
    BY <1>2, FS_Union
  <1>4. IsFiniteSet(ReadySet(ps) \cap chosen)
    BY <1>2, FS_Subset, ReadySet(ps) \cap chosen \in SUBSET chosen
  <1>5. /\ Cardinality(ReadySet(ps)) \in Nat /\ Cardinality(chosen) \in Nat
        /\ Cardinality(ReadySet(ps) \cap chosen) \in Nat
    BY <1>2, <1>4, FS_CardinalityType
  <1> HIDE DEF more
  <1>6. Cardinality(ReadySet(qs)) <= Cardinality(more) /\ Cardinality(ReadySet(qs)) \in Nat
    BY <1>1, <1>3, FS_Subset, FS_CardinalityType, ReadyCountIs
  <1>7. Cardinality(more) <= Cardinality(ReadySet(ps)) + Cardinality(chosen)
    BY <1>3, <1>5
  <1>8. Cardinality(more) \in Nat
    BY <1>3, FS_CardinalityType
  <1> QED  BY <1>5, <1>6, <1>7, <1>8, ReadyCountIs

-----------------------------------------------------------------------------
(* The sweep                                                               *)

\* The rows expireDue leaves.
LEMMA ExpireDueMoves ==
  ASSUME IInv, NEW p \in Proposals
  PROVE  LET row == ExpireDue(proposal)[p] IN
           /\ Moves(proposal[p], row)
           /\ row = proposal[p] \/ Rewritten(proposal[p], row)
           /\ Occupies(row) => Occupies(proposal[p])
  <1> DEFINE row == ExpireDue(proposal)[p]
  <1>0. proposal[p] \in Proposal /\ FitRow(proposal[p])
    BY DEF IInv, TypeOK, Rows
  <1>1. CASE Pending(proposal[p]) /\ proposal[p].due
    <2>1. row = Expired(proposal[p])
      BY <1>1 DEF ExpireDue
    <2> QED  BY <2>1, <1>0, <1>1, ExpiredMoves DEF Occupies
  <1>2. CASE Pending(proposal[p]) /\ ~proposal[p].due /\ proposal[p].snooze = "elapsed"
    <2>1. row = Revised(Awake(proposal[p]))
      BY <1>2 DEF ExpireDue
    <2>2. Moves(proposal[p], row) /\ SameContent(proposal[p], row) /\ row.revision = proposal[p].revision + 1
      BY <2>1, <1>0, <1>2, WokenMoves
    <2>3. proposal[p].revision \in Nat
      BY <1>0 DEF Proposal
    <2>4. Rewritten(proposal[p], row)
      BY <2>2, <2>3 DEF Moves, Kept
    <2> HIDE DEF row
    <2>5. Occupies(row) => Occupies(proposal[p])
      BY <1>2, <2>2, <2>4 DEF Occupies, Rewritten, SameContent, SamePlace
    <2> QED  BY <2>2, <2>4, <2>5 DEF row
  <1>3. CASE ~Pending(proposal[p]) \/ (~proposal[p].due /\ proposal[p].snooze # "elapsed")
    <2>1. row = proposal[p]
      BY <1>3 DEF ExpireDue
    <2> QED  BY <2>1, <1>0 DEF Moves, Kept, SameContent, SamePlace
  <1> QED  BY <1>1, <1>2, <1>3

\* A card a sweep promotes is one it did not touch before, and its job compiled
\* the plan on the card.
LEMMA PromotableFits ==
  ASSUME IInv, NEW p \in Promotable(ExpireDue(proposal))
  PROVE  LET row == ExpireDue(proposal)[p] IN
           /\ row = proposal[p] /\ Pending(row)
           /\ JobOf(row, p).refs \in Plans \cup {None} /\ JobOf(row, p).refs = row.plan
  <1> DEFINE row == ExpireDue(proposal)[p]
  <1>1. /\ p \in Proposals /\ Pending(row) /\ JobOf(row, p).status = "succeeded"
    BY DEF Promotable
  <1>2. row.revision \in 1..MaxRevision /\ JobOf(row, p) = job[p][row.revision]
    BY <1>1 DEF JobOf, NoJob
  <1>3. JobFits(proposal[p], job[p][row.revision], row.revision)
    BY <1>1, <1>2 DEF IInv, Jobs
  <1>4. proposal[p].revision \in Nat /\ row.revision \in Nat
    BY <1>1, <1>2 DEF IInv, TypeOK, Proposal
  <1>5. row = proposal[p] \/ Rewritten(proposal[p], row)
    BY <1>1, ExpireDueMoves
  <1> HIDE DEF row
  <1>6. row = proposal[p]
    BY <1>1, <1>2, <1>3, <1>4, <1>5 DEF Rewritten, JobFits
  <1>7. job[p][row.revision] \in Job
    BY <1>1, <1>2 DEF IInv, TypeOK
  <1> QED  BY <1>1, <1>2, <1>3, <1>6, <1>7 DEF JobFits, Job, row

\* Whatever the database promotes, rows only move on and the capacity holds.
LEMMA SweptMoves ==
  ASSUME IInv, NEW ps \in Swept
  PROVE  /\ ps \in [Proposals -> Proposal]
         /\ \A p \in Proposals : Moves(proposal[p], ps[p])
         /\ ReadyCount(ps) <= MaxReady
  <1> DEFINE es == ExpireDue(proposal)
  <1>1. PICK chosen \in Promotions(es) : ps = Promoted(es, chosen)
    BY DEF Swept
  <1> DEFINE standard == {p \in Promotable(es) : es[p].lane # "migration"}
  <1>2. /\ chosen \subseteq Promotable(es) /\ chosen \subseteq Proposals
        /\ Cardinality(chosen \cap standard) <= FreeSlots(es)
    BY DEF Promotions, Promotable
  <1>3. ASSUME NEW p \in Proposals
        PROVE  /\ ps[p] \in Proposal /\ Moves(proposal[p], ps[p])
               /\ Occupies(ps[p]) => Occupies(es[p]) \/ p \in chosen \cap standard
    <2>1. CASE p \in chosen
      <3>1. ps[p] = Prepared(es[p], JobOf(es[p], p).refs)
        BY <2>1, <1>1 DEF Promoted
      <3>2. /\ es[p] = proposal[p] /\ Pending(es[p])
            /\ JobOf(es[p], p).refs \in Plans \cup {None} /\ JobOf(es[p], p).refs = es[p].plan
        BY <2>1, <1>2, PromotableFits
      <3>3. proposal[p] \in Proposal
        BY DEF IInv, TypeOK
      <3> HIDE DEF es
      <3>4. Moves(proposal[p], ps[p])
        BY <3>1, <3>2, <3>3, PreparedMoves
      <3>5. Occupies(ps[p]) => p \in standard
        BY <3>2, <3>4, <2>1, <1>2 DEF Occupies, Moves, Kept, Rewritten, SamePlace
      <3> QED  BY <3>4, <3>5, <2>1 DEF Moves
    <2>2. CASE p \notin chosen
      <3>1. ps[p] = es[p]
        BY <2>2, <1>1 DEF Promoted
      <3> QED  BY <3>1, ExpireDueMoves DEF Moves
    <2> QED  BY <2>1, <2>2
  <1>4. ps \in [Proposals -> Proposal]
    BY <1>1, <1>3 DEF Promoted
  <1>5. ReadyCount(es) <= MaxReady
    <2>1. ReadyCount(es) <= ReadyCount(proposal)
      BY ExpireDueMoves, NoNewSlot
    <2> QED  BY <2>1, ReadyCountIs, StoreAssumption DEF IInv, ReadyWithinCapacity
  <1>6. ReadyCount(ps) <= ReadyCount(es) + Cardinality(chosen \cap standard)
    <2>1. chosen \cap standard \in SUBSET Proposals
      BY <1>2
    <2> HIDE DEF es, standard
    <2> QED  BY <2>1, <1>3, ChosenSlots
  <1>7. Cardinality(chosen \cap standard) \in Nat
    <2>1. chosen \cap standard \in SUBSET Proposals
      BY <1>2
    <2> QED  BY <2>1, StoreAssumption, FS_Subset, FS_CardinalityType
  <1>8. FreeSlots(es) = IF ReadyCount(es) < MaxReady THEN MaxReady - ReadyCount(es) ELSE 0
    BY DEF FreeSlots
  <1> HIDE DEF es, standard
  <1>9. ReadyCount(ps) <= MaxReady
    BY <1>2, <1>5, <1>6, <1>7, <1>8, ReadyCountIs, StoreAssumption
  <1> QED  BY <1>3, <1>4, <1>9

-----------------------------------------------------------------------------
(* The parts of the invariant, under a change of the rows                  *)

\* Rows that only follow one another keep what is known of each row.
LEMMA RowFollows ==
  ASSUME NEW old, NEW new, Follows(old, new), FitRow(old), old.status = "absent" => old.revision = 1
  PROVE  FitRow(new) /\ (new.status = "absent" => new.revision = 1)
  <1>1. CASE Kept(old, new)
    BY <1>1 DEF Kept, SameContent, FitRow, RequiresPreparation
  <1>2. CASE Rewritten(old, new)
    BY <1>2 DEF Rewritten
  <1>3. CASE Admitted(old, new)
    BY <1>3 DEF Admitted, Pending
  <1> QED  BY <1>1, <1>2, <1>3 DEF Follows, Moves

LEMMA RowsFollow ==
  ASSUME IInv, \A p \in Proposals : Follows(proposal[p], proposal'[p])
  PROVE  Rows'
  <1> SUFFICES ASSUME NEW p \in Proposals
               PROVE  FitRow(proposal'[p]) /\ (proposal'[p].status = "absent" => proposal'[p].revision = 1)
    BY DEF Rows, FitRow, RequiresPreparation
  <1> QED  BY RowFollows DEF IInv, Rows

\* What a job says of its card survives the card's next write.
LEMMA JobFollows ==
  ASSUME NEW old \in Proposal, NEW new \in Proposal, Follows(old, new),
         NEW j, NEW n \in Nat, JobFits(old, j, n)
  PROVE  JobFits(new, j, n)
  <1>1. old.revision \in Nat /\ new.revision \in Nat
    BY DEF Proposal
  <1> QED
    BY <1>1 DEF Follows, Moves, Kept, Rewritten, Admitted, SameContent, Pending, JobFits

LEMMA SourceFollows ==
  ASSUME NEW old \in Proposal, NEW new \in Proposal, Follows(old, new),
         NEW x \in Attempt, NEW j, JobFits(old, j, x.revision), j.status = "running", SourceFits(old, x)
  PROVE  SourceFits(new, x)
  <1>1. old.revision \in Nat /\ new.revision \in Nat /\ x.revision \in Nat
    BY DEF Proposal, Attempt
  <1> QED
    BY <1>1 DEF Follows, Moves, Kept, Rewritten, Admitted, SameContent, Pending, JobFits, SourceFits

\* The attempts a process still runs fit the rows.
LEMMA SourcesFollow ==
  ASSUME IInv, proposal' \in [Proposals -> Proposal],
         \A p \in Proposals : Follows(proposal[p], proposal'[p]), NEW x \in runner
  PROVE  SourceFits(proposal'[x.proposal], x)
  <1>1. x \in Attempt /\ x.proposal \in Proposals /\ x.revision \in 1..MaxRevision
    BY DEF IInv, TypeOK, Attempt
  <1>2. /\ JobFits(proposal[x.proposal], job[x.proposal][x.revision], x.revision)
        /\ job[x.proposal][x.revision].status = "running"
        /\ SourceFits(proposal[x.proposal], x)
    BY <1>1 DEF IInv, Jobs, Attempts, OneAttemptAtATime
  <1>3. proposal[x.proposal] \in Proposal /\ proposal'[x.proposal] \in Proposal
    BY <1>1 DEF IInv, TypeOK
  <1> QED  BY <1>1, <1>2, <1>3, SourceFollows

\* A step that touches no job, and starts no attempt.
LEMMA JobsKept ==
  ASSUME IInv, proposal' \in [Proposals -> Proposal],
         \A p \in Proposals : Follows(proposal[p], proposal'[p]),
         job' = job, runner' \subseteq runner
  PROVE  /\ Jobs' /\ Attempts'
         /\ job' \in [Proposals -> [1..MaxRevision -> Job]] /\ runner' \subseteq Attempt
  <1>1. Jobs'
    <2> SUFFICES ASSUME NEW p \in Proposals, NEW n \in 1..MaxRevision
                 PROVE  JobFits(proposal'[p], job'[p][n], n)
      BY DEF Jobs
    <2>1. /\ proposal[p] \in Proposal /\ proposal'[p] \in Proposal
          /\ JobFits(proposal[p], job[p][n], n) /\ n \in Nat
      BY StoreAssumption DEF IInv, TypeOK, Jobs
    <2> QED  BY <2>1, JobFollows
  <1>2. OneAttemptAtATime'
    BY DEF IInv, Attempts, OneAttemptAtATime
  <1>3. \A x \in runner' : SourceFits(proposal'[x.proposal], x)
    BY SourcesFollow
  <1> QED  BY <1>1, <1>2, <1>3 DEF IInv, TypeOK, Attempts

\* A step that launches an attempt of a job nobody runs.
LEMMA JobsLaunched ==
  ASSUME IInv, proposal' \in [Proposals -> Proposal],
         \A p \in Proposals : Follows(proposal[p], proposal'[p]),
         NEW c \in Proposals, NEW m \in 1..MaxRevision, NEW attempt \in 1..MaxAttempts,
         NEW woken \in BOOLEAN, Launch(c, m, attempt, woken),
         job[c][m].status # "running",
         m <= proposal'[c].revision,
         m = proposal'[c].revision => Pending(proposal'[c])
  PROVE  /\ Jobs' /\ Attempts'
         /\ job' \in [Proposals -> [1..MaxRevision -> Job]] /\ runner' \subseteq Attempt
  <1> DEFINE x == [proposal |-> c, revision |-> m, attempt |-> attempt, source |-> None]
             j == [status |-> IF woken THEN "running" ELSE "queued", attempt |-> attempt, refs |-> None]
  <1>1. /\ job \in [Proposals -> [1..MaxRevision -> Job]] /\ runner \subseteq Attempt
        /\ OneAttemptAtATime
    BY DEF IInv, TypeOK, Attempts
  <1>2. x \in Attempt /\ j \in Job
    BY StoreAssumption DEF Attempt, Job
  <1>3. /\ job' = [job EXCEPT ![c][m] = j]
        /\ runner' = IF woken THEN runner \cup {x} ELSE {}
    BY DEF Launch
  <1>4. /\ x.proposal = c /\ x.revision = m /\ x.attempt = attempt /\ x.source = None
        /\ woken => j.status = "running"
        /\ j.attempt = attempt /\ j.status # "succeeded"
    OBVIOUS
  <1> HIDE DEF x, j
  <1>5. job' \in [Proposals -> [1..MaxRevision -> Job]] /\ runner' \subseteq Attempt
    BY <1>1, <1>2, <1>3
  <1>6. /\ job'[c][m] = j
        /\ \A p \in Proposals, n \in 1..MaxRevision : p # c \/ n # m => job'[p][n] = job[p][n]
    BY <1>1, <1>3
  <1>7. Jobs'
    <2> SUFFICES ASSUME NEW p \in Proposals, NEW n \in 1..MaxRevision
                 PROVE  JobFits(proposal'[p], job'[p][n], n)
      BY DEF Jobs
    <2>1. CASE p = c /\ n = m
      BY <2>1, <1>4, <1>6 DEF JobFits
    <2>2. CASE p # c \/ n # m
      <3>1. /\ proposal[p] \in Proposal /\ proposal'[p] \in Proposal
            /\ JobFits(proposal[p], job[p][n], n) /\ n \in Nat
        BY StoreAssumption DEF IInv, TypeOK, Jobs
      <3> QED  BY <2>2, <3>1, <1>6, JobFollows
    <2> QED  BY <2>1, <2>2
  <1>8. Attempts'
    <2>1. CASE ~woken
      BY <2>1, <1>3 DEF Attempts, OneAttemptAtATime
    <2>2. CASE woken
      <3>1. \A y \in runner : y \in Attempt /\ y.proposal \in Proposals /\ y.revision \in 1..MaxRevision
        BY <1>1 DEF Attempt
      <3>2. \A y \in runner : y.proposal # c \/ y.revision # m
        BY <1>1 DEF OneAttemptAtATime
      <3>3. OneAttemptAtATime'
        BY <2>2, <1>1, <1>3, <1>4, <1>6, <3>1, <3>2 DEF OneAttemptAtATime
      <3>4. \A y \in runner' : SourceFits(proposal'[y.proposal], y)
        BY <2>2, <1>3, <1>4, SourcesFollow DEF SourceFits
      <3> QED  BY <3>3, <3>4 DEF Attempts
    <2> QED  BY <2>1, <2>2
  <1> QED  BY <1>5, <1>7, <1>8

\* The part of the invariant about behaviors, when no card is handed out.
LEMMA AloneFollows ==
  ASSUME IInv, \A p \in Proposals : Moves(proposal[p], proposal'[p]), latched' \subseteq latched
  PROVE  Alone'
  <1>1. \A p \in Proposals :
          Pending(proposal'[p]) => Pending(proposal[p]) /\ proposal'[p].key = proposal[p].key
    BY DEF Moves, Kept, Rewritten, SamePlace, Pending
  <1> QED  BY <1>1 DEF IInv, Alone

\* What a decided or expired card is from one step to the next.
Final ==
  \A p \in Proposals :
    proposal[p].status \in {"approved", "rejected", "expired"} => proposal'[p] = proposal[p]

\* The jobs half of the invariant.
JobPart ==
  /\ job \in [Proposals -> [1..MaxRevision -> Job]] /\ runner \subseteq Attempt
  /\ Jobs /\ Attempts

\* The requests half.
RequestPart ==
  /\ alias \in [Requests -> Proposals \cup {None}] /\ heard \in [Requests -> SUBSET Proposals]
  /\ Heard

LEMMA RequestsKept ==
  ASSUME IInv, alias' = alias, heard' = heard
  PROVE  RequestPart'
  BY DEF IInv, TypeOK, RequestPart, Heard

\* A request is counted once: it had no alias, so it had been heard of nowhere.
LEMMA RequestAccepted ==
  ASSUME IInv, NEW r \in Requests, NEW c \in Proposals, alias[r] = None, Accept(r, c)
  PROVE  RequestPart'
  <1>1. /\ alias \in [Requests -> Proposals \cup {None}] /\ heard \in [Requests -> SUBSET Proposals]
        /\ Heard /\ c # None
    BY StoreAssumption DEF IInv, TypeOK
  <1>2. alias' = [alias EXCEPT ![r] = c] /\ heard' = [heard EXCEPT ![r] = heard[r] \cup {c}]
    BY DEF Accept
  <1>3. heard[r] = {}
    BY <1>1 DEF Heard
  <1>4. ASSUME NEW s \in Requests
        PROVE  heard'[s] = IF alias'[s] = None THEN {} ELSE {alias'[s]}
    BY <1>1, <1>2, <1>3 DEF Heard
  <1> QED  BY <1>1, <1>2, <1>4 DEF RequestPart, Heard

\* The parts together.
LEMMA Together ==
  ASSUME IInv, proposal' \in [Proposals -> Proposal],
         \A p \in Proposals : Follows(proposal[p], proposal'[p]),
         ReadyCount(proposal') <= MaxReady, latched' \subseteq Keys, Alone',
         JobPart', RequestPart'
  PROVE  IInv' /\ Final
  <1>1. Rows'
    BY RowsFollow
  <1>2. Final
    BY DEF Final, Follows, Moves, Kept, Rewritten, Admitted, Pending
  <1>3. TypeOK'
    BY DEF TypeOK, JobPart, RequestPart
  <1>4. ReadyWithinCapacity'
    BY DEF ReadyWithinCapacity, ReadyCount, Pending
  <1> QED  BY <1>1, <1>2, <1>3, <1>4 DEF IInv, JobPart, RequestPart

\* One open card is written, and takes no slot that was free.
LEMMA CardWritten ==
  ASSUME IInv, NEW c \in Proposals, NEW row, Moves(proposal[c], row),
         proposal' = [proposal EXCEPT ![c] = row], Occupies(row) => Occupies(proposal[c])
  PROVE  /\ proposal' \in [Proposals -> Proposal]
         /\ \A p \in Proposals : Moves(proposal[p], proposal'[p])
         /\ ReadyCount(proposal') <= MaxReady
  <1>1. proposal \in [Proposals -> Proposal] /\ row \in Proposal
    BY DEF IInv, TypeOK, Moves
  <1>2. \A p \in Proposals : proposal'[p] = IF p = c THEN row ELSE proposal[p]
    BY <1>1
  <1>3. \A p \in Proposals : Moves(proposal[p], proposal'[p])
    BY <1>1, <1>2 DEF Moves, Kept, SameContent, SamePlace
  <1>4. ReadyCount(proposal') <= ReadyCount(proposal)
    BY <1>2, NoNewSlot
  <1>5. ReadyCount(proposal') <= MaxReady
    BY <1>4, ReadyCountIs, StoreAssumption DEF IInv, ReadyWithinCapacity
  <1> QED  BY <1>1, <1>3, <1>5

\* The usual step: rows move on, no card is handed out, and jobs and requests
\* are left alone.
LEMMA RowsOnly ==
  ASSUME IInv, proposal' \in [Proposals -> Proposal],
         \A p \in Proposals : Moves(proposal[p], proposal'[p]),
         ReadyCount(proposal') <= MaxReady,
         job' = job, runner' \subseteq runner, UNCHANGED <<alias, latched, heard>>
  PROVE  IInv' /\ Final
  <1>1. \A p \in Proposals : Follows(proposal[p], proposal'[p])
    BY DEF Follows
  <1>2. JobPart'
    BY <1>1, JobsKept DEF JobPart
  <1>3. Alone' /\ latched' \subseteq Keys
    BY AloneFollows DEF IInv, TypeOK
  <1> QED  BY <1>1, <1>2, <1>3, RequestsKept, Together

-----------------------------------------------------------------------------
(* The household's calls and the clock                                     *)

LEMMA SweepHolds ==
  ASSUME IInv, Sweep
  PROVE  IInv' /\ Final
  <1>1. proposal' \in Swept /\ UNCHANGED <<job, runner, alias, latched, heard>>
    BY DEF Sweep
  <1>2. runner' \subseteq runner
    BY <1>1
  <1> QED  BY <1>1, <1>2, SweptMoves, RowsOnly

\* A card that is open, its row and the facts about it.
LEMMA OpenCard ==
  ASSUME IInv, NEW c \in Proposals, Pending(proposal[c])
  PROVE  /\ proposal[c] \in Proposal /\ FitRow(proposal[c])
         /\ proposal[c].revision \in Nat
  BY DEF IInv, TypeOK, Rows, Proposal

LEMMA CardStep ==
  ASSUME IInv, NEW c \in Proposals, NEW row, Moves(proposal[c], row),
         Occupies(row) => Occupies(proposal[c]), Change(c, row), UNCHANGED <<job, runner, latched>>
  PROVE  IInv' /\ Final
  <1>1. proposal' = [proposal EXCEPT ![c] = row] /\ UNCHANGED <<alias, heard>>
    BY DEF Change
  <1> QED  BY <1>1, CardWritten, RowsOnly

LEMMA SnoozeHolds ==
  ASSUME IInv, NEW c \in Proposals, Snooze(c)
  PROVE  IInv' /\ Final
  <1> DEFINE w == Revised(Awake(proposal[c]))
             row == [w EXCEPT !.snooze = "asleep"]
  <1>1. Pending(proposal[c]) /\ Change(c, row) /\ UNCHANGED <<job, runner, latched>>
    BY DEF Snooze, Card
  <1>2. /\ w \in Proposal /\ Moves(proposal[c], w) /\ SameContent(proposal[c], w) /\ Pending(w)
    BY <1>1, OpenCard, WokenMoves
  <1> HIDE DEF w
  <1>3. row \in Proposal /\ Moves(w, row) /\ Pending(row) /\ SameContent(w, row) /\ SamePlace(w, row)
    BY <1>2 DEF Moves, Kept, SameContent, SamePlace, Pending, Proposal
  <1> HIDE DEF row
  <1>4. Moves(proposal[c], row)
    BY <1>1, <1>2, <1>3, OpenCard, MovesCompose
  <1>5. Occupies(row) => Occupies(proposal[c])
    BY <1>1, <1>2, <1>3, <1>4 DEF Occupies, SameContent, SamePlace, Moves, Kept, Rewritten
  <1> QED  BY <1>1, <1>4, <1>5, CardStep

LEMMA DecideHolds ==
  ASSUME IInv, NEW c \in Proposals, NEW status \in {"approved", "rejected", "expired"}, Decide(c, status)
  PROVE  IInv' /\ Final
  <1>1. /\ Pending(proposal[c]) /\ Change(c, Decided(proposal[c], status))
        /\ UNCHANGED <<job, runner, latched>>
    BY DEF Decide, Card
  <1>2. Moves(proposal[c], Decided(proposal[c], status)) /\ ~Pending(Decided(proposal[c], status))
    BY <1>1, OpenCard, ClosedMoves
  <1>3. ~Occupies(Decided(proposal[c], status))
    BY <1>2 DEF Occupies
  <1> QED  BY <1>1, <1>2, <1>3, CardStep

LEMMA DoNotSuggestHolds ==
  ASSUME IInv, NEW c \in Proposals, DoNotSuggest(c)
  PROVE  IInv' /\ Final
  <1> DEFINE row == Decided(proposal[c], "rejected")
  <1>1. /\ Pending(proposal[c]) /\ Change(c, row) /\ UNCHANGED <<job, runner>>
        /\ latched' = latched \cup {proposal[c].key}
        /\ proposal' = [proposal EXCEPT ![c] = row] /\ UNCHANGED <<alias, heard>>
    BY DEF DoNotSuggest, Card, Change
  <1>2. Moves(proposal[c], row) /\ ~Pending(row)
    BY <1>1, OpenCard, ClosedMoves
  <1> HIDE DEF row
  <1>3. ~Occupies(row)
    BY <1>2 DEF Occupies
  <1>4. /\ proposal' \in [Proposals -> Proposal] /\ \A p \in Proposals : Moves(proposal[p], proposal'[p])
        /\ ReadyCount(proposal') <= MaxReady
    BY <1>1, <1>2, <1>3, CardWritten
  <1>5. Alone'
    <2>1. \A p \in Proposals :
            Pending(proposal'[p]) =>
              p # c /\ proposal'[p] = proposal[p] /\ Pending(proposal[p])
      BY <1>1, <1>2 DEF IInv, TypeOK
    <2> QED  BY <2>1, <1>1 DEF IInv, Alone
  <1>6. latched' \subseteq Keys
    <2>1. proposal[c].key \in Keys
      BY <1>1 DEF IInv, Alone
    <2> QED  BY <2>1, <1>1 DEF IInv, TypeOK
  <1>7. \A p \in Proposals : Follows(proposal[p], proposal'[p])
    BY <1>4 DEF Follows
  <1>8. JobPart'
    BY <1>1, <1>4, <1>7, JobsKept DEF JobPart
  <1> QED  BY <1>1, <1>4, <1>5, <1>6, <1>7, <1>8, RequestsKept, Together

LEMMA EnableHolds ==
  ASSUME IInv, NEW c \in Proposals, Enable(c)
  PROVE  IInv' /\ Final
  <1> DEFINE w == Decided(proposal[c], "approved")
             row == [w EXCEPT !.lifecycle = "enabling"]
  <1>1. /\ Pending(proposal[c]) /\ Change(c, row) /\ UNCHANGED <<job, runner, latched>>
        /\ proposal[c].lifecycle = "ready"
    BY DEF Enable, Card, Decidable
  <1>2. w \in Proposal /\ Moves(proposal[c], w) /\ ~Pending(w) /\ SameContent(proposal[c], w)
    BY <1>1, OpenCard, ClosedMoves
  <1> HIDE DEF w
  <1>3. /\ row \in Proposal /\ SamePlace(w, row) /\ row.status = w.status /\ row.revision = w.revision
        /\ row.kind = w.kind /\ row.plan = w.plan /\ row.hash = w.hash /\ row.refs = w.refs
    BY <1>2 DEF SamePlace, Proposal, Lifecycles
  <1> HIDE DEF row
  <1>4. Rewritten(proposal[c], w) /\ FitRow(proposal[c])
    BY <1>1, <1>2, OpenCard DEF Moves, Kept, Pending
  <1>5. Moves(proposal[c], row)
    BY <1>1, <1>2, <1>3, <1>4
    DEF Moves, Rewritten, SameContent, SamePlace, FitRow, RequiresPreparation
  <1>6. ~Occupies(row)
    BY <1>2, <1>3 DEF Occupies, Pending
  <1> QED  BY <1>1, <1>5, <1>6, CardStep

\* Setting or lifting the block of a ready card.
LEMMA BlockHolds ==
  ASSUME IInv, NEW c \in Proposals, Pending(proposal[c]),
         NEW later \in Later(proposal[c]), NEW blocked \in BOOLEAN,
         Change(c, [Revised(later) EXCEPT !.blocked = blocked]), UNCHANGED <<job, runner, latched>>
  PROVE  IInv' /\ Final
  <1> DEFINE w == Revised(later)
             row == [w EXCEPT !.blocked = blocked]
  <1>1. /\ proposal[c] \in Proposal /\ FitRow(proposal[c]) /\ proposal[c].revision \in Nat
    BY OpenCard
  <1>2. /\ later \in Proposal /\ SameContent(proposal[c], later) /\ SamePlace(proposal[c], later)
        /\ later.status = proposal[c].status /\ later.revision = proposal[c].revision
    <2>1. CASE later = proposal[c]
      BY <2>1, <1>1 DEF SameContent, SamePlace
    <2>2. CASE later = [proposal[c] EXCEPT !.snooze = "elapsed"]
      BY <2>2, <1>1 DEF SameContent, SamePlace, Proposal
    <2> QED  BY <2>1, <2>2 DEF Later
  <1>3. /\ w \in Proposal /\ SameContent(later, w) /\ SamePlace(later, w)
        /\ w.status = later.status /\ w.revision = later.revision + 1
    BY <1>2, RevisedRow
  <1> HIDE DEF w
  <1>4. /\ row \in Proposal /\ SameContent(w, row) /\ SamePlace(w, row)
        /\ row.status = w.status /\ row.revision = w.revision
    BY <1>3 DEF SameContent, SamePlace, Proposal
  <1>5. Change(c, row)
    BY DEF w
  <1> HIDE DEF row
  <1>6. Moves(proposal[c], row)
    BY <1>1, <1>2, <1>3, <1>4
    DEF Moves, Rewritten, SameContent, SamePlace, FitRow, RequiresPreparation, Pending
  <1>7. Occupies(row) => Occupies(proposal[c])
    BY <1>2, <1>3, <1>4 DEF Occupies, SameContent, SamePlace, Pending
  <1> QED  BY <1>5, <1>6, <1>7, CardStep

LEMMA MarkBlockedHolds ==
  ASSUME IInv, NEW c \in Proposals, MarkBlocked(c)
  PROVE  IInv' /\ Final
  <1>1. PICK later \in Later(proposal[c]) : Change(c, [Revised(later) EXCEPT !.blocked = TRUE])
    BY DEF MarkBlocked
  <1> QED  BY <1>1, BlockHolds DEF MarkBlocked, Card

LEMMA ClearBlockHolds ==
  ASSUME IInv, NEW c \in Proposals, ClearBlock(c)
  PROVE  IInv' /\ Final
  <1>1. PICK later \in Later(proposal[c]) : Change(c, [Revised(later) EXCEPT !.blocked = FALSE])
    BY DEF ClearBlock
  <1> QED  BY <1>1, BlockHolds DEF ClearBlock, Card

LEMMA ClearLatchHolds ==
  ASSUME IInv, NEW k \in Keys, ClearLatch(k)
  PROVE  IInv' /\ Final
  <1>1. /\ latched' \subseteq latched /\ latched' \subseteq Keys
        /\ UNCHANGED <<proposal, job, runner, alias, heard>>
    BY DEF ClearLatch, IInv, TypeOK
  <1>2. /\ proposal' \in [Proposals -> Proposal]
        /\ \A p \in Proposals : Moves(proposal[p], proposal'[p])
    BY <1>1 DEF IInv, TypeOK, Moves, Kept, SameContent, SamePlace
  <1>3. ReadyCount(proposal') <= MaxReady
    BY <1>1 DEF IInv, ReadyWithinCapacity
  <1>4. \A p \in Proposals : Follows(proposal[p], proposal'[p])
    BY <1>2 DEF Follows
  <1>5. JobPart'
    BY <1>1, <1>2, <1>4, JobsKept DEF JobPart
  <1> QED  BY <1>1, <1>2, <1>3, <1>4, <1>5, AloneFollows, RequestsKept, Together

\* The clock changes nothing the household or a job relies on.
LEMMA ClockHolds ==
  ASSUME IInv, NEW c \in Proposals, WakeUpTime(c) \/ ExpiryTime(c)
  PROVE  IInv' /\ Final
  <1>1. Pending(proposal[c]) /\ UNCHANGED <<job, runner, alias, latched, heard>>
    BY DEF WakeUpTime, ExpiryTime
  <1>2. PICK row : /\ proposal' = [proposal EXCEPT ![c] = row]
                   /\ row \in {[proposal[c] EXCEPT !.snooze = "elapsed"], [proposal[c] EXCEPT !.due = TRUE]}
    <2>1. proposal \in [Proposals -> Proposal]
      BY DEF IInv, TypeOK
    <2>2. CASE WakeUpTime(c)
      BY <2>1, <2>2 DEF WakeUpTime
    <2>3. CASE ExpiryTime(c)
      BY <2>1, <2>3 DEF ExpiryTime
    <2> QED  BY <2>2, <2>3
  <1>3. /\ row \in Proposal /\ SameContent(proposal[c], row) /\ SamePlace(proposal[c], row)
        /\ row.status = proposal[c].status /\ row.revision = proposal[c].revision
    <2>1. proposal[c] \in Proposal
      BY DEF IInv, TypeOK
    <2>2. CASE row = [proposal[c] EXCEPT !.snooze = "elapsed"]
      BY <2>1, <2>2 DEF SameContent, SamePlace, Proposal
    <2>3. CASE row = [proposal[c] EXCEPT !.due = TRUE]
      BY <2>1, <2>3 DEF SameContent, SamePlace, Proposal
    <2> QED  BY <1>2, <2>2, <2>3
  <1>4. Moves(proposal[c], row) /\ (Occupies(row) => Occupies(proposal[c]))
    BY <1>1, <1>3 DEF Moves, Kept, Occupies, SameContent, SamePlace, Pending
  <1>5. Change(c, row)
    BY <1>1, <1>2 DEF Change
  <1> QED  BY <1>1, <1>4, <1>5, CardStep

-----------------------------------------------------------------------------
(* Preparation                                                             *)

\* What the invariant says of an attempt this process runs.
LEMMA RunningAttempt ==
  ASSUME IInv, NEW x \in runner
  PROVE  /\ x \in Attempt /\ x.proposal \in Proposals /\ x.revision \in 1..MaxRevision
         /\ x.source \in Plans \cup {None}
         /\ proposal[x.proposal] \in Proposal /\ FitRow(proposal[x.proposal])
         /\ job[x.proposal][x.revision] \in Job
         /\ job[x.proposal][x.revision].status = "running"
         /\ JobFits(proposal[x.proposal], job[x.proposal][x.revision], x.revision)
         /\ SourceFits(proposal[x.proposal], x)
  <1>1. x \in Attempt /\ x.proposal \in Proposals /\ x.revision \in 1..MaxRevision /\ x.source \in Plans \cup {None}
    BY DEF IInv, TypeOK, Attempt
  <1> QED  BY <1>1 DEF IInv, TypeOK, Rows, Jobs, Attempts, OneAttemptAtATime

\* One job row is written.
LEMMA JobWritten ==
  ASSUME NEW jobs \in [Proposals -> [1..MaxRevision -> Job]],
         NEW c \in Proposals, NEW m \in 1..MaxRevision, NEW j \in Job,
         NEW new, new = [jobs EXCEPT ![c][m] = j]
  PROVE  /\ new \in [Proposals -> [1..MaxRevision -> Job]]
         /\ new[c][m] = j
         /\ \A p \in Proposals, n \in 1..MaxRevision : p # c \/ n # m => new[p][n] = jobs[p][n]
  OBVIOUS

\* An attempt ends: its job row says so, and the process forgets it.
LEMMA JobsEnded ==
  ASSUME IInv, proposal' \in [Proposals -> Proposal],
         \A p \in Proposals : Follows(proposal[p], proposal'[p]),
         NEW x \in runner, NEW c, NEW m, x.proposal = c, x.revision = m,
         NEW j \in Job, j.status # "running", JobFits(proposal[c], j, m),
         job' = [job EXCEPT ![c][m] = j], runner' \subseteq runner \ {x}
  PROVE  JobPart'
  <1>1. /\ job \in [Proposals -> [1..MaxRevision -> Job]] /\ runner \subseteq Attempt
        /\ OneAttemptAtATime /\ c \in Proposals /\ m \in 1..MaxRevision
    BY RunningAttempt DEF IInv, TypeOK, Attempts
  <1>2. /\ job' \in [Proposals -> [1..MaxRevision -> Job]]
        /\ job'[c][m] = j
        /\ \A p \in Proposals, n \in 1..MaxRevision : p # c \/ n # m => job'[p][n] = job[p][n]
    BY <1>1, JobWritten
  <1>3. Jobs'
    <2> SUFFICES ASSUME NEW p \in Proposals, NEW n \in 1..MaxRevision
                 PROVE  JobFits(proposal'[p], job'[p][n], n)
      BY DEF Jobs
    <2>1. JobFits(proposal[p], job'[p][n], n)
      <3>1. CASE p = c /\ n = m
        BY <3>1, <1>2
      <3>2. CASE p # c \/ n # m
        BY <3>2, <1>2 DEF IInv, Jobs
      <3> QED  BY <3>1, <3>2
    <2>2. proposal[p] \in Proposal /\ proposal'[p] \in Proposal /\ n \in Nat
      BY StoreAssumption DEF IInv, TypeOK
    <2> QED  BY <2>1, <2>2, JobFollows
  <1>4. \A y \in runner' : /\ y \in runner /\ y.proposal \in Proposals /\ y.revision \in 1..MaxRevision
                           /\ y.proposal # c \/ y.revision # m
    BY RunningAttempt, <1>1 DEF OneAttemptAtATime
  <1>5. OneAttemptAtATime'
    BY <1>1, <1>2, <1>4 DEF OneAttemptAtATime
  <1>6. \A y \in runner' : SourceFits(proposal'[y.proposal], y)
    BY SourcesFollow
  <1> QED  BY <1>1, <1>2, <1>3, <1>5, <1>6 DEF JobPart, Attempts

LEMMA ReadSourceHolds ==
  ASSUME IInv, NEW x \in runner, ReadSource(x)
  PROVE  IInv' /\ Final
  <1> DEFINE y == [x EXCEPT !.source = proposal[x.proposal].plan]
  <1>1. /\ runner' = (runner \ {x}) \cup {y} /\ UNCHANGED <<proposal, job, alias, latched, heard>>
        /\ proposal[x.proposal].plan \in Plans
    BY DEF ReadSource, SourceOpen, RequiresPreparation
  <1>2. /\ y \in Attempt /\ y.proposal = x.proposal /\ y.revision = x.revision /\ y.attempt = x.attempt
        /\ y.source = proposal[x.proposal].plan
    BY <1>1, RunningAttempt DEF Attempt
  <1> HIDE DEF y
  <1>3. /\ proposal' \in [Proposals -> Proposal]
        /\ \A p \in Proposals : Moves(proposal[p], proposal'[p])
        /\ ReadyCount(proposal') <= MaxReady
    BY <1>1 DEF IInv, TypeOK, Moves, Kept, SameContent, SamePlace, ReadyWithinCapacity
  <1>4. \A p \in Proposals : Follows(proposal[p], proposal'[p])
    BY <1>3 DEF Follows
  <1>5. runner \subseteq Attempt /\ OneAttemptAtATime
    BY DEF IInv, TypeOK, Attempts
  <1>6. OneAttemptAtATime'
    BY <1>1, <1>2, <1>5 DEF OneAttemptAtATime
  <1>7. \A z \in runner' : SourceFits(proposal'[z.proposal], z)
    BY <1>1, <1>2, RunningAttempt DEF SourceFits
  <1>8. JobPart'
    BY <1>1, <1>2, <1>5, <1>6, <1>7 DEF IInv, TypeOK, Jobs, JobFits, Pending, JobPart, Attempts
  <1>9. latched' \subseteq latched /\ latched' \subseteq Keys
    BY <1>1 DEF IInv, TypeOK
  <1> QED  BY <1>1, <1>3, <1>4, <1>8, <1>9, AloneFollows, RequestsKept, Together

\* What a successful attempt leaves in its job row.
LEMMA SucceededJob ==
  ASSUME IInv, NEW x \in runner, Succeed(x)
  PROVE  \E j \in Job : /\ j.status = "succeeded" /\ j.refs = x.source
                        /\ JobFits(proposal[x.proposal], j, x.revision)
                        /\ job' = [job EXCEPT ![x.proposal][x.revision] = j]
  <1> DEFINE old == job[x.proposal][x.revision]
             j == [old EXCEPT !.status = "succeeded", !.refs = x.source]
  <1>1. old \in Job /\ old.status = "running" /\ x.source \in Plans /\ x.source # None
    BY RunningAttempt DEF Succeed
  <1>2. job' = [job EXCEPT ![x.proposal][x.revision] = j]
    BY DEF Succeed
  <1>3. JobFits(proposal[x.proposal], old, x.revision) /\ SourceFits(proposal[x.proposal], x)
    BY RunningAttempt
  <1> HIDE DEF old
  <1>4. j \in Job /\ j.status = "succeeded" /\ j.refs = x.source
    BY <1>1 DEF Job
  <1> HIDE DEF j
  <1>5. JobFits(proposal[x.proposal], j, x.revision)
    BY <1>1, <1>3, <1>4 DEF JobFits, SourceFits
  <1> QED  BY <1>2, <1>4, <1>5

LEMMA CompletePreparationHolds ==
  ASSUME IInv, NEW x \in runner, CompletePreparation(x)
  PROVE  IInv' /\ Final
  <1> DEFINE c == x.proposal
             row == Prepared(proposal[c], x.source)
  <1>1. /\ Succeed(x) /\ runner' = runner \ {x} /\ UNCHANGED <<alias, latched, heard>>
        /\ x.source # None
        /\ proposal' = IF CanReady(c, x.revision) THEN [proposal EXCEPT ![c] = row] ELSE proposal
    BY DEF CompletePreparation, Succeed
  <1>2. PICK j \in Job : /\ j.status = "succeeded"
                         /\ JobFits(proposal[x.proposal], j, x.revision)
                         /\ job' = [job EXCEPT ![x.proposal][x.revision] = j]
    BY <1>1, SucceededJob
  <1>3. /\ c \in Proposals /\ proposal[c] \in Proposal /\ x.source \in Plans \cup {None}
        /\ proposal \in [Proposals -> Proposal] /\ ReadyCount(proposal) <= MaxReady
        /\ SourceFits(proposal[c], x)
    BY RunningAttempt DEF IInv, TypeOK, ReadyWithinCapacity
  <1>4. /\ proposal' \in [Proposals -> Proposal]
        /\ \A p \in Proposals : Moves(proposal[p], proposal'[p])
        /\ ReadyCount(proposal') <= MaxReady
    <2>1. CASE ~CanReady(c, x.revision)
      BY <2>1, <1>1, <1>3 DEF Moves, Kept, SameContent, SamePlace
    <2>2. CASE CanReady(c, x.revision)
      <3>1. /\ proposal[c].revision = x.revision
            /\ proposal[c].lane = "migration" \/ ReadyCount(proposal) < MaxReady
        BY <2>2 DEF CanReady
      <3>2. Pending(proposal[c]) /\ x.source = proposal[c].plan
        BY <3>1, <1>1, <1>2, <1>3 DEF JobFits, SourceFits
      <3>3. Moves(proposal[c], row)
        BY <1>3, <3>2, PreparedMoves
      <3> HIDE DEF row, c
      <3>4. proposal' = [proposal EXCEPT ![c] = row]
        BY <1>1, <2>2
      <3>5. CASE proposal[c].lane = "migration"
        <4>1. ~Occupies(row)
          BY <3>3, <3>5 DEF Occupies, Moves, Kept, Rewritten, SamePlace
        <4> QED  BY <1>3, <3>3, <3>4, <4>1, CardWritten
      <3>6. CASE ReadyCount(proposal) < MaxReady
        <4>1. \A p \in Proposals : proposal'[p] = IF p = c THEN row ELSE proposal[p]
          BY <1>3, <3>4
        <4>2. proposal' \in [Proposals -> Proposal] /\ \A p \in Proposals : Moves(proposal[p], proposal'[p])
          BY <1>3, <3>3, <3>4, <4>1 DEF Moves, Kept, SameContent, SamePlace
        <4>3. ReadyCount(proposal') <= ReadyCount(proposal) + 1
          BY <1>3, <4>1, OneNewSlot
        <4>4. ReadyCount(proposal') <= MaxReady
          BY <3>6, <4>3, ReadyCountIs, StoreAssumption
        <4> QED  BY <4>2, <4>4
      <3> QED  BY <3>1, <3>5, <3>6
    <2> QED  BY <2>1, <2>2
  <1>5. \A p \in Proposals : Follows(proposal[p], proposal'[p])
    BY <1>4 DEF Follows
  <1>6. JobPart'
    BY <1>1, <1>2, <1>4, <1>5, JobsEnded
  <1>7. latched' \subseteq latched /\ latched' \subseteq Keys
    BY <1>1 DEF IInv, TypeOK
  <1> QED  BY <1>1, <1>4, <1>5, <1>6, <1>7, AloneFollows, RequestsKept, Together

\* An attempt ends and no row is written.
LEMMA EndedOnly ==
  ASSUME IInv, NEW x \in runner, NEW j \in Job, j.status # "running",
         JobFits(proposal[x.proposal], j, x.revision),
         job' = [job EXCEPT ![x.proposal][x.revision] = j], runner' \subseteq runner \ {x},
         UNCHANGED <<proposal, alias, latched, heard>>
  PROVE  IInv' /\ Final
  <1>1. /\ proposal' \in [Proposals -> Proposal]
        /\ \A p \in Proposals : Moves(proposal[p], proposal'[p])
        /\ ReadyCount(proposal') <= MaxReady
        /\ latched' \subseteq latched /\ latched' \subseteq Keys
    BY DEF IInv, TypeOK, Moves, Kept, SameContent, SamePlace, ReadyWithinCapacity
  <1>2. \A p \in Proposals : Follows(proposal[p], proposal'[p])
    BY <1>1 DEF Follows
  <1>3. JobPart'
    BY <1>1, <1>2, JobsEnded
  <1> QED  BY <1>1, <1>2, <1>3, AloneFollows, RequestsKept, Together

LEMMA CompleteAndStopHolds ==
  ASSUME IInv, NEW x \in runner, CompleteAndStop(x)
  PROVE  IInv' /\ Final
  <1>1. Succeed(x) /\ runner' = {} /\ UNCHANGED <<proposal, alias, latched, heard>>
    BY DEF CompleteAndStop
  <1>2. runner' \subseteq runner \ {x}
    BY <1>1
  <1> QED  BY <1>1, <1>2, SucceededJob, EndedOnly

LEMMA FailPreparationHolds ==
  ASSUME IInv, NEW x \in runner, FailPreparation(x)
  PROVE  IInv' /\ Final
  <1> DEFINE old == job[x.proposal][x.revision]
             j == [old EXCEPT !.status = "failed"]
  <1>1. /\ job' = [job EXCEPT ![x.proposal][x.revision] = j] /\ runner' \subseteq runner \ {x}
        /\ UNCHANGED <<proposal, alias, latched, heard>>
    BY DEF FailPreparation
  <1>2. old \in Job /\ old.status = "running" /\ JobFits(proposal[x.proposal], old, x.revision)
    BY RunningAttempt
  <1> HIDE DEF old
  <1>3. j \in Job /\ j.status = "failed"
    BY <1>2 DEF Job
  <1> HIDE DEF j
  <1>4. JobFits(proposal[x.proposal], j, x.revision)
    BY <1>2, <1>3 DEF JobFits
  <1> QED  BY <1>1, <1>3, <1>4, EndedOnly

\* No row is written, and one job gets an attempt.
LEMMA RetryPreparationHolds ==
  ASSUME IInv, NEW c \in Proposals, NEW n \in 1..MaxRevision, NEW woken \in BOOLEAN,
         RetryPreparation(c, n, woken)
  PROVE  IInv' /\ Final
  <1> DEFINE attempt == job[c][n].attempt + 1
  <1>1. /\ job[c][n].status = "failed" /\ job[c][n].attempt < MaxAttempts
        /\ Launch(c, n, attempt, woken) /\ UNCHANGED <<proposal, alias, latched, heard>>
    BY DEF RetryPreparation, CanRetry
  <1>2. attempt \in 1..MaxAttempts
    <2>1. job[c][n] \in Job
      BY DEF IInv, TypeOK
    <2> QED  BY <2>1, <1>1, StoreAssumption DEF Job
  <1> HIDE DEF attempt
  <1>3. /\ proposal' \in [Proposals -> Proposal]
        /\ \A p \in Proposals : Moves(proposal[p], proposal'[p])
        /\ ReadyCount(proposal') <= MaxReady
        /\ latched' \subseteq latched /\ latched' \subseteq Keys
    BY <1>1 DEF IInv, TypeOK, Moves, Kept, SameContent, SamePlace, ReadyWithinCapacity
  <1>4. \A p \in Proposals : Follows(proposal[p], proposal'[p])
    BY <1>3 DEF Follows
  <1>5. JobFits(proposal[c], job[c][n], n)
    BY DEF IInv, Jobs
  <1>6. n <= proposal'[c].revision /\ (n = proposal'[c].revision => Pending(proposal'[c]))
    BY <1>1, <1>5 DEF JobFits
  <1>7. JobPart'
    BY <1>1, <1>2, <1>3, <1>4, <1>6, JobsLaunched DEF JobPart
  <1> QED  BY <1>1, <1>3, <1>4, <1>7, AloneFollows, RequestsKept, Together

LEMMA StopHolds ==
  ASSUME IInv, Stop
  PROVE  IInv' /\ Final
  <1>1. runner' \subseteq runner /\ UNCHANGED <<proposal, job, alias, latched, heard>>
    BY DEF Stop
  <1>2. /\ proposal' \in [Proposals -> Proposal]
        /\ \A p \in Proposals : Moves(proposal[p], proposal'[p])
        /\ ReadyCount(proposal') <= MaxReady
    BY <1>1 DEF IInv, TypeOK, Moves, Kept, SameContent, SamePlace, ReadyWithinCapacity
  <1> QED  BY <1>1, <1>2, RowsOnly

-----------------------------------------------------------------------------
(* Suggestions                                                             *)

\* A row that was written asks for its preparation.
LEMMA JobsPrepared ==
  ASSUME IInv, proposal' \in [Proposals -> Proposal],
         \A p \in Proposals : Follows(proposal[p], proposal'[p]),
         NEW c \in Proposals, NEW woken \in BOOLEAN, NEW row,
         proposal'[c] = row, Pending(row), PrepareAnew(c, row, woken),
         RequiresPreparation(row) =>
           row.revision \in 1..MaxRevision /\ job[c][row.revision].status # "running"
  PROVE  JobPart'
  <1>1. CASE RequiresPreparation(row)
    <2>1. Launch(c, row.revision, 1, woken)
      BY <1>1 DEF PrepareAnew
    <2>2. /\ row.revision \in 1..MaxRevision /\ job[c][row.revision].status # "running"
          /\ 1 \in 1..MaxAttempts /\ row.revision <= proposal'[c].revision
          /\ Pending(proposal'[c])
      BY <1>1, StoreAssumption
    <2> QED  BY <2>1, <2>2, JobsLaunched DEF JobPart
  <1>2. CASE ~RequiresPreparation(row)
    <2>1. job' = job /\ runner' \subseteq runner
      BY <1>2 DEF PrepareAnew
    <2> QED  BY <2>1, JobsKept DEF JobPart
  <1> QED  BY <1>1, <1>2

\* The row an unprepared card becomes when it is written.
LEMMA UnpreparedRow ==
  ASSUME NEW row \in Proposal
  PROVE  LET w == Revised(Unprepared(row)) IN
           /\ w \in Proposal /\ SamePlace(row, w)
           /\ w.status = row.status /\ w.lifecycle = row.lifecycle /\ w.kind = row.kind
           /\ w.revision = row.revision + 1 /\ row.revision \in Nat
  <1> DEFINE a == Awake(row)
             u == Unprepared(row)
  <1>1. a \in Proposal /\ SamePlace(row, a) /\ SameContent(row, a) /\ a.status = row.status /\ a.revision = row.revision
    BY RevisedRow
  <1>2. u = [a EXCEPT !.hash = None, !.refs = None, !.blocked = FALSE]
    BY DEF Unprepared
  <1> HIDE DEF a, u
  <1>3. /\ u \in Proposal /\ SamePlace(a, u) /\ u.status = a.status /\ u.lifecycle = a.lifecycle
        /\ u.kind = a.kind /\ u.revision = a.revision
    BY <1>1, <1>2 DEF Proposal, SamePlace
  <1>4. /\ Revised(u) \in Proposal /\ SamePlace(u, Revised(u)) /\ SameContent(u, Revised(u))
        /\ Revised(u).status = u.status /\ Revised(u).revision = u.revision + 1
    BY <1>3, RevisedRow
  <1>5. row.revision \in Nat
    BY DEF Proposal
  <1> QED  BY <1>1, <1>3, <1>4, <1>5 DEF SamePlace, SameContent, u

\* Back in preparation.
LEMMA ReturnedMoves ==
  ASSUME NEW row \in Proposal, Pending(row)
  PROVE  LET back == [Revised(Unprepared(row)) EXCEPT !.lifecycle = "preparing"] IN
           /\ Moves(row, back) /\ Pending(back) /\ ~Occupies(back)
           /\ back.revision = row.revision + 1
  <1> DEFINE w == Revised(Unprepared(row))
             back == [w EXCEPT !.lifecycle = "preparing"]
  <1>1. /\ w \in Proposal /\ SamePlace(row, w) /\ w.status = row.status
        /\ w.revision = row.revision + 1 /\ row.revision \in Nat
    BY UnpreparedRow
  <1> HIDE DEF w
  <1>2. /\ back \in Proposal /\ SamePlace(w, back) /\ back.status = w.status
        /\ back.lifecycle = "preparing" /\ back.revision = w.revision
    BY <1>1 DEF Proposal, Lifecycles, SamePlace
  <1> HIDE DEF back
  <1>3. Moves(row, back) /\ Pending(back) /\ ~Occupies(back) /\ back.revision = row.revision + 1
    BY <1>1, <1>2 DEF Moves, Rewritten, SamePlace, FitRow, Pending, Occupies
  <1> QED  BY <1>3 DEF back, w

\* Evidence merged into an open card.
LEMMA MergedMoves ==
  ASSUME NEW row \in Proposal, Pending(row), NEW plan \in Plans \cup Texts, NEW fresh \in BOOLEAN
  PROVE  /\ Moves(row, Merged(row, plan, fresh)) /\ Pending(Merged(row, plan, fresh))
         /\ Occupies(Merged(row, plan, fresh)) => Occupies(row)
  <1> DEFINE m == Merged(row, plan, fresh)
             w == Revised(Unprepared(row))
             v == [w EXCEPT !.plan = plan]
             b == [v EXCEPT !.lifecycle = "preparing"]
  <1>1. CASE ~fresh /\ plan = row.plan
    <2>1. m = row
      BY <1>1 DEF Merged
    <2> QED  BY <2>1 DEF Moves, Kept, SameContent, SamePlace
  <1>2. CASE fresh \/ plan # row.plan
    <2>1. m = IF RequiresPreparation(v) THEN b ELSE v
      BY <1>2 DEF Merged
    <2>2. /\ w \in Proposal /\ SamePlace(row, w) /\ w.status = row.status /\ w.lifecycle = row.lifecycle
          /\ w.revision = row.revision + 1 /\ row.revision \in Nat
      BY UnpreparedRow
    <2> HIDE DEF w, m
    <2>3. /\ v \in Proposal /\ SamePlace(w, v) /\ v.status = w.status /\ v.lifecycle = w.lifecycle
          /\ v.revision = w.revision
      BY <2>2 DEF Proposal, SamePlace
    <2> HIDE DEF v
    <2>4. /\ b \in Proposal /\ SamePlace(v, b) /\ b.status = v.status /\ b.lifecycle = "preparing"
          /\ b.revision = v.revision
      BY <2>3 DEF Proposal, SamePlace, Lifecycles
    <2> HIDE DEF b
    <2>5. Moves(row, m) /\ Pending(m) /\ (Occupies(m) => Occupies(row))
      BY <2>1, <2>2, <2>3, <2>4 DEF Moves, Rewritten, SamePlace, FitRow, Pending, Occupies
    <2> QED  BY <2>5 DEF m
  <1> QED  BY <1>1, <1>2

LEMMA ReturnToPreparationHolds ==
  ASSUME IInv, NEW c \in Proposals, NEW woken \in BOOLEAN, ReturnToPreparation(c, woken)
  PROVE  IInv' /\ Final
  <1> DEFINE row == [Revised(Unprepared(proposal[c])) EXCEPT !.lifecycle = "preparing"]
  <1>1. /\ Pending(proposal[c]) /\ ~Collides(c, row) /\ PrepareAnew(c, row, woken)
        /\ proposal' = [proposal EXCEPT ![c] = row] /\ UNCHANGED <<alias, latched, heard>>
        /\ proposal[c].revision < MaxRevision
    BY DEF ReturnToPreparation, Card, Change, Revisable
  <1>2. proposal[c] \in Proposal /\ proposal[c].revision \in Nat
    BY <1>1, OpenCard
  <1>3. /\ Moves(proposal[c], row) /\ Pending(row) /\ ~Occupies(row)
        /\ row.revision = proposal[c].revision + 1
    BY <1>1, <1>2, ReturnedMoves
  <1> HIDE DEF row
  <1>4. /\ proposal' \in [Proposals -> Proposal] /\ \A p \in Proposals : Moves(proposal[p], proposal'[p])
        /\ ReadyCount(proposal') <= MaxReady
    BY <1>1, <1>3, CardWritten
  <1>5. \A p \in Proposals : Follows(proposal[p], proposal'[p])
    BY <1>4 DEF Follows
  <1>6. row.revision \in 1..MaxRevision /\ proposal'[c] = row
    BY <1>1, <1>2, <1>3, StoreAssumption DEF IInv, TypeOK
  <1>7. RequiresPreparation(row) => job[c][row.revision].status # "running"
    BY <1>1 DEF Collides
  <1>8. JobPart'
    BY <1>1, <1>3, <1>4, <1>5, <1>6, <1>7, JobsPrepared
  <1>9. latched' \subseteq latched /\ latched' \subseteq Keys
    BY <1>1 DEF IInv, TypeOK
  <1> QED  BY <1>1, <1>4, <1>5, <1>8, <1>9, AloneFollows, RequestsKept, Together

LEMMA MergeSuggestionHolds ==
  ASSUME IInv, NEW r \in Requests, NEW k \in Keys, NEW plan \in Plans \cup Texts, NEW lane \in Lanes,
         NEW c \in Proposals, NEW fresh \in BOOLEAN, NEW woken \in BOOLEAN,
         MergeSuggestion(r, k, plan, lane, c, fresh, woken)
  PROVE  IInv' /\ Final
  <1>1. PICK ps \in Swept :
          /\ c \in Unresolved(ps, k)
          /\ Merged(ps[c], plan, fresh).revision <= MaxRevision
          /\ ~Collides(c, Merged(ps[c], plan, fresh))
          /\ proposal' = [ps EXCEPT ![c] = Merged(ps[c], plan, fresh)]
          /\ PrepareAnew(c, Merged(ps[c], plan, fresh), woken)
          /\ Accept(r, c)
    BY DEF MergeSuggestion
  <1> DEFINE row == Merged(ps[c], plan, fresh)
  <1>2. /\ ps \in [Proposals -> Proposal] /\ \A p \in Proposals : Moves(proposal[p], ps[p])
        /\ ReadyCount(ps) <= MaxReady
    BY SweptMoves
  <1>3. Pending(ps[c])
    BY <1>1 DEF Unresolved
  <1>4. Moves(ps[c], row) /\ Pending(row) /\ (Occupies(row) => Occupies(ps[c]))
    BY <1>2, <1>3, MergedMoves
  <1>5. /\ row.revision <= MaxRevision /\ ~Collides(c, row) /\ PrepareAnew(c, row, woken)
        /\ proposal' = [ps EXCEPT ![c] = row] /\ Accept(r, c)
        /\ alias[r] = None /\ latched' = latched
    BY <1>1 DEF MergeSuggestion
  <1> HIDE DEF row
  <1>6. \A p \in Proposals : proposal'[p] = IF p = c THEN row ELSE ps[p]
    BY <1>2, <1>5
  <1>7. row \in Proposal /\ proposal \in [Proposals -> Proposal]
    BY <1>4 DEF Moves, IInv, TypeOK
  <1>8. /\ proposal' \in [Proposals -> Proposal] /\ \A p \in Proposals : Moves(proposal[p], proposal'[p])
    <2>1. Moves(proposal[c], row)
      BY <1>2, <1>4, <1>7, MovesCompose
    <2> QED  BY <2>1, <1>2, <1>5, <1>6, <1>7
  <1>9. ReadyCount(proposal') <= MaxReady
    <2>1. ReadyCount(proposal') <= ReadyCount(ps)
      BY <1>4, <1>6, NoNewSlot
    <2> QED  BY <2>1, <1>2, ReadyCountIs, StoreAssumption
  <1>10. \A p \in Proposals : Follows(proposal[p], proposal'[p])
    BY <1>8 DEF Follows
  <1>11. row.revision \in 1..MaxRevision /\ proposal'[c] = row
    BY <1>5, <1>6, <1>7, StoreAssumption DEF Proposal
  <1>12. RequiresPreparation(row) => job[c][row.revision].status # "running"
    BY <1>5 DEF Collides
  <1>13. JobPart'
    BY <1>4, <1>5, <1>8, <1>10, <1>11, <1>12, JobsPrepared
  <1>14. latched' \subseteq latched /\ latched' \subseteq Keys
    BY <1>5 DEF IInv, TypeOK
  <1> QED  BY <1>5, <1>8, <1>9, <1>10, <1>13, <1>14, AloneFollows, RequestAccepted, Together

LEMMA NewRow ==
  ASSUME NEW k \in Keys, NEW plan \in Plans \cup Texts, NEW lane \in Lanes
  PROVE  LET row == NewProposal(k, plan, lane) IN
           /\ row \in Proposal /\ FitRow(row) /\ Pending(row) /\ row.key = k /\ row.revision = 1
           /\ Occupies(row) => plan \notin Plans
  <1> DEFINE row == NewProposal(k, plan, lane)
  <1> USE StoreAssumption
  <1>1. /\ row.status = "pending_review" /\ row.revision = 1 /\ row.key = k /\ row.lane = lane
        /\ row.lifecycle = IF plan \in Plans THEN "preparing" ELSE "ready"
        /\ row.kind = KindOf(plan) /\ row.plan = plan
    BY DEF NewProposal, NoProposal
  <1>2. row \in Proposal
    <2>1. NoProposal \in Proposal
      BY DEF NoProposal, Proposal, Statuses, Lifecycles
    <2>2. PICK lifecycle \in {"preparing", "ready"}, kind \in {"automation-draft", "household-insight"} :
            row = [NoProposal EXCEPT !.status = "pending_review", !.lifecycle = lifecycle,
                                     !.key = k, !.lane = lane, !.kind = kind, !.plan = plan]
      BY DEF NewProposal, KindOf
    <2> HIDE DEF row
    <2>3. lane \in {"standard", "migration"}
      OBVIOUS
    <2> QED  BY <2>1, <2>2, <2>3 DEF Proposal, Statuses, Lifecycles
  <1> HIDE DEF row
  <1>3. FitRow(row) /\ Pending(row) /\ (Occupies(row) => plan \notin Plans)
    BY <1>1 DEF FitRow, RequiresPreparation, Pending, Occupies
  <1> QED  BY <1>1, <1>2, <1>3 DEF row

LEMMA AdmitHolds ==
  ASSUME IInv, NEW r \in Requests, NEW k \in Keys, NEW plan \in Plans \cup Texts, NEW lane \in Lanes,
         NEW c \in Proposals, NEW woken \in BOOLEAN, Admit(r, k, plan, lane, c, woken)
  PROVE  IInv' /\ Final
  <1> DEFINE row == NewProposal(k, plan, lane)
  <1>1. PICK ps \in Swept :
          Unresolved(ps, k) = {} /\ ~AdmissionFull(ps, plan) /\ proposal' = [ps EXCEPT ![c] = row]
    BY DEF Admit
  <1>2. /\ proposal[c].status = "absent" /\ alias[r] = None /\ k \notin latched
        /\ PrepareAnew(c, row, woken) /\ Accept(r, c) /\ latched' = latched
    BY DEF Admit
  <1>3. /\ row \in Proposal /\ FitRow(row) /\ Pending(row) /\ row.key = k /\ row.revision = 1
        /\ Occupies(row) => plan \notin Plans
    BY NewRow
  <1> HIDE DEF row
  <1>4. /\ ps \in [Proposals -> Proposal] /\ \A p \in Proposals : Moves(proposal[p], ps[p])
        /\ ReadyCount(ps) <= MaxReady
    BY SweptMoves
  <1>5. \A p \in Proposals : proposal'[p] = IF p = c THEN row ELSE ps[p]
    BY <1>1, <1>4
  <1>6. proposal' \in [Proposals -> Proposal]
    BY <1>1, <1>3, <1>4
  <1>7. proposal[c].revision = 1 /\ proposal \in [Proposals -> Proposal]
    BY <1>2 DEF IInv, Rows, TypeOK
  <1>8. \A p \in Proposals : Follows(proposal[p], proposal'[p])
    BY <1>2, <1>3, <1>4, <1>5, <1>7 DEF Follows, Admitted
  <1>9. ReadyCount(proposal') <= MaxReady
    <2>1. CASE plan \in Plans
      <3>1. \A p \in Proposals : Occupies(proposal'[p]) => Occupies(ps[p])
        BY <2>1, <1>3, <1>5
      <3>2. ReadyCount(proposal') <= ReadyCount(ps)
        BY <3>1, NoNewSlot
      <3> QED  BY <3>2, <1>4, ReadyCountIs, StoreAssumption
    <2>2. CASE plan \notin Plans
      <3>1. ReadyCount(ps) < MaxReady
        BY <2>2, <1>1, <1>4, ReadyCountIs, StoreAssumption DEF AdmissionFull
      <3>2. ReadyCount(proposal') <= ReadyCount(ps) + 1
        BY <1>5, OneNewSlot
      <3> QED  BY <3>1, <3>2, ReadyCountIs, StoreAssumption
    <2> QED  BY <2>1, <2>2
  <1>10. Alone'
    <2>1. \A p \in Proposals :
            Pending(ps[p]) => /\ Pending(proposal[p]) /\ ps[p].key = proposal[p].key
                              /\ ps[p].status # "absent"
      BY <1>4 DEF Moves, Kept, Rewritten, SamePlace, Pending
    <2>2. \A p \in Proposals : Pending(ps[p]) => ps[p].key # k
      BY <1>1, <2>1 DEF Unresolved, WithKey
    <2>3. \A p \in Proposals :
            Pending(proposal'[p]) =>
              \/ p = c /\ proposal'[p].key = k
              \/ /\ p # c /\ Pending(proposal[p]) /\ proposal'[p].key = proposal[p].key
                 /\ proposal'[p].key # k
      BY <1>3, <1>5, <2>1, <2>2
    <2>4. Alone
      BY DEF IInv
    <2> QED  BY <2>3, <2>4, <1>2 DEF Alone
  <1>11. RequiresPreparation(row) =>
           row.revision \in 1..MaxRevision /\ job[c][row.revision].status # "running"
    <2>1. 1 \in 1..MaxRevision
      BY StoreAssumption
    <2>2. JobFits(proposal[c], job[c][1], 1)
      BY <2>1 DEF IInv, Jobs
    <2> QED  BY <2>1, <2>2, <1>2, <1>3, <1>7 DEF JobFits, Pending
  <1>12. JobPart' /\ latched' \subseteq Keys
    <2>1. proposal'[c] = row
      BY <1>5
    <2> QED  BY <2>1, <1>2, <1>3, <1>6, <1>8, <1>11, JobsPrepared DEF IInv, TypeOK
  <1> QED  BY <1>2, <1>6, <1>8, <1>9, <1>10, <1>12, RequestAccepted, Together

-----------------------------------------------------------------------------
(* Theorems                                                                *)

LEMMA InitHolds ==
  ASSUME Init
  PROVE  IInv
  <1> USE StoreAssumption DEF Init
  <1>1. TypeOK
    BY DEF TypeOK, Proposal, Job, NoProposal, NoJob, Statuses, Lifecycles
  <1>2. Rows /\ Alone
    BY DEF Rows, Alone, FitRow, NoProposal, Pending
  <1>3. Jobs /\ Attempts /\ Heard
    BY DEF Jobs, JobFits, NoJob, Attempts, OneAttemptAtATime, Heard
  <1>4. ReadyWithinCapacity
    <2>1. ReadySet(proposal) = {}
      BY DEF ReadySet, Occupies, Pending, NoProposal
    <2> QED  BY <2>1, ReadyCountIs, FS_EmptySet DEF ReadyWithinCapacity
  <1> QED  BY <1>1, <1>2, <1>3, <1>4 DEF IInv

LEMMA StepHolds ==
  ASSUME IInv, [Next]_vars
  PROVE  IInv' /\ Final
  <1>1. CASE Sweep
    BY <1>1, SweepHolds
  <1>2. CASE Suggestion
    BY <1>2, AdmitHolds, MergeSuggestionHolds DEF Suggestion
  <1>3. CASE Preparation
    BY <1>3, ReadSourceHolds, CompletePreparationHolds, CompleteAndStopHolds, FailPreparationHolds,
       RetryPreparationHolds, StopHolds DEF Preparation
  <1>4. CASE Household
    BY <1>4, SnoozeHolds, DoNotSuggestHolds, EnableHolds, MarkBlockedHolds, ClearBlockHolds,
       DecideHolds, ReturnToPreparationHolds, ClearLatchHolds DEF Household
  <1>5. CASE Clock
    BY <1>5, ClockHolds DEF Clock
  <1>6. CASE UNCHANGED vars
    <2>1. runner' \subseteq runner /\ UNCHANGED <<proposal, job, alias, latched, heard>>
      BY <1>6 DEF vars
    <2>2. /\ proposal' \in [Proposals -> Proposal]
          /\ \A p \in Proposals : Moves(proposal[p], proposal'[p])
          /\ ReadyCount(proposal') <= MaxReady
      BY <2>1 DEF IInv, TypeOK, Moves, Kept, SameContent, SamePlace, ReadyWithinCapacity
    <2> QED  BY <2>1, <2>2, RowsOnly
  <1> QED  BY <1>1, <1>2, <1>3, <1>4, <1>5, <1>6 DEF Next

\* The strengthening is an invariant: rows, jobs, attempts, behaviors and
\* requests fit each other in every state of the store.
THEOREM Invariance == Spec => []IInv
  BY InitHolds, StepHolds, PTL DEF Spec

\* The tables keep their shapes: every value the store writes is one fromRow
\* accepts.
THEOREM TypesHold == Spec => []TypeOK
  <1>1. IInv => TypeOK
    BY DEF IInv
  <1> QED  BY <1>1, Invariance, PTL

\* However completions, promotions, merges and admissions race, the ready
\* standard cards stay within MaxReady (readyCountInTransaction's users).
THEOREM CapacityHolds == Spec => []ReadyWithinCapacity
  <1>1. IInv => ReadyWithinCapacity
    BY DEF IInv
  <1> QED  BY <1>1, Invariance, PTL

\* One open card per behavior, and none while its latch stands
\* (createGovernedInLane, decideProposal).
THEOREM BehaviorsHoldOneCard == Spec => []OneCardPerBehavior
  <1>1. IInv => OneCardPerBehavior
    <2> SUFFICES ASSUME IInv, NEW k \in Keys
                 PROVE  LET open == {p \in Proposals : Pending(proposal[p]) /\ proposal[p].key = k} IN
                          Cardinality(open) <= 1 /\ (k \in latched => open = {})
      BY DEF OneCardPerBehavior
    <2> DEFINE open == {p \in Proposals : Pending(proposal[p]) /\ proposal[p].key = k}
    <2>1. open = {} \/ \E p \in Proposals : open = {p}
      BY DEF IInv, Alone
    <2>2. k \in latched => open = {}
      BY DEF IInv, Alone
    <2> HIDE DEF open
    <2>3. Cardinality(open) <= 1
      BY <2>1, FS_EmptySet, FS_Singleton
    <2> QED  BY <2>2, <2>3 DEF open
  <1> QED  BY <1>1, Invariance, PTL

\* A ready or enabled card was compiled from exactly the plan on it
\* (markProposalReady, promotePreparedInTransaction, mergeProposalEvidence).
THEOREM ReadyCardsArePrepared == Spec => []ReadyIsPrepared
  <1>1. IInv => ReadyIsPrepared
    BY DEF IInv, Rows, FitRow, ReadyIsPrepared
  <1> QED  BY <1>1, Invariance, PTL

\* A request delivered again is never counted towards a second card (the
\* idempotency aliases).
THEOREM RequestsAreHeardOnce == Spec => []HeardOnce
  <1>1. IInv => HeardOnce
    <2> SUFFICES ASSUME IInv, NEW r \in Requests
                 PROVE  Cardinality(heard[r]) <= 1
      BY DEF HeardOnce
    <2>1. heard[r] = {} \/ heard[r] = {alias[r]}
      BY DEF IInv, Heard
    <2>2. CASE heard[r] = {}
      BY <2>2, FS_EmptySet
    <2>3. CASE heard[r] = {alias[r]}
      <3>1. Cardinality({alias[r]}) = 1
        BY FS_Singleton
      <3> QED  BY <2>3, <3>1
    <2> QED  BY <2>1, <2>2, <2>3
  <1> QED  BY <1>1, Invariance, PTL

\* Across retries, wakes and restarts a job has at most one attempt running,
\* the one its row records (claimPreparationJob).
THEOREM AttemptsAreSingle == Spec => []OneAttemptAtATime
  <1>1. IInv => OneAttemptAtATime
    BY DEF IInv, Attempts
  <1> QED  BY <1>1, Invariance, PTL

\* No late completion, merge or sweep changes a card once it is decided or
\* expired (the revision checks of transition and merge).
THEOREM DecisionsStand == Spec => DecisionsAreFinal
  <1>1. IInv /\ [Next]_vars =>
          [\A p \in Proposals :
             proposal[p].status \in {"approved", "rejected", "expired"} => proposal'[p] = proposal[p]]_vars
    BY StepHolds DEF Final
  <1> QED  BY <1>1, Invariance, PTL DEF Spec, DecisionsAreFinal

=============================================================================
