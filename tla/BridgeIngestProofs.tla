-------------------------- MODULE BridgeIngestProofs --------------------------
(* Theorems about BridgeIngest, for any devices, values, streams and bounds:   *)
(* what a restart finds in the journal and what the household is shown.        *)
EXTENDS BridgeIngest, TLAPS, FiniteSetTheorems, FunctionTheorems, NaturalsInduction, WellFoundedInduction

(* The rows of an epoch, those up to a sequence number, the accepted ones among them. *)
Rows(J, e)        == {r \in J : r.epoch = e}
Front(J, e, n)    == {r \in J : r.epoch = e /\ r.seq <= n}
Accepted(J, e, n) == {r \in J : r.table = "event" /\ r.epoch = e /\ r.seq <= n}

With(rows, x)     == rows \cup {x}

(* Rows numbered 1 to n, each number once; how many of them a manifest counts. *)
Numbered(rows, n) == {r.seq : r \in rows} = 1..n /\ \A r, q \in rows : r.seq = q.seq => r = q
Tally(rows)       == Cardinality({q \in rows : Counted(q.event) = 1})

(* The value a device has after its state rows. *)
LastIs(rows, v) ==
  \/ rows = {} /\ v = None
  \/ \E r \in rows : r.event.value = v /\ \A q \in rows : q.seq <= r.seq

(* A shadow holds what the accepted rows of its replay say. *)
Content(sh, rows) ==
  \A d \in Device :
    /\ d \in sh.descriptors <=> About(rows, "device-upserted", d) # {}
    /\ LastIs(About(rows, "state", d), sh.states[d])

RebuiltFrom(rows) ==
  LET last(d) == CHOOSE r \in About(rows, "state", d) :
                   \A q \in About(rows, "state", d) : q.seq <= r.seq
  IN [d \in Device |->
        IF About(rows, "device-upserted", d) = {} THEN None
        ELSE [state |-> IF About(rows, "state", d) = {} THEN None ELSE last(d).event.value,
              validity |-> "valid"]]

(* A world and the one its rows rebuild agree where the world is sure. *)
Shown(w, rows) ==
  \A d \in Device :
    /\ w[d] # None /\ w[d].validity = "valid" => RebuiltFrom(rows)[d] = w[d]
    /\ w[d] = None => RebuiltFrom(rows)[d] = None

Begun(rows)      == \E r \in rows : r.event.kind = "sync-start"

(* Failed commits of an epoch, and those of its envelopes up to n.             *)
Efforts(F, e)    == {f \in F : f.epoch = e}
Tried(F, e, n)   == {f \in F : f.epoch = e /\ f.seq <= n}

(* Epoch e is on record from its start to the manifest that closed it at n. *)
Whole(J, F, e, n) ==
  /\ n \in 1..MaxSeq
  /\ Numbered(Front(J, e, n), n)
  /\ Begun(Accepted(J, e, n))
  /\ \E r \in Accepted(J, e, n) :
       /\ r.seq = n /\ r.event.kind = "sync-complete"
       /\ r.event.count = Tally(Front(J, e, n)) + Tally(Tried(F, e, n))

(* The rows of an epoch end at n, or at one more, whose commit was reported as  *)
(* failed.                                                                     *)
Standing(J, F, e, n) ==
  \/ Numbered(Rows(J, e), n)
  \/ Numbered(Rows(J, e), n + 1) /\ \E f \in Efforts(F, e) : f.seq = n + 1

-----------------------------------------------------------------------------
(* The inductive invariant                                                     *)

Types ==
  /\ opened \in 0..MaxEpoch /\ faults \in Nat
  /\ fence \in [epoch : 1..opened \cup {None}, cursor : 0..MaxSeq, broken : BOOLEAN, awaiting : BOOLEAN]
  /\ shadow \in Shadow \cup {None} /\ world \in Worlds
  /\ watermark \in [epoch : 1..opened, seq : 1..MaxSeq] \cup {None}
  /\ verified \subseteq 1..opened
  /\ \A r \in journal :
       /\ r.epoch \in 1..opened /\ r.seq \in 1..MaxSeq
       /\ r.table = "event" /\ r.event.kind = "state" => r.event.value \in Value \cup {None}
  /\ IsFiniteSet(refused)
  /\ \A f \in refused : f.epoch \in 1..opened /\ f.seq \in Nat /\ f.fault \in 1..faults

(* Unverified epochs have no hole; fence and watermark stand at their ends. *)
JournalFits ==
  /\ \A e \in Epochs \ verified : \E n \in Nat : Numbered(Rows(journal, e), n)
  /\ fence.epoch \in Epochs \ verified => Standing(journal, refused, fence.epoch, fence.cursor)
  /\ watermark # None /\ watermark.epoch \notin verified =>
       /\ \E r \in Rows(journal, watermark.epoch) : r.seq = watermark.seq
       /\ \A r \in Rows(journal, watermark.epoch) :
            r.table \in {"rejection", "extension"} \/ r.seq <= watermark.seq

(* The start of a refused epoch blocks every envelope of the stream. *)
StartRefused ==
  fence.cursor = 0 /\ \E f \in refused : f.epoch = fence.epoch /\ f.seq = 1 /\ f.event.kind = "sync-start"

(* A replay in progress: the shadow is what the rows of the epoch say. *)
ReplayFits ==
  shadow # None =>
    /\ finishing = "no" /\ fence.epoch \in Epochs \ verified
    /\ Content(shadow, Accepted(journal, fence.epoch, fence.cursor))
    /\ shadow.count = Tally(Front(journal, fence.epoch, fence.cursor)) + Tally(Efforts(refused, fence.epoch))
    /\ \A f \in Efforts(refused, fence.epoch) : f.seq <= fence.cursor + 1
    /\ Begun(Accepted(journal, fence.epoch, fence.cursor)) \/ StartRefused

(* A replay exchanged and not yet marked. *)
FinishFits ==
  finishing # "no" =>
    /\ fence.epoch \in Epochs \ verified
    /\ Whole(journal, refused, fence.epoch, fence.cursor)
    /\ Shown(world, Accepted(journal, fence.epoch, fence.cursor))

(* The epoch a restart goes back to; nothing is written below its mark again. *)
ConsistentFits ==
  consistent # None =>
    /\ consistent.epoch \in verified
    /\ Whole(journal, refused, consistent.epoch, consistent.seq)
    /\ Shown(exchanged, Accepted(journal, consistent.epoch, consistent.seq))
    /\ fence.epoch = consistent.epoch => consistent.seq <= fence.cursor
    /\ watermark # None /\ watermark.epoch = consistent.epoch => consistent.seq <= watermark.seq

(* Without a shadow, only a verified epoch is received on an open stream. *)
LoopFits ==
  /\ pump # "reading" => stream = "aborted"
  /\ shadow = None /\ fence.epoch # None /\ ~fence.awaiting /\ ~fence.broken
       => fence.epoch \in verified \/ finishing # "no" \/ stream # "open"

(* What the world may do in a step: VerifiedViewHolds without its box. *)
ViewStep ==
  world' # world =>
    \/ shadow # None /\ shadow' = None /\ fence'.epoch = fence.epoch
    \/ shadow = None /\ fence.epoch \in verified /\ ~fence.broken /\ conn \notin Closed
    \/ faults' # faults /\ world' = Restored

IInv == Types /\ JournalFits /\ ReplayFits /\ FinishFits /\ ConsistentFits /\ LoopFits

-----------------------------------------------------------------------------
(* Sets of rows                                                                *)

(* Numbered rows are as many as their last number.                             *)
LEMMA NumberedCount ==
  ASSUME NEW rows, NEW n \in Nat, Numbered(rows, n)
  PROVE  IsFiniteSet(rows) /\ Cardinality(rows) = n
  <1> DEFINE F == [r \in rows |-> r.seq]
  <1>1. F \in Bijection(rows, 1..n)
    BY Fun_IsBij DEF Numbered
  <1>2. ExistsBijection(1..n, rows)
    BY <1>1, Fun_BijInverse, Fun_ExistsBij
  <1>3. IsFiniteSet(1..n) /\ Cardinality(1..n) = n
    BY FS_Interval
  <1> QED  BY <1>2, <1>3, FS_Bijection

(* A set of sequence numbers has a greatest one.                               *)
LEMMA GreatestExists ==
  ASSUME NEW m \in Nat, NEW S \in SUBSET (1..m), S # {}
  PROVE  \E n \in S : \A k \in S : k <= n
  <1> DEFINE T == {i \in Nat : m - i \in S}
  <1>1. T \subseteq Nat /\ T # {}
    <2>1. PICK s \in S : TRUE
      OBVIOUS
    <2>2. m - s \in Nat /\ m - (m - s) = s
      OBVIOUS
    <2> QED  BY <2>1, <2>2
  <1> HIDE DEF T
  <1>2. PICK x \in T : \A y \in T : ~ (<<y, x>> \in OpToRel(<, Nat))
    BY <1>1, NatLessThanWellFounded, WFMin
  <1>3. \A y \in T : ~ (y < x)
    BY <1>1, <1>2 DEF OpToRel
  <1>4. m - x \in S /\ x \in Nat
    BY <1>1 DEF T
  <1>5. ASSUME NEW k \in S PROVE k <= m - x
    <2>1. m - k \in Nat /\ m - (m - k) = k
      OBVIOUS
    <2>2. m - k \in T
      BY <2>1 DEF T
    <2> QED  BY <2>1, <2>2, <1>3, <1>4
  <1> QED  BY <1>4, <1>5

(* The next row of an epoch keeps its numbering, also when it is there already. *)
LEMMA NumberedNext ==
  ASSUME NEW rows, NEW n \in Nat, Numbered(rows, n) \/ Numbered(rows, n + 1),
         NEW x, x.seq = n + 1, \A r \in rows : r.seq = n + 1 => r = x
  PROVE  Numbered(With(rows, x), n + 1) /\ \A r \in rows : r.seq \in 1..n \/ r = x
  <1>1. 1..(n + 1) = (1..n) \cup {n + 1}
    OBVIOUS
  <1>2. \A r \in rows : r.seq \in 1..n \/ r = x
    BY <1>1 DEF Numbered
  <1>3. {r.seq : r \in rows \cup {x}} = {r.seq : r \in rows} \cup {n + 1}
    OBVIOUS
  <1>4. {r.seq : r \in rows} = 1..n \/ {r.seq : r \in rows} = 1..(n + 1)
    BY DEF Numbered
  <1>5. {r.seq : r \in rows \cup {x}} = 1..(n + 1)
    BY <1>1, <1>3, <1>4
  <1>6. \A r, q \in rows : r.seq = q.seq => r = q
    BY DEF Numbered
  <1>7. \A r, q \in rows \cup {x} : r.seq = q.seq => r = q
    BY <1>6
  <1> QED  BY <1>2, <1>5, <1>7 DEF Numbered, With

LEMMA TallyType ==
  ASSUME NEW rows, IsFiniteSet(rows)
  PROVE  Tally(rows) \in Nat
  <1>1. IsFiniteSet({q \in rows : Counted(q.event) = 1})
    BY FS_Subset
  <1> QED  BY <1>1, FS_CardinalityType DEF Tally

(* It is counted when it brings a device or a state.                           *)
LEMMA TallyNext ==
  ASSUME NEW rows, IsFiniteSet(rows), NEW x, x \notin rows
  PROVE  Tally(With(rows, x)) = Tally(rows) + Counted(x.event)
  <1> DEFINE C(R) == {q \in R : Counted(q.event) = 1}
  <1>1. IsFiniteSet(C(rows)) /\ x \notin C(rows) /\ Cardinality(C(rows)) \in Nat
    BY FS_Subset, FS_CardinalityType
  <1>2. Counted(x.event) \in {0, 1}
    BY DEF Counted
  <1>0. Tally(rows) = Cardinality(C(rows)) /\ Tally(With(rows, x)) = Cardinality(C(rows \cup {x}))
    BY DEF Tally, With
  <1>3. CASE Counted(x.event) = 1
    <2>1. C(rows \cup {x}) = C(rows) \cup {x}
      BY <1>3
    <2>2. Cardinality(C(rows) \cup {x}) = Cardinality(C(rows)) + 1
      BY <1>1, FS_AddElement
    <2> QED  BY <1>0, <1>3, <2>1, <2>2
  <1>4. CASE Counted(x.event) = 0
    <2>1. C(rows \cup {x}) = C(rows)
      BY <1>4
    <2> HIDE DEF C
    <2> QED  BY <1>0, <1>1, <1>4, <2>1
  <1> QED  BY <1>2, <1>3, <1>4

(* What the next row of an epoch adds to its rows, and to the accepted ones.    *)
LEMMA AcceptedNext ==
  ASSUME NEW J, NEW e, NEW n \in Nat, Numbered(Rows(J, e), n) \/ Numbered(Rows(J, e), n + 1),
         NEW x, x.epoch = e, x.seq = n + 1, \A r \in Rows(J, e) : r.seq = n + 1 => r = x
  PROVE  /\ Accepted(With(J, x), e, n + 1)
              = IF x.table = "event" THEN With(Accepted(J, e, n), x) ELSE Accepted(J, e, n)
         /\ Front(With(J, x), e, n + 1) = With(Front(J, e, n), x)
         /\ Rows(With(J, x), e) = With(Rows(J, e), x)
         /\ \A r \in Front(J, e, n) : r.seq \in 1..n
         /\ \A r \in Accepted(J, e, n) : r.seq \in 1..n
         /\ x \notin Front(J, e, n)
  <1>1. \A r \in Rows(J, e) : r.seq \in 1..n \/ r = x
    BY NumberedNext
  <1>2. Rows(With(J, x), e) = With(Rows(J, e), x)
    BY DEF Rows, With
  <1>3. \A r \in J : r.epoch = e => (r.seq \in 1..n /\ r.seq <= n /\ r.seq <= n + 1) \/ r = x
    BY <1>1 DEF Rows
  <1>4. x.seq <= n + 1 /\ ~(x.seq <= n)
    OBVIOUS
  <1>5. Accepted(With(J, x), e, n + 1)
          = IF x.table = "event" THEN With(Accepted(J, e, n), x) ELSE Accepted(J, e, n)
    BY <1>3, <1>4 DEF Accepted, With
  <1>6. Front(With(J, x), e, n + 1) = With(Front(J, e, n), x)
    BY <1>3, <1>4 DEF Front, With
  <1>7. x \notin Front(J, e, n) /\ \A r \in Front(J, e, n) : r.seq \in 1..n
    BY <1>3, <1>4 DEF Front
  <1>8. \A r \in Accepted(J, e, n) : r \in Front(J, e, n)
    BY DEF Accepted, Front
  <1> QED  BY <1>2, <1>5, <1>6, <1>7, <1>8

(* Its rows up to n are finitely many.                                          *)
LEMMA FrontFinite ==
  ASSUME NEW J, NEW e, NEW n \in Nat, NEW m \in Nat, Numbered(Rows(J, e), m)
  PROVE  IsFiniteSet(Front(J, e, n))
  <1>1. IsFiniteSet(Rows(J, e)) /\ Front(J, e, n) \subseteq Rows(J, e)
    BY NumberedCount DEF Front, Rows
  <1> QED  BY <1>1, FS_Subset

(* A failed commit more among those of its epoch, and of no other.              *)
LEMMA EffortsNext ==
  ASSUME NEW F, NEW e, NEW f, f.epoch = e, f.seq \in Nat
  PROVE  /\ Efforts(With(F, f), e) = With(Efforts(F, e), f)
         /\ \A a : \A n \in Nat : a # e \/ n < f.seq => Tried(With(F, f), a, n) = Tried(F, a, n)
  BY DEF Efforts, Tried, With

(* The rows up to n of an epoch that has n rows are all of its rows.           *)
LEMMA FrontIsAll ==
  ASSUME NEW J, NEW e, NEW n \in Nat, Numbered(Rows(J, e), n)
  PROVE  Front(J, e, n) = Rows(J, e)
  BY DEF Front, Rows, Numbered

(* Two journals with one front say the same of an epoch.                       *)
LEMMA SameFront ==
  ASSUME NEW J, NEW K, NEW e, NEW n, Front(K, e, n) = Front(J, e, n)
  PROVE  /\ Accepted(K, e, n) = Accepted(J, e, n)
         /\ \A F, G : Tried(F, e, n) = Tried(G, e, n) /\ Whole(J, F, e, n) => Whole(K, G, e, n)
  <1>1. /\ Accepted(K, e, n) = {r \in Front(K, e, n) : r.table = "event"}
        /\ Accepted(J, e, n) = {r \in Front(J, e, n) : r.table = "event"}
    BY DEF Accepted, Front
  <1>2. Accepted(K, e, n) = Accepted(J, e, n)
    BY <1>1
  <1> QED  BY <1>2 DEF Whole

(* A row beyond n, or of another epoch, leaves a front alone.                  *)
LEMMA FrontKept ==
  ASSUME NEW J, NEW e, NEW n \in Nat, NEW x, x.seq \in Nat, x.epoch # e \/ n < x.seq
  PROVE  Front(With(J, x), e, n) = Front(J, e, n)
  BY DEF Front, With

(* A device or a state in the stream, taken into the shadow.                    *)
LEMMA ContentNext ==
  ASSUME NEW sh \in Shadow, NEW rows, Content(sh, rows), NEW n \in Nat, \A r \in rows : r.seq \in 1..n,
         NEW x, x.seq = n + 1, NEW new \in Shadow,
         new.descriptors = (IF x.event.kind = "device-upserted"
                            THEN sh.descriptors \cup {x.event.device} ELSE sh.descriptors),
         new.states = (IF x.event.kind = "state"
                       THEN [sh.states EXCEPT ![x.event.device] = x.event.value] ELSE sh.states)
  PROVE  Content(new, With(rows, x))
  <1> SUFFICES ASSUME NEW d \in Device
               PROVE  /\ d \in new.descriptors <=> About(rows \cup {x}, "device-upserted", d) # {}
                      /\ LastIs(About(rows \cup {x}, "state", d), new.states[d])
    BY DEF Content, With
  <1>1. \A kind : About(rows \cup {x}, kind, d)
                 = IF x.event.kind = kind /\ x.event.device = d THEN About(rows, kind, d) \cup {x}
                   ELSE About(rows, kind, d)
    BY DEF About
  <1>2. d \in sh.descriptors <=> About(rows, "device-upserted", d) # {}
    BY DEF Content
  <1>3. d \in new.descriptors <=> About(rows \cup {x}, "device-upserted", d) # {}
    BY <1>1, <1>2
  <1>4. LastIs(About(rows, "state", d), sh.states[d])
    BY DEF Content
  <1>5. LastIs(About(rows \cup {x}, "state", d), new.states[d])
    <2>1. CASE x.event.kind = "state" /\ x.event.device = d
      <3>1. new.states[d] = x.event.value
        BY <2>1 DEF Shadow
      <3>2. \A q \in About(rows, "state", d) \cup {x} : q.seq <= x.seq
        BY DEF About
      <3>3. About(rows \cup {x}, "state", d) = About(rows, "state", d) \cup {x}
        BY <1>1, <2>1
      <3> QED  BY <3>1, <3>2, <3>3 DEF LastIs
    <2>2. CASE ~(x.event.kind = "state" /\ x.event.device = d)
      <3>1. new.states[d] = sh.states[d]
        BY <2>2 DEF Shadow
      <3>2. About(rows \cup {x}, "state", d) = About(rows, "state", d)
        BY <1>1, <2>2
      <3> QED  BY <1>4, <3>1, <3>2
    <2> QED  BY <2>1, <2>2
  <1> QED  BY <1>3, <1>5

(* What an exchange shows for certain is what the replay's rows rebuild.         *)
LEMMA ExchangeShown ==
  ASSUME NEW sh \in Shadow, NEW rows, Content(sh, rows),
         \A r \in rows : r.seq \in Nat, \A r, q \in rows : r.seq = q.seq => r = q,
         world \in Worlds
  PROVE  Exchange(sh) \in Worlds /\ Shown(Exchange(sh), rows)
  <1> DEFINE w == Exchange(sh)
  <1>0. ASSUME NEW d \in Device
        PROVE  /\ [state |-> IF world[d] = None THEN None ELSE world[d].state,
                   validity |-> "present-but-invalid"] \in View
               /\ [state |-> sh.states[d],
                   validity |-> IF d \in sh.badState THEN "invalid-source" ELSE "valid"] \in View
    <2>1. world[d] \in View \/ world[d] = None
      BY DEF Worlds
    <2>2. sh.states[d] \in Value \cup {None}
      BY DEF Shadow
    <2> QED  BY <2>1, <2>2 DEF View
  <1>4. w \in Worlds
    BY <1>0 DEF Exchange, Worlds
  <1> SUFFICES ASSUME NEW d \in Device
               PROVE  /\ w[d] # None /\ w[d].validity = "valid" => RebuiltFrom(rows)[d] = w[d]
                      /\ w[d] = None => RebuiltFrom(rows)[d] = None
    BY <1>4 DEF Shown
  <1>1. d \in sh.descriptors <=> About(rows, "device-upserted", d) # {}
    BY DEF Content
  <1>2. CASE d \notin sh.descriptors
    <2>1. RebuiltFrom(rows)[d] = None
      BY <1>1, <1>2 DEF RebuiltFrom
    <2>2. w[d] = None \/ w[d].validity = "present-but-invalid"
      BY <1>2 DEF Exchange
    <2> QED  BY <2>1, <2>2
  <1>3. CASE d \in sh.descriptors
    <2>1. w[d] # None
      <3>1. \/ w[d] = [state |-> sh.states[d],
                      validity |-> IF d \in sh.badState THEN "invalid-source" ELSE "valid"]
            \/ w[d] = [state |-> IF world[d] = None THEN None ELSE world[d].state,
                      validity |-> "present-but-invalid"]
        BY <1>3 DEF Exchange
      <3> HIDE DEF w
      <3> QED  BY <3>1, <1>0, NoneIsNothing
    <2>2. ASSUME w[d].validity = "valid" PROVE w[d] = [state |-> sh.states[d], validity |-> "valid"]
      BY <1>3, <2>2 DEF Exchange
    <2>3. IF About(rows, "state", d) = {} THEN sh.states[d] = None
          ELSE (CHOOSE r \in About(rows, "state", d) :
                  \A q \in About(rows, "state", d) : q.seq <= r.seq).event.value = sh.states[d]
      <3> DEFINE A == About(rows, "state", d)
      <3>1. LastIs(A, sh.states[d])
        BY DEF Content
      <3>2. A \subseteq rows
        BY DEF About
      <3> HIDE DEF A
      <3>3. CASE A # {}
        <4>1. PICK r \in A : r.event.value = sh.states[d] /\ \A q \in A : q.seq <= r.seq
          BY <3>1, <3>3 DEF LastIs
        <4>2. (CHOOSE t \in A : \A q \in A : q.seq <= t.seq) = r
          <5>1. \A t \in A : (\A q \in A : q.seq <= t.seq) => t = r
            BY <3>2, <4>1
          <5> QED  BY <4>1, <5>1
        <4> QED  BY <3>3, <4>1, <4>2 DEF A
      <3>4. CASE A = {}
        BY <3>1, <3>4 DEF LastIs, A
      <3> QED  BY <3>3, <3>4
    <2>4. RebuiltFrom(rows)[d] = [state |-> sh.states[d], validity |-> "valid"]
      BY <1>1, <1>3, <2>3 DEF RebuiltFrom
    <2> QED  BY <2>1, <2>2, <2>4
  <1> QED  BY <1>2, <1>3

-----------------------------------------------------------------------------
(* Types of what the handlers write                                            *)

LEMMA StreamTypes ==
  ASSUME NEW ev \in Stream
  PROVE  /\ ev.kind \in {"heartbeat", "ext", "device-upserted", "device-removed", "state", "sync-complete"}
         /\ ev.kind \in {"device-upserted", "device-removed", "state"} => ev.device \in Device
         /\ ev.kind = "state" => ev.value \in Value
  BY IngestAssumption

LEMMA CountTypes ==
  ASSUME NEW ev, shadow \in Shadow
  PROVE  /\ Count(ev) \in Shadow /\ Count(ev) # None
         /\ Count(ev).descriptors = shadow.descriptors /\ Count(ev).states = shadow.states
         /\ Count(ev).badPresence = shadow.badPresence /\ Count(ev).badState = shadow.badState
         /\ Count(ev).count = shadow.count + Counted(ev)
  <1>1. shadow # None /\ Counted(ev) \in {0, 1} /\ shadow.count \in Nat
    BY NoneIsNothing DEF Shadow, Counted
  <1>2. Count(ev) = [shadow EXCEPT !.count = shadow.count + Counted(ev)]
    BY <1>1 DEF Count
  <1>3. Count(ev) \in Shadow
    BY <1>1, <1>2 DEF Shadow
  <1> QED  BY <1>2, <1>3, NoneIsNothing DEF Shadow

LEMMA ShadowTypes ==
  ASSUME NEW ev \in Stream, shadow \in Shadow
  PROVE  /\ ShadowWith(ev) \in Shadow /\ ShadowWithout(ev) \in Shadow
         /\ ShadowWith(ev).count = shadow.count + Counted(ev)
         /\ ShadowWithout(ev).count = shadow.count + Counted(ev)
         /\ ShadowWith(ev).descriptors = (IF ev.kind = "device-upserted"
                                         THEN shadow.descriptors \cup {ev.device} ELSE shadow.descriptors)
         /\ ShadowWith(ev).states = (IF ev.kind = "state"
                                    THEN [shadow.states EXCEPT ![ev.device] = ev.value] ELSE shadow.states)
         /\ ShadowWithout(ev).descriptors = shadow.descriptors
         /\ ShadowWithout(ev).states = shadow.states
  <1> DEFINE c == Count(ev)
  <1>1. /\ c \in Shadow /\ c.descriptors = shadow.descriptors /\ c.states = shadow.states
        /\ c.badPresence = shadow.badPresence /\ c.badState = shadow.badState
        /\ c.count = shadow.count + Counted(ev)
    BY CountTypes
  <1>2. CASE ev.kind = "device-upserted"
    <2>1. /\ ShadowWith(ev) = [c EXCEPT !.descriptors = c.descriptors \cup {ev.device},
                                       !.badPresence = c.badPresence \ {ev.device}]
          /\ ShadowWithout(ev) = [c EXCEPT !.badPresence = c.badPresence \cup {ev.device}]
      BY <1>2 DEF ShadowWith, ShadowWithout
    <2>2. /\ c.descriptors \cup {ev.device} \in SUBSET Device
          /\ c.badPresence \cup {ev.device} \in SUBSET Device
          /\ c.badPresence \ {ev.device} \in SUBSET Device
      BY <1>1, <1>2, StreamTypes DEF Shadow
    <2> HIDE DEF c
    <2>3. /\ ShadowWith(ev) \in Shadow /\ ShadowWith(ev).count = c.count
          /\ ShadowWith(ev).descriptors = c.descriptors \cup {ev.device} /\ ShadowWith(ev).states = c.states
      BY <1>1, <2>1, <2>2 DEF Shadow
    <2>4. /\ ShadowWithout(ev) \in Shadow /\ ShadowWithout(ev).count = c.count
          /\ ShadowWithout(ev).descriptors = c.descriptors /\ ShadowWithout(ev).states = c.states
      BY <1>1, <2>1, <2>2 DEF Shadow
    <2>5. ev.kind # "state"
      BY <1>2
    <2> QED  BY <1>1, <1>2, <2>3, <2>4, <2>5
  <1>3. CASE ev.kind = "state"
    <2>1. /\ ShadowWith(ev) = [c EXCEPT !.states = [c.states EXCEPT ![ev.device] = ev.value],
                                       !.badState = c.badState \ {ev.device}]
          /\ ShadowWithout(ev) = [c EXCEPT !.badState = c.badState \cup {ev.device}]
      BY <1>3 DEF ShadowWith, ShadowWithout
    <2>2. /\ ev.device \in Device /\ ev.value \in Value
          /\ c.badState \cup {ev.device} \in SUBSET Device /\ c.badState \ {ev.device} \in SUBSET Device
      BY <1>1, <1>3, StreamTypes DEF Shadow
    <2>3. [c.states EXCEPT ![ev.device] = ev.value] \in [Device -> Value \cup {None}]
      BY <1>1, <2>2 DEF Shadow
    <2> HIDE DEF c
    <2>4. /\ ShadowWith(ev) \in Shadow /\ ShadowWith(ev).count = c.count
          /\ ShadowWith(ev).descriptors = c.descriptors
          /\ ShadowWith(ev).states = [c.states EXCEPT ![ev.device] = ev.value]
      BY <1>1, <2>1, <2>2, <2>3 DEF Shadow
    <2>5. /\ ShadowWithout(ev) \in Shadow /\ ShadowWithout(ev).count = c.count
          /\ ShadowWithout(ev).descriptors = c.descriptors /\ ShadowWithout(ev).states = c.states
      BY <1>1, <2>1, <2>2 DEF Shadow
    <2>6. ev.kind # "device-upserted"
      BY <1>3
    <2> QED  BY <1>1, <1>3, <2>4, <2>5, <2>6
  <1>4. CASE ev.kind \notin {"device-upserted", "state"}
    <2>1. ShadowWith(ev) = shadow /\ ShadowWithout(ev) = shadow /\ Counted(ev) = 0
      BY <1>4 DEF ShadowWith, ShadowWithout, Counted
    <2> QED  BY <1>4, <2>1 DEF Shadow
  <1> QED  BY <1>2, <1>3, <1>4

LEMMA WorldTypes ==
  ASSUME NEW ev \in Stream, world \in Worlds
  PROVE  WorldWith(ev) \in Worlds /\ WorldWithout(ev) \in Worlds
  <1> DEFINE View0 == View \cup {None}
  <1>1. ASSUME NEW d \in Device, NEW v \in View0 PROVE [world EXCEPT ![d] = v] \in Worlds
    BY <1>1 DEF Worlds
  <1>2. ASSUME NEW d \in Device, world[d] # None PROVE world[d] \in View
    BY <1>2 DEF Worlds
  <1>3. WorldWith(ev) \in Worlds
    <2>1. CASE ev.kind = "device-upserted"
      <3>1. world[ev.device] \in View0 /\ ev.device \in Device
        BY <2>1, StreamTypes DEF Worlds
      <3>2. Present(world[ev.device]) \in View0
        BY <3>1 DEF Present, View
      <3> HIDE DEF View0
      <3> QED  BY <1>1, <2>1, <3>1, <3>2 DEF WorldWith
    <2>2. CASE ev.kind = "state"
      <3>1. ev.device \in Device /\ ev.value \in Value
        BY <2>2, StreamTypes
      <3>2. CASE world[ev.device] # None
        <4>1. [world[ev.device] EXCEPT !.state = ev.value] \in View0
          BY <1>2, <3>1, <3>2 DEF View
        <4>2. WorldWith(ev) = [world EXCEPT ![ev.device] = [world[ev.device] EXCEPT !.state = ev.value]]
          BY <2>2, <3>1, <3>2 DEF WorldWith, Worlds
        <4> HIDE DEF View0
        <4> QED  BY <1>1, <3>1, <4>1, <4>2
      <3>3. CASE world[ev.device] = None
        BY <2>2, <3>3 DEF WorldWith
      <3> QED  BY <3>2, <3>3
    <2>3. CASE ev.kind = "device-removed"
      <3>1. ev.device \in Device
        BY <2>3, StreamTypes
      <3> QED  BY <1>1, <2>3, <3>1 DEF WorldWith
    <2>4. CASE ev.kind \notin {"device-upserted", "state", "device-removed"}
      BY <2>4 DEF WorldWith
    <2> QED  BY <2>1, <2>2, <2>3, <2>4
  <1>4. WorldWithout(ev) \in Worlds
    <2>1. CASE ev.kind \in {"device-upserted", "state"} /\ world[ev.device] # None
      <3>1. ev.device \in Device
        BY <2>1, StreamTypes
      <3>2. PICK y \in {"invalid-source", "present-but-invalid"} :
              WorldWithout(ev) = [world EXCEPT ![ev.device] = [world[ev.device] EXCEPT !.validity = y]]
        BY <2>1, <3>1 DEF WorldWithout, Worlds
      <3>3. [world[ev.device] EXCEPT !.validity = y] \in View0
        BY <1>2, <2>1, <3>1 DEF View
      <3> HIDE DEF View0
      <3> QED  BY <1>1, <3>1, <3>2, <3>3
    <2>2. CASE ~(ev.kind \in {"device-upserted", "state"} /\ world[ev.device] # None)
      BY <2>2 DEF WorldWithout
    <2> QED  BY <2>1, <2>2
  <1> QED  BY <1>3, <1>4

(* What a restart shows is a world.                                            *)
LEMMA RestoredTypes ==
  ASSUME Types
  PROVE  Restored \in Worlds
  <1>1. Nothing \in Worlds
    BY DEF Nothing, Worlds
  <1>2. ASSUME NEW d \in Device PROVE Rebuilt[d] \in View \cup {None}
    <2> DEFINE rows == Replayed(consistent.epoch, consistent.seq)
               A == About(rows, "state", d)
               last == CHOOSE r \in A : \A q \in A : q.seq <= r.seq
    <2>1. ASSUME A # {} PROVE last.event.value \in Value \cup {None}
      <3>1. \A r \in A : r.seq \in 1..MaxSeq /\ r.event.value \in Value \cup {None}
        BY DEF Types, About, Replayed
      <3>2. {r.seq : r \in A} \in SUBSET (1..MaxSeq) /\ {r.seq : r \in A} # {}
        BY <2>1, <3>1
      <3>3. MaxSeq \in Nat
        BY IngestAssumption
      <3> HIDE DEF A
      <3>4. \E r \in A : \A q \in A : q.seq <= r.seq
        BY <3>2, <3>3, GreatestExists
      <3>5. last \in A
        BY <3>4
      <3> QED  BY <3>1, <3>5
    <2>2. Rebuilt[d] = IF About(rows, "device-upserted", d) = {} THEN None
                       ELSE [state |-> IF A = {} THEN None ELSE last.event.value, validity |-> "valid"]
      BY DEF Rebuilt
    <2> HIDE DEF A, last
    <2> QED  BY <2>1, <2>2 DEF View
  <1>3. Rebuilt = [d \in Device |-> Rebuilt[d]]
    BY DEF Rebuilt
  <1>4. Rebuilt \in Worlds
    BY <1>2, <1>3 DEF Worlds
  <1> QED  BY <1>1, <1>4 DEF Restored

-----------------------------------------------------------------------------
(* Steps that write one row, and steps that write none                         *)

(* The next row of the active epoch is written, or found written already.       *)
LEMMA RowWritten ==
  ASSUME IInv, fence.epoch \in Epochs, fence.cursor < MaxSeq,
         NEW row, row.epoch = fence.epoch, row.seq = Next1,
         journal' = With(journal, row),
         \A r \in journal : r.epoch = fence.epoch /\ r.seq = Next1 => r = row,
         \/ watermark' = [epoch |-> fence.epoch, seq |-> Next1]
         \/ row.table = "extension" /\ watermark' = watermark,
         refused \subseteq refused',
         \A a : \A n \in Nat : a # fence.epoch \/ n < Next1 => Tried(refused', a, n) = Tried(refused, a, n),
         fence'.epoch = fence.epoch,
         \/ fence'.cursor = Next1
         \/ fence'.cursor = fence.cursor /\ \E f \in Efforts(refused', fence.epoch) : f.seq = Next1,
         UNCHANGED <<consistent, verified, opened, exchanged>>
  PROVE  JournalFits' /\ ConsistentFits'
  <1> DEFINE e == fence.epoch
             n == fence.cursor
  <1>1. n \in Nat /\ Next1 = n + 1 /\ n + 1 \in 1..MaxSeq
    BY IngestAssumption DEF IInv, Types, Next1
  <1>2. \A a : a # e => Rows(journal', a) = Rows(journal, a)
    BY DEF Rows, With
  <1>3. Rows(journal', e) = With(Rows(journal, e), row)
    BY DEF Rows, With
  <1>4. ASSUME e \notin verified
        PROVE  Numbered(Rows(journal', e), n + 1) /\ \A r \in Rows(journal, e) : r.seq \in 1..n \/ r = row
    <2>1. Numbered(Rows(journal, e), n) \/ Numbered(Rows(journal, e), n + 1)
      BY <1>4 DEF IInv, JournalFits, Standing
    <2>2. row.seq = n + 1 /\ \A r \in Rows(journal, e) : r.seq = n + 1 => r = row
      BY <1>1 DEF Rows
    <2> HIDE DEF e, n
    <2> QED  BY <1>1, <1>3, <2>1, <2>2, NumberedNext
  <1>5. JournalFits'
    <2>1. \A a \in Epochs \ verified : \E m \in Nat : Numbered(Rows(journal', a), m)
      BY <1>1, <1>2, <1>4 DEF IInv, JournalFits
    <2>2. e \notin verified => Standing(journal', refused', e, fence'.cursor)
      <3>1. CASE fence'.cursor = n + 1
        BY <1>4, <3>1 DEF Standing
      <3>2. CASE fence'.cursor = n /\ \E f \in Efforts(refused', e) : f.seq = n + 1
        BY <1>4, <3>2 DEF Standing
      <3> QED  BY <1>1, <3>1, <3>2
    <2>3. CASE watermark' = [epoch |-> e, seq |-> n + 1]
      <3>1. watermark'.epoch = e /\ watermark'.seq = n + 1
        BY <2>3
      <3>2. ASSUME e \notin verified
            PROVE  /\ \E r \in Rows(journal', e) : r.seq = n + 1
                   /\ \A r \in Rows(journal', e) : r.seq <= n + 1
        <4>1. row \in Rows(journal', e) /\ row.seq = n + 1
          BY <1>1, <1>3 DEF With
        <4>2. \A r \in Rows(journal, e) : r.seq \in 1..n \/ r = row
          BY <1>4, <3>2
        <4>3. \A r \in Rows(journal', e) : r = row \/ r \in Rows(journal, e)
          BY <1>3 DEF With
        <4> HIDE DEF e, n
        <4>4. \A r \in Rows(journal', e) : r.seq <= n + 1
          BY <1>1, <4>1, <4>2, <4>3
        <4> QED  BY <4>1, <4>4
      <3> QED  BY <2>1, <2>2, <3>1, <3>2 DEF JournalFits
    <2>4. CASE row.table = "extension" /\ watermark' = watermark
      <3>1. watermark # None /\ watermark.epoch \notin verified =>
              /\ \E r \in Rows(journal', watermark.epoch) : r.seq = watermark.seq
              /\ \A r \in Rows(journal', watermark.epoch) :
                   r.table \in {"rejection", "extension"} \/ r.seq <= watermark.seq
        BY <1>2, <1>3, <2>4 DEF IInv, JournalFits, With
      <3> QED  BY <2>1, <2>2, <2>4, <3>1 DEF JournalFits
    <2> QED  BY <1>1, <2>3, <2>4
  <1>6. ConsistentFits'
    <2> SUFFICES ASSUME consistent # None PROVE ConsistentFits'
      BY DEF ConsistentFits
    <2> DEFINE c == consistent.epoch
               m == consistent.seq
    <2>1. /\ c \in verified /\ Whole(journal, refused, c, m) /\ Shown(exchanged, Accepted(journal, c, m))
          /\ e = c => m <= n
          /\ watermark # None /\ watermark.epoch = c => m <= watermark.seq
      BY DEF IInv, ConsistentFits
    <2>2. m \in Nat /\ m \in 1..MaxSeq
      BY <2>1 DEF Whole
    <2>3. row.seq \in Nat /\ (row.epoch # c \/ m < row.seq) /\ (c # e \/ m < Next1)
      BY <1>1, <2>1, <2>2
    <2>4. Front(journal', c, m) = Front(journal, c, m) /\ Tried(refused, c, m) = Tried(refused', c, m)
      BY <2>2, <2>3, FrontKept
    <2>5. Whole(journal', refused', c, m) /\ Shown(exchanged, Accepted(journal', c, m))
      BY <2>1, <2>4, SameFront
    <2>6. fence'.epoch = c => m <= fence'.cursor
      BY <1>1, <2>1, <2>2
    <2>7. watermark' # None /\ watermark'.epoch = c => m <= watermark'.seq
      BY <1>1, <2>1, <2>2
    <2> QED  BY <2>1, <2>5, <2>6, <2>7 DEF ConsistentFits
  <1> QED  BY <1>5, <1>6

(* A step that writes no row and keeps its place.                              *)
LEMMA NoRowWritten ==
  ASSUME IInv, UNCHANGED <<journal, watermark, consistent, verified, exchanged>>,
         refused \subseteq refused', fence'.epoch = fence.epoch, fence'.cursor = fence.cursor,
         \A a : \A n \in Nat : a # fence.epoch \/ n < Next1 => Tried(refused', a, n) = Tried(refused, a, n),
         finishing' # "no" => finishing # "no" /\ world' = world /\ refused' = refused
  PROVE  JournalFits' /\ FinishFits' /\ ConsistentFits'
  <1>1. \A e : Efforts(refused, e) \subseteq Efforts(refused', e)
    BY DEF Efforts
  <1>2. JournalFits'
    BY <1>1 DEF IInv, JournalFits, Standing
  <1>3. FinishFits'
    BY DEF IInv, FinishFits
  <1>4. ConsistentFits'
    <2> SUFFICES ASSUME consistent # None PROVE ConsistentFits'
      BY DEF ConsistentFits
    <2> DEFINE c == consistent.epoch
               m == consistent.seq
    <2>1. Whole(journal, refused, c, m) /\ (fence.epoch = c => m <= fence.cursor)
      BY DEF IInv, ConsistentFits
    <2>2. m \in Nat /\ (c # fence.epoch \/ m < Next1)
      BY <2>1, IngestAssumption DEF IInv, Types, Next1, Whole
    <2>3. Tried(refused, c, m) = Tried(refused', c, m)
      BY <2>2
    <2>4. Whole(journal, refused', c, m)
      BY <2>1, <2>3, SameFront
    <2> QED  BY <2>4 DEF IInv, ConsistentFits
  <1> QED  BY <1>2, <1>3, <1>4

(* A step that leaves the replay alone, or ends it.                            *)
LEMMA ReplayLeft ==
  ASSUME IInv, shadow' \in {shadow, None},
         shadow' # None =>
           /\ finishing' = "no" /\ UNCHANGED <<journal, verified, refused>>
           /\ fence'.epoch = fence.epoch /\ fence'.cursor = fence.cursor
  PROVE  ReplayFits'
  BY DEF IInv, ReplayFits, StartRefused

(* A row taken into the shadow: what is counted, and what a rebuilding finds.   *)
LEMMA ReplayGoesOn ==
  ASSUME IInv, shadow # None, fence.cursor < MaxSeq, ~StartRefused,
         NEW row, row.epoch = fence.epoch, row.seq = Next1,
         journal' = With(journal, row),
         \A r \in journal : r.epoch = fence.epoch /\ r.seq = Next1 => r = row,
         NEW new \in Shadow, new.count = shadow.count + Counted(row.event),
         new.descriptors = (IF row.table = "event" /\ row.event.kind = "device-upserted"
                            THEN shadow.descriptors \cup {row.event.device} ELSE shadow.descriptors),
         new.states = (IF row.table = "event" /\ row.event.kind = "state"
                       THEN [shadow.states EXCEPT ![row.event.device] = row.event.value] ELSE shadow.states)
  PROVE  /\ fence.epoch \in Epochs \ verified
         /\ Content(new, Accepted(journal', fence.epoch, Next1))
         /\ new.count = Tally(Front(journal', fence.epoch, Next1)) + Tally(Efforts(refused, fence.epoch))
         /\ \A f \in Efforts(refused, fence.epoch) : f.seq \in Nat /\ f.seq <= Next1
         /\ Begun(Accepted(journal', fence.epoch, Next1))
         /\ Numbered(Rows(journal', fence.epoch), Next1)
  <1> DEFINE e == fence.epoch
             n == fence.cursor
             J == journal
  <1>1. n \in Nat /\ Next1 = n + 1 /\ shadow \in Shadow
    BY IngestAssumption DEF IInv, Types, Next1
  <1>2. /\ e \in Epochs \ verified /\ Content(shadow, Accepted(J, e, n))
        /\ shadow.count = Tally(Front(J, e, n)) + Tally(Efforts(refused, e))
        /\ \A f \in Efforts(refused, e) : f.seq <= n + 1
        /\ Begun(Accepted(J, e, n))
    BY DEF IInv, ReplayFits
  <1>3. Numbered(Rows(J, e), n) \/ Numbered(Rows(J, e), n + 1)
    BY <1>2 DEF IInv, JournalFits, Standing
  <1>4. /\ row.epoch = e /\ row.seq = n + 1 /\ journal' = With(J, row)
        /\ \A r \in Rows(J, e) : r.seq = n + 1 => r = row
    BY <1>1 DEF Rows
  <1>10. \A f \in Efforts(refused, e) : f.seq \in Nat
    BY DEF IInv, Types, Efforts
  <1> HIDE DEF e, n, J
  <1>5. /\ Accepted(journal', e, n + 1)
             = IF row.table = "event" THEN With(Accepted(J, e, n), row) ELSE Accepted(J, e, n)
        /\ Front(journal', e, n + 1) = With(Front(J, e, n), row) /\ row \notin Front(J, e, n)
        /\ Rows(journal', e) = With(Rows(J, e), row)
        /\ \A r \in Accepted(J, e, n) : r.seq \in 1..n
    BY <1>1, <1>3, <1>4, AcceptedNext
  <1>6. Content(new, Accepted(journal', e, n + 1))
    <2>1. CASE row.table = "event"
      <3>1. Content(new, With(Accepted(J, e, n), row))
        BY <1>1, <1>2, <1>4, <1>5, <2>1, ContentNext
      <3> QED  BY <1>5, <2>1, <3>1
    <2>2. CASE row.table # "event"
      BY <1>2, <1>5, <2>2 DEF Content
    <2> QED  BY <2>1, <2>2
  <1>7. new.count = Tally(Front(journal', e, n + 1)) + Tally(Efforts(refused, e))
    <2>1. IsFiniteSet(Front(J, e, n))
      BY <1>1, <1>3, FrontFinite
    <2>2. Tally(With(Front(J, e, n), row)) = Tally(Front(J, e, n)) + Counted(row.event)
      BY <1>5, <2>1, TallyNext
    <2>3. Tally(Front(J, e, n)) \in Nat /\ Tally(Efforts(refused, e)) \in Nat /\ Counted(row.event) \in Nat
      <3>1. IsFiniteSet(Efforts(refused, e))
        BY FS_Subset DEF IInv, Types, Efforts
      <3> QED  BY <2>1, <3>1, TallyType DEF Counted
    <2> QED  BY <1>2, <1>5, <2>2, <2>3
  <1>8. Begun(Accepted(journal', e, n + 1))
    BY <1>2, <1>5 DEF Begun, With
  <1>9. Numbered(Rows(journal', e), n + 1)
    BY <1>1, <1>3, <1>4, <1>5, NumberedNext
  <1> QED  BY <1>1, <1>2, <1>6, <1>7, <1>8, <1>9, <1>10 DEF e, n

(* Whoever receives an envelope of the stream is past the start of the epoch.   *)
LEMMA SequenceFacts ==
  ASSUME IInv, NEW ev, InSequence(ev), ev.kind # "sync-start"
  PROVE  /\ ~StartRefused /\ finishing = "no" /\ stream = "open" /\ pump = "reading"
         /\ fence.epoch \in Epochs /\ fence.epoch \in 1..opened
         /\ fence.cursor < MaxSeq /\ ~fence.awaiting /\ ~fence.broken /\ conn \notin Closed
         /\ shadow = None => fence.epoch \in verified
         /\ Next1 \in 1..MaxSeq /\ Next1 = fence.cursor + 1
         /\ \A table : LET r == Here(ev, table)
                       IN r.epoch = fence.epoch /\ r.seq = Next1 /\ r.event = ev /\ r.table = table
  <1>1. /\ stream = "open" /\ finishing = "no" /\ pump = "reading" /\ fence.epoch # None
        /\ ~fence.awaiting /\ ~fence.broken /\ fence.cursor < MaxSeq /\ conn \notin Closed
    BY DEF InSequence, Expecting, Receiving, Calm
  <1>2. fence.epoch \in 1..opened /\ fence.epoch \in Epochs
    BY <1>1, IngestAssumption DEF IInv, Types, Epochs
  <1>3. Next1 \in 1..MaxSeq /\ Next1 = fence.cursor + 1
    BY <1>1, IngestAssumption DEF IInv, Types, Next1
  <1>4. ~StartRefused
    BY <1>3 DEF InSequence, StartRefused
  <1>5. shadow = None => fence.epoch \in verified
    BY <1>1 DEF IInv, LoopFits
  <1> QED  BY <1>1, <1>2, <1>3, <1>4, <1>5 DEF Here

-----------------------------------------------------------------------------
(* Envelopes                                                                   *)

(* The fence stands at the row just written.                                    *)
Advanced(b) ==
  /\ fence'.epoch = fence.epoch /\ fence'.cursor = Next1
  /\ fence'.broken = b /\ fence'.awaiting = fence.awaiting
  /\ fence' \in [epoch : 1..opened \cup {None}, cursor : 0..MaxSeq, broken : BOOLEAN, awaiting : BOOLEAN]

LEMMA FenceMoves ==
  ASSUME Types, Next1 \in 1..MaxSeq
  PROVE  /\ fence' = [fence EXCEPT !.cursor = Next1] => Advanced(fence.broken)
         /\ fence' = [fence EXCEPT !.cursor = Next1, !.broken = TRUE] => Advanced(TRUE)
  <1>1. Next1 \in 0..MaxSeq
    BY IngestAssumption
  <1>2. ASSUME fence' = [fence EXCEPT !.cursor = Next1] PROVE Advanced(fence.broken)
    BY <1>1, <1>2 DEF Types, Advanced
  <1>3. ASSUME fence' = [fence EXCEPT !.cursor = Next1, !.broken = TRUE] PROVE Advanced(TRUE)
    BY <1>1, <1>3 DEF Types, Advanced
  <1> QED  BY <1>2, <1>3

(* What every row of an envelope has in common.                                 *)
Written(row, b) ==
  /\ row.epoch = fence.epoch /\ row.seq = Next1
  /\ row.table = "event" /\ row.event.kind = "state" => row.event.value \in Value \cup {None}
  /\ journal' = With(journal, row)
  /\ \A r \in journal : r.epoch = fence.epoch /\ r.seq = Next1 => r = row
  /\ Advanced(b)
  /\ \/ watermark' = [epoch |-> fence.epoch, seq |-> Next1]
     \/ row.table = "extension" /\ watermark' = watermark
  /\ shadow' \in Shadow \cup {None} /\ world' \in Worlds
  /\ UNCHANGED <<consistent, verified, refused, opened, exchanged, faults>>

LEMMA WrittenHolds ==
  ASSUME IInv, fence.epoch \in 1..opened, Next1 \in 1..MaxSeq, fence.cursor < MaxSeq,
         NEW row, NEW b, Written(row, b)
  PROVE  Types' /\ JournalFits' /\ ConsistentFits'
  <1>1. Types'
    <2>1. fence' \in [epoch : 1..opened \cup {None}, cursor : 0..MaxSeq, broken : BOOLEAN, awaiting : BOOLEAN]
      BY DEF Written, Advanced
    <2>2. watermark' \in [epoch : 1..opened, seq : 1..MaxSeq] \cup {None}
      BY DEF IInv, Types, Written
    <2>3. \A r \in journal' :
            /\ r.epoch \in 1..opened /\ r.seq \in 1..MaxSeq
            /\ r.table = "event" /\ r.event.kind = "state" => r.event.value \in Value \cup {None}
      BY DEF IInv, Types, With, Written
    <2>4. /\ opened' = opened /\ opened \in 0..MaxEpoch /\ faults' \in Nat /\ verified' \subseteq 1..opened
          /\ shadow' \in Shadow \cup {None} /\ world' \in Worlds
      BY DEF IInv, Types, Written
    <2>5. /\ IsFiniteSet(refused')
          /\ \A f \in refused' : f.epoch \in 1..opened' /\ f.seq \in Nat /\ f.fault \in 1..faults'
      BY DEF IInv, Types, Written
    <2> QED  BY <2>1, <2>2, <2>3, <2>4, <2>5 DEF Types
  <1>2. fence.epoch \in Epochs
    BY IngestAssumption DEF IInv, Types, Epochs
  <1> QED  BY <1>1, <1>2, RowWritten DEF Written, Advanced

(* What a replay's shadow takes from a row.                                     *)
ShadowTakes(row) ==
  /\ shadow' \in Shadow /\ shadow'.count = shadow.count + Counted(row.event)
  /\ shadow'.descriptors = (IF row.table = "event" /\ row.event.kind = "device-upserted"
                            THEN shadow.descriptors \cup {row.event.device} ELSE shadow.descriptors)
  /\ shadow'.states = (IF row.table = "event" /\ row.event.kind = "state"
                       THEN [shadow.states EXCEPT ![row.event.device] = row.event.value]
                       ELSE shadow.states)

(* An envelope taken as valid, as invalid or as an extension without ground.    *)
LEMMA RowTaken ==
  ASSUME IInv, NEW ev, InSequence(ev), ev.kind # "sync-start",
         NEW row, Written(row, fence.broken), UNCHANGED <<finishing, pump, stream>>,
         shadow = None => shadow' = None,
         shadow # None => world' = world /\ ShadowTakes(row)
  PROVE  IInv' /\ ViewStep
  <1>1. /\ ~StartRefused /\ finishing = "no" /\ stream = "open" /\ pump = "reading"
        /\ fence.epoch \in 1..opened /\ fence.cursor < MaxSeq /\ Next1 \in 1..MaxSeq
        /\ ~fence.broken /\ conn \notin Closed /\ (shadow = None => fence.epoch \in verified)
    BY SequenceFacts
  <1>2. Types' /\ JournalFits' /\ ConsistentFits'
    BY <1>1, WrittenHolds
  <1>3. /\ row.epoch = fence.epoch /\ row.seq = Next1 /\ journal' = With(journal, row)
        /\ fence'.epoch = fence.epoch /\ fence'.cursor = Next1
        /\ fence'.broken = fence.broken /\ fence'.awaiting = fence.awaiting
        /\ verified' = verified /\ refused' = refused
        /\ \A r \in journal : r.epoch = fence.epoch /\ r.seq = Next1 => r = row
    BY DEF Written, Advanced
  <1>4. ReplayFits'
    <2> SUFFICES ASSUME shadow # None, shadow' # None PROVE ReplayFits'
      BY DEF ReplayFits
    <2>1. /\ fence.epoch \in Epochs \ verified
          /\ Content(shadow', Accepted(journal', fence.epoch, Next1))
          /\ shadow'.count = Tally(Front(journal', fence.epoch, Next1)) + Tally(Efforts(refused, fence.epoch))
          /\ \A f \in Efforts(refused, fence.epoch) : f.seq \in Nat /\ f.seq <= Next1
          /\ Begun(Accepted(journal', fence.epoch, Next1))
      BY <1>1, <1>3, ReplayGoesOn DEF ShadowTakes
    <2>2. \A f \in Efforts(refused, fence.epoch) : f.seq <= Next1 + 1
      BY <1>1, <2>1
    <2> QED  BY <1>1, <1>3, <2>1, <2>2 DEF ReplayFits
  <1>5. FinishFits'
    BY <1>1 DEF FinishFits
  <1>6. LoopFits'
    <2>1. shadow # None => shadow' # None
      BY NoneIsNothing DEF ShadowTakes
    <2> QED  BY <1>1, <1>3, <2>1 DEF LoopFits
  <1>7. ViewStep
    BY <1>1 DEF ViewStep
  <1> QED  BY <1>2, <1>4, <1>5, <1>6, <1>7 DEF IInv

LEMMA AcceptHolds ==
  ASSUME IInv, NEW ev \in Stream, Accept(ev)
  PROVE  IInv' /\ ViewStep
  <1> DEFINE row == Filed(ev, TRUE)
  <1>1. InSequence(ev) /\ ev.kind # "sync-start" /\ (ev.kind = "state" => ev.value \in Value)
    BY StreamTypes DEF Accept
  <1>2. /\ row.epoch = fence.epoch /\ row.seq = Next1 /\ row.event = ev
        /\ row.table = IF ev.kind = "heartbeat" THEN "heartbeat" ELSE "event"
    BY DEF Filed, Here
  <1>3. journal' = With(journal, row)
        /\ \A r \in journal : r.epoch = fence.epoch /\ r.seq = Next1 => r = row
    BY DEF Accept, Append, With
  <1>4. /\ fence' = [fence EXCEPT !.cursor = Next1] /\ watermark' = [epoch |-> fence.epoch, seq |-> Next1]
        /\ UNCHANGED <<consistent, verified, refused, opened, exchanged, finishing, pump, stream, faults>>
    BY DEF Accept, Advance, Lift, loop, bridge
  <1>5. /\ shadow = None => shadow' = None /\ world' = WorldWith(ev)
        /\ shadow # None => shadow' = ShadowWith(ev) /\ world' = world
    BY DEF Accept
  <1> HIDE DEF row
  <1>6. world' \in Worlds
    BY <1>5, WorldTypes DEF IInv, Types
  <1>7. ASSUME shadow # None PROVE ShadowTakes(row)
    <2>1. shadow \in Shadow
      BY <1>7 DEF IInv, Types
    <2>2. ev.kind \in {"device-upserted", "state"} => row.table = "event"
      BY <1>2
    <2> QED  BY <1>2, <1>5, <1>7, <2>1, <2>2, ShadowTypes DEF ShadowTakes
  <1>8. Advanced(fence.broken)
    BY <1>1, <1>4, SequenceFacts, FenceMoves DEF IInv
  <1>9. Written(row, fence.broken)
    <2>1. shadow' \in Shadow \cup {None}
      BY <1>5, <1>7 DEF ShadowTakes
    <2> QED  BY <1>1, <1>2, <1>3, <1>4, <1>6, <1>8, <2>1 DEF Written
  <1> QED  BY <1>1, <1>4, <1>5, <1>7, <1>9, RowTaken

LEMMA RejectHolds ==
  ASSUME IInv, NEW ev \in Stream, Reject(ev)
  PROVE  IInv' /\ ViewStep
  <1> DEFINE row == Filed(ev, FALSE)
  <1>1. InSequence(ev) /\ ev.kind # "sync-start"
    BY StreamTypes DEF Reject
  <1>2. row.epoch = fence.epoch /\ row.seq = Next1 /\ row.event = Bare(ev) /\ row.table = "rejection"
    BY DEF Filed, Here
  <1>3. journal' = With(journal, row)
        /\ \A r \in journal : r.epoch = fence.epoch /\ r.seq = Next1 => r = row
    BY DEF Reject, Append, With
  <1>4. /\ fence' = [fence EXCEPT !.cursor = Next1] /\ watermark' = [epoch |-> fence.epoch, seq |-> Next1]
        /\ UNCHANGED <<consistent, verified, refused, opened, exchanged, finishing, pump, stream, faults>>
    BY DEF Reject, Advance, Lift, loop, bridge
  <1>5. /\ shadow = None => shadow' = None /\ world' = WorldWithout(ev)
        /\ shadow # None => shadow' = ShadowWithout(ev) /\ world' = world
    BY DEF Reject
  <1>6. Counted(Bare(ev)) = Counted(ev)
    <2>1. CASE ev.kind = "state"
      <3>1. ev \in [kind : {"state"}, device : Device, value : Value]
        BY <2>1, IngestAssumption
      <3> QED  BY <2>1, <3>1 DEF Bare, Counted
    <2>2. CASE ev.kind = "sync-complete"
      <3>1. ev \in [kind : {"sync-complete"}, count : 0..MaxSeq]
        BY <2>2, IngestAssumption
      <3> QED  BY <2>2, <3>1 DEF Bare, Counted
    <2>3. CASE ev.kind \notin {"state", "sync-complete"}
      BY <2>3 DEF Bare
    <2> QED  BY <2>1, <2>2, <2>3
  <1> HIDE DEF row
  <1>7. world' \in Worlds
    BY <1>5, WorldTypes DEF IInv, Types
  <1>8. ASSUME shadow # None PROVE ShadowTakes(row)
    <2>1. shadow \in Shadow
      BY <1>8 DEF IInv, Types
    <2> QED  BY <1>2, <1>5, <1>6, <1>8, <2>1, ShadowTypes DEF ShadowTakes
  <1>9. Written(row, fence.broken)
    <2>1. shadow' \in Shadow \cup {None}
      BY <1>5, <1>8 DEF ShadowTakes
    <2>2. Advanced(fence.broken)
      BY <1>1, <1>4, SequenceFacts, FenceMoves DEF IInv
    <2> QED  BY <1>2, <1>3, <1>4, <1>7, <2>1, <2>2 DEF Written
  <1> QED  BY <1>1, <1>4, <1>5, <1>8, <1>9, RowTaken

LEMMA RejectExtensionHolds ==
  ASSUME IInv, RejectExtension
  PROVE  IInv' /\ ViewStep
  <1> DEFINE ev  == Extension
             row == Here(ev, "extension")
  <1>1. InSequence(ev) /\ ev.kind # "sync-start"
    BY DEF RejectExtension, Extension
  <1>2. /\ row.epoch = fence.epoch /\ row.seq = Next1 /\ row.table = "extension"
        /\ Counted(row.event) = 0
    BY DEF Here, Counted, Extension
  <1>3. journal' = With(journal, row)
        /\ \A r \in journal : r.epoch = fence.epoch /\ r.seq = Next1 => r = row
    BY DEF RejectExtension, Append, With
  <1>4. /\ fence' = [fence EXCEPT !.cursor = Next1] /\ UNCHANGED <<watermark, shadow, world>>
        /\ UNCHANGED <<consistent, verified, refused, opened, exchanged, finishing, pump, stream, faults>>
    BY DEF RejectExtension, Advance, loop, bridge
  <1> HIDE DEF ev, row
  <1>5. shadow \in Shadow \cup {None} /\ world \in Worlds /\ Types
    BY DEF IInv, Types
  <1>6. shadow # None => ShadowTakes(row)
    BY <1>2, <1>4, <1>5 DEF ShadowTakes, Shadow
  <1>7. Written(row, fence.broken)
    <2>1. Advanced(fence.broken)
      BY <1>1, <1>4, <1>5, SequenceFacts, FenceMoves
    <2> QED  BY <1>2, <1>3, <1>4, <1>5, <2>1 DEF Written
  <1> QED  BY <1>1, <1>4, <1>6, <1>7, RowTaken

(* A manifest that does not match breaks the epoch.                             *)
LEMMA FailReplayHolds ==
  ASSUME IInv, NEW k, FailReplay(k)
  PROVE  IInv' /\ ViewStep
  <1> DEFINE row == Here(Complete(k), "event")
  <1>1. InSequence(Complete(k)) /\ Complete(k).kind = "sync-complete" /\ shadow # None
    BY DEF FailReplay, Complete
  <1>2. row.epoch = fence.epoch /\ row.seq = Next1 /\ row.event.kind = "sync-complete"
    BY DEF Here, Complete
  <1>3. journal' = With(journal, row)
        /\ \A r \in journal : r.epoch = fence.epoch /\ r.seq = Next1 => r = row
    BY DEF FailReplay, Append, With
  <1>4. /\ fence' = [fence EXCEPT !.cursor = Next1, !.broken = TRUE]
        /\ watermark' = [epoch |-> fence.epoch, seq |-> Next1] /\ shadow' = None
        /\ UNCHANGED <<consistent, verified, refused, opened, exchanged, finishing, pump, stream, world, faults>>
    BY DEF FailReplay, Lift, loop, bridge
  <1> HIDE DEF row
  <1>5. Advanced(TRUE) /\ fence.epoch \in 1..opened /\ Next1 \in 1..MaxSeq /\ fence.cursor < MaxSeq
        /\ finishing = "no" /\ pump = "reading"
    BY <1>1, <1>4, SequenceFacts, FenceMoves DEF IInv
  <1>6. Written(row, TRUE)
    BY <1>2, <1>3, <1>4, <1>5 DEF Written, IInv, Types
  <1>7. Types' /\ JournalFits' /\ ConsistentFits'
    BY <1>5, <1>6, WrittenHolds
  <1>8. ReplayFits' /\ FinishFits' /\ LoopFits'
    BY <1>4, <1>5 DEF ReplayFits, FinishFits, LoopFits, Advanced
  <1> QED  BY <1>4, <1>7, <1>8 DEF IInv, ViewStep

(* A manifest that matches: the epoch is whole, and the exchange shows it.      *)
LEMMA FinishReplayHolds ==
  ASSUME IInv, NEW k, NEW h, FinishReplay(k, h)
  PROVE  IInv' /\ ViewStep
  <1> DEFINE row == Here(Complete(k), "event")
             e == fence.epoch
             n == Next1
  <1>1. InSequence(Complete(k)) /\ Complete(k).kind = "sync-complete" /\ shadow # None /\ k = shadow.count
    BY DEF FinishReplay, Complete, ManifestMatches
  <1>2. /\ row.epoch = e /\ row.seq = n /\ row.table = "event"
        /\ row.event.kind = "sync-complete" /\ row.event.count = k
    BY DEF Here, Complete
  <1>3. journal' = With(journal, row)
        /\ \A r \in journal : r.epoch = fence.epoch /\ r.seq = Next1 => r = row
    BY DEF FinishReplay, Append, With
  <1>4. /\ fence' = [fence EXCEPT !.cursor = Next1]
        /\ watermark' = [epoch |-> e, seq |-> n] /\ shadow' = None /\ world' = Exchange(shadow)
        /\ finishing' = "close"
        /\ UNCHANGED <<consistent, verified, refused, opened, exchanged, pump, stream, faults>>
    BY DEF FinishReplay, Lift, Advance, bridge
  <1>5. /\ ~StartRefused /\ e \in 1..opened /\ n \in 1..MaxSeq /\ fence.cursor < MaxSeq
        /\ pump = "reading" /\ Advanced(fence.broken)
    BY <1>1, <1>4, SequenceFacts, FenceMoves DEF IInv
  <1>6. shadow \in Shadow /\ world \in Worlds
    BY <1>1 DEF IInv, Types
  <1> HIDE DEF row
  <1>7. /\ e \in Epochs \ verified
        /\ Content(shadow, Accepted(journal', e, n))
        /\ shadow.count = Tally(Front(journal', e, n)) + Tally(Efforts(refused, e))
        /\ \A f \in Efforts(refused, e) : f.seq \in Nat /\ f.seq <= n
        /\ Begun(Accepted(journal', e, n))
        /\ Numbered(Rows(journal', e), n)
    <2>1. /\ shadow.count = shadow.count + Counted(row.event)
          /\ row.table = "event" /\ row.event.kind \notin {"device-upserted", "state"}
      BY <1>2, <1>6 DEF Counted, Shadow
    <2> QED  BY <1>1, <1>2, <1>3, <1>5, <1>6, <2>1, ReplayGoesOn
  <1>8. Exchange(shadow) \in Worlds /\ Shown(Exchange(shadow), Accepted(journal', e, n))
    <2>1. /\ \A r, q \in Rows(journal', e) : r.seq = q.seq => r = q
          /\ \A r \in Rows(journal', e) : r.seq \in 1..n
      BY <1>7 DEF Numbered
    <2>2. \A r \in Accepted(journal', e, n) : r \in Rows(journal', e) /\ r.seq \in Nat
      BY <2>1 DEF Accepted, Rows
    <2>3. \A r, q \in Accepted(journal', e, n) : r.seq = q.seq => r = q
      BY <2>1, <2>2
    <2> QED  BY <1>6, <1>7, <2>2, <2>3, ExchangeShown
  <1>9. Whole(journal', refused, e, n)
    <2>1. Front(journal', e, n) = Rows(journal', e)
      BY <1>5, <1>7, FrontIsAll
    <2>2. row \in Accepted(journal', e, n)
      BY <1>2, <1>3, <1>5 DEF Accepted, With
    <2>3. Tried(refused, e, n) = Efforts(refused, e)
      BY <1>7 DEF Tried, Efforts
    <2> QED  BY <1>1, <1>2, <1>5, <1>7, <2>1, <2>2, <2>3 DEF Whole
  <1>10. Written(row, fence.broken)
    BY <1>2, <1>3, <1>4, <1>5, <1>8 DEF Written
  <1>11. Types' /\ JournalFits' /\ ConsistentFits'
    BY <1>5, <1>10, WrittenHolds
  <1>12. fence'.epoch = e /\ fence'.cursor = n
    BY <1>5 DEF Advanced
  <1>13. ReplayFits' /\ LoopFits'
    BY <1>4, <1>5 DEF ReplayFits, LoopFits
  <1>14. FinishFits'
    BY <1>4, <1>7, <1>8, <1>9, <1>12 DEF FinishFits
  <1>15. ViewStep
    BY <1>1, <1>4, <1>12 DEF ViewStep
  <1> QED  BY <1>11, <1>13, <1>14, <1>15 DEF IInv

(* A failed commit: the envelope's row is on record or it is not, the fence stays *)
(* where it is, and the replay has counted the envelope.                        *)
Stumbled(f, row) ==
  /\ f.epoch = fence.epoch /\ f.seq = Next1 /\ f.fault = faults' /\ faults' = faults + 1
  /\ refused' = With(refused, f)
  /\ \/ UNCHANGED <<journal, watermark>>
     \/ /\ row.epoch = fence.epoch /\ row.seq = Next1
        /\ row.table = "event" /\ row.event.kind = "state" => row.event.value \in Value \cup {None}
        /\ journal' = With(journal, row)
        /\ \A r \in journal : r.epoch = fence.epoch /\ r.seq = Next1 => r = row
        /\ \/ watermark' = [epoch |-> fence.epoch, seq |-> Next1]
           \/ row.table = "extension" /\ watermark' = watermark
  /\ UNCHANGED <<consistent, verified, exchanged, fence, finishing, pump, stream, opened>>
  /\ shadow = None => shadow' = None /\ world' \in Worlds
  /\ shadow # None => world' = world /\ shadow' \in Shadow
                     /\ shadow'.descriptors = shadow.descriptors /\ shadow'.states = shadow.states
                     /\ shadow'.count = shadow.count + Counted(f.event)

LEMMA StumbledHolds ==
  ASSUME IInv, NEW ev, InSequence(ev), ev.kind # "sync-start", NEW f, NEW row, Stumbled(f, row)
  PROVE  IInv' /\ ViewStep
  <1>1. /\ ~StartRefused /\ finishing = "no" /\ pump = "reading" /\ stream = "open"
        /\ shadow = None => fence.epoch \in verified
        /\ ~fence.broken /\ conn \notin Closed
        /\ fence.epoch \in Epochs /\ fence.epoch \in 1..opened /\ fence.cursor < MaxSeq
        /\ Next1 \in 1..MaxSeq /\ Next1 = fence.cursor + 1 /\ fence.cursor \in Nat
    BY SequenceFacts, IngestAssumption DEF IInv, Types
  <1>2. /\ refused' = With(refused, f) /\ refused \subseteq refused'
        /\ fence' = fence /\ verified' = verified /\ finishing' = finishing
    BY DEF Stumbled, With
  <1>3. /\ faults \in Nat /\ IsFiniteSet(refused) /\ f \notin refused
        /\ f.epoch = fence.epoch /\ f.seq = Next1 /\ f.fault = faults + 1 /\ faults' = faults + 1
    BY DEF IInv, Types, Stumbled
  <1>4. Efforts(refused', fence.epoch) = With(Efforts(refused, fence.epoch), f)
    BY <1>1, <1>2, <1>3, EffortsNext
  <1>5. \A a : \A n \in Nat : a # fence.epoch \/ n < Next1 => Tried(refused', a, n) = Tried(refused, a, n)
    BY <1>1, <1>2, <1>3, EffortsNext
  <1>6. Types'
    <2>1. IsFiniteSet(refused')
      BY <1>2, <1>3, FS_AddElement DEF With
    <2>2. \A g \in refused' : g.epoch \in 1..opened' /\ g.seq \in Nat /\ g.fault \in 1..faults'
      BY <1>1, <1>2, <1>3 DEF IInv, Types, With, Stumbled
    <2>3. \A r \in journal' :
            /\ r.epoch \in 1..opened /\ r.seq \in 1..MaxSeq
            /\ r.table = "event" /\ r.event.kind = "state" => r.event.value \in Value \cup {None}
      BY <1>1 DEF IInv, Types, With, Stumbled
    <2>4. watermark' \in [epoch : 1..opened, seq : 1..MaxSeq] \cup {None}
      BY <1>1 DEF IInv, Types, Stumbled
    <2>5. shadow' \in Shadow \cup {None} /\ world' \in Worlds /\ opened' = opened
      BY DEF IInv, Types, Stumbled
    <2> QED  BY <1>2, <1>3, <2>1, <2>2, <2>3, <2>4, <2>5 DEF IInv, Types
  <1>7. JournalFits' /\ FinishFits' /\ ConsistentFits'
    <2>1. CASE UNCHANGED <<journal, watermark>>
      BY <1>1, <1>2, <1>5, <2>1, NoRowWritten DEF Stumbled
    <2>2. CASE ~UNCHANGED <<journal, watermark>>
      <3>1. \E g \in Efforts(refused', fence.epoch) : g.seq = Next1
        BY <1>3, <1>4 DEF With
      <3>2. JournalFits' /\ ConsistentFits'
        BY <1>1, <1>2, <1>5, <2>2, <3>1, RowWritten DEF Stumbled
      <3> QED  BY <1>1, <1>2, <3>2 DEF FinishFits
    <2> QED  BY <2>1, <2>2
  <1>8. /\ Front(journal', fence.epoch, fence.cursor) = Front(journal, fence.epoch, fence.cursor)
        /\ Accepted(journal', fence.epoch, fence.cursor) = Accepted(journal, fence.epoch, fence.cursor)
    <2>1. CASE journal' = journal
      BY <2>1
    <2>2. CASE journal' = With(journal, row) /\ row.seq = Next1
      <3>1. row.seq \in Nat /\ fence.cursor < row.seq
        BY <1>1, <2>2
      <3> QED  BY <1>1, <2>2, <3>1, FrontKept, SameFront
    <2> QED  BY <2>1, <2>2 DEF Stumbled
  <1>9. ReplayFits'
    <2> SUFFICES ASSUME shadow # None PROVE ReplayFits'
      BY DEF ReplayFits, Stumbled
    <2>1. /\ fence.epoch \in Epochs \ verified
          /\ Content(shadow, Accepted(journal, fence.epoch, fence.cursor))
          /\ shadow.count = Tally(Front(journal, fence.epoch, fence.cursor)) + Tally(Efforts(refused, fence.epoch))
          /\ \A g \in Efforts(refused, fence.epoch) : g.seq <= fence.cursor + 1
          /\ Begun(Accepted(journal, fence.epoch, fence.cursor))
      BY <1>1 DEF IInv, ReplayFits
    <2>2. Content(shadow', Accepted(journal, fence.epoch, fence.cursor))
      BY <2>1 DEF Stumbled, Content
    <2>3. Tally(Efforts(refused', fence.epoch)) = Tally(Efforts(refused, fence.epoch)) + Counted(f.event)
      <3>1. IsFiniteSet(Efforts(refused, fence.epoch)) /\ f \notin Efforts(refused, fence.epoch)
        BY <1>3, FS_Subset DEF Efforts
      <3> QED  BY <1>4, <3>1, TallyNext
    <2>4. shadow'.count = Tally(Front(journal, fence.epoch, fence.cursor)) + Tally(Efforts(refused', fence.epoch))
      <3>1. shadow'.count = shadow.count + Counted(f.event)
        BY DEF Stumbled
      <3>2. /\ Tally(Front(journal, fence.epoch, fence.cursor)) \in Nat
            /\ Tally(Efforts(refused, fence.epoch)) \in Nat /\ Counted(f.event) \in Nat
        <4>1. IsFiniteSet(Efforts(refused, fence.epoch))
          BY <1>3, FS_Subset DEF Efforts
        <4>2. PICK k \in Nat : Numbered(Rows(journal, fence.epoch), k)
          BY <2>1 DEF IInv, JournalFits
        <4>3. IsFiniteSet(Front(journal, fence.epoch, fence.cursor))
          BY <1>1, <4>2, FrontFinite
        <4> QED  BY <4>1, <4>3, TallyType DEF Counted
      <3> QED  BY <2>1, <2>3, <3>1, <3>2
    <2>5. \A g \in Efforts(refused', fence.epoch) : g.seq <= fence.cursor + 1
      BY <1>1, <1>3, <1>4, <2>1 DEF With
    <2> QED  BY <1>1, <1>2, <1>8, <2>1, <2>2, <2>4, <2>5 DEF ReplayFits
  <1>10. LoopFits'
    BY <1>1, <1>2, NoneIsNothing DEF LoopFits, Stumbled
  <1>11. ViewStep
    BY <1>1, <1>2 DEF ViewStep, Stumbled
  <1> QED  BY <1>6, <1>7, <1>9, <1>10, <1>11 DEF IInv

LEMMA CommitFailsHolds ==
  ASSUME IInv, NEW ev \in Stream, NEW valid \in BOOLEAN, NEW why, CommitFails(ev, valid, why)
  PROVE  IInv' /\ ViewStep
  <1> DEFINE f   == Attempt(fence.epoch, Next1, ev)
             row == Filed(ev, valid)
  <1>1. InSequence(ev) /\ ev.kind # "sync-start" /\ (ev.kind = "state" => ev.value \in Value)
    BY StreamTypes DEF CommitFails
  <1>2. /\ f.epoch = fence.epoch /\ f.seq = Next1 /\ f.fault = faults' /\ f.event = ev
        /\ faults' = faults + 1 /\ refused' = With(refused, f)
    BY DEF CommitFails, Attempt, Note, Fault, With
  <1>3. /\ row.epoch = fence.epoch /\ row.seq = Next1
        /\ row.table = "event" => row.event = ev
    BY DEF Filed, Here
  <1>4. \/ UNCHANGED <<journal, watermark>>
        \/ /\ journal' = With(journal, row) /\ watermark' = [epoch |-> fence.epoch, seq |-> Next1]
           /\ \A r \in journal : r.epoch = fence.epoch /\ r.seq = Next1 => r = row
    BY DEF CommitFails, Append, Lift, With
  <1>5. UNCHANGED <<consistent, verified, exchanged, fence, finishing, pump, stream, opened>>
    BY DEF CommitFails
  <1>6. /\ shadow = None => shadow' = None /\ world' \in {world, WorldWithout(ev)}
        /\ shadow # None => shadow' \in {Count(ev), ShadowWithout(ev)} /\ world' = world
    BY DEF CommitFails
  <1>7. shadow = None => world' \in Worlds
    BY <1>6, WorldTypes DEF IInv, Types
  <1>8. ASSUME shadow # None
        PROVE  /\ shadow' \in Shadow /\ shadow'.count = shadow.count + Counted(ev)
               /\ shadow'.descriptors = shadow.descriptors /\ shadow'.states = shadow.states
    <2>1. shadow \in Shadow
      BY <1>8 DEF IInv, Types
    <2> QED  BY <1>6, <1>8, <2>1, CountTypes, ShadowTypes
  <1> HIDE DEF f, row
  <1>9. Stumbled(f, row)
    BY <1>1, <1>2, <1>3, <1>4, <1>5, <1>6, <1>7, <1>8 DEF Stumbled
  <1> QED  BY <1>1, <1>9, StumbledHolds

LEMMA ExtensionFailsHolds ==
  ASSUME IInv, ExtensionFails
  PROVE  IInv' /\ ViewStep
  <1> DEFINE f   == Attempt(fence.epoch, Next1, Extension)
             row == Here(Extension, "extension")
  <1>1. InSequence(Extension) /\ Extension.kind # "sync-start"
    BY DEF ExtensionFails, Extension
  <1>2. /\ f.epoch = fence.epoch /\ f.seq = Next1 /\ f.fault = faults' /\ Counted(f.event) = 0
        /\ faults' = faults + 1 /\ refused' = With(refused, f)
    BY DEF ExtensionFails, Attempt, Note, Fault, With, Counted, Extension
  <1>3. row.epoch = fence.epoch /\ row.seq = Next1 /\ row.table = "extension"
    BY DEF Here
  <1>4. /\ journal' = With(journal, row) /\ watermark' = watermark
        /\ \A r \in journal : r.epoch = fence.epoch /\ r.seq = Next1 => r = row
    BY DEF ExtensionFails, Append, With
  <1>5. UNCHANGED <<consistent, verified, exchanged, fence, finishing, pump, stream, opened, shadow, world>>
    BY DEF ExtensionFails
  <1> HIDE DEF f, row
  <1>6. Stumbled(f, row)
    <2>1. shadow \in Shadow \cup {None} /\ world \in Worlds
      BY DEF IInv, Types
    <2>2. shadow # None => shadow.count + Counted(f.event) = shadow.count
      BY <1>2, <2>1 DEF Shadow
    <2> QED  BY <1>2, <1>3, <1>4, <1>5, <2>1, <2>2 DEF Stumbled
  <1> QED  BY <1>1, <1>6, StumbledHolds

(* A step that writes nothing and shows nothing else.                           *)
Aside ==
  /\ UNCHANGED <<journal, watermark, consistent, verified, exchanged, refused, world>>
  /\ fence'.epoch = fence.epoch /\ fence'.cursor = fence.cursor
  /\ fence' \in [epoch : 1..opened' \cup {None}, cursor : 0..MaxSeq, broken : BOOLEAN, awaiting : BOOLEAN]
  /\ opened' \in {opened, opened + 1} \cap (0..MaxEpoch)
  /\ faults' = faults \/ faults' = faults + 1
  /\ shadow' \in {shadow, None}
  /\ finishing' # "no" => finishing # "no"
  /\ LoopFits'

LEMMA AsideHolds ==
  ASSUME IInv, Aside
  PROVE  IInv' /\ ViewStep
  <1>1. Types'
    <2>1. /\ 1..opened \subseteq 1..opened' /\ opened' \in 0..MaxEpoch
      BY IngestAssumption DEF IInv, Types, Aside
    <2>2. watermark' \in [epoch : 1..opened', seq : 1..MaxSeq] \cup {None}
      BY <2>1 DEF IInv, Types, Aside
    <2>3. \A r \in journal' :
            /\ r.epoch \in 1..opened' /\ r.seq \in 1..MaxSeq
            /\ r.table = "event" /\ r.event.kind = "state" => r.event.value \in Value \cup {None}
      BY <2>1 DEF IInv, Types, Aside
    <2>4. faults' \in Nat /\ 1..faults \subseteq 1..faults'
      BY DEF IInv, Types, Aside
    <2>5. /\ IsFiniteSet(refused')
          /\ \A f \in refused' : f.epoch \in 1..opened' /\ f.seq \in Nat /\ f.fault \in 1..faults'
      BY <2>1, <2>4 DEF IInv, Types, Aside
    <2> QED  BY <2>1, <2>2, <2>3, <2>4, <2>5 DEF IInv, Types, Aside
  <1>2. JournalFits' /\ FinishFits' /\ ConsistentFits'
    BY NoRowWritten DEF Aside
  <1>3. ReplayFits'
    <2>1. shadow # None => finishing = "no"
      BY DEF IInv, ReplayFits
    <2> QED  BY <2>1, ReplayLeft DEF Aside
  <1> QED  BY <1>1, <1>2, <1>3 DEF IInv, Aside, ViewStep

(* The fence's type when only more epochs are open.                             *)
LEMMA FenceStays ==
  ASSUME IInv, fence' = fence, opened' \in {opened, opened + 1}
  PROVE  fence' \in [epoch : 1..opened' \cup {None}, cursor : 0..MaxSeq, broken : BOOLEAN, awaiting : BOOLEAN]
  <1>1. 1..opened \subseteq 1..opened'
    BY IngestAssumption DEF IInv, Types
  <1> QED  BY <1>1 DEF IInv, Types

LEMMA BreakHolds ==
  ASSUME IInv, NEW why, Break(why)
  PROVE  IInv' /\ ViewStep
  <1>1. /\ fence' = [fence EXCEPT !.broken = TRUE] /\ pump' = pump /\ stream' = stream
        /\ UNCHANGED <<journal, watermark, consistent, verified, exchanged, refused, world, opened, faults,
                       shadow, finishing>>
    BY DEF Break, bridge, Full
  <1>2. /\ fence'.epoch = fence.epoch /\ fence'.cursor = fence.cursor /\ fence'.broken
        /\ fence' \in [epoch : 1..opened \cup {None}, cursor : 0..MaxSeq, broken : BOOLEAN, awaiting : BOOLEAN]
    BY <1>1 DEF IInv, Types
  <1>3. LoopFits'
    BY <1>1, <1>2 DEF IInv, LoopFits
  <1>4. Aside
    BY <1>1, <1>2, <1>3 DEF Aside, IInv, Types
  <1> QED  BY <1>4, AsideHolds

LEMMA IdentityMismatchHolds ==
  ASSUME IInv, IdentityMismatch
  PROVE  IInv' /\ ViewStep
  <1>1. /\ UNCHANGED <<journal, watermark, consistent, verified, exchanged, refused, world, faults, fence,
                       shadow, finishing>>
        /\ opened < MaxEpoch /\ opened' = opened + 1 /\ stream' = "aborted"
    BY DEF IdentityMismatch, durable
  <1>2. LoopFits'
    BY <1>1 DEF LoopFits
  <1>3. opened' \in {opened, opened + 1} \cap (0..MaxEpoch)
    BY <1>1, IngestAssumption DEF IInv, Types
  <1>4. Aside
    BY <1>1, <1>2, <1>3, FenceStays DEF Aside
  <1> QED  BY <1>4, AsideHolds

(* A new epoch: no row yet, or its first.                                       *)
LEMMA SyncStartHolds ==
  ASSUME IInv, NEW outcome, SyncStart(outcome)
  PROVE  IInv' /\ ViewStep
  <1> DEFINE e   == opened + 1
             row == [epoch |-> e, seq |-> 1, event |-> [kind |-> "sync-start"], table |-> "event"]
             f   == [epoch |-> e, seq |-> 1, event |-> [kind |-> "sync-start"], fault |-> faults']
             n   == IF outcome = "ok" THEN 1 ELSE 0
  <1>1. /\ opened < MaxEpoch /\ opened' = e /\ shadow' = NewShadow /\ stream' = "open"
        /\ finishing = "no" /\ finishing' = "no" /\ pump = "reading" /\ pump' = "reading"
        /\ UNCHANGED <<consistent, verified, world, exchanged>>
    BY DEF SyncStart, Receiving, Calm
  <1>2. fence' = [epoch |-> e, cursor |-> n, broken |-> FALSE, awaiting |-> FALSE]
    BY <1>1 DEF SyncStart
  <1>3. /\ \/ outcome = "ok" /\ UNCHANGED <<refused, faults>>
           \/ outcome # "ok" /\ faults' = faults + 1 /\ refused' = With(refused, f)
        /\ \/ outcome \in {"ok", "late"} /\ journal' = With(journal, row) /\ watermark' = [epoch |-> e, seq |-> 1]
           \/ outcome \notin {"ok", "late"} /\ UNCHANGED <<journal, watermark>>
    BY <1>1 DEF SyncStart, With, Fault, Note, Attempt, FirstRow
  <1>4. /\ opened \in Nat /\ e \in Epochs /\ e \in 1..e /\ e \in 0..MaxEpoch
        /\ e \notin verified /\ 1..opened \subseteq 1..e /\ 1 \in 1..MaxSeq
        /\ (\A r \in journal : r.epoch # e) /\ (\A g \in refused : g.epoch # e)
    BY <1>1, IngestAssumption DEF IInv, Types, Epochs
  <1>5. /\ row.epoch = e /\ row.seq = 1 /\ row.table = "event" /\ row.event.kind = "sync-start"
        /\ f.epoch = e /\ f.seq = 1 /\ f.fault = faults' /\ f.event.kind = "sync-start" /\ Counted(f.event) = 0
    BY DEF Counted
  <1>6. NewShadow \in Shadow
    BY DEF NewShadow, Shadow, Nothing
  <1>7. /\ fence'.epoch = e /\ fence'.cursor = (IF outcome = "ok" THEN 1 ELSE 0)
        /\ fence'.cursor \in Nat
        /\ fence' \in [epoch : 1..e \cup {None}, cursor : 0..MaxSeq, broken : BOOLEAN, awaiting : BOOLEAN]
    BY <1>2, <1>4, IngestAssumption
  <1> HIDE DEF row, f, n
  <1>8. Types'
    <2>1. watermark' \in [epoch : 1..e, seq : 1..MaxSeq] \cup {None}
      BY <1>3, <1>4 DEF IInv, Types
    <2>2. \A r \in journal' :
            /\ r.epoch \in 1..e /\ r.seq \in 1..MaxSeq
            /\ r.table = "event" /\ r.event.kind = "state" => r.event.value \in Value \cup {None}
      BY <1>3, <1>4, <1>5 DEF IInv, Types, With
    <2>3. faults' \in Nat /\ verified' \subseteq 1..e /\ world' \in Worlds
      BY <1>1, <1>3, <1>4 DEF IInv, Types
    <2>4. IsFiniteSet(refused')
      BY <1>3, FS_AddElement DEF With, IInv, Types
    <2>5. \A g \in refused' : g.epoch \in 1..e /\ g.seq \in Nat /\ g.fault \in 1..faults'
      BY <1>3, <1>4, <1>5 DEF With, IInv, Types
    <2> HIDE DEF e
    <2> QED  BY <1>1, <1>4, <1>6, <1>7, <2>1, <2>2, <2>3, <2>4, <2>5 DEF Types
  <1>9. /\ Rows(journal', e) = IF outcome \in {"ok", "late"} THEN {row} ELSE {}
        /\ \A a : a # e => Rows(journal', a) = Rows(journal, a)
        /\ Efforts(refused', e) = IF outcome = "ok" THEN {} ELSE {f}
        /\ \A a, m : a # e => Tried(refused', a, m) = Tried(refused, a, m)
    <2>1. /\ Rows(journal', e) = IF outcome \in {"ok", "late"} THEN {row} ELSE {}
          /\ \A a : a # e => Rows(journal', a) = Rows(journal, a)
      BY <1>3, <1>4, <1>5 DEF Rows, With
    <2>2. Efforts(refused', e) = IF outcome = "ok" THEN {} ELSE {f}
      BY <1>3, <1>4, <1>5 DEF Efforts, With
    <2>3. \A a, m : a # e => Tried(refused', a, m) = Tried(refused, a, m)
      BY <1>3, <1>5 DEF Tried, With
    <2> QED  BY <2>1, <2>2, <2>3
  <1>10. /\ \E k \in Nat : Numbered(Rows(journal', e), k)
         /\ Standing(journal', refused', e, fence'.cursor)
    <2>1. Numbered({row}, 1) /\ Numbered({row}, 0 + 1)
      BY <1>5 DEF Numbered
    <2>2. Numbered({}, 0)
      BY DEF Numbered
    <2>3. CASE outcome = "ok"
      BY <1>7, <1>9, <2>1, <2>3 DEF Standing
    <2>4. CASE outcome = "late"
      <3>1. f \in Efforts(refused', e) /\ f.seq = 0 + 1
        BY <1>5, <1>9, <2>4
      <3>2. Rows(journal', e) = {row} /\ fence'.cursor = 0
        BY <1>7, <1>9, <2>4
      <3> QED  BY <2>1, <3>1, <3>2 DEF Standing
    <2>5. CASE outcome \notin {"ok", "late"}
      BY <1>7, <1>9, <2>2, <2>5 DEF Standing
    <2> QED  BY <2>3, <2>4, <2>5
  <1> HIDE DEF e
  <1>11. JournalFits'
    <2>1. \A a \in Epochs \ verified : \E k \in Nat : Numbered(Rows(journal', a), k)
      BY <1>9, <1>10 DEF IInv, JournalFits
    <2>2. watermark' # None /\ watermark'.epoch \notin verified =>
            /\ \E r \in Rows(journal', watermark'.epoch) : r.seq = watermark'.seq
            /\ \A r \in Rows(journal', watermark'.epoch) :
                 r.table \in {"rejection", "extension"} \/ r.seq <= watermark'.seq
      <3>1. CASE outcome \in {"ok", "late"}
        <4>1. watermark'.epoch = e /\ watermark'.seq = 1
          BY <1>3, <3>1
        <4> QED  BY <1>5, <1>9, <3>1, <4>1
      <3>2. CASE outcome \notin {"ok", "late"}
        BY <1>3, <3>2 DEF IInv, JournalFits
      <3> QED  BY <3>1, <3>2
    <2> QED  BY <1>1, <1>7, <1>10, <2>1, <2>2 DEF JournalFits
  <1>12. ConsistentFits'
    <2> SUFFICES ASSUME consistent # None PROVE ConsistentFits'
      BY <1>1 DEF ConsistentFits
    <2> DEFINE c == consistent.epoch
               m == consistent.seq
    <2>1. /\ c \in verified /\ Whole(journal, refused, c, m) /\ Shown(exchanged, Accepted(journal, c, m))
          /\ watermark # None /\ watermark.epoch = c => m <= watermark.seq
      BY DEF IInv, ConsistentFits
    <2>2. m \in Nat /\ c # e
      BY <1>4, <2>1 DEF Whole
    <2>3. Front(journal', c, m) = Front(journal, c, m) /\ Tried(refused', c, m) = Tried(refused, c, m)
      BY <1>3, <1>5, <1>9, <2>2, FrontKept
    <2>4. Whole(journal', refused', c, m) /\ Shown(exchanged, Accepted(journal', c, m))
      BY <2>1, <2>3, SameFront
    <2>5. watermark' # None /\ watermark'.epoch = c => m <= watermark'.seq
      BY <1>3, <2>1, <2>2
    <2> QED  BY <1>1, <1>7, <2>1, <2>2, <2>4, <2>5 DEF ConsistentFits
  <1>13. ReplayFits'
    <2>1. Accepted(journal', e, fence'.cursor) \subseteq Rows(journal', e)
      BY DEF Accepted, Rows
    <2>2. \A r \in Rows(journal', e) : r.event.kind = "sync-start"
      BY <1>5, <1>9
    <2>3. Content(NewShadow, Accepted(journal', e, fence'.cursor))
      <3>1. \A d : /\ About(Accepted(journal', e, fence'.cursor), "device-upserted", d) = {}
                   /\ About(Accepted(journal', e, fence'.cursor), "state", d) = {}
        BY <2>1, <2>2 DEF About
      <3> QED  BY <3>1 DEF Content, LastIs, NewShadow, Nothing
    <2>4. NewShadow.count = Tally(Front(journal', e, fence'.cursor)) + Tally(Efforts(refused', e))
      <3>1. Front(journal', e, fence'.cursor) \subseteq Rows(journal', e)
        BY DEF Front, Rows
      <3>2. {q \in Front(journal', e, fence'.cursor) : Counted(q.event) = 1} = {}
        BY <2>2, <3>1 DEF Counted
      <3>3. {q \in Efforts(refused', e) : Counted(q.event) = 1} = {}
        BY <1>5, <1>9
      <3>4. Tally(Front(journal', e, fence'.cursor)) = 0 /\ Tally(Efforts(refused', e)) = 0
        BY <3>2, <3>3, FS_EmptySet DEF Tally
      <3> QED  BY <3>4 DEF NewShadow
    <2>6. \A g \in Efforts(refused', e) : g.seq <= fence'.cursor + 1
      BY <1>5, <1>7, <1>9
    <2>5. Begun(Accepted(journal', e, fence'.cursor)) \/ StartRefused'
      <3>1. CASE outcome = "ok"
        <4>1. row \in Accepted(journal', e, fence'.cursor)
          BY <1>3, <1>5, <1>7, <3>1 DEF Accepted, With
        <4> QED  BY <1>5, <4>1 DEF Begun
      <3>2. CASE outcome # "ok"
        <4>1. f \in refused' /\ f.epoch = e /\ f.seq = 1 /\ f.event.kind = "sync-start"
          BY <1>3, <1>5, <3>2 DEF With
        <4> QED  BY <1>7, <3>2, <4>1 DEF StartRefused
      <3> QED  BY <3>1, <3>2
    <2> QED  BY <1>1, <1>4, <1>7, <2>3, <2>4, <2>5, <2>6 DEF ReplayFits
  <1>14. FinishFits' /\ LoopFits' /\ ViewStep
    BY <1>1, <1>6, NoneIsNothing DEF FinishFits, LoopFits, ViewStep
  <1> QED  BY <1>8, <1>11, <1>12, <1>13, <1>14 DEF IInv

(* What the loop, the clock and late answers do writes no row.                  *)
Later0 ==
  \/ CloseHistoryGaps \/ FinishThrows \/ HeartbeatMissed \/ SyncTimedOut \/ Disposed
  \/ \E ok \in BOOLEAN : ResyncAnswered(ok) \/ Reconnect(ok) \/ StreamEnds(ok)
  \/ \E ok \in BOOLEAN, who \in {"held", "loose"} : PauseAnswered(who, ok)

LEMMA Later0Holds ==
  ASSUME IInv, Later0
  PROVE  IInv' /\ ViewStep
  <1> DEFINE Kept == /\ UNCHANGED <<journal, watermark, consistent, verified, exchanged, refused, world,
                                    fence, opened>>
                     /\ shadow' \in {shadow, None}
                     /\ finishing' # "no" => finishing # "no"
                     /\ faults' = faults \/ faults' = faults + 1
                     /\ LoopFits'
  <1>0. LoopFits
    BY DEF IInv
  <1>1. ASSUME CloseHistoryGaps PROVE Kept
    <2>1. /\ UNCHANGED <<journal, watermark, consistent, verified, exchanged, refused, world, fence, opened,
                         shadow, faults, pump, stream>>
          /\ finishing = "close" /\ finishing' = "mark"
      BY <1>1 DEF CloseHistoryGaps, memory, bridge
    <2> QED  BY <1>0, <2>1 DEF LoopFits
  <1>2. ASSUME FinishThrows PROVE Kept
    <2>1. /\ UNCHANGED <<journal, watermark, consistent, verified, exchanged, refused, world, fence, opened, shadow>>
          /\ finishing' = "no" /\ stream' = "aborted" /\ faults' = faults + 1
      BY <1>2 DEF FinishThrows, Fault, durable, bridge
    <2> QED  BY <2>1 DEF LoopFits
  <1>3. ASSUME HeartbeatMissed PROVE Kept
    <2>1. /\ UNCHANGED <<journal, watermark, consistent, verified, exchanged, refused, world, fence, opened,
                         shadow, finishing, pump, faults>>
          /\ stream' = stream \/ stream' = "aborted"
      BY <1>3 DEF HeartbeatMissed, durable, bridge
    <2> QED  BY <1>0, <2>1 DEF LoopFits
  <1>4. ASSUME SyncTimedOut PROVE Kept
    <2>1. /\ UNCHANGED <<journal, watermark, consistent, verified, exchanged, refused, world, fence, opened,
                         finishing, pump, faults>>
          /\ shadow' = None
          /\ stream' = (IF pump = "reading" THEN "aborted" ELSE stream)
      BY <1>4 DEF SyncTimedOut, durable, bridge
    <2>2. stream' = "aborted"
      BY <1>0, <2>1 DEF LoopFits
    <2> QED  BY <2>1, <2>2 DEF LoopFits
  <1>5. ASSUME Disposed PROVE Kept
    <2>1. /\ UNCHANGED <<journal, watermark, consistent, verified, exchanged, refused, world, fence, opened,
                         shadow, finishing, stream, faults>>
          /\ pump = "disposing"
      BY <1>5 DEF Disposed, durable, bridge
    <2> QED  BY <1>0, <2>1 DEF LoopFits
  <1>6. ASSUME NEW ok \in BOOLEAN, ResyncAnswered(ok) \/ \E who \in {"held", "loose"} : PauseAnswered(who, ok)
        PROVE  Kept
    <2>1. UNCHANGED <<journal, watermark, consistent, verified, exchanged, refused, world, fence, opened,
                      shadow, finishing, pump, stream, faults>>
      BY <1>6 DEF ResyncAnswered, PauseAnswered, durable, bridge
    <2> QED  BY <1>0, <2>1 DEF LoopFits
  <1>7. ASSUME NEW ok \in BOOLEAN, Reconnect(ok) PROVE Kept
    <2>1. /\ UNCHANGED <<journal, watermark, consistent, verified, exchanged, refused, world, fence, opened,
                         shadow, finishing, faults>>
          /\ pump = "waiting"
          /\ \/ pump' = "reading" /\ stream' = "new"
             \/ pump' = "stopped" /\ stream' = stream
      BY <1>7 DEF Reconnect, durable, bridge
    <2> QED  BY <1>0, <2>1 DEF LoopFits
  <1>8. ASSUME NEW error \in BOOLEAN, StreamEnds(error) PROVE Kept
    <2>1. /\ UNCHANGED <<journal, watermark, consistent, verified, exchanged, refused, world, fence, opened,
                         shadow, finishing>>
          /\ stream' = "aborted" /\ (faults' = faults \/ faults' = faults + 1)
      BY <1>8 DEF StreamEnds, Fault, durable, bridge
    <2> QED  BY <2>1 DEF LoopFits
  <1>9. Kept
    <2> HIDE DEF Kept
    <2> QED  BY <1>1, <1>2, <1>3, <1>4, <1>5, <1>6, <1>7, <1>8 DEF Later0
  <1>10. opened' \in {opened, opened + 1} \cap (0..MaxEpoch)
    BY <1>9 DEF IInv, Types
  <1>11. fence' \in [epoch : 1..opened' \cup {None}, cursor : 0..MaxSeq, broken : BOOLEAN, awaiting : BOOLEAN]
    BY <1>9, FenceStays
  <1>12. Aside
    BY <1>9, <1>10, <1>11 DEF Aside
  <1> QED  BY <1>12, AsideHolds

(* The mark: the sync-complete row at the fence is not above the watermark.     *)
LEMMA MarkConsistentHolds ==
  ASSUME IInv, MarkConsistent
  PROVE  IInv' /\ ViewStep
  <1> DEFINE e == fence.epoch
             n == fence.cursor
  <1>1. /\ finishing # "no" /\ finishing' = "no" /\ verified' = verified \cup {e} /\ exchanged' = world
        /\ consistent'.epoch = e /\ consistent'.seq = n
        /\ UNCHANGED <<journal, watermark, fence, shadow, world, refused, opened, faults, pump, stream>>
    BY DEF MarkConsistent, memory, bridge
  <1>2. /\ e \in Epochs \ verified /\ Whole(journal, refused, e, n)
        /\ Shown(world, Accepted(journal, e, n)) /\ shadow = None
    BY <1>1 DEF IInv, FinishFits, ReplayFits
  <1>3. watermark # None /\ watermark.epoch = e => n <= watermark.seq
    <2>1. PICK r \in Accepted(journal, e, n) : r.seq = n
      BY <1>2 DEF Whole
    <2>2. r \in Rows(journal, e) /\ r.table = "event"
      BY <2>1 DEF Accepted, Rows
    <2> QED  BY <1>2, <2>1, <2>2 DEF IInv, JournalFits
  <1>4. Types'
    <2>1. e \in 1..opened
      BY <1>2, NoneIsNothing DEF IInv, Types
    <2> QED  BY <1>1, <2>1 DEF IInv, Types
  <1>5. JournalFits'
    BY <1>1 DEF IInv, JournalFits
  <1>6. ConsistentFits'
    <2>1. n <= n
      BY DEF IInv, Types
    <2> QED  BY <1>1, <1>2, <1>3, <2>1 DEF ConsistentFits
  <1>7. ReplayFits' /\ FinishFits' /\ LoopFits' /\ ViewStep
    BY <1>1, <1>2 DEF ReplayFits, FinishFits, LoopFits, ViewStep, IInv
  <1> QED  BY <1>4, <1>5, <1>6, <1>7 DEF IInv

(* Retention leaves unverified epochs and the rows below the mark.              *)
LEMMA RetainHolds ==
  ASSUME IInv, NEW old, Retain(old)
  PROVE  IInv' /\ ViewStep
  <1>1. /\ journal' = {r \in journal : r.table # "event" \/ r \notin old \/ Protected(r)}
        /\ finishing = "no"
        /\ UNCHANGED <<watermark, consistent, verified, fence, shadow, world, refused, opened, faults,
                       pump, stream, finishing, exchanged>>
    BY DEF Retain, memory, loop, bridge, Calm
  <1>2. journal' \subseteq journal /\ \A r \in journal : r.epoch \notin verified => r \in journal'
    BY <1>1 DEF Protected
  <1>3. \A a : a \notin verified => Rows(journal', a) = Rows(journal, a)
    BY <1>2 DEF Rows
  <1>4. \A a, m : a \notin verified => /\ Accepted(journal', a, m) = Accepted(journal, a, m)
                                      /\ Front(journal', a, m) = Front(journal, a, m)
    BY <1>2 DEF Accepted, Front
  <1>5. Types'
    BY <1>1, <1>2 DEF IInv, Types
  <1>6. JournalFits'
    BY <1>1, <1>3 DEF IInv, JournalFits, Standing
  <1>7. ReplayFits'
    BY <1>1, <1>3, <1>4 DEF IInv, ReplayFits, StartRefused
  <1>8. ConsistentFits'
    <2> SUFFICES ASSUME consistent # None PROVE ConsistentFits'
      BY <1>1 DEF ConsistentFits
    <2> DEFINE c == consistent.epoch
               m == consistent.seq
    <2>1. \A r \in journal : r.epoch = c /\ r.seq <= m => r \in journal'
      BY <1>1 DEF Protected
    <2>2. Front(journal', c, m) = Front(journal, c, m)
      BY <1>2, <2>1 DEF Front
    <2>3. Whole(journal, refused, c, m) /\ Shown(exchanged, Accepted(journal, c, m))
      BY DEF IInv, ConsistentFits
    <2>4. Whole(journal', refused, c, m) /\ Shown(exchanged, Accepted(journal', c, m))
      BY <2>2, <2>3, SameFront
    <2> QED  BY <1>1, <2>4 DEF IInv, ConsistentFits
  <1>9. FinishFits' /\ LoopFits' /\ ViewStep
    BY <1>1 DEF FinishFits, LoopFits, ViewStep, IInv
  <1> QED  BY <1>5, <1>6, <1>7, <1>8, <1>9 DEF IInv

(* A restart finds the end of an unverified epoch from the watermark and the    *)
(* refusals beyond it.                                                          *)
LEMMA RestartHolds ==
  ASSUME IInv, NEW h, Restart(h)
  PROVE  IInv' /\ ViewStep
  <1> DEFINE S == Fenced \cup {watermark.seq}
             c == CHOOSE n \in S : \A m \in S : m <= n
  <1>1. /\ faults' = faults + 1 /\ world' = Restored /\ shadow' = None /\ finishing' = "no"
        /\ pump' = "reading" /\ stream' = "new"
        /\ UNCHANGED <<journal, watermark, consistent, verified, refused, opened, exchanged>>
    BY DEF Restart, Fault, durable, bridge
  <1>2. \/ watermark = None /\ fence' = NoFence
        \/ /\ watermark # None
           /\ fence' = [epoch |-> watermark.epoch, broken |-> PersistedBroken, awaiting |-> TRUE, cursor |-> c]
    BY DEF Restart
  <1>3. ASSUME watermark # None
        PROVE  /\ c \in S /\ c \in 1..MaxSeq /\ \A m \in S : m <= c
               /\ watermark.epoch \in 1..opened /\ watermark.seq \in 1..MaxSeq
               /\ S \in SUBSET (1..MaxSeq)
    <2>1. watermark.epoch \in 1..opened /\ watermark.seq \in 1..MaxSeq
      BY <1>3 DEF IInv, Types
    <2>2. Fenced \subseteq 1..MaxSeq
      BY DEF Fenced, IInv, Types
    <2>3. S \in SUBSET (1..MaxSeq) /\ S # {}
      BY <2>1, <2>2
    <2>4. MaxSeq \in Nat
      BY IngestAssumption
    <2> HIDE DEF S
    <2>5. \E n \in S : \A m \in S : m <= n
      BY <2>3, <2>4, GreatestExists
    <2>6. c \in S /\ \A m \in S : m <= c
      BY <2>5
    <2> QED  BY <2>1, <2>3, <2>6
  <1> HIDE DEF c
  <1>4. Types'
    <2>1. Restored \in Worlds
      BY RestoredTypes DEF IInv
    <2>2. fence' \in [epoch : 1..opened \cup {None}, cursor : 0..MaxSeq, broken : BOOLEAN, awaiting : BOOLEAN]
      <3>1. PersistedBroken \in BOOLEAN
        BY DEF PersistedBroken
      <3>0. ASSUME NEW E, NEW C, NEW e \in E, NEW n \in C, NEW b \in BOOLEAN, NEW a \in BOOLEAN
            PROVE  [epoch |-> e, cursor |-> n, broken |-> b, awaiting |-> a]
                     \in [epoch : E, cursor : C, broken : BOOLEAN, awaiting : BOOLEAN]
        OBVIOUS
      <3>2. CASE watermark = None
        <4>1. 0 \in 0..MaxSeq /\ None \in 1..opened \cup {None}
          BY IngestAssumption
        <4>2. NoFence \in [epoch : 1..opened \cup {None}, cursor : 0..MaxSeq, broken : BOOLEAN, awaiting : BOOLEAN]
          BY <3>0, <4>1 DEF NoFence
        <4> QED  BY <1>2, <3>2, <4>2
      <3>3. CASE watermark # None
        <4>1. c \in 0..MaxSeq /\ watermark.epoch \in 1..opened \cup {None}
          BY <1>3, <3>3, IngestAssumption
        <4> HIDE DEF S
        <4> DEFINE b == PersistedBroken
        <4>2. b \in BOOLEAN
          BY <3>1
        <4> HIDE DEF b
        <4>3. [epoch |-> watermark.epoch, cursor |-> c, broken |-> b, awaiting |-> TRUE]
                \in [epoch : 1..opened \cup {None}, cursor : 0..MaxSeq, broken : BOOLEAN, awaiting : BOOLEAN]
          BY <3>0, <4>1, <4>2
        <4>4. fence' = [epoch |-> watermark.epoch, cursor |-> c, broken |-> b, awaiting |-> TRUE]
          BY <1>2, <3>3 DEF b
        <4> QED  BY <4>3, <4>4
      <3> QED  BY <3>2, <3>3
    <2> HIDE DEF S
    <2> QED  BY <1>1, <2>1, <2>2 DEF IInv, Types
  <1>5. JournalFits'
    <2>1. ASSUME fence'.epoch \in Epochs \ verified
          PROVE  Standing(journal, refused, fence'.epoch, fence'.cursor)
      <3>1. watermark # None /\ fence'.epoch = watermark.epoch /\ fence'.cursor = c
        BY <1>2, <2>1, NoneIsNothing DEF NoFence
      <3> DEFINE R == Rows(journal, watermark.epoch)
      <3>2. PICK n \in Nat : Numbered(R, n)
        BY <2>1, <3>1 DEF IInv, JournalFits
      <3>3. /\ \E r \in R : r.seq = watermark.seq
            /\ \A r \in R : r.table \in {"rejection", "extension"} \/ r.seq <= watermark.seq
        BY <2>1, <3>1 DEF IInv, JournalFits
      <3>4. \A r \in R : r.table \in {"rejection", "extension"} => r.seq \in S
        BY DEF Fenced, Rows
      <3>5. \A m \in S : \E r \in R : r.seq = m
        BY <3>3 DEF Fenced, Rows
      <3>6. watermark.seq \in S
        OBVIOUS
      <3>7. c \in S /\ c \in 1..MaxSeq /\ watermark.seq \in 1..MaxSeq /\ \A m \in S : m <= c
        BY <1>3, <3>1
      <3> HIDE DEF R, S
      <3>8. c \in 1..n
        BY <3>2, <3>5, <3>7 DEF Numbered
      <3>9. PICK r \in R : r.seq = n
        BY <3>2, <3>8 DEF Numbered
      <3>10. n <= c
        BY <3>3, <3>4, <3>6, <3>7, <3>9
      <3>11. c = n
        BY <3>8, <3>10
      <3> QED  BY <3>1, <3>2, <3>11 DEF R, Standing
    <2> QED  BY <1>1, <2>1 DEF IInv, JournalFits
  <1>6. ConsistentFits'
    <2> SUFFICES ASSUME consistent # None PROVE ConsistentFits'
      BY <1>1 DEF ConsistentFits
    <2>1. /\ consistent.epoch \in verified /\ Whole(journal, refused, consistent.epoch, consistent.seq)
          /\ watermark # None /\ watermark.epoch = consistent.epoch => consistent.seq <= watermark.seq
      BY DEF IInv, ConsistentFits
    <2>2. consistent.epoch # None /\ consistent.seq \in Nat
      <3>0. verified \subseteq 1..opened /\ opened \in 0..MaxEpoch
        BY DEF IInv, Types
      <3>1. consistent.epoch \in Epochs
        <4>1. consistent.epoch \in 1..opened
          BY <2>1, <3>0
        <4>2. MaxEpoch \in Nat
          BY IngestAssumption
        <4> QED  BY <3>0, <4>1, <4>2 DEF Epochs
      <3>2. consistent.seq \in 1..MaxSeq
        BY <2>1 DEF Whole
      <3> QED  BY <3>1, <3>2, NoneIsNothing
    <2>3. ASSUME fence'.epoch = consistent.epoch PROVE consistent.seq <= fence'.cursor
      <3>1. watermark # None /\ fence'.epoch = watermark.epoch /\ fence'.cursor = c
        BY <1>2, <2>2, <2>3 DEF NoFence
      <3>2. consistent.seq <= watermark.seq
        BY <2>1, <2>3, <3>1
      <3>3. watermark.seq <= c /\ watermark.seq \in Nat /\ c \in Nat
        BY <1>3, <3>1
      <3> QED  BY <2>2, <3>1, <3>2, <3>3
    <2> QED  BY <1>1, <2>3 DEF IInv, ConsistentFits
  <1>7. ReplayFits' /\ FinishFits' /\ LoopFits'
    BY <1>1 DEF ReplayFits, FinishFits, LoopFits
  <1>8. ViewStep
    BY <1>1 DEF ViewStep, IInv, Types
  <1> QED  BY <1>4, <1>5, <1>6, <1>7, <1>8 DEF IInv

-----------------------------------------------------------------------------
(* The invariant                                                               *)

LEMMA InitHolds == Init => IInv
  <1> SUFFICES ASSUME Init PROVE IInv
    OBVIOUS
  <1>1. /\ journal = {} /\ watermark = None /\ consistent = None /\ verified = {} /\ shadow = None
        /\ fence = NoFence /\ world = Nothing /\ finishing = "no" /\ pump = "reading"
        /\ opened = 0 /\ refused = {} /\ faults = 0
    BY DEF Init
  <1>2. fence.epoch = None /\ fence.cursor = 0
    BY <1>1 DEF NoFence
  <1>3. Nothing \in Worlds
    BY DEF Nothing, Worlds
  <1>4. fence \in [epoch : 1..opened \cup {None}, cursor : 0..MaxSeq, broken : BOOLEAN, awaiting : BOOLEAN]
    BY <1>1, IngestAssumption DEF NoFence
  <1>5. Types
    BY <1>1, <1>3, <1>4, IngestAssumption, FS_EmptySet DEF Types
  <1>6. \A e : Numbered(Rows(journal, e), 0)
    BY <1>1 DEF Numbered, Rows
  <1>7. JournalFits
    BY <1>1, <1>2, <1>6, NoneIsNothing DEF JournalFits
  <1> QED  BY <1>1, <1>2, <1>5, <1>7 DEF IInv, ReplayFits, FinishFits, ConsistentFits, LoopFits

LEMMA StepHolds ==
  ASSUME IInv, Next
  PROVE  IInv' /\ ViewStep
  <1>1. CASE Ingest
    <2>1. ASSUME NEW o \in Ends, SyncStart(o) PROVE IInv' /\ ViewStep
      BY <2>1, SyncStartHolds
    <2>2. ASSUME NEW o \in Ends, Break(o) PROVE IInv' /\ ViewStep
      BY <2>2, BreakHolds
    <2>3. ASSUME NEW ev \in Stream, Accept(ev) PROVE IInv' /\ ViewStep
      BY <2>3, AcceptHolds
    <2>4. ASSUME NEW ev \in Stream, Reject(ev) PROVE IInv' /\ ViewStep
      BY <2>4, RejectHolds
    <2>5. ASSUME NEW ev \in Stream, NEW valid \in BOOLEAN, NEW why \in Failures,
                 CommitFails(ev, valid, why)
          PROVE  IInv' /\ ViewStep
      BY <2>5, CommitFailsHolds
    <2>6. ASSUME NEW n \in {ev.count : ev \in {x \in Stream : x.kind = "sync-complete"}}, FailReplay(n)
          PROVE  IInv' /\ ViewStep
      BY <2>6, FailReplayHolds
    <2>7. ASSUME NEW n \in {ev.count : ev \in {x \in Stream : x.kind = "sync-complete"}},
                 NEW h \in {"ready", "degraded"}, FinishReplay(n, h)
          PROVE  IInv' /\ ViewStep
      BY <2>7, FinishReplayHolds
    <2>8. ASSUME RejectExtension PROVE IInv' /\ ViewStep
      BY <2>8, RejectExtensionHolds
    <2>9. ASSUME IdentityMismatch PROVE IInv' /\ ViewStep
      BY <2>9, IdentityMismatchHolds
    <2>10. ASSUME ExtensionFails PROVE IInv' /\ ViewStep
      BY <2>10, ExtensionFailsHolds
    <2> QED  BY <1>1, <2>1, <2>2, <2>3, <2>4, <2>5, <2>6, <2>7, <2>8, <2>9, <2>10 DEF Ingest
  <1>2. CASE Later
    <2>1. ASSUME MarkConsistent PROVE IInv' /\ ViewStep
      BY <2>1, MarkConsistentHolds
    <2>2. ASSUME NEW e \in Epochs, Retain({r \in journal : r.epoch <= e}) PROVE IInv' /\ ViewStep
      BY <2>2, RetainHolds
    <2>3. ASSUME NEW h \in {"ready", "degraded"}, Restart(h) PROVE IInv' /\ ViewStep
      BY <2>3, RestartHolds
    <2>4. ASSUME Later0 PROVE IInv' /\ ViewStep
      BY <2>4, Later0Holds
    <2> QED  BY <1>2, <2>1, <2>2, <2>3, <2>4 DEF Later, Later0
  <1> QED  BY <1>1, <1>2 DEF Next

LEMMA StutterHolds ==
  ASSUME IInv, UNCHANGED vars
  PROVE  IInv'
  <1>1. /\ UNCHANGED <<journal, watermark, consistent, verified, exchanged, refused, world, fence, opened, faults,
                       shadow, finishing, pump, stream>>
    BY DEF vars, durable, memory, loop, bridge
  <1>2. Aside
    BY <1>1, FenceStays DEF Aside, IInv, LoopFits, Types
  <1> QED  BY <1>2, AsideHolds

(* The strengthening the properties below follow from, in every reachable state *)
(* of any bridge (bridge-ingest.ts, ingest-journal.ts).                         *)
THEOREM Invariance == Spec => []IInv
  <1>1. IInv /\ [Next]_vars => IInv'
    BY StepHolds, StutterHolds
  <1> QED  BY InitHolds, <1>1, PTL DEF Spec

(* No hole in the record of an epoch retention may not touch yet, and the fence *)
(* at its end, across refusals, failed commits and restarts (ingest,            *)
(* restoreWatermark).                                                           *)
THEOREM JournalIsWhole == Spec => []JournalHasNoHole
  <1>1. IInv => JournalHasNoHole
    <2> SUFFICES ASSUME IInv PROVE JournalHasNoHole
      OBVIOUS
    <2>1. \A e, n : n \in Nat /\ Numbered(Rows(journal, e), n) =>
                      {r.seq : r \in Of(e)} = 1..n /\ Cardinality(Of(e)) = n
      <3> SUFFICES ASSUME NEW e, NEW n \in Nat, Numbered(Rows(journal, e), n)
                   PROVE  {r.seq : r \in Of(e)} = 1..n /\ Cardinality(Of(e)) = n
        OBVIOUS
      <3>1. Of(e) = Rows(journal, e)
        BY DEF Of, Rows
      <3> QED  BY <3>1, NumberedCount DEF Numbered
    <2>2. fence.cursor \in Nat
      BY DEF IInv, Types
    <2>3. \A e \in Epochs \ verified : {r.seq : r \in Of(e)} = 1..Cardinality(Of(e))
      BY <2>1 DEF IInv, JournalFits
    <2>4. ASSUME fence.epoch \in Epochs \ verified
          PROVE  \/ fence.cursor = Cardinality(Of(fence.epoch))
                 \/ /\ Next1 = Cardinality(Of(fence.epoch))
                    /\ \E f \in Tries(fence.epoch, Cardinality(Of(fence.epoch))) :
                         f.seq = Cardinality(Of(fence.epoch))
      <3>1. CASE Numbered(Rows(journal, fence.epoch), fence.cursor)
        BY <2>1, <2>2, <3>1
      <3>2. CASE /\ Numbered(Rows(journal, fence.epoch), fence.cursor + 1)
                 /\ \E f \in Efforts(refused, fence.epoch) : f.seq = fence.cursor + 1
        <4>1. Cardinality(Of(fence.epoch)) = fence.cursor + 1 /\ fence.cursor + 1 \in Nat
          BY <2>1, <2>2, <3>2
        <4> QED  BY <3>2, <4>1 DEF Next1, Tries, Efforts
      <3> QED  BY <2>4, <3>1, <3>2 DEF IInv, JournalFits, Standing
    <2> QED  BY <2>3, <2>4 DEF JournalHasNoHole
  <1> QED  BY <1>1, Invariance, PTL

(* What a restart goes back to is a whole epoch, and its manifest counted every *)
(* envelope once and once more for each commit of it that failed (countReplay,  *)
(* finishReplay, readRetentionDecision).                                        *)
THEOREM MarkedEpochIsWhole == Spec => []ConsistentIsComplete
  <1>1. IInv => ConsistentIsComplete
    <2> SUFFICES ASSUME IInv, consistent # None PROVE ConsistentIsComplete
      BY DEF ConsistentIsComplete
    <2> DEFINE c == consistent.epoch
               m == consistent.seq
               rows == {r \in Of(c) : r.seq <= m}
    <2>1. Whole(journal, refused, c, m)
      BY DEF IInv, ConsistentFits
    <2>2. rows = Front(journal, c, m)
      BY DEF Of, Front
    <2>3. m \in Nat /\ Numbered(Front(journal, c, m), m)
      BY <2>1 DEF Whole
    <2>4. Cardinality(Front(journal, c, m)) = m
      BY <2>3, NumberedCount
    <2>5. PICK r \in Accepted(journal, c, m) :
            /\ r.seq = m /\ r.event.kind = "sync-complete"
            /\ r.event.count = Tally(Front(journal, c, m)) + Tally(Tried(refused, c, m))
      BY <2>1 DEF Whole
    <2>6. r \in Front(journal, c, m)
      BY <2>5 DEF Accepted, Front
    <2>7. /\ {q.seq : q \in rows} = 1..m /\ Cardinality(rows) = m
          /\ r \in rows
          /\ r.event.count = Cardinality({q \in rows : Counted(q.event) = 1})
                               + Cardinality({q \in Tries(c, m) : Counted(q.event) = 1})
      BY <2>2, <2>3, <2>4, <2>5, <2>6 DEF Numbered, Tally, Tried, Tries
    <2> HIDE DEF rows
    <2> QED  BY <2>5, <2>7 DEF ConsistentIsComplete, rows
  <1> QED  BY <1>1, Invariance, PTL

(* A restart shows what the last verified replay showed (restoreConsistent).    *)
THEOREM RestartShowsVerified == Spec => []RebuildsVerified
  <1>1. IInv => RebuildsVerified
    <2> SUFFICES ASSUME IInv, consistent # None PROVE RebuildsVerified
      BY DEF RebuildsVerified
    <2> DEFINE c == consistent.epoch
               m == consistent.seq
    <2>1. Whole(journal, refused, c, m) /\ Shown(exchanged, Accepted(journal, c, m))
      BY DEF IInv, ConsistentFits
    <2>2. Replayed(c, m) = Accepted(journal, c, m)
      BY DEF Replayed, Accepted
    <2>3. Restorable
      BY <2>1, <2>2 DEF Restorable, Whole, Begun
    <2>4. Rebuilt = RebuiltFrom(Accepted(journal, c, m))
      BY <2>2 DEF Rebuilt, RebuiltFrom
    <2> QED  BY <2>1, <2>3, <2>4 DEF RebuildsVerified, Shown
  <1> QED  BY <1>1, Invariance, PTL

(* No failure of a bridge reaches the view the household is shown               *)
(* (completeReplay, applyAccepted, applyInvalidPresence).                       *)
THEOREM ViewIsProtected == Spec => VerifiedViewHolds
  <1>1. IInv /\ [Next]_vars => [ViewStep]_vars
    BY StepHolds
  <1>2. [][ViewStep]_vars => VerifiedViewHolds
    BY PTL DEF VerifiedViewHolds, ViewStep
  <1> QED  BY <1>1, <1>2, Invariance, PTL DEF Spec

=============================================================================
