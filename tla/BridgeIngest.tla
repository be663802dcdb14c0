----------------------------- MODULE BridgeIngest -----------------------------
(***************************************************************************)
(* How one bridge's event stream becomes the world the Hub shows           *)
(* (packages/hub/src/world: bridge-ingest.ts, world-state.ts,              *)
(* ingest-journal.ts and the reading loop of home-world-service.ts).       *)
(*                                                                         *)
(* A bridge numbers its envelopes within an epoch; an epoch opens with     *)
(* sync-start, replays the whole home into a shadow and ends the replay    *)
(* with sync-complete, whose manifest says how many envelopes it sent.     *)
(* The stream may lose, repeat and reorder envelopes of an epoch; a new    *)
(* epoch has an id never used before, and a new subscription sends no      *)
(* envelope of an old epoch.  An envelope that is dropped with nothing     *)
(* recorded changes nothing here and has no action.  Validation never      *)
(* leaves the event loop, so one envelope is one step unless the journal   *)
(* refuses it; the fold buffer is empty between two steps.                 *)
(***************************************************************************)
EXTENDS Naturals, FiniteSets

CONSTANTS
  Device, Value,
  None,        \* no device, no epoch, no shadow
  MaxEpoch,    \* epochs a bridge opens
  MaxSeq,      \* envelopes of one epoch
  MaxRows,     \* envelopes on record
  Stream,      \* the events a bridge sends after sync-start
  MaxFaults    \* crashes, broken connections and failed commits

ASSUME IngestAssumption ==
  /\ None \notin Value
  /\ MaxEpoch \in Nat /\ MaxSeq \in Nat \ {0} /\ MaxRows \in Nat /\ MaxFaults \in Nat
  /\ Stream \subseteq [kind : {"heartbeat", "ext"}]
                \cup [kind : {"device-upserted", "device-removed"}, device : Device]
                \cup [kind : {"state"}, device : Device, value : Value]
                \cup [kind : {"sync-complete"}, count : 0..MaxSeq]

VARIABLES
  journal,     \* ingest_events, ingest_heartbeats and ingest_rejections
  gaps,        \* ingest_history_gaps
  watermark,   \* ingest_watermarks: the last envelope committed
  consistent,  \* ingest_consistent_watermarks
  verified,    \* ingest_consistent_epochs
  fence,       \* activeEpochId, sequenceCursor, epochBroken, awaitingFreshEpoch
  shadow,      \* the replay shadow and its envelope count, or None
  world,       \* what the Hub shows of each device
  conn,        \* connectionState
  finishing,   \* the commit finishReplay makes next
  pausing,     \* who waits for control.pause: the loop, a broken epoch
  resync,      \* a resync requested by breakEpoch is on its way
  pump,        \* where the reading loop is
  stream,      \* the subscription: nothing received yet, open, or aborted
  opened,      \* epochs the bridge has opened
  refused,     \* attempts to commit an envelope that failed; it may be sent again
  faults,
  exchanged    \* history: the world of the last exchange marked consistent

durable == <<journal, gaps, watermark, consistent, verified>>
memory  == <<fence, shadow, world, conn>>
loop    == <<finishing, pausing, resync, pump, stream>>
bridge  == <<opened, refused>>
vars    == <<durable, memory, loop, bridge, faults, exchanged>>

Epochs == 1..MaxEpoch
Mark   == [epoch : Epochs, seq : 1..MaxSeq]
Events == Stream \cup [kind : {"sync-start", "ext"}]
          \cup [kind : {"state"}, device : Device, value : {None}]
          \cup [kind : {"sync-complete"}, count : {0}]
Row    == [epoch : Epochs, seq : 1..MaxSeq, event : Events,
           table : {"event", "heartbeat", "rejection", "extension"}]
View   == [state : Value \cup {None}, validity : {"valid", "invalid-source", "present-but-invalid"}]
Shadow == [descriptors : SUBSET Device, states : [Device -> Value \cup {None}],
           badPresence : SUBSET Device, badState : SUBSET Device, count : Nat]
Worlds == [Device -> View \cup {None}]
Closed == {"paused", "quarantined"}

TypeOK ==
  /\ journal \subseteq Row
  /\ gaps \subseteq [epoch : Epochs, open : BOOLEAN]
  /\ watermark \in Mark \cup {None}
  /\ consistent \in Mark \cup {None}
  /\ verified \subseteq Epochs
  /\ fence \in [epoch : Epochs \cup {None}, cursor : 0..MaxSeq, broken : BOOLEAN, awaiting : BOOLEAN]
  /\ shadow \in Shadow \cup {None}
  /\ world \in Worlds
  /\ conn \in {"starting", "syncing", "ready", "degraded", "down"} \cup Closed
  /\ finishing \in {"no", "close", "mark"}
  /\ pausing \subseteq {"held", "loose"}
  /\ resync \in BOOLEAN
  /\ pump \in {"reading", "disposing", "waiting", "stopped"}
  /\ stream \in {"new", "open", "aborted"}
  /\ opened \in 0..MaxEpoch
  /\ refused \subseteq [epoch : Epochs, seq : 1..MaxSeq, event : Events, fault : 1..MaxFaults]
  /\ faults \in 0..MaxFaults
  /\ exchanged \in Worlds

ASSUME NoneIsNothing == None \notin Epochs /\ None \notin View /\ None \notin Shadow

Nothing  == [d \in Device |-> None]
NoFence  == [epoch |-> None, cursor |-> 0, broken |-> FALSE, awaiting |-> FALSE]
NewShadow == [descriptors |-> {}, states |-> Nothing, badPresence |-> {}, badState |-> {}, count |-> 0]

Init ==
  /\ journal = {} /\ gaps = {} /\ watermark = None /\ consistent = None /\ verified = {}
  /\ fence = NoFence /\ shadow = None /\ world = Nothing /\ conn = "starting"
  /\ finishing = "no" /\ pausing = {} /\ resync = FALSE
  /\ pump = "reading" /\ stream = "new"
  /\ opened = 0 /\ refused = {} /\ faults = 0 /\ exchanged = Nothing

-----------------------------------------------------------------------------
(* What an event does to the shadow and to the world.                      *)

Counted(ev) == IF ev.kind \in {"device-upserted", "state"} THEN 1 ELSE 0
Count(ev) == IF shadow = None THEN None ELSE [shadow EXCEPT !.count = @ + Counted(ev)]

\* applyAccepted during a replay
ShadowWith(ev) ==
  CASE ev.kind = "device-upserted" ->
         [Count(ev) EXCEPT !.descriptors = @ \cup {ev.device}, !.badPresence = @ \ {ev.device}]
    [] ev.kind = "state" ->
         [Count(ev) EXCEPT !.states[ev.device] = ev.value, !.badState = @ \ {ev.device}]
    [] OTHER -> shadow
\* applyInvalidPresence during a replay
ShadowWithout(ev) ==
  CASE ev.kind = "device-upserted" -> [Count(ev) EXCEPT !.badPresence = @ \cup {ev.device}]
    [] ev.kind = "state" -> [Count(ev) EXCEPT !.badState = @ \cup {ev.device}]
    [] OTHER -> shadow
\* a descriptor adds its device, or makes a refused one valid again
Present(view) ==
  IF view = None THEN [state |-> None, validity |-> "valid"]
  ELSE IF view.validity = "present-but-invalid" THEN [view EXCEPT !.validity = "valid"] ELSE view
\* applyAccepted on the live world
WorldWith(ev) ==
  CASE ev.kind = "device-upserted" ->
         [world EXCEPT ![ev.device] = Present(world[ev.device])]
    [] ev.kind = "state" /\ world[ev.device] # None -> [world EXCEPT ![ev.device].state = ev.value]
    [] ev.kind = "device-removed" -> [world EXCEPT ![ev.device] = None]
    [] OTHER -> world
\* applyInvalidPresence on the live world
WorldWithout(ev) ==
  IF ev.kind \in {"device-upserted", "state"} /\ world[ev.device] # None
  THEN [world EXCEPT ![ev.device].validity =
          IF ev.kind = "state" THEN "invalid-source" ELSE "present-but-invalid"]
  ELSE world

\* completeReplay: the shadow becomes the world; a device whose descriptor was
\* refused keeps its previous view, marked.
Exchange(sh) ==
  [d \in Device |->
     IF d \in sh.badPresence
     THEN [state |-> IF world[d] = None THEN None ELSE world[d].state,
           validity |-> "present-but-invalid"]
     ELSE IF d \in sh.descriptors
     THEN [state |-> sh.states[d], validity |-> IF d \in sh.badState THEN "invalid-source" ELSE "valid"]
     ELSE None]

-----------------------------------------------------------------------------
(* Receiving an envelope.                                                  *)

Calm == finishing = "no"
Receiving == pump = "reading" /\ stream # "aborted" /\ "held" \notin pausing /\ Calm
Next1 == fence.cursor + 1
\* mutant: a broken epoch goes on
Heedless(ev) ==
  /\ Receiving /\ stream = "open" /\ conn \notin Closed
  /\ fence.epoch # None /\ ~fence.awaiting
  /\ fence.cursor < MaxSeq /\ Cardinality(journal) < MaxRows
\* the fence lets an envelope of the active epoch through
Expecting ==
  /\ Receiving /\ stream = "open" /\ conn \notin Closed
  /\ fence.epoch # None /\ ~fence.awaiting /\ ~fence.broken
  /\ fence.cursor < MaxSeq /\ Cardinality(journal) < MaxRows
\* the next envelope of the active epoch; sent again it is the same envelope
InSequence(ev) ==
  /\ Expecting
  /\ \A r \in refused : r.epoch = fence.epoch /\ r.seq = Next1 => r.event = ev
Here(ev, table) == [epoch |-> fence.epoch, seq |-> Next1, event |-> ev, table |-> table]
\* Stored already, by a commit that was reported as failed: the keys of
\* ingest_events and ingest_heartbeats refuse a second row, unless the first
\* was merged into the heartbeats before it; a rejection has a key of its own.
Repeatable(row) ==
  \/ row.table \in {"rejection", "extension"}
  \/ row.table = "heartbeat" /\ [row EXCEPT !.seq = fence.cursor] \in journal
Append(row) ==
  /\ \A r \in journal : r.epoch = fence.epoch /\ r.seq = Next1 => r = row /\ Repeatable(row)
  /\ journal' = journal \cup {row}
Advance == fence' = [fence EXCEPT !.cursor = Next1]
\* a rejection keeps the device's name only
Bare(ev) == CASE ev.kind = "state" -> [ev EXCEPT !.value = None]
              [] ev.kind = "sync-complete" -> [ev EXCEPT !.count = 0]
              [] OTHER -> ev
Filed(ev, valid) ==
  IF ~valid THEN Here(Bare(ev), "rejection")
  ELSE Here(ev, IF ev.kind = "heartbeat" THEN "heartbeat" ELSE "event")
Lift == watermark' = [epoch |-> fence.epoch, seq |-> Next1]

Fault == faults < MaxFaults /\ faults' = faults + 1
\* handleCapacity, up to the answer of control.pause
Full(who) ==
  /\ pausing' = pausing \cup {who}
  /\ gaps' \in {gaps, gaps \cup {[epoch |-> fence'.epoch, open |-> TRUE]}}
Refused(why, who) ==
  \/ why = "full" /\ Full(who) /\ UNCHANGED conn
  \/ why \in {"error", "late"} /\ conn' = "quarantined" /\ UNCHANGED <<gaps, pausing>>
Note(attempt) == refused' = refused \cup {attempt}
Attempt(e, n, ev) == [epoch |-> e, seq |-> n, event |-> ev, fault |-> faults']
FirstRow == [epoch |-> opened', seq |-> 1, event |-> [kind |-> "sync-start"], table |-> "event"]

\* sync-start of an epoch not seen before, its identity checked
SyncStart(outcome) ==
  /\ Receiving /\ opened < MaxEpoch /\ Cardinality(journal) < MaxRows
  /\ fence.epoch # None => conn \notin Closed
  /\ opened' = opened + 1
  /\ fence' = [epoch |-> opened', cursor |-> IF outcome = "ok" THEN 1 ELSE 0,
               broken |-> FALSE, awaiting |-> FALSE]
  /\ shadow' = NewShadow /\ stream' = "open"
  /\ IF outcome \in {"ok", "late"}
     THEN journal' = journal \cup {FirstRow} /\ watermark' = [epoch |-> opened', seq |-> 1]
     ELSE UNCHANGED <<journal, watermark>>
  /\ \/ /\ outcome = "ok" /\ conn' = "syncing"
        /\ UNCHANGED <<gaps, pausing, refused, faults>>
     \/ /\ outcome = "full" /\ conn' = "syncing"
        /\ Full("held") /\ Fault /\ Note(Attempt(opened', 1, FirstRow.event))
     \/ /\ outcome \in {"error", "late"} /\ conn' = "quarantined"
        /\ Fault /\ Note(Attempt(opened', 1, FirstRow.event))
        /\ UNCHANGED <<gaps, pausing>>
  /\ UNCHANGED <<consistent, verified, world, finishing, resync, pump, exchanged>>

\* another instance answers under this bridge: the loop stops
IdentityMismatch ==
  /\ Receiving /\ opened < MaxEpoch
  /\ fence.epoch # None => conn \notin Closed
  /\ opened' = opened + 1
  /\ conn' = "quarantined" /\ pump' = "disposing" /\ stream' = "aborted"
  /\ UNCHANGED <<durable, fence, shadow, world, finishing, pausing, resync, refused, faults, exchanged>>

Accept(ev) ==
  /\ InSequence(ev)
  /\ ev.kind # "sync-complete"
  /\ ev.kind = "device-removed" => shadow = None
  /\ Append(Filed(ev, TRUE)) /\ Advance /\ Lift
  /\ IF shadow = None THEN world' = WorldWith(ev) /\ UNCHANGED shadow
     ELSE shadow' = ShadowWith(ev) /\ UNCHANGED world
  /\ UNCHANGED <<gaps, consistent, verified, conn, loop, bridge, faults, exchanged>>

\* a payload that is invalid, unsupported or too large; device-removed in a replay
Reject(ev) ==
  /\ InSequence(ev)
  /\ ev.kind = "sync-complete" => shadow # None
  /\ Append(Filed(ev, FALSE)) /\ Advance /\ Lift
  /\ IF shadow = None THEN world' = WorldWithout(ev) /\ UNCHANGED shadow
     ELSE shadow' = ShadowWithout(ev) /\ UNCHANGED world
  /\ UNCHANGED <<gaps, consistent, verified, conn, loop, bridge, faults, exchanged>>

\* a causality extension that refers to no accepted state: fence, no watermark
Extension == [kind |-> "ext"]
RejectExtension ==
  /\ InSequence(Extension)
  /\ Append(Here(Extension, "extension")) /\ Advance
  /\ UNCHANGED <<gaps, watermark, consistent, verified, shadow, world, conn, loop, bridge, faults, exchanged>>

\* The commit of an envelope fails: refused for want of room, rolled back, or
\* late, the rows stored and the file found in the wrong mode.  A replay has
\* counted the envelope already, and an invalid one has marked its device.
CommitFails(ev, valid, why) ==
  /\ InSequence(ev)
  /\ ev.kind = "sync-complete" => shadow # None
  /\ ev.kind = "device-removed" /\ valid => shadow = None
  /\ UNCHANGED fence
  /\ Fault /\ Refused(why, "held")
  /\ Note(Attempt(fence.epoch, Next1, ev))
  /\ IF why = "late" THEN Append(Filed(ev, valid)) /\ Lift ELSE UNCHANGED <<journal, watermark>>
  /\ IF shadow = None
     THEN world' = (IF valid THEN world ELSE WorldWithout(ev)) /\ UNCHANGED shadow
     ELSE shadow' = (IF valid THEN Count(ev) ELSE ShadowWithout(ev)) /\ UNCHANGED world
  /\ UNCHANGED <<consistent, verified, finishing, resync, pump, stream, opened, exchanged>>
ExtensionFails ==
  /\ InSequence(Extension)
  /\ UNCHANGED fence
  /\ Fault /\ Refused("late", "held")
  /\ Note(Attempt(fence.epoch, Next1, Extension))
  /\ Append(Here(Extension, "extension"))
  /\ UNCHANGED <<watermark, consistent, verified, shadow, world, finishing, resync, pump, stream,
                 opened, exchanged>>

\* breakEpoch: a later envelope than the next one arrives
Break(why) ==
  /\ Expecting /\ Next1 < MaxSeq
  /\ fence' = [fence EXCEPT !.broken = TRUE]
  /\ conn' = "degraded" /\ resync' = TRUE
  /\ \/ why = "ok" /\ gaps' = gaps \cup {[epoch |-> fence.epoch, open |-> TRUE]} /\ UNCHANGED pausing
     \/ why = "full" /\ Full("loose")
     \/ why = "error" /\ UNCHANGED <<gaps, pausing>>
  /\ UNCHANGED <<journal, watermark, consistent, verified, shadow, world, finishing, pump, stream,
                 bridge, faults, exchanged>>

AnyManifest(n) == TRUE  \* mutant: the manifest is not compared
ManifestMatches(n) == n = shadow.count
Complete(n) == [kind |-> "sync-complete", count |-> n]
\* sync-complete: committed first, then compared with the manifest
FinishReplay(n, health) ==
  /\ InSequence(Complete(n)) /\ shadow # None /\ ManifestMatches(n)
  /\ Append(Here(Complete(n), "event")) /\ Advance /\ Lift
  /\ world' = Exchange(shadow) /\ shadow' = None
  /\ conn' = health /\ finishing' = "close"
  /\ UNCHANGED <<gaps, consistent, verified, pausing, resync, pump, stream, bridge, faults, exchanged>>

FailReplay(n) ==
  /\ InSequence(Complete(n)) /\ shadow # None /\ ~ManifestMatches(n)
  /\ Append(Here(Complete(n), "event")) /\ Lift
  /\ fence' = [fence EXCEPT !.cursor = Next1, !.broken = TRUE]
  /\ conn' = "degraded" /\ shadow' = None
  /\ UNCHANGED <<gaps, consistent, verified, world, loop, bridge, faults, exchanged>>

\* the two commits at the end of finishReplay
CloseHistoryGaps ==
  /\ finishing = "close" /\ finishing' = "mark"
  /\ gaps' = {[g EXCEPT !.open = @ /\ g.epoch = fence.epoch] : g \in gaps}
  /\ UNCHANGED <<journal, watermark, consistent, verified, memory, pausing, resync, pump, stream,
                 bridge, faults, exchanged>>
MarkConsistent ==
  /\ finishing = "mark" /\ finishing' = "no"
  /\ consistent' = [epoch |-> fence.epoch, seq |-> fence.cursor]
  /\ verified' = verified \cup {fence.epoch}
  /\ exchanged' = world
  /\ UNCHANGED <<journal, gaps, watermark, memory, pausing, resync, pump, stream, bridge, faults>>
\* either throws: the loop ends as on a stream error
FinishThrows ==
  /\ finishing # "no" /\ finishing' = "no"
  /\ Fault
  /\ conn' = "degraded" /\ pump' = "disposing" /\ stream' = "aborted"
  /\ UNCHANGED <<durable, fence, shadow, world, pausing, resync, bridge, exchanged>>

-----------------------------------------------------------------------------
(* Answers that come later, the clock, the loop, restarts.                 *)

\* control.pause answered
PauseAnswered(who, ok) ==
  /\ Calm /\ who \in pausing /\ pausing' = pausing \ {who}
  /\ conn' = IF ok THEN "paused" ELSE "quarantined"
  /\ UNCHANGED <<durable, fence, shadow, world, finishing, resync, pump, stream, bridge, faults, exchanged>>

\* the resync request of a broken epoch answered; a failure is noted
ResyncAnswered(ok) ==
  /\ Calm /\ resync /\ resync' = FALSE
  /\ conn' = IF ok THEN conn ELSE "degraded"
  /\ UNCHANGED <<durable, fence, shadow, world, finishing, pausing, pump, stream, bridge, faults, exchanged>>

\* checkTimeouts: a silent bridge is down, a late replay is given up
HeartbeatMissed ==
  /\ Calm /\ conn # "paused" /\ (conn = "down" => pump = "reading" /\ stream # "aborted")
  /\ conn' = "down"
  /\ stream' = IF pump = "reading" THEN "aborted" ELSE stream
  /\ UNCHANGED <<durable, fence, shadow, world, finishing, pausing, resync, pump, bridge, faults, exchanged>>
SyncTimedOut ==
  /\ Calm /\ shadow # None
  /\ conn' = "quarantined" /\ shadow' = None
  /\ stream' = IF pump = "reading" THEN "aborted" ELSE stream
  /\ UNCHANGED <<durable, fence, world, finishing, pausing, resync, pump, bridge, faults, exchanged>>

Degraded == IF conn \in Closed THEN conn ELSE "degraded"
\* the connection ends by itself, cleanly or with an error, or was aborted
StreamEnds(error) ==
  /\ pump = "reading" /\ Calm /\ "held" \notin pausing
  /\ IF stream = "aborted" THEN ~error /\ UNCHANGED faults
     ELSE Fault
  /\ conn' = IF error THEN Degraded ELSE conn
  /\ pump' = "disposing" /\ stream' = "aborted"
  /\ UNCHANGED <<durable, fence, shadow, world, finishing, pausing, resync, bridge, exchanged>>
Disposed ==
  /\ pump = "disposing" /\ Calm
  /\ pump' = IF conn \in Closed THEN "stopped" ELSE "waiting"
  /\ conn' = Degraded
  /\ UNCHANGED <<durable, fence, shadow, world, finishing, pausing, resync, stream, bridge, faults, exchanged>>
\* after the restart delay: a fresh adapter, or none can be made
Reconnect(ok) ==
  /\ pump = "waiting" /\ Calm
  /\ \/ ok /\ pump' = "reading" /\ stream' = "new" /\ UNCHANGED <<conn, fence>>
     \/ /\ ~ok /\ pump' = "stopped" /\ UNCHANGED <<stream, fence>>
        /\ conn' = IF conn = "quarantined" THEN conn ELSE "down"
  /\ UNCHANGED <<durable, shadow, world, finishing, pausing, resync, bridge, faults, exchanged>>

\* mutant: rows of a verified epoch go although a restart needs them
ProtectsGaps(r) == [epoch |-> r.epoch, open |-> TRUE] \in gaps \/ r.epoch \notin verified
\* retention: old rows go, except those a restart or a gap may still need
Protected(r) ==
  \/ consistent # None /\ r.epoch = consistent.epoch /\ r.seq <= consistent.seq
  \/ [epoch |-> r.epoch, open |-> TRUE] \in gaps
  \/ r.epoch \notin verified
Retain(old) ==
  /\ Calm
  /\ journal' = {r \in journal : r.table # "event" \/ r \notin old \/ Protected(r)}
  /\ UNCHANGED <<gaps, watermark, consistent, verified, memory, loop, bridge, faults, exchanged>>

\* What restoreConsistent makes of the journal.
Replayed(e, n) == {r \in journal : r.table = "event" /\ r.epoch = e /\ r.seq <= n}
About(rows, kind, d) == {r \in rows : r.event.kind = kind /\ r.event.device = d}
Rebuilt ==
  LET rows == Replayed(consistent.epoch, consistent.seq)
      last(d) == CHOOSE r \in About(rows, "state", d) :
                   \A q \in About(rows, "state", d) : q.seq <= r.seq
  IN [d \in Device |->
        IF About(rows, "device-upserted", d) = {} THEN None
        ELSE [state |-> IF About(rows, "state", d) = {} THEN None ELSE last(d).event.value,
              validity |-> "valid"]]
Restorable ==
  /\ consistent # None
  /\ \E r \in Replayed(consistent.epoch, consistent.seq) : r.event.kind = "sync-start"
  /\ \E r \in Replayed(consistent.epoch, consistent.seq) :
       r.seq = consistent.seq /\ r.event.kind = "sync-complete"
Restored == IF Restorable THEN Rebuilt ELSE Nothing
NoFenced == {}  \* mutant: refused envelopes do not move the fence
Fenced == {r.seq : r \in {q \in journal : q.epoch = watermark.epoch
                                          /\ q.table \in {"rejection", "extension"}}}
PersistedBroken ==
  /\ \E g \in gaps : g.epoch = watermark.epoch
  /\ consistent # None => consistent.epoch # watermark.epoch

\* the process stops anywhere, also between two commits, and starts again
Restart(health) ==
  /\ Fault
  /\ world' = Restored
  /\ fence' = IF watermark = None THEN NoFence
              ELSE [epoch |-> watermark.epoch, broken |-> PersistedBroken, awaiting |-> TRUE,
                    cursor |-> CHOOSE n \in Fenced \cup {watermark.seq} :
                                 \A m \in Fenced \cup {watermark.seq} : m <= n]
  /\ conn' = IF watermark # None /\ PersistedBroken THEN "degraded"
             ELSE IF Restorable THEN health ELSE "starting"
  /\ shadow' = None /\ finishing' = "no" /\ pausing' = {} /\ resync' = FALSE
  /\ pump' = "reading" /\ stream' = "new"
  /\ UNCHANGED <<durable, bridge, exchanged>>

Failures == {"full", "error", "late"}
Ends == Failures \cup {"ok"}
Ingest ==
  \/ \E o \in Ends : SyncStart(o) \/ Break(o)
  \/ \E ev \in Stream : Accept(ev) \/ Reject(ev)
  \/ \E ev \in Stream, valid \in BOOLEAN, why \in Failures : CommitFails(ev, valid, why)
  \/ \E n \in {ev.count : ev \in {x \in Stream : x.kind = "sync-complete"}} :
       FailReplay(n) \/ \E h \in {"ready", "degraded"} : FinishReplay(n, h)
  \/ RejectExtension \/ ExtensionFails \/ IdentityMismatch
Later ==
  \/ CloseHistoryGaps \/ MarkConsistent \/ FinishThrows
  \/ \E ok \in BOOLEAN : ResyncAnswered(ok) \/ Reconnect(ok) \/ StreamEnds(ok)
  \/ \E ok \in BOOLEAN, who \in {"held", "loose"} : PauseAnswered(who, ok)
  \/ HeartbeatMissed \/ SyncTimedOut \/ Disposed
  \/ \E e \in Epochs : Retain({r \in journal : r.epoch <= e})
  \/ \E h \in {"ready", "degraded"} : Restart(h)
Next == Ingest \/ Later
Spec == Init /\ [][Next]_vars

-----------------------------------------------------------------------------
(* What makes the journal and the world right.                             *)

Of(e) == {r \in journal : r.epoch = e}

Tries(e, n) == {f \in refused : f.epoch = e /\ f.seq <= n}

\* Until retention may touch an epoch, its envelopes are on record one by one and
\* without a hole, and the sequence fence stands at the last of them, or before
\* one that was stored by a commit reported as failed (ingest, commitLegal,
\* restoreWatermark: a gap, a refusal or a restart loses its place nowhere).
JournalHasNoHole ==
  /\ \A e \in Epochs \ verified : {r.seq : r \in Of(e)} = 1..Cardinality(Of(e))
  /\ fence.epoch \in Epochs \ verified /\ finishing = "no" =>
       LET last == Cardinality(Of(fence.epoch))
       IN \/ fence.cursor = last
          \/ Next1 = last /\ \E f \in Tries(fence.epoch, last) : f.seq = last

\* The epoch a restart goes back to is on record in full, refused envelopes
\* included, and its manifest counted each of them once and once more for every
\* commit of it that failed.  This is what the code does: that each number is
\* counted once (countReplay, bridge-ingest.ts:758-759, and the manifest of
\* docs/bridge-design.md:161) holds of an epoch without a failed commit only.
ConsistentIsComplete ==
  consistent # None =>
    LET rows == {r \in Of(consistent.epoch) : r.seq <= consistent.seq}
        counted(those) == Cardinality({q \in those : Counted(q.event) = 1})
    IN /\ {r.seq : r \in rows} = 1..consistent.seq
       /\ Cardinality(rows) = consistent.seq
       /\ \E r \in rows :
            /\ r.seq = consistent.seq /\ r.event.kind = "sync-complete"
            /\ r.event.count = counted(rows) + counted(Tries(consistent.epoch, consistent.seq))

\* A restart shows again, of every device that was valid, exactly what the last
\* exchange marked consistent had shown, and no device it had not.
RebuildsVerified ==
  consistent # None =>
    /\ Restorable
    /\ \A d \in Device :
         /\ exchanged[d] # None /\ exchanged[d].validity = "valid" => Rebuilt[d] = exchanged[d]
         /\ exchanged[d] = None => Rebuilt[d] = None

\* What the Hub shows changes by the exchange of a whole replay, by a live event
\* of a verified and unbroken epoch, or by a restart: the failure of a bridge
\* never reaches the consistent view (docs/bridge-design.md, section 2.5).
VerifiedViewHolds ==
  [][world' # world =>
       \/ shadow # None /\ shadow' = None /\ fence'.epoch = fence.epoch
       \/ shadow = None /\ fence.epoch \in verified /\ ~fence.broken /\ conn \notin Closed
       \/ faults' # faults /\ world' = Restored]_vars

=============================================================================
