----------------------- MODULE RuntimeOwnerLeaseProofs -----------------------
(* Theorems about RuntimeOwnerLease, for any contenders, inodes and bounds.    *)
EXTENDS RuntimeOwnerLease, TLAPS

Holding  == {"write", "owner"}
Live     == Holding \cup Releasing \cup Cleaning
Judging  == {"recheck", "rename", "isolate"}
Old(stat)   == stat \in Stat /\ now - stat.mtime >= StaleAfter
Fresh(stat) == stat \in Stat /\ now - stat.mtime < StaleAfter

(* Whoever holds a lease file open keeps it fresh; a file is given up with it.  *)
HolderFits(p) ==
  IF pc[p] \in Holding THEN fd[p] \in Inode /\ mine[p] = fd[p] /\ Fresh(inode[fd[p]])
  ELSE fd[p] = NoFile

(* Whoever reclaims has seen a stale file; what it discards is one.             *)
ReclaimFits(p) ==
  /\ pc[p] \in Judging => observed[p].stat \in Stat /\ Old(observed[p].stat)
  /\ pc[p] = "isolate" => moved[p] \in Inode
  /\ pc[p] = "discard" => moved[p] \in Inode /\ Old(inode[moved[p]])

(* Before any crash the path is the lease of the one process that is not done   *)
(* with it, it is fresh, and nobody reclaims.                                   *)
Undisturbed ==
  /\ path # NoFile => \E p \in Proc : pc[p] \in Live
  /\ \A p \in Proc :
       /\ pc[p] \in Live => path \in Inode /\ mine[p] = path /\ Fresh(inode[path])
       /\ pc[p] \in Releasing \cup {"owner"} => NamesOwner(p)
       /\ pc[p] \notin Judging \cup {"discard"}
  /\ \A p, q \in Proc : pc[p] \in Live /\ pc[q] \in Live => p = q

IInv ==
  /\ TypeOK
  /\ path # NoFile => inode[path] \in Stat
  /\ \A p \in Proc : HolderFits(p) /\ ReclaimFits(p)
  /\ crashes = 0 => Undisturbed

-----------------------------------------------------------------------------
(* What a step of one process leaves to the others                             *)

(* One process moves; at most one inode changes, to a fresh file that nobody is *)
(* about to discard.                                                           *)
StepOf(p) ==
  /\ now' = now
  /\ \A q \in Proc : q # p =>
       /\ pc'[q] = pc[q] /\ fd'[q] = fd[q] /\ mine'[q] = mine[q]
       /\ observed'[q] = observed[q] /\ moved'[q] = moved[q]
  /\ \/ inode' = inode
     \/ \E i \in Inode, s \in Stat : /\ Fresh(s) /\ inode' = [inode EXCEPT ![i] = s]
                                      /\ \A q \in Proc : pc[q] = "discard" => moved[q] # i

LEMMA OthersFit ==
  ASSUME IInv, NEW p \in Proc, StepOf(p), NEW q \in Proc, q # p
  PROVE  HolderFits(q)' /\ ReclaimFits(q)'
  <1>1. /\ now' = now /\ pc'[q] = pc[q] /\ fd'[q] = fd[q] /\ mine'[q] = mine[q]
        /\ observed'[q] = observed[q] /\ moved'[q] = moved[q]
    BY DEF StepOf
  <1>2. HolderFits(q) /\ ReclaimFits(q) /\ inode \in [Inode -> Stat \cup {NoFile}]
    BY DEF IInv, TypeOK
  <1>3. \A s : (Fresh(s)' <=> Fresh(s)) /\ (Old(s)' <=> Old(s))
    BY <1>1 DEF Fresh, Old
  <1>4. CASE inode' = inode
    BY <1>1, <1>2, <1>3, <1>4 DEF HolderFits, ReclaimFits, Fresh, Old
  <1>5. CASE inode' # inode
    <2>1. PICK i \in Inode, s \in Stat : /\ Fresh(s) /\ inode' = [inode EXCEPT ![i] = s]
                                          /\ \A r \in Proc : pc[r] = "discard" => moved[r] # i
      BY <1>5 DEF StepOf
    <2>2. \A j \in Inode : inode'[j] = IF j = i THEN s ELSE inode[j]
      BY <1>2, <2>1
    <2>3. HolderFits(q)'
      BY <1>1, <1>2, <2>1, <2>2 DEF HolderFits, Fresh
    <2>4. ReclaimFits(q)'
      BY <1>1, <1>2, <2>1, <2>2 DEF ReclaimFits, Old
    <2> QED  BY <2>3, <2>4
  <1> QED  BY <1>4, <1>5

(* What is left to show of a step of one process.                              *)
LEMMA StepFits ==
  ASSUME IInv, NEW p \in Proc, StepOf(p), TypeOK', path' # NoFile => inode'[path'] \in Stat,
         HolderFits(p)', ReclaimFits(p)', crashes' = 0 => Undisturbed'
  PROVE  IInv'
  BY OthersFit DEF IInv

(* A step that neither takes the path nor leaves it.                            *)
Quiet(p) ==
  /\ path' = path /\ (inode' # inode => pc[p] \in Live)
  /\ pc'[p] \in Live <=> pc[p] \in Live
  /\ pc'[p] \in Live => mine'[p] = mine[p]
  /\ pc'[p] \notin Judging \cup {"discard"}
  /\ pc'[p] \in Releasing \cup {"owner"} => NamesOwner(p)'

LEMMA QuietHolds ==
  ASSUME IInv, Undisturbed, NEW p \in Proc, StepOf(p), Quiet(p)
  PROVE  Undisturbed'
  <1>1. \A q \in Proc : /\ pc'[q] \in Live <=> pc[q] \in Live
                        /\ pc'[q] \in Live => mine'[q] = mine[q]
                        /\ pc'[q] \notin Judging \cup {"discard"}
    BY DEF StepOf, Quiet, Undisturbed
  <1>2. ASSUME path \in Inode, Fresh(inode[path]) PROVE Fresh(inode[path])'
    <2>1. inode \in [Inode -> Stat \cup {NoFile}]
      BY DEF IInv, TypeOK
    <2> QED  BY <1>2, <2>1 DEF StepOf, Quiet, Fresh
  <1>3. ASSUME NEW q \in Proc, pc'[q] \in Releasing \cup {"owner"} PROVE NamesOwner(q)'
    <2>1. CASE q = p
      BY <1>3, <2>1 DEF Quiet
    <2>2. CASE q # p
      <3>1. pc[q] \in Releasing \cup {"owner"} /\ pc[q] \in Live /\ NamesOwner(q) /\ path \in Inode
        BY <1>3, <2>2 DEF StepOf, Live, Holding, Releasing, Undisturbed
      <3>2. pc[p] \notin Live
        BY <2>2, <3>1 DEF Undisturbed
      <3>3. CASE inode' = inode
        BY <3>1, <3>3 DEF Quiet, NamesOwner
      <3>4. CASE inode' # inode
        BY <3>2, <3>4 DEF Quiet
      <3> QED  BY <3>3, <3>4
    <2> QED  BY <2>1, <2>2
  <1> QED  BY <1>1, <1>2, <1>3 DEF Undisturbed, Quiet

-----------------------------------------------------------------------------
(* Steps that end in a label                                                   *)

Pcs  == Acquiring \cup Releasing \cup Cleaning \cup Ended \cup {"owner"}
Seen == [ino : Inode, stat : Stat \cup {NoFile}] \cup {NoFile}

(* p ends at l; what it saw and its attempts are of their types.                *)
Lands(p, l) ==
  /\ pc' \in [Proc -> Pcs] /\ pc'[p] = l /\ \A q \in Proc : q # p => pc'[q] = pc[q]
  /\ observed' \in [Proc -> Seen] /\ \A q \in Proc : q # p => observed'[q] = observed[q]
  /\ attempt' \in [Proc -> 0..MaxAttempt - 1]

LEMMA Landing ==
  ASSUME TypeOK, NEW p \in Proc, NEW l \in Pcs
  PROVE  /\ Goto(p, l) /\ UNCHANGED <<attempt, observed>> => Lands(p, l) /\ observed' = observed
         /\ Leave(p, l) => Lands(p, l)
         /\ Finish(p, l) /\ UNCHANGED <<attempt, observed>> =>
              /\ Lands(p, l) /\ mine' \in [Proc -> Dir]
              /\ \A q \in Proc : q # p => mine'[q] = mine[q]
  <1>1. /\ pc \in [Proc -> Pcs] /\ observed \in [Proc -> Seen]
        /\ attempt \in [Proc -> 0..MaxAttempt - 1] /\ mine \in [Proc -> Dir]
        /\ 0 \in 0..MaxAttempt - 1 /\ NoFile \in Seen /\ NoFile \in Dir
    BY LeaseAssumption DEF TypeOK, Pcs, Seen, Dir
  <1> HIDE DEF Pcs, Seen, Dir
  <1> QED  BY <1>1 DEF Goto, Leave, Finish, Lands

LEMMA Retrying ==
  ASSUME TypeOK, NEW p \in Proc, Retry(p)
  PROVE  \E l \in {"busy", "open"} : Lands(p, l)
  <1>1. CASE LastAttempt(p) /\ Leave(p, "busy")
    BY <1>1, Landing DEF Pcs, Ended
  <1>2. CASE ~LastAttempt(p) /\ Goto(p, "open") /\ attempt' = [attempt EXCEPT ![p] = attempt[p] + 1]
             /\ observed' = [observed EXCEPT ![p] = NoFile]
    <2>1. attempt[p] + 1 \in 0..MaxAttempt - 1
      BY <1>2, LeaseAssumption DEF TypeOK, LastAttempt
    <2>2. /\ pc \in [Proc -> Pcs] /\ observed \in [Proc -> Seen]
          /\ attempt \in [Proc -> 0..MaxAttempt - 1] /\ NoFile \in Seen /\ "open" \in Pcs
      BY DEF TypeOK, Pcs, Seen, Acquiring
    <2>3. pc' = [pc EXCEPT ![p] = "open"]
      BY <1>2 DEF Goto
    <2> HIDE DEF Pcs, Seen
    <2> QED  BY <1>2, <2>1, <2>2, <2>3 DEF Lands
  <1> QED  BY <1>1, <1>2 DEF Retry

(* A step of p that lands at l and changes no file.                            *)
Plain(p, l) ==
  /\ Lands(p, l) /\ l \in Pcs
  /\ UNCHANGED <<now, inode, crashes>>
  /\ mine' \in [Proc -> Dir] /\ \A q \in Proc : q # p => mine'[q] = mine[q]
  /\ path' \in Dir /\ (path' = path \/ path' = NoFile)
  /\ moved' \in [Proc -> Dir] /\ \A q \in Proc : q # p => moved'[q] = moved[q]
  /\ fd' \in [Proc -> Dir] /\ \A q \in Proc : q # p => fd'[q] = fd[q]

LEMMA PlainHolds ==
  ASSUME IInv, NEW p \in Proc, NEW l, Plain(p, l),
         HolderFits(p)', ReclaimFits(p)', crashes = 0 => Undisturbed'
  PROVE  IInv'
  <1>1. TypeOK'
    BY DEF IInv, TypeOK, Plain, Lands, Pcs, Seen
  <1>2. StepOf(p)
    BY DEF Plain, Lands, StepOf
  <1>3. path' # NoFile => inode'[path'] \in Stat
    BY DEF IInv, Plain
  <1>4. crashes' = crashes
    BY DEF Plain
  <1> QED  BY <1>1, <1>2, <1>3, <1>4, StepFits

(* The path freed by the only process that is not done with it, or by nobody.    *)
LEMMA FreedHolds ==
  ASSUME IInv, Undisturbed, NEW p \in Proc, NEW l \in Ended, Plain(p, l),
         path' = NoFile, pc[p] \in Live
  PROVE  Undisturbed'
  <1>1. \A q \in Proc : pc'[q] \notin Live /\ pc'[q] \notin Judging \cup {"discard"}
    BY DEF Plain, Lands, Undisturbed, Live, Holding, Releasing, Cleaning, Ended, Judging
  <1> QED  BY <1>1 DEF Undisturbed, Live, Holding

-----------------------------------------------------------------------------
(* The steps                                                                   *)

(* Steps before a file is created or seen stale.                                *)
LEMMA OutsideHolds ==
  ASSUME IInv, NEW p \in Proc, Begin(p) \/ (Open(p) /\ path # NoFile) \/ Observe(p)
  PROVE  IInv'
  <1>0. TypeOK /\ HolderFits(p) /\ ReclaimFits(p) /\ (path # NoFile => inode[path] \in Stat /\ path \in Inode)
    BY DEF IInv, TypeOK, Dir
  <1>1. /\ UNCHANGED <<now, path, inode, moved, fd, mine, crashes>>
        /\ pc[p] \in Ended \cup {"open", "observe"}
    BY DEF Begin, Open, Observe, Goto, Leave
  <1>2. \/ \E l \in {"open", "observe", "busy"} : Lands(p, l)
        \/ /\ Lands(p, "recheck") /\ path # NoFile /\ Stale(path)
           /\ observed' = [observed EXCEPT ![p] = [ino |-> path, stat |-> inode[path]]]
    <2>1. CASE Begin(p)
      BY <1>0, <2>1, Landing DEF Begin, Pcs, Acquiring
    <2>2. CASE Open(p) /\ path # NoFile
      BY <1>0, <2>2, Landing DEF Open, Pcs, Acquiring
    <2>3. CASE Observe(p)
      <3>1. CASE Retry(p)
        BY <1>0, <3>1, Retrying
      <3>2. CASE Leave(p, "busy")
        BY <1>0, <3>2, Landing DEF Pcs, Ended
      <3>3. CASE /\ path # NoFile /\ Stale(path) /\ Goto(p, "recheck") /\ UNCHANGED attempt
                 /\ observed' = [observed EXCEPT ![p] = [ino |-> path, stat |-> inode[path]]]
        <4>1. [ino |-> path, stat |-> inode[path]] \in Seen
          BY <1>0, <3>3 DEF Seen
        <4>2. pc \in [Proc -> Pcs] /\ observed \in [Proc -> Seen] /\ "recheck" \in Pcs
          BY <1>0 DEF TypeOK, Pcs, Seen, Acquiring
        <4>3. attempt' \in [Proc -> 0..MaxAttempt - 1]
          BY <1>0, <3>3 DEF TypeOK
        <4> HIDE DEF Pcs, Seen
        <4>4. Lands(p, "recheck")
          BY <3>3, <4>1, <4>2, <4>3 DEF Lands, Goto
        <4> QED  BY <3>3, <4>4
      <3> QED  BY <2>3, <3>1, <3>2, <3>3 DEF Observe
    <2> QED  BY <2>1, <2>2, <2>3
  <1>3. fd[p] = NoFile
    BY <1>0, <1>1 DEF HolderFits, Holding, Ended
  <1>4. CASE \E l \in {"open", "observe", "busy"} : Lands(p, l)
    <2>1. PICK l \in {"open", "observe", "busy"} : Lands(p, l)
      BY <1>4
    <2>2. Plain(p, l)
      BY <1>0, <1>1, <2>1 DEF Plain, TypeOK, Pcs, Acquiring, Ended
    <2>3. HolderFits(p)' /\ ReclaimFits(p)'
      BY <1>1, <1>3, <2>1 DEF HolderFits, ReclaimFits, Lands, Holding, Judging
    <2>4. Quiet(p) /\ StepOf(p)
      BY <1>1, <2>1, <2>2 DEF Quiet, StepOf, Lands, Plain, Live, Holding, Releasing, Cleaning, Judging, Ended
    <2>5. crashes = 0 => Undisturbed'
      BY <2>4, QuietHolds DEF IInv
    <2> QED  BY <2>2, <2>3, <2>5, PlainHolds
  <1>5. CASE /\ Lands(p, "recheck") /\ path # NoFile /\ Stale(path)
             /\ observed' = [observed EXCEPT ![p] = [ino |-> path, stat |-> inode[path]]]
    <2>1. Plain(p, "recheck")
      BY <1>0, <1>1, <1>5 DEF Plain, TypeOK, Pcs, Acquiring
    <2>2. observed'[p].stat = inode[path] /\ Old(inode[path])
      BY <1>0, <1>5 DEF TypeOK, Old, Stale
    <2>3. HolderFits(p)' /\ ReclaimFits(p)'
      BY <1>1, <1>3, <1>5, <2>2 DEF HolderFits, ReclaimFits, Lands, Holding, Judging, Old
    <2>4. crashes # 0
      <3>1. Undisturbed => Fresh(inode[path])
        BY <1>5 DEF Undisturbed
      <3>2. ~Fresh(inode[path])
        BY <2>2, LeaseAssumption DEF Fresh, Old, Stat, IInv, TypeOK
      <3> QED  BY <3>1, <3>2 DEF IInv
    <2> QED  BY <2>1, <2>3, <2>4, PlainHolds
  <1> QED  BY <1>2, <1>4, <1>5

(* Between the sighting of a stale file and its removal: only after a crash.    *)
LEMMA ReclaimHolds ==
  ASSUME IInv, NEW p \in Proc, Recheck(p) \/ Rename(p) \/ Isolate(p) \/ Discard(p)
  PROVE  IInv'
  <1>0. TypeOK /\ HolderFits(p) /\ ReclaimFits(p) /\ (path # NoFile => path \in Inode)
    BY DEF IInv, TypeOK, Dir
  <1>1. /\ UNCHANGED <<now, inode, fd, mine, crashes>>
        /\ pc[p] \in Judging \cup {"discard"}
        /\ path' = path \/ path' = NoFile
        /\ moved' = moved \/ moved' = [moved EXCEPT ![p] = path] \/ moved' = [moved EXCEPT ![p] = NoFile]
    BY DEF Recheck, Rename, Isolate, Discard, Judging, Retry, Goto, Leave
  <1>2. crashes # 0
    BY <1>1 DEF IInv, Undisturbed
  <1>3. fd[p] = NoFile
    BY <1>0, <1>1 DEF HolderFits, Holding, Judging
  <1>4. moved' \in [Proc -> Dir] /\ \A q \in Proc : q # p => moved'[q] = moved[q]
    BY <1>0, <1>1 DEF TypeOK, Dir
  <1>5. \/ \E l \in {"open", "busy", "unsafe"} : Lands(p, l)
        \/ Recheck(p) /\ Lands(p, "rename") /\ observed' = observed
        \/ Rename(p) /\ Lands(p, "isolate") /\ observed' = observed /\ moved'[p] = path /\ path \in Inode
        \/ /\ Isolate(p) /\ Lands(p, "discard") /\ observed' = observed /\ moved' = moved
           /\ SameIdentity(p, moved[p])
    <2>1. CASE Retry(p)
      BY <1>0, <2>1, Retrying
    <2>2. CASE Leave(p, "unsafe")
      BY <1>0, <2>2, Landing DEF Pcs, Ended
    <2>3. CASE Recheck(p) /\ Goto(p, "rename") /\ UNCHANGED <<attempt, observed>>
      BY <1>0, <2>3, Landing DEF Pcs, Acquiring
    <2>4. CASE /\ Rename(p) /\ path # NoFile /\ Goto(p, "isolate") /\ UNCHANGED <<attempt, observed>>
               /\ moved' = [moved EXCEPT ![p] = path]
      BY <1>0, <2>4, Landing DEF Pcs, Acquiring, TypeOK
    <2>5. CASE Isolate(p) /\ SameIdentity(p, moved[p]) /\ Goto(p, "discard") /\ UNCHANGED <<attempt, observed, moved>>
      BY <1>0, <2>5, Landing DEF Pcs, Acquiring
    <2> QED  BY <2>1, <2>2, <2>3, <2>4, <2>5 DEF Recheck, Rename, Isolate, Discard
  <1>6. PICK l \in {"open", "busy", "unsafe", "rename", "isolate", "discard"} :
          /\ Lands(p, l)
          /\ l = "rename" => Recheck(p) /\ observed' = observed
          /\ l = "isolate" => Rename(p) /\ observed' = observed /\ moved'[p] \in Inode
          /\ l = "discard" => /\ Isolate(p) /\ observed' = observed /\ moved' = moved
                              /\ SameIdentity(p, moved[p])
    BY <1>5
  <1>7. Plain(p, l)
    BY <1>0, <1>1, <1>4, <1>6 DEF Plain, TypeOK, Dir, Pcs, Acquiring, Ended
  <1>8. ReclaimFits(p)'
    <2>1. l \in {"rename", "isolate"} => pc[p] \in Judging
      BY <1>6 DEF Recheck, Rename, Judging
    <2>2. l = "discard" => moved[p] \in Inode /\ Old(inode[moved[p]])
      <3>1. l = "discard" => pc[p] = "isolate" /\ observed[p] = [ino |-> moved[p], stat |-> inode[moved[p]]]
        BY <1>6 DEF Isolate, SameIdentity
      <3> QED  BY <1>0, <3>1 DEF ReclaimFits, Judging
    <2> QED  BY <1>0, <1>1, <1>6, <2>1, <2>2 DEF ReclaimFits, Lands, Judging, Old
  <1>9. HolderFits(p)'
    BY <1>1, <1>3, <1>6 DEF HolderFits, Lands, Holding
  <1> QED  BY <1>2, <1>7, <1>8, <1>9, PlainHolds

(* The end of a lease or of a failed write.                                     *)
LEMMA EndingHolds ==
  ASSUME IInv, NEW p \in Proc,
         \/ WriteFails(p) \/ CleanupStat(p) \/ CleanupUnlink(p)
         \/ Release(p) \/ ReleaseStat(p) \/ ReleaseRead(p) \/ ReleaseUnlink(p)
  PROVE  IInv'
  <1>0. TypeOK /\ HolderFits(p) /\ ReclaimFits(p)
    BY DEF IInv
  <1>1. /\ UNCHANGED <<now, inode, moved, attempt, observed, crashes>>
        /\ pc[p] \in Live
        /\ path' = path \/ path' = NoFile
        /\ (fd' = fd /\ pc[p] \notin Holding) \/ fd' = [fd EXCEPT ![p] = NoFile]
    BY DEF WriteFails, CleanupStat, CleanupUnlink, Release, ReleaseStat, ReleaseRead, ReleaseUnlink,
           Owns, Live, Holding, Releasing, Cleaning
  <1>2. \/ /\ Goto(p, "cleanupStat") /\ mine' = mine /\ path' = path /\ pc[p] = "write"
        \/ /\ Goto(p, "cleanupUnlink") /\ mine' = mine /\ path' = path
        \/ /\ Goto(p, "releaseStat") /\ mine' = mine /\ path' = path /\ pc[p] = "owner"
        \/ /\ Goto(p, "releaseRead") /\ mine' = mine /\ path' = path /\ pc[p] = "releaseStat"
        \/ /\ Goto(p, "releaseUnlink") /\ mine' = mine /\ path' = path /\ NamesOwner(p)
        \/ /\ Finish(p, "failed") /\ path # mine[p] /\ path' = path
        \/ /\ Finish(p, "released") /\ path # mine[p] /\ path' = path
        \/ /\ Finish(p, "released") /\ ~NamesOwner(p) /\ path' = path /\ pc[p] = "releaseRead"
        \/ /\ Finish(p, "failed") /\ path' = NoFile
        \/ /\ Finish(p, "released") /\ path' = NoFile
    BY DEF WriteFails, CleanupStat, CleanupUnlink, Release, ReleaseStat, ReleaseRead, ReleaseUnlink, Owns
  <1>3. fd'[p] = NoFile /\ fd' \in [Proc -> Dir] /\ \A q \in Proc : q # p => fd'[q] = fd[q]
    BY <1>0, <1>1 DEF HolderFits, TypeOK, Dir
  <1>4. PICK l \in {"cleanupStat", "cleanupUnlink", "releaseStat", "releaseRead", "releaseUnlink",
                    "failed", "released"} : pc' = [pc EXCEPT ![p] = l] /\ Plain(p, l)
    <2>1. Live \cup Ended \subseteq Pcs
      BY DEF Live, Holding, Pcs, Acquiring
    <2>2. \E l \in {"cleanupStat", "cleanupUnlink", "releaseStat", "releaseRead", "releaseUnlink",
                    "failed", "released"} :
            /\ pc' = [pc EXCEPT ![p] = l] /\ l \in Pcs
            /\ (Goto(p, l) /\ mine' = mine) \/ Finish(p, l)
      BY <1>2, <2>1 DEF Goto, Finish, Live, Cleaning, Releasing, Ended
    <2>3. PICK l \in {"cleanupStat", "cleanupUnlink", "releaseStat", "releaseRead", "releaseUnlink",
                      "failed", "released"} :
            /\ pc' = [pc EXCEPT ![p] = l] /\ l \in Pcs
            /\ (Goto(p, l) /\ mine' = mine) \/ Finish(p, l)
      BY <2>2
    <2>4. Lands(p, l) /\ mine' \in [Proc -> Dir] /\ \A q \in Proc : q # p => mine'[q] = mine[q]
      BY <1>0, <1>1, <2>3, Landing DEF TypeOK
    <2>5. path' \in Dir /\ moved' \in [Proc -> Dir]
      BY <1>0, <1>1 DEF TypeOK, Dir
    <2>6. Plain(p, l)
      BY <1>1, <1>3, <2>3, <2>4, <2>5 DEF Plain
    <2> QED  BY <2>3, <2>6
  <1>5. HolderFits(p)' /\ ReclaimFits(p)'
    BY <1>3, <1>4 DEF HolderFits, ReclaimFits, Plain, Lands, Holding, Judging
  <1>6. ASSUME Undisturbed PROVE Undisturbed'
    <2>1. path = mine[p] /\ path \in Inode
      BY <1>1, <1>6 DEF Undisturbed
    <2>2. StepOf(p)
      BY <1>4 DEF Plain, Lands, StepOf
    <2>3. l \in Ended => path' = NoFile
      <3>1. pc[p] = "releaseRead" => NamesOwner(p)
        BY <1>6 DEF Undisturbed, Releasing
      <3>2. l = pc'[p] /\ \A k : pc' = [pc EXCEPT ![p] = k] => pc'[p] = k
        BY <1>0, <1>4 DEF TypeOK
      <3> QED  BY <1>2, <2>1, <3>1, <3>2 DEF Goto, Finish, Ended
    <2>4. CASE l \in Ended
      BY <1>1, <1>4, <1>6, <2>3, <2>4, FreedHolds
    <2>5. CASE l \notin Ended
      <3>1. l \in Live /\ pc'[p] = l /\ l \notin Judging \cup {"discard"}
        BY <1>4, <2>5 DEF Plain, Lands, Live, Holding, Releasing, Cleaning, Ended, Judging
      <3>2. mine' = mine /\ path' = path
        <4>1. \A k : Goto(p, k) \/ Finish(p, k) => pc'[p] = k
          BY <1>0 DEF TypeOK, Goto, Finish
        <4> QED  BY <1>2, <2>5, <3>1, <4>1 DEF Ended
      <3>3. l \in Releasing \cup {"owner"} => NamesOwner(p)
        <4>1. pc[p] \in {"owner", "releaseStat"} => NamesOwner(p)
          BY <1>6 DEF Undisturbed, Releasing
        <4>2. \A k : Goto(p, k) \/ Finish(p, k) => pc'[p] = k
          BY <1>0 DEF TypeOK, Goto, Finish
        <4> QED  BY <1>2, <3>1, <2>5, <4>1, <4>2 DEF Releasing, Ended
      <3>4. Quiet(p)
        BY <1>1, <3>1, <3>2, <3>3 DEF Quiet, NamesOwner
      <3> QED  BY <1>6, <2>2, <3>4, QuietHolds
    <2> QED  BY <2>4, <2>5
  <1> QED  BY <1>4, <1>5, <1>6, PlainHolds DEF IInv

(* Creating, writing and refreshing a lease file.                               *)
LEMMA CreateHolds ==
  ASSUME IInv, NEW p \in Proc, Open(p), path = NoFile
  PROVE  IInv'
  <1>0. TypeOK /\ HolderFits(p) /\ ReclaimFits(p)
    BY DEF IInv
  <1> DEFINE s == [owner |-> p, written |-> FALSE, mtime |-> now]
  <1>1. PICK i \in Free :
          /\ path' = i /\ inode' = [inode EXCEPT ![i] = s]
          /\ fd' = [fd EXCEPT ![p] = i] /\ mine' = [mine EXCEPT ![p] = i]
    BY DEF Open
  <1>2. Leave(p, "write") /\ UNCHANGED <<now, moved, crashes>>
    BY DEF Open
  <1>3. Lands(p, "write")
    BY <1>0, <1>2, Landing DEF Pcs, Acquiring
  <1>4. i \in Inode /\ \A q \in Proc : moved[q] # i
    BY DEF Free
  <1>5. s \in Stat /\ Fresh(s)
    <2>1. s \in Stat /\ s.mtime = now /\ now \in Nat
      BY <1>0, LeaseAssumption DEF TypeOK, Stat
    <2> QED  BY <2>1, LeaseAssumption DEF Fresh
  <1> HIDE DEF s
  <1>6. /\ inode' \in [Inode -> Stat \cup {NoFile}] /\ inode'[i] = s
        /\ fd' \in [Proc -> Dir] /\ mine' \in [Proc -> Dir] /\ path' \in Dir
        /\ fd'[p] = i /\ mine'[p] = i
        /\ \A q \in Proc : q # p => fd'[q] = fd[q] /\ mine'[q] = mine[q]
    BY <1>0, <1>1, <1>4, <1>5 DEF TypeOK, Dir
  <1>7. TypeOK'
    BY <1>0, <1>2, <1>3, <1>6 DEF TypeOK, Lands, Pcs, Seen
  <1>8. StepOf(p)
    BY <1>1, <1>2, <1>3, <1>4, <1>5, <1>6 DEF StepOf, Lands
  <1>9. HolderFits(p)' /\ ReclaimFits(p)'
    BY <1>2, <1>3, <1>4, <1>5, <1>6 DEF HolderFits, ReclaimFits, Lands, Holding, Judging, Fresh
  <1>10. ASSUME Undisturbed PROVE Undisturbed'
    <2>1. \A q \in Proc : pc[q] \notin Live
      BY <1>10, LeaseAssumption DEF Undisturbed
    <2>2. \A q \in Proc : /\ pc'[q] \in Live <=> q = p
                          /\ pc'[q] \notin Judging \cup {"discard"} \cup Releasing \cup {"owner"}
      BY <1>3, <1>10, <2>1 DEF Undisturbed, Lands, Live, Holding, Judging, Releasing
    <2>3. Fresh(inode[path])' /\ path' = i
      BY <1>1, <1>2, <1>5, <1>6 DEF Fresh
    <2> QED  BY <1>4, <1>6, <2>2, <2>3 DEF Undisturbed
  <1>11. path' # NoFile => inode'[path'] \in Stat
    BY <1>1, <1>5, <1>6
  <1> QED  BY <1>2, <1>7, <1>8, <1>9, <1>10, <1>11, StepFits DEF IInv

LEMMA RefreshHolds ==
  ASSUME IInv, NEW p \in Proc, Write(p) \/ Heartbeat(p)
  PROVE  IInv'
  <1>0. TypeOK /\ HolderFits(p) /\ ReclaimFits(p)
    BY DEF IInv
  <1> DEFINE i == fd[p]
  <1>1. /\ pc[p] \in Holding /\ i \in Inode /\ mine[p] = i /\ inode[i] \in Stat /\ Fresh(inode[i])
        /\ UNCHANGED <<now, path, moved, fd, mine, observed, attempt, crashes>>
    BY <1>0 DEF Write, Heartbeat, Owns, Holding, HolderFits, Fresh
  <1>2. Lands(p, "owner")
    <2>1. CASE Write(p)
      BY <1>0, <2>1, Landing DEF Write, Pcs
    <2>2. CASE Heartbeat(p)
      BY <1>0, <2>2 DEF Heartbeat, Owns, Lands, TypeOK, Pcs, Seen
    <2> QED  BY <2>1, <2>2
  <1>3. PICK s \in Stat : /\ inode' = [inode EXCEPT ![i] = s] /\ s.mtime = now
                          /\ \/ s.owner = p /\ s.written
                             \/ pc[p] = "owner" /\ s.owner = inode[i].owner /\ s.written = inode[i].written
    <2>1. CASE Write(p)
      <3>1. [owner |-> p, written |-> TRUE, mtime |-> now] \in Stat
        BY <1>0 DEF TypeOK, Stat
      <3> QED  BY <2>1, <3>1 DEF Write
    <2>2. CASE Heartbeat(p)
      <3>1. inode' = [inode EXCEPT ![i] = [inode[i] EXCEPT !.mtime = now]] /\ pc[p] = "owner"
        BY <1>0, <1>1, <2>2 DEF Heartbeat, Owns, TypeOK
      <3>2. /\ [inode[i] EXCEPT !.mtime = now] \in Stat
            /\ [inode[i] EXCEPT !.mtime = now].mtime = now
            /\ [inode[i] EXCEPT !.mtime = now].owner = inode[i].owner
            /\ [inode[i] EXCEPT !.mtime = now].written = inode[i].written
        BY <1>0, <1>1 DEF TypeOK, Stat
      <3> QED  BY <3>1, <3>2
    <2> QED  BY <2>1, <2>2
  <1>4. Fresh(s)
    BY <1>0, <1>3, LeaseAssumption DEF Fresh, TypeOK
  <1> HIDE DEF i
  <1>5. inode' \in [Inode -> Stat \cup {NoFile}] /\ inode'[i] = s
    BY <1>0, <1>1, <1>3 DEF TypeOK
  <1>6. TypeOK'
    BY <1>0, <1>1, <1>2, <1>5 DEF TypeOK, Lands, Pcs, Seen
  <1>7. \A q \in Proc : pc[q] = "discard" => moved[q] # i
    <2>1. ASSUME NEW q \in Proc, pc[q] = "discard" PROVE moved[q] # i
      <3>1. Old(inode[moved[q]])
        BY <2>1 DEF IInv, ReclaimFits
      <3> QED  BY <1>0, <1>1, <3>1, LeaseAssumption DEF Old, Fresh, Stat, TypeOK
    <2> QED  BY <2>1
  <1>8. StepOf(p)
    BY <1>1, <1>2, <1>3, <1>4, <1>7 DEF StepOf, Lands
  <1>9. HolderFits(p)' /\ ReclaimFits(p)'
    BY <1>0, <1>1, <1>2, <1>4, <1>5 DEF HolderFits, ReclaimFits, Lands, Holding, Judging, Fresh, i
  <1>10. ASSUME Undisturbed PROVE Undisturbed'
    <2>1. path = i /\ path # NoFile
      BY <1>1, <1>10, LeaseAssumption DEF Undisturbed, Live
    <2>2. pc[p] = "owner" => inode[i].written /\ inode[i].owner = p
      BY <1>10, <2>1 DEF Undisturbed, NamesOwner
    <2>3. NamesOwner(p)'
      BY <1>1, <1>3, <1>5, <2>1, <2>2 DEF NamesOwner
    <2>4. Quiet(p)
      BY <1>1, <1>2, <2>3 DEF Quiet, Lands, Live, Holding, Judging
    <2> QED  BY <1>8, <1>10, <2>4, QuietHolds
  <1>11. path' # NoFile => inode'[path'] \in Stat
    BY <1>0, <1>1, <1>3, <1>5 DEF IInv, TypeOK, Dir
  <1> QED  BY <1>1, <1>6, <1>8, <1>9, <1>10, <1>11, StepFits DEF IInv

LEMMA CrashHolds ==
  ASSUME IInv, NEW p \in Proc, Crash(p)
  PROVE  IInv'
  <1>0. TypeOK
    BY DEF IInv
  <1>1. /\ Leave(p, "crashed") /\ UNCHANGED <<now, path, inode, moved>>
        /\ crashes < MaxCrash /\ crashes' = crashes + 1
        /\ fd' = [fd EXCEPT ![p] = NoFile] /\ mine' = [mine EXCEPT ![p] = NoFile]
    BY DEF Crash
  <1>2. Lands(p, "crashed")
    BY <1>0, <1>1, Landing DEF Pcs, Ended
  <1>3. /\ fd' \in [Proc -> Dir] /\ mine' \in [Proc -> Dir] /\ fd'[p] = NoFile
        /\ \A q \in Proc : q # p => fd'[q] = fd[q] /\ mine'[q] = mine[q]
    BY <1>0, <1>1 DEF TypeOK, Dir
  <1>4. crashes' \in 0..MaxCrash /\ crashes' # 0
    BY <1>0, <1>1, LeaseAssumption DEF TypeOK
  <1>5. TypeOK'
    BY <1>0, <1>1, <1>2, <1>3, <1>4 DEF TypeOK, Lands, Pcs, Seen
  <1>6. StepOf(p)
    BY <1>1, <1>2, <1>3 DEF StepOf, Lands
  <1>7. HolderFits(p)' /\ ReclaimFits(p)'
    BY <1>2, <1>3 DEF HolderFits, ReclaimFits, Lands, Holding, Judging
  <1>8. path' # NoFile => inode'[path'] \in Stat
    BY <1>1 DEF IInv
  <1> QED  BY <1>4, <1>5, <1>6, <1>7, <1>8, StepFits

(* Time passes only while every live holder is punctual.                        *)
LEMMA TickHolds ==
  ASSUME IInv, Tick
  PROVE  IInv'
  <1>1. /\ now < MaxClock /\ now' = now + 1 /\ now \in Nat
        /\ UNCHANGED <<path, inode, moved, fd, mine, observed, attempt, pc, crashes>>
    BY DEF Tick, IInv, TypeOK
  <1>2. ASSUME NEW p \in Proc, pc[p] \in Live, Fresh(inode[mine[p]])
        PROVE  Fresh(inode[mine[p]])'
    <2> DEFINE m == inode[mine[p]].mtime
    <2>1. Punctual(p) /\ pc[p] \in {"write", "owner"} \cup Releasing \cup Cleaning
      BY <1>2 DEF Tick, Live, Holding
    <2>2. now + 1 - m < StaleAfter
      BY <2>1 DEF Punctual
    <2>3. m \in Nat /\ inode[mine[p]] \in Stat
      BY <1>2, LeaseAssumption DEF Fresh, Stat
    <2> HIDE DEF m
    <2>4. now' - m < StaleAfter
      BY <1>1, <2>2, <2>3, LeaseAssumption
    <2> QED  BY <1>1, <2>3, <2>4 DEF Fresh, m
  <1>3. TypeOK'
    BY <1>1, LeaseAssumption DEF IInv, TypeOK
  <1>4. \A stat : Old(stat) => Old(stat)'
    <2> SUFFICES ASSUME NEW stat, Old(stat) PROVE Old(stat)'
      OBVIOUS
    <2>1. stat.mtime \in Nat /\ now - stat.mtime >= StaleAfter /\ StaleAfter \in Nat
      BY LeaseAssumption DEF Old, Stat
    <2>2. now' - stat.mtime >= StaleAfter
      BY <1>1, <2>1
    <2>3. stat \in Stat
      BY DEF Old
    <2> QED  BY <2>2, <2>3 DEF Old
  <1>5. ASSUME NEW p \in Proc PROVE HolderFits(p)' /\ ReclaimFits(p)'
    <2>1. HolderFits(p) /\ ReclaimFits(p)
      BY DEF IInv
    <2>2. HolderFits(p)'
      BY <1>1, <1>2, <2>1 DEF HolderFits, Fresh, Live
    <2>3. ReclaimFits(p)'
      BY <1>1, <1>4, <2>1 DEF ReclaimFits
    <2> QED  BY <2>2, <2>3
  <1>6. ASSUME Undisturbed PROVE Undisturbed'
    BY <1>1, <1>2, <1>6 DEF Undisturbed, Fresh, NamesOwner
  <1> QED  BY <1>1, <1>3, <1>5, <1>6 DEF IInv

-----------------------------------------------------------------------------
(* The invariant                                                               *)

LEMMA InitHolds == Init => IInv
  <1> SUFFICES ASSUME Init PROVE IInv
    OBVIOUS
  <1>1. TypeOK
    BY LeaseAssumption DEF Init, TypeOK, Dir, Ended
  <1>2. \A p \in Proc : pc[p] = "idle" /\ fd[p] = NoFile
    BY DEF Init
  <1>3. Undisturbed
    BY <1>2 DEF Init, Undisturbed, Live, Holding, Releasing, Cleaning, Judging
  <1>4. \A p \in Proc : HolderFits(p) /\ ReclaimFits(p)
    BY <1>2 DEF HolderFits, ReclaimFits, Holding, Judging
  <1> QED  BY <1>1, <1>3, <1>4 DEF IInv, Init

LEMMA StepHolds ==
  ASSUME IInv, [Next]_vars
  PROVE  IInv'
  <1>1. CASE Tick
    BY <1>1, TickHolds
  <1>2. ASSUME NEW p \in Proc, Begin(p) \/ Contend(p) \/ WriteFails(p) \/ Heartbeat(p) \/ Release(p) \/ Crash(p)
        PROVE  IInv'
    <2>1. CASE Begin(p) \/ (Open(p) /\ path # NoFile) \/ Observe(p)
      BY <2>1, OutsideHolds
    <2>2. CASE Recheck(p) \/ Rename(p) \/ Isolate(p) \/ Discard(p)
      BY <2>2, ReclaimHolds
    <2>3. CASE \/ WriteFails(p) \/ CleanupStat(p) \/ CleanupUnlink(p)
               \/ Release(p) \/ ReleaseStat(p) \/ ReleaseRead(p) \/ ReleaseUnlink(p)
      BY <2>3, EndingHolds
    <2>4. CASE Open(p) /\ path = NoFile
      BY <2>4, CreateHolds
    <2>5. CASE Write(p) \/ Heartbeat(p)
      BY <2>5, RefreshHolds
    <2>6. CASE Crash(p)
      BY <2>6, CrashHolds
    <2> QED  BY <1>2, <2>1, <2>2, <2>3, <2>4, <2>5, <2>6 DEF Contend
  <1>3. CASE UNCHANGED vars
    BY <1>3 DEF vars, IInv, TypeOK, HolderFits, ReclaimFits, Undisturbed, Fresh, Old, NamesOwner
  <1> QED  BY <1>1, <1>2, <1>3 DEF Next

(* The strengthening the theorems below follow from, for any number of          *)
(* contenders (acquireRuntimeOwnerLease, reclaimStaleLease, createHandle).       *)
THEOREM Invariance == Spec => []IInv
  BY InitHolds, StepHolds, PTL DEF Spec

(* As long as no process has crashed, two processes never own the data          *)
(* directory, however they contend and however the clock runs between           *)
(* heartbeats (reclaimStaleLease's age check).                                  *)
THEOREM OwnersAreAlone == Spec => []OneOwnerUntilCrash
  <1>1. IInv => OneOwnerUntilCrash
    BY DEF IInv, Undisturbed, OneOwnerUntilCrash, OneOwner, Owns, Live, Holding
  <1> QED  BY <1>1, Invariance, PTL

(* Also after crashes, a contender never unlinks a file some live process       *)
(* still has open as its lease (the identity check after the rename).           *)
THEOREM LiveFilesAreKept == Spec => []DiscardsOnlyAbandoned
  <1>1. IInv => DiscardsOnlyAbandoned
    <2> SUFFICES ASSUME IInv, NEW p \in Proc, NEW q \in Proc, pc[p] = "discard", moved[p] = fd[q], fd[q] # NoFile
                 PROVE  FALSE
      BY DEF DiscardsOnlyAbandoned
    <2>1. Old(inode[moved[p]])
      BY DEF IInv, ReclaimFits
    <2>2. Fresh(inode[fd[q]])
      BY DEF IInv, HolderFits
    <2> QED  BY <2>1, <2>2, LeaseAssumption DEF Old, Fresh, Stat, IInv, TypeOK
  <1> QED  BY <1>1, Invariance, PTL

(* Before a crash, a release and the cleanup of a failed write unlink nothing   *)
(* but the process's own file (createHandle.release, createLease).              *)
THEOREM RemovalsAreOwn == Spec => RemovesOnlyItsOwn
  <1> DEFINE A == \A p \in Proc :
                    (pc[p] \in {"releaseUnlink", "cleanupUnlink"} /\ pc'[p] \in {"released", "failed"})
                      => crashes > 0 \/ path \in {mine[p], NoFile}
  <1>1. IInv => A
    BY DEF IInv, TypeOK, Undisturbed, Live, Releasing, Cleaning
  <1>2. [][A]_vars => RemovesOnlyItsOwn
    BY PTL DEF RemovesOnlyItsOwn
  <1> QED  BY <1>1, <1>2, Invariance, PTL DEF Spec

=============================================================================
