-------------------------- MODULE RuntimeOwnerLease --------------------------
(***************************************************************************)
(* The process-level owner lease of HOB_DATA_DIR                           *)
(* (packages/hub/src/runtime-owner-lease.ts).  Contenders share one        *)
(* directory entry, the lease path; every file-system call of the code is  *)
(* a step, so contenders interleave exactly where the code awaits.         *)
(*                                                                         *)
(* An inode is a member of Inode and may be reused once no directory entry *)
(* and no open file refers to it.  `now` counts heartbeat-sized time       *)
(* units; an inode's size is summarised by `written`.                      *)
(***************************************************************************)
EXTENDS Naturals, FiniteSets

CONSTANTS
  Proc,        \* runtimes and operator commands that contend for the lease
  Inode,       \* inode numbers the file system can hand out
  NoFile,      \* "no directory entry" / "no inode"
  StaleAfter,  \* staleAfterMs, in time units
  MaxAttempt,  \* attempts of one acquisition (3 in the code)
  MaxClock,    \* bound on now
  MaxCrash     \* bound on process crashes

ASSUME LeaseAssumption ==
  /\ NoFile \notin Inode
  /\ StaleAfter \in Nat \ {0}
  /\ MaxAttempt \in Nat \ {0}
  /\ MaxClock \in Nat
  /\ MaxCrash \in Nat

VARIABLES
  now,       \* the file-system clock
  path,      \* inode linked at the lease path, or NoFile
  inode,     \* inode -> [owner, written, mtime], or NoFile while unused
  moved,     \* process -> inode it renamed to its own .abandoned path
  fd,        \* process -> inode of its open lease file, or NoFile
  mine,      \* process -> inode of the lease it created and has not yet given up
  observed,  \* process -> the identity reclaimStaleLease saw first, or NoFile
  attempt,   \* process -> acquisition attempts already used
  pc,        \* process -> the await the process is suspended at
  crashes    \* crashes so far

vars == <<now, path, inode, moved, fd, mine, observed, attempt, pc, crashes>>

Dir  == Inode \cup {NoFile}
Stat == [owner : Proc, written : BOOLEAN, mtime : 0..MaxClock]
Acquiring == {"open", "write", "observe", "recheck", "rename", "isolate", "discard"}
Releasing == {"releaseStat", "releaseRead", "releaseUnlink"}
Cleaning  == {"cleanupStat", "cleanupUnlink"}
Ended     == {"idle", "busy", "unsafe", "failed", "released", "crashed"}

TypeOK ==
  /\ now \in 0..MaxClock
  /\ path \in Dir
  /\ inode \in [Inode -> Stat \cup {NoFile}]
  /\ moved \in [Proc -> Dir]
  /\ fd \in [Proc -> Dir]
  /\ mine \in [Proc -> Dir]
  /\ observed \in [Proc -> [ino : Inode, stat : Stat \cup {NoFile}] \cup {NoFile}]
  /\ attempt \in [Proc -> 0..MaxAttempt - 1]
  /\ pc \in [Proc -> Acquiring \cup Releasing \cup Cleaning \cup Ended \cup {"owner"}]
  /\ crashes \in 0..MaxCrash

Init ==
  /\ now = 0
  /\ path = NoFile
  /\ inode = [i \in Inode |-> NoFile]
  /\ observed = [p \in Proc |-> NoFile]
  /\ moved = [p \in Proc |-> NoFile]
  /\ fd = [p \in Proc |-> NoFile]
  /\ mine = [p \in Proc |-> NoFile]
  /\ attempt = [p \in Proc |-> 0]
  /\ pc = [p \in Proc |-> "idle"]
  /\ crashes = 0

Goto(p, l) == pc' = [pc EXCEPT ![p] = l]
\* A file left at an .abandoned path is never looked at again, so once its
\* process has moved another one its inode counts as reusable.
Free == {i \in Inode : i # path /\ \A p \in Proc : i \notin {fd[p], moved[p]}}
StaleAtOnce(i) == TRUE      \* mutant: no staleness check
NeverStale(i) == FALSE      \* mutant: an abandoned sidecar stays
Stale(i) == now - inode[i].mtime >= StaleAfter
SameInodeOnly(p, i) == observed[p].ino = i   \* mutant: size and mtime not compared
SameIdentity(p, i) == observed[p] = [ino |-> i, stat |-> inode[i]]
Owns(p) == pc[p] = "owner"

(* acquireRuntimeOwnerLease: a fresh owner token and a fresh attempt budget. *)
Begin(p) ==
  /\ pc[p] \in Ended
  /\ Goto(p, "open")
  /\ UNCHANGED <<now, path, inode, moved, fd, mine, observed, attempt, crashes>>

(* The acquisition returns or throws at l: its locals are gone. *)
Leave(p, l) ==
  /\ Goto(p, l)
  /\ attempt' = [attempt EXCEPT ![p] = 0]
  /\ observed' = [observed EXCEPT ![p] = NoFile]

(* The handle (or the failed createLease) is finished with its own inode. *)
Finish(p, l) ==
  /\ Goto(p, l)
  /\ mine' = [mine EXCEPT ![p] = NoFile]

LastAttempt(p) == attempt[p] + 1 = MaxAttempt

(* The next turn of the acquisition loop, or a busy error when it is used up. *)
Retry(p) ==
  \/ LastAttempt(p) /\ Leave(p, "busy")
  \/ /\ ~LastAttempt(p)
     /\ Goto(p, "open")
     /\ attempt' = [attempt EXCEPT ![p] = @ + 1]
     /\ observed' = [observed EXCEPT ![p] = NoFile]

(* open(path, "wx"): creates the sidecar, empty, or reports EEXIST. *)
Open(p) ==
  /\ pc[p] = "open"
  /\ \/ /\ path # NoFile
        /\ Goto(p, "observe")
        /\ UNCHANGED <<path, inode, fd, mine, attempt, observed>>
     \/ /\ path = NoFile
        /\ \E i \in Free :
             /\ path' = i
             /\ inode' = [inode EXCEPT ![i] = [owner |-> p, written |-> FALSE, mtime |-> now]]
             /\ fd' = [fd EXCEPT ![p] = i]
             /\ mine' = [mine EXCEPT ![p] = i]
        /\ Leave(p, "write")
  /\ UNCHANGED <<now, moved, crashes>>

(* writeFile + sync through the descriptor; createHandle starts the heartbeat. *)
Write(p) ==
  /\ pc[p] = "write"
  /\ inode' = [inode EXCEPT ![fd[p]] = [owner |-> p, written |-> TRUE, mtime |-> now]]
  /\ Goto(p, "owner")
  /\ UNCHANGED <<now, path, moved, fd, mine, observed, attempt, crashes>>

(* The write fails: createLease closes the file and removes its own inode. *)
WriteFails(p) ==
  /\ pc[p] = "write"
  /\ fd' = [fd EXCEPT ![p] = NoFile]
  /\ Goto(p, "cleanupStat")
  /\ UNCHANGED <<now, path, inode, moved, mine, observed, attempt, crashes>>

CleanupStat(p) ==
  /\ pc[p] = "cleanupStat"
  /\ \/ path = mine[p] /\ Goto(p, "cleanupUnlink") /\ UNCHANGED mine
     \/ path # mine[p] /\ Finish(p, "failed")
  /\ UNCHANGED <<now, path, inode, moved, fd, observed, attempt, crashes>>

CleanupUnlink(p) ==
  /\ pc[p] = "cleanupUnlink"
  /\ path' = NoFile
  /\ Finish(p, "failed")
  /\ UNCHANGED <<now, inode, moved, fd, observed, attempt, crashes>>

(* reclaimStaleLease: first lstat. *)
Observe(p) ==
  /\ pc[p] = "observe"
  /\ \/ path = NoFile /\ Retry(p)
     \/ path # NoFile /\ ~Stale(path) /\ Leave(p, "busy")
     \/ /\ path # NoFile /\ Stale(path) /\ Goto(p, "recheck")
        /\ observed' = [observed EXCEPT ![p] = [ino |-> path, stat |-> inode[path]]]
        /\ UNCHANGED attempt
  /\ UNCHANGED <<now, path, inode, moved, fd, mine, crashes>>

(* Second lstat: identity = device, inode, size and mtime. *)
Recheck(p) ==
  /\ pc[p] = "recheck"
  /\ \/ path = NoFile /\ Retry(p)
     \/ /\ path # NoFile
        /\ \/ /\ SameIdentity(p, path) /\ Goto(p, "rename")
              /\ UNCHANGED <<attempt, observed>>
           \/ ~SameIdentity(p, path) /\ Leave(p, "unsafe")
  /\ UNCHANGED <<now, path, inode, moved, fd, mine, crashes>>

(* rename(path, abandonedPath): moves whatever is linked at the path now. *)
Rename(p) ==
  /\ pc[p] = "rename"
  /\ \/ /\ path = NoFile /\ Retry(p)
        /\ UNCHANGED <<path, moved>>
     \/ /\ path # NoFile
        /\ moved' = [moved EXCEPT ![p] = path]
        /\ path' = NoFile
        /\ Goto(p, "isolate")
        /\ UNCHANGED <<attempt, observed>>
  /\ UNCHANGED <<now, inode, fd, mine, crashes>>

(* lstat(abandonedPath): another file than the observed one is left aside. *)
Isolate(p) ==
  /\ pc[p] = "isolate"
  /\ \/ /\ SameIdentity(p, moved[p]) /\ Goto(p, "discard")
        /\ UNCHANGED <<attempt, observed>>
     \/ ~SameIdentity(p, moved[p]) /\ Leave(p, "unsafe")
  /\ UNCHANGED <<now, path, inode, moved, fd, mine, crashes>>

Discard(p) ==
  /\ pc[p] = "discard"
  /\ moved' = [moved EXCEPT ![p] = NoFile]
  /\ Retry(p)
  /\ UNCHANGED <<now, path, inode, fd, mine, crashes>>

(* futimes through the descriptor: it reaches the inode even when the path   *)
(* no longer does, so the owner never notices that its lease was moved.      *)
Heartbeat(p) ==
  /\ Owns(p)
  /\ inode[fd[p]].mtime # now
  /\ inode' = [inode EXCEPT ![fd[p]].mtime = now]
  /\ UNCHANGED <<now, path, moved, fd, mine, observed, attempt, pc, crashes>>

(* release(): stops the heartbeat and closes; then lstat, readFile, unlink.  *)
Release(p) ==
  /\ Owns(p)
  /\ fd' = [fd EXCEPT ![p] = NoFile]
  /\ Goto(p, "releaseStat")
  /\ UNCHANGED <<now, path, inode, moved, mine, observed, attempt, crashes>>

ReleaseStat(p) ==
  /\ pc[p] = "releaseStat"
  /\ \/ path = mine[p] /\ Goto(p, "releaseRead") /\ UNCHANGED mine
     \/ path # mine[p] /\ Finish(p, "released")
  /\ UNCHANGED <<now, path, inode, moved, fd, observed, attempt, crashes>>

NamesOwner(p) == path # NoFile /\ inode[path].written /\ inode[path].owner = p

ReleaseRead(p) ==
  /\ pc[p] = "releaseRead"
  /\ \/ NamesOwner(p) /\ Goto(p, "releaseUnlink") /\ UNCHANGED mine
     \/ ~NamesOwner(p) /\ Finish(p, "released")
  /\ UNCHANGED <<now, path, inode, moved, fd, observed, attempt, crashes>>

ReleaseUnlink(p) ==
  /\ pc[p] = "releaseUnlink"
  /\ path' = NoFile
  /\ Finish(p, "released")
  /\ UNCHANGED <<now, inode, moved, fd, observed, attempt, crashes>>

(* The process dies: its descriptor closes, the directory keeps its files.   *)
Crash(p) ==
  /\ crashes < MaxCrash
  /\ pc[p] \notin Ended
  /\ now + StaleAfter <= MaxClock    \* what it leaves can still become stale
  /\ crashes' = crashes + 1
  /\ fd' = [fd EXCEPT ![p] = NoFile]
  /\ mine' = [mine EXCEPT ![p] = NoFile]
  /\ Leave(p, "crashed")
  /\ UNCHANGED <<now, path, inode, moved>>

(* The scheduling the lease relies on: a live process that created a file    *)
(* refreshes it, or finishes with it, well before it is stale.               *)
Punctual(p) ==
  pc[p] \in {"write", "owner"} \cup Releasing \cup Cleaning =>
    now + 1 - inode[mine[p]].mtime < StaleAfter

Tick ==
  /\ now < MaxClock
  /\ \A p \in Proc : Punctual(p)
  /\ now' = now + 1
  /\ UNCHANGED <<path, inode, moved, fd, mine, observed, attempt, pc, crashes>>

Contend(p) ==
  \/ Open(p) \/ Write(p) \/ CleanupStat(p) \/ CleanupUnlink(p)
  \/ Observe(p) \/ Recheck(p) \/ Rename(p) \/ Isolate(p) \/ Discard(p)
  \/ ReleaseStat(p) \/ ReleaseRead(p) \/ ReleaseUnlink(p)

Next ==
  \/ Tick
  \/ \E p \in Proc : \/ Begin(p) \/ Contend(p) \/ WriteFails(p)
                     \/ Heartbeat(p) \/ Release(p) \/ Crash(p)

Spec == Init /\ [][Next]_vars

(* Timers and the event loop run every pending step of a live process, time  *)
(* passes, a supervisor or operator that failed to acquire tries again, and  *)
(* the disk does not refuse every write for ever.                            *)
Fairness ==
  /\ WF_vars(Tick)
  /\ \A p \in Proc : /\ WF_vars(Contend(p)) /\ WF_vars(Begin(p))
                     /\ WF_vars(Heartbeat(p)) /\ SF_vars(Write(p))

FairSpec == Spec /\ Fairness

(* docs/runtime-owner-lease.md: HOB_DATA_DIR has one process-level runtime   *)
(* owner.  Two processes never hold a lease handle at the same time.         *)
OneOwner == \A p, q \in Proc : Owns(p) /\ Owns(q) => p = q

(* The same until a process has crashed: a live owner's lease is not taken   *)
(* from it while nothing had to be recovered (reclaimStaleLease's age check). *)
OneOwnerUntilCrash == crashes = 0 => OneOwner

(* A contender unlinks an isolated file only when no live process still      *)
(* holds it open as its lease: the identity check after the rename catches   *)
(* every file that is not the stale one it observed.                         *)
DiscardsOnlyAbandoned ==
  \A p, q \in Proc : pc[p] = "discard" => moved[p] # fd[q] \/ fd[q] = NoFile

(* Release and the cleanup of a failed write take only the releasing         *)
(* process's own inode off the path, as long as no recovery moved files      *)
(* about (createHandle.release, createLease).                                *)
RemovesOnlyItsOwn ==
  [][\A p \in Proc :
       (pc[p] \in {"releaseUnlink", "cleanupUnlink"} /\ pc'[p] \in {"released", "failed"})
         => crashes > 0 \/ path \in {mine[p], NoFile}]_vars

(* A crash leaves a recoverable sidecar: from any state some process comes   *)
(* to own the lease, whatever files earlier crashes left behind.             *)
Recoverable == []<>(\E p \in Proc : Owns(p) \/ pc[p] \in Releasing)

=============================================================================
