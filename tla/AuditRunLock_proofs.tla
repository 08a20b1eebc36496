------------------------- MODULE AuditRunLock_proofs -------------------------
(***************************************************************************)
(* That a live run is left alone and that nothing undelivered is removed,  *)
(* for any number of processes and sessions.                               *)
(*                                                                         *)
(* The argument: until a scanner disturbs the start of run r (early), the  *)
(* path of its lock holds the inode r has opened (PathIsOwn), because only *)
(* a process that took the lock removes it and none can take it while r    *)
(* holds the flock (HoldsOwn).  A scanner that has opened the path of a    *)
(* live run therefore has r's inode (TriesOwn) and its flock fails         *)
(* (LeftAlone).                                                            *)
(***************************************************************************)
EXTENDS AuditRunLock, TLAPS

Started(r) == proc[r] \in {"opened"} \cup Live

\* A live run has its flock.
HoldsOwn == \A r \in Procs : proc[r] \in Live => <<r, ino[r], r>> \in flocks

\* The path leads to the inode the run has opened.
PathIsOwn ==
    \A r \in Procs : Started(r) /\ r \notin early => link[r] = ino[r] /\ ino[r] # 0

\* A scanner about to try the lock of a started run has opened the same inode.
TriesOwn ==
    \A p, r \in Procs :
        at[p] = "try" /\ run[p] = r /\ Started(r) /\ r \notin early => fd[p] = ino[r]

\* No scanner holds the lock of a started run or is about to remove it.
LeftAlone ==
    \A p, r \in Procs :
        at[p] \in Holding \cup {"unlink"} /\ run[p] = r /\ Started(r) => r \in early

\* Nothing is known of a run that has not started.
Fresh ==
    \A r \in Procs : proc[r] = "off" =>
        /\ link[r] = 0
        /\ r \notin early
        /\ \A p \in Procs : r \notin list[p] /\ run[p] # r

\* Only a live process scans; it is at a run exactly from its open of the lock
\* to the unlink, and never at its own.
ScanIsAtRun ==
    \A p \in Procs :
        /\ run[p] # p
        /\ p \notin list[p]
        /\ proc[p] \notin Live => at[p] = "off"
        /\ run[p] \in Procs <=> at[p] \in {"try", "unlink"} \cup Holding

\* What the drain has passed has been delivered and stays so.
DrainedIsSent ==
    \A p \in Procs : \A s \in sess[p] :
        /\ run[p] \notin early \cup late
        /\ \/ at[p] = "drain" /\ s \notin todo[p]
           \/ at[p] = "remove"
        => left[run[p]][s] # "unsent"

\* What the drain and the removal still have to do is in the session list.
TodoIsListed ==
    \A p \in Procs : todo[p] \subseteq (IF at[p] \in Holding THEN sess[p] ELSE {})

IInv ==
    /\ Types /\ FlockOwners
    /\ HoldsOwn
    /\ PathIsOwn
    /\ TriesOwn
    /\ LeftAlone
    /\ Fresh
    /\ ScanIsAtRun
    /\ DrainedIsSent
    /\ TodoIsListed

\* Nothing has started.
LEMMA InitIInv == Init => IInv
  BY NoneAssumption DEF Init, IInv, Types, FlockOwners, HoldsOwn, PathIsOwn, TriesOwn, LeftAlone, Fresh,
     ScanIsAtRun, DrainedIsSent, TodoIsListed, Started, Live, Holding

\* A run starts: nothing was known of it, so its path was empty.
LEMMA OpenOwnKeepsIInv == ASSUME IInv, NEW p \in Procs, OpenOwn(p) PROVE IInv'
<1> USE NoneAssumption DEF Live, Holding, Started, own, lock, disk, scan, hist
<1>1. Types'
  BY DEF IInv, Types, OpenOwn, Open, OpenedInode
<1>2. FlockOwners'
  BY DEF IInv, Types, FlockOwners, ScanIsAtRun, OpenOwn, Open, OpenedInode
<1>3. HoldsOwn'
  BY DEF IInv, Types, HoldsOwn, OpenOwn, Open, OpenedInode
<1>4. PathIsOwn'
  BY DEF IInv, Types, PathIsOwn, Fresh, OpenOwn, Open, OpenedInode
<1>5. TriesOwn'
  BY DEF IInv, Types, TriesOwn, Fresh, OpenOwn, Open, OpenedInode
<1>6. LeftAlone'
  BY DEF IInv, Types, LeftAlone, Fresh, OpenOwn, Open, OpenedInode
<1>7. Fresh'
  BY DEF IInv, Types, Fresh, OpenOwn, Open, OpenedInode
<1>8. ScanIsAtRun'
  BY DEF IInv, Types, ScanIsAtRun, OpenOwn, Open, OpenedInode
<1>9. (DrainedIsSent /\ TodoIsListed)'
  BY DEF IInv, DrainedIsSent, TodoIsListed, OpenOwn, Open, OpenedInode
<1> QED BY <1>1, <1>2, <1>3, <1>4, <1>5, <1>6, <1>7, <1>8, <1>9 DEF IInv

\* The run holds its flock from here on.
LEMMA LockOwnKeepsIInv == ASSUME IInv, NEW p \in Procs, LockOwn(p) PROVE IInv'
<1> USE NoneAssumption DEF Live, Holding, Started, own, lock, disk, scan, hist
<1>1. Types'
  BY DEF IInv, Types, LockOwn, Unlocked
<1>2. FlockOwners'
  BY DEF IInv, Types, FlockOwners, ScanIsAtRun, LockOwn, Unlocked
<1>3. HoldsOwn'
  BY DEF IInv, Types, HoldsOwn, LockOwn, Unlocked
<1>4. PathIsOwn'
  BY DEF IInv, Types, PathIsOwn, LockOwn, Unlocked
<1>5. TriesOwn'
  BY DEF IInv, Types, TriesOwn, LockOwn, Unlocked
<1>6. LeftAlone'
  BY DEF IInv, Types, LeftAlone, LockOwn, Unlocked
<1>7. Fresh'
  BY DEF IInv, Types, Fresh, LockOwn, Unlocked
<1>8. ScanIsAtRun'
  BY DEF IInv, Types, ScanIsAtRun, LockOwn, Unlocked
<1>9. DrainedIsSent'
  BY DEF IInv, Types, DrainedIsSent, LockOwn, Unlocked
<1>10. TodoIsListed'
  BY DEF IInv, Types, TodoIsListed, ScanIsAtRun, LockOwn, Unlocked
<1> QED BY <1>1, <1>2, <1>3, <1>4, <1>5, <1>6, <1>7, <1>8, <1>9, <1>10 DEF IInv

\* A run that fails to start is not live.
LEMMA LockOwnFailsKeepsIInv == ASSUME IInv, NEW p \in Procs, LockOwnFails(p) PROVE IInv'
<1> USE NoneAssumption DEF Live, Holding, Started, own, lock, disk, scan, hist
<1>1. Types'
  BY DEF IInv, Types, LockOwnFails
<1>2. FlockOwners'
  BY DEF IInv, Types, FlockOwners, LockOwnFails
<1>3. HoldsOwn'
  BY DEF IInv, Types, HoldsOwn, LockOwnFails
<1>4. PathIsOwn'
  BY DEF IInv, Types, PathIsOwn, LockOwnFails
<1>5. TriesOwn'
  BY DEF IInv, Types, TriesOwn, LockOwnFails
<1>6. LeftAlone'
  BY DEF IInv, Types, LeftAlone, LockOwnFails
<1>7. Fresh'
  BY DEF IInv, Types, Fresh, LockOwnFails
<1>8. ScanIsAtRun'
  BY DEF IInv, Types, ScanIsAtRun, LockOwnFails
<1>9. (DrainedIsSent /\ TodoIsListed)'
  BY DEF IInv, DrainedIsSent, TodoIsListed, LockOwnFails
<1> QED BY <1>1, <1>2, <1>3, <1>4, <1>5, <1>6, <1>7, <1>8, <1>9 DEF IInv

\* A new WAL has nothing unsent.
LEMMA OpenWALKeepsIInv == ASSUME IInv, NEW p \in Procs, NEW s \in Sessions, OpenWAL(p, s) PROVE IInv'
<1> USE NoneAssumption DEF Live, Holding, Started, own, lock, disk, scan, hist
<1>1. Types'
  BY DEF IInv, Types, OpenWAL
<1>2. DrainedIsSent'
  BY DEF IInv, Types, DrainedIsSent, OpenWAL
<1>3. (FlockOwners /\ HoldsOwn /\ PathIsOwn /\ TriesOwn /\ LeftAlone /\ Fresh /\ ScanIsAtRun /\ TodoIsListed)'
  BY DEF IInv, FlockOwners, HoldsOwn, PathIsOwn, TriesOwn, LeftAlone, Fresh, ScanIsAtRun,
     TodoIsListed, OpenWAL
<1> QED BY <1>1, <1>2, <1>3 DEF IInv

\* A run that appends is live, and then left alone, or late.
LEMMA AppendEventKeepsIInv == ASSUME IInv, NEW p \in Procs, NEW s \in Sessions, AppendEvent(p, s) PROVE IInv'
<1> USE NoneAssumption DEF Live, Holding, Started, own, lock, disk, scan, hist
<1>1. Types'
  BY DEF IInv, Types, AppendEvent
<1>2. DrainedIsSent'
  BY DEF IInv, Types, DrainedIsSent, LeftAlone, ScanIsAtRun, AppendEvent
<1>3. (FlockOwners /\ HoldsOwn /\ PathIsOwn /\ TriesOwn /\ LeftAlone /\ Fresh /\ ScanIsAtRun /\ TodoIsListed)'
  BY DEF IInv, FlockOwners, HoldsOwn, PathIsOwn, TriesOwn, LeftAlone, Fresh, ScanIsAtRun,
     TodoIsListed, AppendEvent
<1> QED BY <1>1, <1>2, <1>3 DEF IInv

\* Sending makes nothing unsent.
LEMMA DrainOwnKeepsIInv == ASSUME IInv, NEW p \in Procs, NEW s \in Sessions, DrainOwn(p, s) PROVE IInv'
<1> USE NoneAssumption DEF Live, Holding, Started, own, lock, disk, scan, hist
<1>1. Types'
  BY DEF IInv, Types, DrainOwn
<1>2. DrainedIsSent'
  BY DEF IInv, Types, DrainedIsSent, DrainOwn
<1>3. (FlockOwners /\ HoldsOwn /\ PathIsOwn /\ TriesOwn /\ LeftAlone /\ Fresh /\ ScanIsAtRun /\ TodoIsListed)'
  BY DEF IInv, FlockOwners, HoldsOwn, PathIsOwn, TriesOwn, LeftAlone, Fresh, ScanIsAtRun,
     TodoIsListed, DrainOwn
<1> QED BY <1>1, <1>2, <1>3 DEF IInv

\* A run that gives its flock up is not live any more.
LEMMA ShutdownDoneKeepsIInv == ASSUME IInv, NEW p \in Procs, ShutdownDone(p) PROVE IInv'
<1> USE NoneAssumption DEF Live, Holding, Started, own, lock, disk, scan, hist
<1>1. Types'
  BY DEF IInv, Types, ShutdownDone
<1>2. FlockOwners'
  BY DEF IInv, Types, FlockOwners, ShutdownDone
<1>3. HoldsOwn'
  BY DEF IInv, Types, HoldsOwn, ShutdownDone
<1>4. PathIsOwn'
  BY DEF IInv, Types, PathIsOwn, ShutdownDone
<1>5. TriesOwn'
  BY DEF IInv, Types, TriesOwn, ShutdownDone
<1>6. LeftAlone'
  BY DEF IInv, Types, LeftAlone, ShutdownDone
<1>7. Fresh'
  BY DEF IInv, Types, Fresh, ShutdownDone
<1>8. ScanIsAtRun'
  BY DEF IInv, Types, ScanIsAtRun, ShutdownDone
<1>9. DrainedIsSent'
  BY DEF IInv, Types, DrainedIsSent, ShutdownDone
<1>10. TodoIsListed'
  BY DEF IInv, Types, TodoIsListed, ShutdownDone
<1> QED BY <1>1, <1>2, <1>3, <1>4, <1>5, <1>6, <1>7, <1>8, <1>9, <1>10 DEF IInv

\* The flock is kept.
LEMMA ShutdownTimesOutKeepsIInv == ASSUME IInv, NEW p \in Procs, ShutdownTimesOut(p) PROVE IInv'
<1> USE NoneAssumption DEF Live, Holding, Started, own, lock, disk, scan, hist
<1>1. Types'
  BY DEF IInv, Types, ShutdownTimesOut
<1>2. FlockOwners'
  BY DEF IInv, Types, FlockOwners, ShutdownTimesOut
<1>3. HoldsOwn'
  BY DEF IInv, Types, HoldsOwn, ShutdownTimesOut
<1>4. PathIsOwn'
  BY DEF IInv, Types, PathIsOwn, ShutdownTimesOut
<1>5. TriesOwn'
  BY DEF IInv, Types, TriesOwn, ShutdownTimesOut
<1>6. LeftAlone'
  BY DEF IInv, Types, LeftAlone, ShutdownTimesOut
<1>7. Fresh'
  BY DEF IInv, Types, Fresh, ShutdownTimesOut
<1>8. ScanIsAtRun'
  BY DEF IInv, Types, ScanIsAtRun, ShutdownTimesOut
<1>9. (DrainedIsSent /\ TodoIsListed)'
  BY DEF IInv, DrainedIsSent, TodoIsListed, ShutdownTimesOut
<1> QED BY <1>1, <1>2, <1>3, <1>4, <1>5, <1>6, <1>7, <1>8, <1>9 DEF IInv

\* A process that ends takes its flocks and its scan with it.
LEMMA ExitKeepsIInv == ASSUME IInv, NEW p \in Procs, Exit(p) PROVE IInv'
<1> USE NoneAssumption DEF Live, Holding, Started, own, lock, disk, scan, hist
<1>1. Types'
  BY DEF IInv, Types, Exit
<1>2. FlockOwners'
  BY DEF IInv, Types, FlockOwners, Exit
<1>3. HoldsOwn'
  BY DEF IInv, Types, HoldsOwn, Exit
<1>4. PathIsOwn'
  BY DEF IInv, Types, PathIsOwn, Exit
<1>5. TriesOwn'
  BY DEF IInv, Types, TriesOwn, Exit
<1>6. LeftAlone'
  BY DEF IInv, Types, LeftAlone, Exit
<1>7. Fresh'
  BY DEF IInv, Types, Fresh, Exit
<1>8. ScanIsAtRun'
  BY DEF IInv, Types, ScanIsAtRun, Exit
<1>9. DrainedIsSent'
  BY DEF IInv, Types, DrainedIsSent, Exit
<1>10. TodoIsListed'
  BY DEF IInv, Types, TodoIsListed, Exit
<1> QED BY <1>1, <1>2, <1>3, <1>4, <1>5, <1>6, <1>7, <1>8, <1>9, <1>10 DEF IInv

\* Only runs that have a lock file, and so have started, are listed.
LEMMA GlobKeepsIInv == ASSUME IInv, NEW p \in Procs, Glob(p) PROVE IInv'
<1> USE NoneAssumption DEF Live, Holding, Started, own, lock, disk, scan, hist
<1>1. Types'
  BY DEF IInv, Types, Glob, Goto
<1>2. FlockOwners'
  BY DEF IInv, Types, FlockOwners, Glob, Goto
<1>3. TriesOwn'
  BY DEF IInv, Types, TriesOwn, Glob, Goto
<1>4. LeftAlone'
  BY DEF IInv, Types, LeftAlone, Glob, Goto
<1>5. Fresh'
  BY DEF IInv, Types, Fresh, Glob, Goto
<1>6. ScanIsAtRun'
  BY DEF IInv, Types, ScanIsAtRun, Glob, Goto
<1>7. DrainedIsSent'
  BY DEF IInv, Types, DrainedIsSent, Glob, Goto
<1>8. TodoIsListed'
  BY DEF IInv, Types, TodoIsListed, Glob, Goto
<1>9. (HoldsOwn /\ PathIsOwn)'
  BY DEF IInv, HoldsOwn, PathIsOwn, Glob, Goto
<1> QED BY <1>1, <1>2, <1>3, <1>4, <1>5, <1>6, <1>7, <1>8, <1>9 DEF IInv

\* The session list is taken before any run is opened.
LEMMA ListDirsKeepsIInv == ASSUME IInv, NEW p \in Procs, ListDirs(p) PROVE IInv'
<1> USE NoneAssumption DEF Live, Holding, Started, own, lock, disk, scan, hist
<1>1. Types'
  BY DEF IInv, Types, ListDirs, Goto
<1>2. FlockOwners'
  BY DEF IInv, Types, FlockOwners, ListDirs, Goto
<1>3. TriesOwn'
  BY DEF IInv, Types, TriesOwn, ListDirs, Goto
<1>4. LeftAlone'
  BY DEF IInv, Types, LeftAlone, ListDirs, Goto
<1>5. ScanIsAtRun'
  BY DEF IInv, Types, ScanIsAtRun, ListDirs, Goto
<1>6. DrainedIsSent'
  BY DEF IInv, Types, DrainedIsSent, ScanIsAtRun, ListDirs, Goto
<1>7. TodoIsListed'
  BY DEF IInv, Types, TodoIsListed, ListDirs, Goto
<1>8. (HoldsOwn /\ PathIsOwn /\ Fresh)'
  BY DEF IInv, HoldsOwn, PathIsOwn, Fresh, ListDirs, Goto
<1> QED BY <1>1, <1>2, <1>3, <1>4, <1>5, <1>6, <1>7, <1>8 DEF IInv

\* The path of a started run leads to its own inode.
LEMMA OpenNextKeepsIInv == ASSUME IInv, NEW p \in Procs, NEW r \in Procs, OpenNext(p, r) PROVE IInv'
<1> USE NoneAssumption DEF Live, Holding, Started, own, lock, disk, scan, hist
<1>1. Types'
  BY DEF IInv, Types, OpenNext, Goto, Open, OpenedInode
<1>2. FlockOwners'
  BY DEF IInv, Types, FlockOwners, ScanIsAtRun, OpenNext, Goto, Open, OpenedInode
<1>3. PathIsOwn'
  BY DEF IInv, Types, PathIsOwn, OpenNext, Goto, Open, OpenedInode
<1>4. TriesOwn'
  BY DEF IInv, Types, TriesOwn, PathIsOwn, ScanIsAtRun, OpenNext, Goto, Open, OpenedInode
<1>5. LeftAlone'
  BY DEF IInv, Types, LeftAlone, OpenNext, Goto, Open, OpenedInode
<1>6. Fresh'
  BY DEF IInv, Types, Fresh, OpenNext, Goto, Open, OpenedInode
<1>7. ScanIsAtRun'
  BY DEF IInv, Types, ScanIsAtRun, OpenNext, Goto, Open, OpenedInode
<1>8. DrainedIsSent'
  BY DEF IInv, Types, DrainedIsSent, OpenNext, Goto, Open, OpenedInode
<1>9. TodoIsListed'
  BY DEF IInv, Types, TodoIsListed, OpenNext, Goto, Open, OpenedInode
<1>10. (HoldsOwn)'
  BY DEF IInv, HoldsOwn, OpenNext, Goto, Open, OpenedInode
<1> QED BY <1>1, <1>2, <1>3, <1>4, <1>5, <1>6, <1>7, <1>8, <1>9, <1>10 DEF IInv

\* A finished scan is at no run.
LEMMA ScanEndsKeepsIInv == ASSUME IInv, NEW p \in Procs, ScanEnds(p) PROVE IInv'
<1> USE NoneAssumption DEF Live, Holding, Started, own, lock, disk, scan, hist
<1>1. Types'
  BY DEF IInv, Types, ScanEnds, Goto
<1>2. FlockOwners'
  BY DEF IInv, Types, FlockOwners, ScanEnds, Goto
<1>3. TriesOwn'
  BY DEF IInv, Types, TriesOwn, ScanEnds, Goto
<1>4. LeftAlone'
  BY DEF IInv, Types, LeftAlone, ScanEnds, Goto
<1>5. ScanIsAtRun'
  BY DEF IInv, Types, ScanIsAtRun, ScanEnds, Goto
<1>6. DrainedIsSent'
  BY DEF IInv, Types, DrainedIsSent, ScanEnds, Goto
<1>7. TodoIsListed'
  BY DEF IInv, Types, TodoIsListed, ScanEnds, Goto
<1>8. (HoldsOwn /\ PathIsOwn /\ Fresh)'
  BY DEF IInv, HoldsOwn, PathIsOwn, Fresh, ScanEnds, Goto
<1> QED BY <1>1, <1>2, <1>3, <1>4, <1>5, <1>6, <1>7, <1>8 DEF IInv

\* The flock of a started run is held or its start is now disturbed.
LEMMA TryLockKeepsIInv == ASSUME IInv, NEW p \in Procs, TryLock(p) PROVE IInv'
<1> USE NoneAssumption DEF Live, Holding, Started, own, lock, disk, scan, hist
<1>1. Types'
  BY DEF IInv, Types, ScanIsAtRun, TryLock, Goto, Unlocked
<1>2. FlockOwners'
  BY DEF IInv, Types, FlockOwners, ScanIsAtRun, TryLock, Goto, Unlocked
<1>3. HoldsOwn'
  BY DEF IInv, Types, HoldsOwn, TryLock, Goto, Unlocked
<1>4. PathIsOwn'
  BY DEF IInv, Types, PathIsOwn, TryLock, Goto, Unlocked
<1>5. TriesOwn'
  BY DEF IInv, Types, TriesOwn, TryLock, Goto, Unlocked
<1>6. LeftAlone'
  <2> SUFFICES ASSUME NEW q \in Procs, NEW r \in Procs,
                      at'[q] \in Holding \cup {"unlink"}, run'[q] = r, Started(r)'
               PROVE  r \in early'
    BY DEF LeftAlone
  <2>1. CASE q = p
    BY <2>1 DEF IInv, Types, TriesOwn, HoldsOwn, TryLock, Unlocked
  <2>2. CASE q # p
    <3>1. at'[q] = at[q] /\ run'[q] = run[q]
      BY <2>2 DEF TryLock, Goto, IInv, Types
    <3>2. Started(r) /\ early \subseteq early'
      BY DEF TryLock
    <3>3. QED
      BY <3>1, <3>2 DEF IInv, LeftAlone
  <2>3. QED
    BY <2>1, <2>2
<1>7. Fresh'
  BY DEF IInv, Types, Fresh, ScanIsAtRun, TryLock, Goto, Unlocked
<1>8. ScanIsAtRun'
  BY DEF IInv, Types, ScanIsAtRun, TryLock, Goto, Unlocked
<1>9. DrainedIsSent'
  BY DEF IInv, Types, DrainedIsSent, ScanIsAtRun, TryLock, Goto, Unlocked
<1>10. TodoIsListed'
  BY DEF IInv, Types, TodoIsListed, TryLock, Goto, Unlocked
<1> QED BY <1>1, <1>2, <1>3, <1>4, <1>5, <1>6, <1>7, <1>8, <1>9, <1>10 DEF IInv

\* A run that is passed over is left as it is.
LEMMA TryLockFailsKeepsIInv == ASSUME IInv, NEW p \in Procs, TryLockFails(p) PROVE IInv'
<1> USE NoneAssumption DEF Live, Holding, Started, own, lock, disk, scan, hist
<1>1. Types'
  BY DEF IInv, Types, TryLockFails, Goto, NextRun
<1>2. FlockOwners'
  BY DEF IInv, Types, FlockOwners, TryLockFails, Goto, NextRun
<1>3. TriesOwn'
  BY DEF IInv, Types, TriesOwn, TryLockFails, Goto, NextRun
<1>4. LeftAlone'
  BY DEF IInv, Types, LeftAlone, TryLockFails, Goto, NextRun
<1>5. Fresh'
  BY DEF IInv, Types, Fresh, TryLockFails, Goto, NextRun
<1>6. ScanIsAtRun'
  BY DEF IInv, Types, ScanIsAtRun, TryLockFails, Goto, NextRun
<1>7. DrainedIsSent'
  BY DEF IInv, Types, DrainedIsSent, TryLockFails, Goto, NextRun
<1>8. TodoIsListed'
  BY DEF IInv, Types, TodoIsListed, TryLockFails, Goto, NextRun
<1>9. (HoldsOwn /\ PathIsOwn)'
  BY DEF IInv, HoldsOwn, PathIsOwn, TryLockFails, Goto, NextRun
<1> QED BY <1>1, <1>2, <1>3, <1>4, <1>5, <1>6, <1>7, <1>8, <1>9 DEF IInv

\* A drained session has nothing unsent.
LEMMA DrainSessionKeepsIInv == ASSUME IInv, NEW p \in Procs, NEW s \in Sessions, DrainSession(p, s) PROVE IInv'
<1> USE NoneAssumption DEF Live, Holding, Started, own, lock, disk, scan, hist
<1>1. Types'
  BY DEF IInv, Types, DrainSession
<1>2. DrainedIsSent'
  BY DEF IInv, Types, DrainedIsSent, ScanIsAtRun, DrainSession
<1>3. TodoIsListed'
  BY DEF IInv, Types, TodoIsListed, DrainSession
<1>4. (FlockOwners /\ HoldsOwn /\ PathIsOwn /\ TriesOwn /\ LeftAlone /\ Fresh /\ ScanIsAtRun)'
  BY DEF IInv, FlockOwners, HoldsOwn, PathIsOwn, TriesOwn, LeftAlone, Fresh, ScanIsAtRun,
     DrainSession
<1> QED BY <1>1, <1>2, <1>3, <1>4 DEF IInv

\* All sessions of the list have been drained.
LEMMA DrainEndsKeepsIInv == ASSUME IInv, NEW p \in Procs, DrainEnds(p) PROVE IInv'
<1> USE NoneAssumption DEF Live, Holding, Started, own, lock, disk, scan, hist
<1>1. Types'
  BY DEF IInv, Types, DrainEnds, Goto
<1>2. FlockOwners'
  BY DEF IInv, Types, FlockOwners, DrainEnds, Goto
<1>3. TriesOwn'
  BY DEF IInv, Types, TriesOwn, DrainEnds, Goto
<1>4. LeftAlone'
  BY DEF IInv, Types, LeftAlone, DrainEnds, Goto
<1>5. ScanIsAtRun'
  BY DEF IInv, Types, ScanIsAtRun, DrainEnds, Goto
<1>6. DrainedIsSent'
  BY DEF IInv, Types, DrainedIsSent, DrainEnds, Goto
<1>7. TodoIsListed'
  BY DEF IInv, Types, TodoIsListed, DrainEnds, Goto
<1>8. (HoldsOwn /\ PathIsOwn /\ Fresh)'
  BY DEF IInv, HoldsOwn, PathIsOwn, Fresh, DrainEnds, Goto
<1> QED BY <1>1, <1>2, <1>3, <1>4, <1>5, <1>6, <1>7, <1>8 DEF IInv

\* The scan gives up the flock of the run it was at, which is not its own.
LEMMA DrainFailsKeepsIInv == ASSUME IInv, NEW p \in Procs, DrainFails(p) PROVE IInv'
<1> USE NoneAssumption DEF Live, Holding, Started, own, lock, disk, scan, hist
<1>1. Types'
  BY DEF IInv, Types, DrainFails, Goto, NextRun, ReleaseLock
<1>2. FlockOwners'
  BY DEF IInv, Types, FlockOwners, DrainFails, Goto, NextRun, ReleaseLock
<1>3. HoldsOwn'
  BY DEF IInv, Types, HoldsOwn, ScanIsAtRun, DrainFails, Goto, NextRun, ReleaseLock
<1>4. TriesOwn'
  BY DEF IInv, Types, TriesOwn, DrainFails, Goto, NextRun, ReleaseLock
<1>5. LeftAlone'
  BY DEF IInv, Types, LeftAlone, DrainFails, Goto, NextRun, ReleaseLock
<1>6. Fresh'
  BY DEF IInv, Types, Fresh, DrainFails, Goto, NextRun, ReleaseLock
<1>7. ScanIsAtRun'
  BY DEF IInv, Types, ScanIsAtRun, DrainFails, Goto, NextRun, ReleaseLock
<1>8. DrainedIsSent'
  BY DEF IInv, Types, DrainedIsSent, DrainFails, Goto, NextRun, ReleaseLock
<1>9. TodoIsListed'
  BY DEF IInv, Types, TodoIsListed, DrainFails, Goto, NextRun, ReleaseLock
<1>10. (PathIsOwn)'
  BY DEF IInv, PathIsOwn, DrainFails, Goto, NextRun, ReleaseLock
<1> QED BY <1>1, <1>2, <1>3, <1>4, <1>5, <1>6, <1>7, <1>8, <1>9, <1>10 DEF IInv

\* A removed WAL has nothing unsent.
LEMMA RemoveSessionKeepsIInv == ASSUME IInv, NEW p \in Procs, NEW s \in Sessions, RemoveSession(p, s) PROVE IInv'
<1> USE NoneAssumption DEF Live, Holding, Started, own, lock, disk, scan, hist
<1>1. Types'
  BY DEF IInv, Types, RemoveSession
<1>2. DrainedIsSent'
  BY DEF IInv, Types, DrainedIsSent, ScanIsAtRun, RemoveSession
<1>3. TodoIsListed'
  BY DEF IInv, Types, TodoIsListed, RemoveSession
<1>4. (FlockOwners /\ HoldsOwn /\ PathIsOwn /\ TriesOwn /\ LeftAlone /\ Fresh /\ ScanIsAtRun)'
  BY DEF IInv, FlockOwners, HoldsOwn, PathIsOwn, TriesOwn, LeftAlone, Fresh, ScanIsAtRun,
     RemoveSession
<1> QED BY <1>1, <1>2, <1>3, <1>4 DEF IInv

\* The scan gives up the flock of the run it was at, which is not its own.
LEMMA CloseLockKeepsIInv == ASSUME IInv, NEW p \in Procs, CloseLock(p) PROVE IInv'
<1> USE NoneAssumption DEF Live, Holding, Started, own, lock, disk, scan, hist
<1>1. Types'
  BY DEF IInv, Types, CloseLock, Goto, ReleaseLock
<1>2. FlockOwners'
  BY DEF IInv, Types, FlockOwners, CloseLock, Goto, ReleaseLock
<1>3. HoldsOwn'
  BY DEF IInv, Types, HoldsOwn, ScanIsAtRun, CloseLock, Goto, ReleaseLock
<1>4. TriesOwn'
  BY DEF IInv, Types, TriesOwn, CloseLock, Goto, ReleaseLock
<1>5. LeftAlone'
  BY DEF IInv, Types, LeftAlone, CloseLock, Goto, ReleaseLock
<1>6. ScanIsAtRun'
  BY DEF IInv, Types, ScanIsAtRun, CloseLock, Goto, ReleaseLock
<1>7. DrainedIsSent'
  BY DEF IInv, Types, DrainedIsSent, CloseLock, Goto, ReleaseLock
<1>8. TodoIsListed'
  BY DEF IInv, Types, TodoIsListed, CloseLock, Goto, ReleaseLock
<1>9. (PathIsOwn /\ Fresh)'
  BY DEF IInv, PathIsOwn, Fresh, CloseLock, Goto, ReleaseLock
<1> QED BY <1>1, <1>2, <1>3, <1>4, <1>5, <1>6, <1>7, <1>8, <1>9 DEF IInv

\* The path that is removed is not that of a started run, or its start was disturbed.
LEMMA UnlinkKeepsIInv == ASSUME IInv, NEW p \in Procs, Unlink(p) PROVE IInv'
<1> USE NoneAssumption DEF Live, Holding, Started, own, lock, disk, scan, hist
<1>1. Types'
  BY DEF IInv, Types, Unlink, Goto, NextRun
<1>2. FlockOwners'
  BY DEF IInv, Types, FlockOwners, Unlink, Goto, NextRun
<1>3. PathIsOwn'
  BY DEF IInv, Types, PathIsOwn, LeftAlone, ScanIsAtRun, Unlink, Goto, NextRun
<1>4. TriesOwn'
  BY DEF IInv, Types, TriesOwn, Unlink, Goto, NextRun
<1>5. LeftAlone'
  BY DEF IInv, Types, LeftAlone, Unlink, Goto, NextRun
<1>6. Fresh'
  BY DEF IInv, Types, Fresh, Unlink, Goto, NextRun
<1>7. ScanIsAtRun'
  BY DEF IInv, Types, ScanIsAtRun, Unlink, Goto, NextRun
<1>8. DrainedIsSent'
  BY DEF IInv, Types, DrainedIsSent, Unlink, Goto, NextRun
<1>9. TodoIsListed'
  BY DEF IInv, Types, TodoIsListed, Unlink, Goto, NextRun
<1>10. (HoldsOwn)'
  BY DEF IInv, HoldsOwn, Unlink, Goto, NextRun
<1> QED BY <1>1, <1>2, <1>3, <1>4, <1>5, <1>6, <1>7, <1>8, <1>9, <1>10 DEF IInv

\* A stuttering step changes nothing.
LEMMA StutterKeepsIInv == ASSUME IInv, UNCHANGED vars PROVE IInv'
  BY DEF IInv, Types, FlockOwners, Live, Holding, HoldsOwn, PathIsOwn, TriesOwn, LeftAlone, Fresh, ScanIsAtRun,
     DrainedIsSent, TodoIsListed, Started, vars, own, lock, disk, scan, hist

\* One step per action.
LEMMA NextKeepsIInv == IInv /\ [Next]_vars => IInv'
<1> SUFFICES ASSUME IInv, [Next]_vars PROVE IInv'
  OBVIOUS
<1>1. ASSUME NEW p \in Procs, Running(p) PROVE IInv'
  <2>1. ASSUME NEW s \in Sessions, OpenWAL(p, s) \/ AppendEvent(p, s) \/ DrainOwn(p, s)
        PROVE  IInv'
    BY <2>1, OpenWALKeepsIInv, AppendEventKeepsIInv, DrainOwnKeepsIInv
  <2> QED
    BY <1>1, <2>1, OpenOwnKeepsIInv, LockOwnKeepsIInv, LockOwnFailsKeepsIInv,
       ShutdownDoneKeepsIInv, ShutdownTimesOutKeepsIInv, ExitKeepsIInv DEF Running
<1>2. ASSUME NEW p \in Procs, Scanning(p) PROVE IInv'
  <2>1. ASSUME NEW r \in Procs, OpenNext(p, r) PROVE IInv'
    BY <2>1, OpenNextKeepsIInv
  <2>2. ASSUME NEW s \in Sessions, DrainSession(p, s) \/ RemoveSession(p, s) PROVE IInv'
    BY <2>2, DrainSessionKeepsIInv, RemoveSessionKeepsIInv
  <2> QED
    BY <1>2, <2>1, <2>2, GlobKeepsIInv, ListDirsKeepsIInv, ScanEndsKeepsIInv, TryLockKeepsIInv,
       TryLockFailsKeepsIInv, DrainEndsKeepsIInv, DrainFailsKeepsIInv, CloseLockKeepsIInv,
       UnlinkKeepsIInv DEF Scanning
<1> QED BY <1>1, <1>2, StutterKeepsIInv DEF Next

\* The invariant holds in every behaviour of any number of processes.
THEOREM RunLockInvariant == Spec => []IInv
  BY InitIInv, NextKeepsIInv, PTL DEF Spec

\* Types, and no flock is held by anybody but a live owner or the scanner that
\* is at the run (sender.go:303-317).
THEOREM TypeCorrect == Spec => []TypeOK
<1>1. IInv => TypeOK
  BY DEF IInv, TypeOK
<1> QED BY <1>1, RunLockInvariant, PTL

\* While a run is alive no other process sends its events or removes its files,
\* unless a scanner came between the open and the flock of its start
\* (emitter.go:253-254, wal.go:150).
THEOREM LiveRunsAreLeftAlone == Spec => []LiveRunIsLeftAlone
<1>1. IInv => LiveRunIsLeftAlone
  BY DEF IInv, LeftAlone, LiveRunIsLeftAlone, Started
<1> QED BY <1>1, RunLockInvariant, PTL

Removal(r, s) == left[r][s] = "unsent" /\ left'[r][s] = "none"

\* Only the removal of a scanner takes away a WAL that has undelivered lines.
LEMMA OnlyRemoveSessionRemoves ==
    ASSUME IInv, [Next]_vars, NEW r \in Procs, NEW s \in Sessions, Removal(r, s)
    PROVE  \E p \in Procs : RemoveSession(p, s) /\ run[p] = r
<1> USE DEF IInv, Types, Removal, own, lock, disk, scan, hist
<1>1. CASE UNCHANGED vars
  BY <1>1 DEF vars
<1>2. ASSUME NEW p \in Procs, Running(p) PROVE FALSE
  <2>1. ASSUME NEW t \in Sessions, OpenWAL(p, t) \/ AppendEvent(p, t) \/ DrainOwn(p, t)
        PROVE  FALSE
    BY <2>1 DEF OpenWAL, AppendEvent, DrainOwn
  <2> QED
    BY <1>2, <2>1 DEF Running, OpenOwn, LockOwn, LockOwnFails, ShutdownDone, ShutdownTimesOut, Exit
<1>3. ASSUME NEW p \in Procs, Scanning(p) PROVE RemoveSession(p, s) /\ run[p] = r
  <2>1. ASSUME NEW q \in Procs, OpenNext(p, q) PROVE FALSE
    BY <2>1 DEF OpenNext
  <2>2. ASSUME NEW t \in Sessions, DrainSession(p, t) PROVE FALSE
    BY <2>2 DEF DrainSession
  <2>3. ASSUME NEW t \in Sessions, RemoveSession(p, t) PROVE t = s /\ run[p] = r
    BY <2>3 DEF RemoveSession
  <2> QED
    BY <1>3, <2>1, <2>2, <2>3 DEF Scanning, Glob, ListDirs, ScanEnds, TryLock, TryLockFails,
       DrainEnds, DrainFails, CloseLock, Unlink
<1> QED BY <1>1, <1>2, <1>3 DEF Next

\* A WAL is removed only when the server has all of it, unless its run was
\* taken for dead at its start or has gone on after Shutdown
\* (sender.go:307-315).
THEOREM RemovedWALsAreDelivered == Spec => RemovedIsDelivered
<1> DEFINE Kept ==
      \A r \in Procs, s \in Sessions : Removal(r, s) => r \in early \cup late
<1>1. IInv /\ [Next]_vars => [Kept]_vars
  <2> SUFFICES ASSUME IInv, [Next]_vars,
                      NEW r \in Procs, NEW s \in Sessions, Removal(r, s)
               PROVE  r \in early \cup late
    OBVIOUS
  <2>1. PICK p \in Procs : RemoveSession(p, s) /\ run[p] = r
    BY OnlyRemoveSessionRemoves
  <2>2. at[p] = "remove" /\ s \in sess[p]
    BY <2>1 DEF RemoveSession, IInv, TodoIsListed, Holding
  <2> QED BY <2>1, <2>2 DEF IInv, DrainedIsSent, Removal
<1>2. [Kept]_vars => [\A r \in Procs, s \in Sessions :
          left[r][s] = "unsent" /\ left'[r][s] = "none" => r \in early \cup late]_vars
  BY DEF Removal
<1> QED BY <1>1, <1>2, RunLockInvariant, PTL DEF Spec, RemovedIsDelivered
===============================================================================
