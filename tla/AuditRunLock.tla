----------------------------- MODULE AuditRunLock -----------------------------
(***************************************************************************)
(* Who may drain which audit run (internal/audit/emitter.go, wal.go,       *)
(* sender.go).  Several processes share one WAL directory.  Each is one    *)
(* run with a new run ID: it creates <run>.lock, flocks it, writes its     *)
(* events to one WAL per session and sends them.  When its sender starts   *)
(* it looks once for the other runs whose lock it can take, sends what     *)
(* they left and removes their files.                                      *)
(*                                                                         *)
(* A flock belongs to an inode, os.Remove and O_CREATE to a path: link[r]  *)
(* is the inode at the path <r>.lock now, 0 when there is none, and        *)
(* flocks holds <<run, inode, process>>.  One WAL is "none" (no file),     *)
(* "unsent" (it has lines the server has not got) or "sent"; reading and   *)
(* sending a WAL line by line is AuditWAL.                                 *)
(***************************************************************************)
EXTENDS Naturals, FiniteSets

CONSTANTS
    Procs,    \* the processes, which are also the runs
    Sessions, \* session IDs
    None,
    MaxScans,  \* bound: scans under way at a time
    MaxWriters \* bound: runs that open a WAL

ASSUME NoneAssumption == None \notin Procs

VARIABLES
    proc,   \* a process: see Live; "closed" is after Shutdown gave up the lock
    opened, \* Emitter.wals of a process: the sessions it has a WAL for
    ino,    \* the inode of its own lock that a process has opened, or 0
    link,   \* the inode at the path of a run's lock, or 0
    made,   \* number of inodes made so far at that path
    flocks, \* <<run, inode, process>>
    dirs,   \* session directories
    left,   \* left[r][s]: the WAL of run r in session s
    at,     \* where the sender of a process stands
    list,   \* scanDeadRuns: the runs left to try
    sess,   \* scanDeadRuns: the sessions taken at its start
    run,    \* scanDeadRuns: the run it is at, or None
    fd,     \* the inode it has opened for that run, or 0
    todo,   \* the sessions left in the loop it is in
    early,  \* history: runs whose lock a scanner took before the run itself
    late    \* history: runs that appended after their Shutdown

own   == <<proc, opened, ino>>
lock  == <<link, made, flocks>>
disk  == <<dirs, left>>
scan  == <<at, list, sess, run, fd, todo>>
hist  == <<early, late>>
vars  == <<own, lock, disk, scan, hist>>

Live    == {"up", "leaving"}         \* holds its run lock
Holding == {"drain", "remove"} \* holds the lock of another run

Init ==
    /\ proc = [p \in Procs |-> "off"]
    /\ opened = [p \in Procs |-> {}]
    /\ ino = [p \in Procs |-> 0]
    /\ link = [r \in Procs |-> 0]
    /\ made = [r \in Procs |-> 0]
    /\ flocks = {}
    /\ dirs = {}
    /\ left = [r \in Procs |-> [s \in Sessions |-> "none"]]
    /\ at = [p \in Procs |-> "off"]
    /\ list = [p \in Procs |-> {}]
    /\ sess = [p \in Procs |-> {}]
    /\ run = [p \in Procs |-> None]
    /\ fd = [p \in Procs |-> 0]
    /\ todo = [p \in Procs |-> {}]
    /\ early = {}
    /\ late = {}

\* os.OpenFile(path, O_CREATE|O_RDWR): the inode at the path, a new one if
\* there is none.
OpenedInode(r) == IF link[r] = 0 THEN made[r] + 1 ELSE link[r]
Open(r) ==
    /\ link' = [link EXCEPT ![r] = OpenedInode(r)]
    /\ made' = [made EXCEPT ![r] = IF link[r] = 0 THEN made[r] + 1 ELSE made[r]]
    /\ UNCHANGED flocks

\* lockNB succeeds iff no other open file of the inode is locked.
Unlocked(r, i) == \A p \in Procs : <<r, i, p>> \notin flocks

-------------------------------------------------------------------------------
(* The process itself.                                                       *)

\* init: create and open the own lock file, in acquireRunLock.
OpenOwn(p) ==
    /\ proc[p] = "off"
    /\ Open(p)
    /\ ino' = [ino EXCEPT ![p] = OpenedInode(p)]
    /\ proc' = [proc EXCEPT ![p] = "opened"]
    /\ UNCHANGED <<opened, disk, scan, hist>>

\* init: flock it and start the sender.
LockOwn(p) ==
    /\ proc[p] = "opened"
    /\ Unlocked(p, ino[p])
    /\ flocks' = flocks \cup {<<p, ino[p], p>>}
    /\ proc' = [proc EXCEPT ![p] = "up"]
    /\ at' = [at EXCEPT ![p] = "glob"]
    /\ UNCHANGED <<opened, ino, link, made, disk, list, sess, run, fd, todo, hist>>

\* init: somebody else has the flock.  initErr stays and the process drops all
\* its events.
LockOwnFails(p) ==
    /\ proc[p] = "opened"
    /\ ~ Unlocked(p, ino[p])
    /\ proc' = [proc EXCEPT ![p] = "failed"]
    /\ UNCHANGED <<opened, ino, lock, disk, scan, hist>>

\* Emitter.wal and openWAL at the first event of a session.
OpenWAL(p, s) ==
    /\ proc[p] \in Live \cup {"closed"}
    /\ s \notin opened[p]
    /\ opened[p] # {} \/ Cardinality({q \in Procs : opened[q] # {}}) < MaxWriters
    /\ opened' = [opened EXCEPT ![p] = @ \cup {s}]
    /\ dirs' = dirs \cup {s}
    /\ left' = [left EXCEPT ![p][s] = "sent"]
    /\ UNCHANGED <<proc, ino, lock, scan, hist>>

\* Append opens the file without O_CREATE: an event for a WAL that has been
\* removed is dropped with an error.
AppendEvent(p, s) ==
    /\ proc[p] \in Live \cup {"closed"}
    /\ s \in opened[p]
    /\ left[p][s] # "none"
    /\ left' = [left EXCEPT ![p][s] = "unsent"]
    /\ late' = IF proc[p] = "closed" THEN late \cup {p} ELSE late
    /\ UNCHANGED <<own, lock, dirs, scan, early>>

\* One session of the sender's drainRun of its own run.
DrainOwn(p, s) ==
    /\ proc[p] \in Live
    /\ at[p] = "own"
    /\ left[p][s] = "unsent"
    /\ left' = [left EXCEPT ![p][s] = "sent"]
    /\ UNCHANGED <<own, lock, dirs, scan, hist>>

\* Shutdown sees sender.done, after a final drain that may have failed, and
\* closes the lock.
ShutdownDone(p) ==
    /\ proc[p] = "up"
    /\ at[p] = "own"
    /\ proc' = [proc EXCEPT ![p] = "closed"]
    /\ at' = [at EXCEPT ![p] = "off"]
    /\ flocks' = flocks \ {<<p, ino[p], p>>}
    /\ UNCHANGED <<opened, ino, link, made, disk, list, sess, run, fd, todo, hist>>

\* Mutation: Shutdown gives the lock up even when it has not seen sender.done.
ShutdownTimesOutReleasing(p) ==
    /\ proc[p] = "up"
    /\ proc' = [proc EXCEPT ![p] = "leaving"]
    /\ flocks' = flocks \ {<<p, ino[p], p>>}
    /\ UNCHANGED <<opened, ino, link, made, disk, scan, hist>>

\* Shutdown's context ends first: the lock is kept, the sender goes on.
ShutdownTimesOut(p) ==
    /\ proc[p] = "up"
    /\ proc' = [proc EXCEPT ![p] = "leaving"]
    /\ UNCHANGED <<opened, ino, lock, disk, scan, hist>>

\* The process ends, from any point; the system drops its flocks.
Exit(p) ==
    /\ proc[p] \notin {"off", "down"}
    /\ proc' = [proc EXCEPT ![p] = "down"]
    /\ flocks' = {f \in flocks : f[3] # p}
    /\ at' = [at EXCEPT ![p] = "off"]
    /\ list' = [list EXCEPT ![p] = {}]
    /\ sess' = [sess EXCEPT ![p] = {}]
    /\ run' = [run EXCEPT ![p] = None]
    /\ fd' = [fd EXCEPT ![p] = 0]
    /\ todo' = [todo EXCEPT ![p] = {}]
    /\ UNCHANGED <<opened, ino, link, made, disk, hist>>

-------------------------------------------------------------------------------
(* scanDeadRuns of process p.                                                *)

Goto(p, l) == at' = [at EXCEPT ![p] = l]

\* filepath.Glob of the lock files, without the own one.
Glob(p) ==
    /\ at[p] = "glob"
    /\ Cardinality({q \in Procs : at[q] \notin {"off", "glob", "own"}}) < MaxScans
    /\ list' = [list EXCEPT ![p] = {r \in Procs \ {p} : link[r] # 0}]
    /\ Goto(p, "dirs")
    /\ UNCHANGED <<own, lock, disk, sess, run, fd, todo, hist>>

\* sessionDirs, once for the whole scan.
ListDirs(p) ==
    /\ at[p] = "dirs"
    /\ sess' = [sess EXCEPT ![p] = dirs]
    /\ Goto(p, "next")
    /\ UNCHANGED <<own, lock, disk, list, run, fd, todo, hist>>

\* tryLockRun opens the lock of the next run, and creates it when another
\* scanner has removed it.
OpenNext(p, r) ==
    /\ at[p] = "next"
    /\ r \in list[p]
    /\ Open(r)
    /\ run' = [run EXCEPT ![p] = r]
    /\ fd' = [fd EXCEPT ![p] = OpenedInode(r)]
    /\ list' = [list EXCEPT ![p] = @ \ {r}]
    /\ Goto(p, "try")
    /\ UNCHANGED <<own, disk, sess, todo, hist>>

\* The list is done and the sender's own loop begins.
ScanEnds(p) ==
    /\ at[p] = "next"
    /\ list[p] = {}
    /\ sess' = [sess EXCEPT ![p] = {}]
    /\ Goto(p, "own")
    /\ UNCHANGED <<own, lock, disk, list, run, fd, todo, hist>>

\* The scan is done with its run.
NextRun(p) ==
    /\ Goto(p, "next")
    /\ run' = [run EXCEPT ![p] = None]
    /\ fd' = [fd EXCEPT ![p] = 0]
    /\ todo' = [todo EXCEPT ![p] = {}]

ReleaseLock(p) == flocks' = flocks \ {<<run[p], fd[p], p>>}

\* tryLockRun's flock: a run whose lock can be taken counts as dead.
TryLock(p) ==
    /\ at[p] = "try"
    /\ Unlocked(run[p], fd[p])
    /\ flocks' = flocks \cup {<<run[p], fd[p], p>>}
    /\ early' = IF proc[run[p]] = "opened" THEN early \cup {run[p]} ELSE early
    /\ todo' = [todo EXCEPT ![p] = sess[p]]
    /\ Goto(p, "drain")
    /\ UNCHANGED <<own, link, made, disk, list, sess, run, fd, late>>

\* The lock is held: the run is passed over.
TryLockFails(p) ==
    /\ at[p] = "try"
    /\ ~ Unlocked(run[p], fd[p])
    /\ NextRun(p)
    /\ UNCHANGED <<own, lock, disk, list, sess, hist>>

\* drainRun: the WAL of one of the listed sessions is sent to its end, if the
\* run has one there.
DrainSession(p, s) ==
    /\ at[p] = "drain"
    /\ s \in todo[p]
    /\ left' = [left EXCEPT ![run[p]][s] = IF @ = "none" THEN @ ELSE "sent"]
    /\ todo' = [todo EXCEPT ![p] = @ \ {s}]
    /\ UNCHANGED <<own, lock, dirs, at, list, sess, run, fd, hist>>

\* drainRun returns nil.
DrainEnds(p) ==
    /\ at[p] = "drain"
    /\ todo[p] = {}
    /\ todo' = [todo EXCEPT ![p] = sess[p]]
    /\ Goto(p, "remove")
    /\ UNCHANGED <<own, lock, disk, list, sess, run, fd, hist>>

\* Mutation: the error of drainRun does not keep the files.
DrainFailsIgnored(p) ==
    /\ at[p] = "drain"
    /\ todo' = [todo EXCEPT ![p] = sess[p]]
    /\ Goto(p, "remove")
    /\ UNCHANGED <<own, lock, disk, list, sess, run, fd, hist>>

\* Mutation: the lock file is not closed after an error.
DrainFailsLeaking(p) ==
    /\ at[p] = "drain"
    /\ NextRun(p)
    /\ UNCHANGED <<own, lock, disk, list, sess, hist>>

\* drainRun returns an error: the run is left for a later process.
DrainFails(p) ==
    /\ at[p] = "drain"
    /\ ReleaseLock(p)
    /\ NextRun(p)
    /\ UNCHANGED <<own, link, made, disk, list, sess, hist>>

\* Remove the WAL and the cursor of one of the listed sessions.
RemoveSession(p, s) ==
    /\ at[p] = "remove"
    /\ s \in todo[p]
    /\ left' = [left EXCEPT ![run[p]][s] = "none"]
    /\ todo' = [todo EXCEPT ![p] = @ \ {s}]
    /\ UNCHANGED <<own, lock, dirs, at, list, sess, run, fd, hist>>

\* Close the lock file, which gives up the flock.
CloseLock(p) ==
    /\ at[p] = "remove"
    /\ todo[p] = {}
    /\ ReleaseLock(p)
    /\ Goto(p, "unlink")
    /\ UNCHANGED <<own, link, made, disk, list, sess, run, fd, todo, hist>>

\* Remove whatever file is at the path of the lock by now.
Unlink(p) ==
    /\ at[p] = "unlink"
    /\ link' = [link EXCEPT ![run[p]] = 0]
    /\ NextRun(p)
    /\ UNCHANGED <<own, made, flocks, disk, list, sess, hist>>

Running(p) ==
    \/ OpenOwn(p) \/ LockOwn(p) \/ LockOwnFails(p)
    \/ \E s \in Sessions : OpenWAL(p, s) \/ AppendEvent(p, s) \/ DrainOwn(p, s)
    \/ ShutdownDone(p) \/ ShutdownTimesOut(p) \/ Exit(p)

Scanning(p) ==
    \/ Glob(p) \/ ListDirs(p) \/ ScanEnds(p)
    \/ \E r \in Procs : OpenNext(p, r)
    \/ TryLock(p) \/ TryLockFails(p)
    \/ \E s \in Sessions : DrainSession(p, s) \/ RemoveSession(p, s)
    \/ DrainEnds(p) \/ DrainFails(p) \/ CloseLock(p) \/ Unlink(p)

Next == \E p \in Procs : Running(p) \/ Scanning(p)

Spec == Init /\ [][Next]_vars
-------------------------------------------------------------------------------
Types ==
    /\ proc \in [Procs -> {"off", "opened", "failed", "closed", "down"} \cup Live]
    /\ opened \in [Procs -> SUBSET Sessions]
    /\ ino \in [Procs -> Nat]
    /\ link \in [Procs -> Nat]
    /\ made \in [Procs -> Nat]
    /\ flocks \subseteq Procs \X Nat \X Procs
    /\ dirs \subseteq Sessions
    /\ left \in [Procs -> [Sessions -> {"none", "unsent", "sent"}]]
    /\ at \in [Procs -> {"off", "glob", "dirs", "next", "try", "unlink", "own"} \cup Holding]
    /\ list \in [Procs -> SUBSET Procs]
    /\ sess \in [Procs -> SUBSET Sessions]
    /\ run \in [Procs -> Procs \cup {None}]
    /\ fd \in [Procs -> Nat]
    /\ todo \in [Procs -> SUBSET Sessions]
    /\ early \subseteq Procs
    /\ late \subseteq Procs

\* A live process holds the flock of the inode it made for its own run, a
\* scanner that of the run it is at, and nobody anything else.
FlockOwners ==
    \A f \in flocks :
        \/ f[1] = f[3] /\ f[2] = ino[f[3]] /\ proc[f[3]] \in Live
        \/ f[1] = run[f[3]] /\ f[2] = fd[f[3]] /\ at[f[3]] \in Holding

\* Types, and who holds which flock: none is leaked on an error path of the scan
\* (sender.go:303-317).
TypeOK == Types /\ FlockOwners

\* While a run is alive no other process sends its events or removes its files,
\* even when Shutdown has given up waiting (emitter.go:253-254), unless a
\* scanner came between the open and the flock of its start.
LiveRunIsLeftAlone ==
    \A p, r \in Procs :
        proc[r] \in Live /\ run[p] = r /\ at[p] \in Holding => r \in early

\* A WAL is removed only when the server has all of it, unless its run was
\* taken for dead at its start or has gone on after Shutdown
\* (sender.go:307-315).
RemovedIsDelivered ==
    [][\A r \in Procs, s \in Sessions :
          left[r][s] = "unsent" /\ left'[r][s] = "none" => r \in early \cup late]_vars

\* sender.go:242 says of drainRun that it sends all WALs of the run, and 294
\* that a dead run is sent and removed: when the lock of a dead run that was
\* not disturbed at its start goes, nothing of the run is left unsent.
AllWALsDrained ==
    \A p \in Procs : at[p] = "unlink" /\ run[p] \notin early \cup late =>
        \A s \in Sessions : left[run[p]][s] # "unsent"
===============================================================================
