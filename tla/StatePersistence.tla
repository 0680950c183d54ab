-------------------------- MODULE StatePersistence --------------------------
(***************************************************************************)
(* The write path of the process state: the promise chain persistQueue of  *)
(* server.ts, the coalescing flag persistPending, the eager snapshots of   *)
(* the critical writes, the write baseline of the Postgres adapter, and    *)
(* crash, bootstrap and shutdown around them.                              *)
(*                                                                         *)
(* The content of a key is abstracted to a version: the number of changes  *)
(* made to it.  A change is one that adds or removes an entry: a snapshot  *)
(* copies the lists but shares the rows, so an edit of a row in place is   *)
(* still seen by the JSON.stringify of a write that starts later.          *)
(* Unread is the blank content of a process that has not read the database *)
(* yet; None means "no version": a key that a job does not write.          *)
(***************************************************************************)
EXTENDS Naturals, Sequences

CONSTANTS
    Timeouts,    \* TRUE: a write may commit although the client sees an error
    Direct,      \* TRUE: the delegation route writes the control key off the queue
    Eager,       \* TRUE: critical and strict writes are in use
    MaxVersion,  \* bound on the changes of a key
    MaxQueue,    \* bound on the jobs waiting in persistQueue
    MaxRestarts  \* bound on crashes and shutdowns

ASSUME SwitchesAssumption ==
    /\ Timeouts \in BOOLEAN /\ Direct \in BOOLEAN
    /\ Eager \in BOOLEAN

ASSUME BoundsAssumption ==
    MaxVersion \in Nat /\ MaxQueue \in Nat /\ MaxRestarts \in Nat

Keys == {"state", "control"}
None   == 0
Unread == 1
Version == Nat

\* Lazy jobs build their snapshot when they start, the others when queued.
LazyKinds  == {"state", "control"}
EagerKinds == {"strict", "critical"}
Kinds      == LazyKinds \union EagerKinds

Job == [kind : Kinds, snap : [Keys -> Version]]

\* The write in flight: what it was asked to write and what it really sends.
Write == [kind : Kinds \union {"idle"}, snap : [Keys -> Version], send : SUBSET Keys]
Blank == [k \in Keys |-> None]
Fresh == [k \in Keys |-> Unread]
Idle  == [kind |-> "idle", snap |-> Blank, send |-> {}]

VARIABLES
    phase,      \* "boot" -> "ready" -> "draining" -> "exited" -> "boot"
    mem,        \* version of each key in the memory of the process
    db,         \* version of each key in gharabi_state
    baseline,   \* writeBaseline: what the adapter believes the database holds
    queue,      \* jobs of persistQueue that have not started
    writing,    \* the job of persistQueue that has started
    pending,    \* persistPending
    failed,     \* lastPersistError # null
    direct,     \* snapshot of the direct control write in flight, or None
    requested,  \* version of each key when its last write was asked for
    captured,   \* newest state version a started write has captured
    acked,      \* newest version a critical or strict write was confirmed for
    restarts    \* processes that ended or were told to

vars == <<phase, mem, db, baseline, queue, writing, pending, failed, direct,
          requested, captured, acked, restarts>>

Up == phase \in {"ready", "draining"}
Larger(a, b) == IF a >= b THEN a ELSE b

TypeOK ==
    /\ phase \in {"boot", "ready", "draining", "exited"}
    /\ mem \in [Keys -> Version] /\ db \in [Keys -> Version]
    /\ baseline \in [Keys -> Version]
    /\ queue \in Seq(Job)
    /\ writing \in Write
    /\ pending \in BOOLEAN /\ failed \in BOOLEAN
    /\ direct \in Version
    /\ requested \in [Keys -> Version]
    /\ captured \in Version
    /\ acked \in [Keys -> Version]
    /\ restarts \in Nat

Init ==
    /\ phase = "boot"
    /\ mem = Fresh
    /\ db = [k \in Keys |-> Unread + 1]
    /\ baseline = Blank
    /\ queue = <<>> /\ writing = Idle
    /\ pending = FALSE /\ failed = FALSE
    /\ direct = None
    /\ requested = Blank
    /\ captured = None
    /\ acked = Blank
    /\ restarts = 0

-----------------------------------------------------------------------------
(* Bootstrap: nothing is written before the stored state has been read.    *)

\* Mutant of BootRead: the control key is forgotten.
BootReadStateOnly ==
    /\ phase = "boot"
    /\ phase' = "ready"
    /\ mem' = [k \in {"state"} |-> db[k]]
    /\ baseline' = db
    /\ requested' = db
    /\ captured' = db["state"]
    /\ UNCHANGED <<db, queue, writing, pending, failed, direct, acked, restarts>>

\* bootstrapStorage: the keys are read, the live containers take their
\* content, each read feeds the baseline, and only then storageReady holds.
BootRead ==
    /\ phase = "boot"
    /\ phase' = "ready"
    /\ mem' = db
    /\ baseline' = db
    /\ requested' = db
    /\ captured' = db["state"]
    /\ UNCHANGED <<db, queue, writing, pending, failed, direct, acked, restarts>>

-----------------------------------------------------------------------------
(* Handlers: they change memory, then ask for a write.                     *)

Mutate(k) ==
    /\ Up
    /\ mem[k] < MaxVersion
    /\ mem' = [mem EXCEPT ![k] = @ + 1]
    /\ UNCHANGED <<phase, db, baseline, queue, writing, pending, failed, direct,
                   requested, captured, acked, restarts>>

Enqueue(job) ==
    /\ Len(queue) < MaxQueue
    /\ queue' = Append(queue, job)

\* What a job queued now captures of the keys K.
Snapshot(K) == [k \in Keys |-> IF k \in K THEN mem[k] ELSE None]

Ask(K) == requested' = [k \in Keys |-> IF k \in K THEN mem[k] ELSE requested[k]]

\* Mutant of PersistStateEarly: the storageReady guard is dropped.
PersistStateUnguarded ==
    /\ phase = "boot" /\ ~pending
    /\ Enqueue([kind |-> "state", snap |-> Blank])
    /\ pending' = TRUE
    /\ UNCHANGED <<phase, mem, db, baseline, writing, failed, direct,
                   requested, captured, acked, restarts>>

\* persistState before storageReady: refused, and the error is recorded.
PersistStateEarly ==
    /\ phase = "boot"
    /\ failed' = TRUE
    /\ UNCHANGED <<phase, mem, db, baseline, queue, writing, pending, direct,
                   requested, captured, acked, restarts>>

\* persistState: a job that has not started yet will see this change too.
PersistState ==
    /\ Up
    /\ \/ pending /\ UNCHANGED <<queue, pending>>
       \/ /\ ~pending
          /\ Enqueue([kind |-> "state", snap |-> Blank])
          /\ pending' = TRUE
    /\ Ask({"state"})
    /\ UNCHANGED <<phase, mem, db, baseline, writing, failed, direct, captured,
                   acked, restarts>>

\* saveControlState: one lazy job per call.
SaveControlState ==
    /\ Up
    /\ Enqueue([kind |-> "control", snap |-> Blank])
    /\ Ask({"control"})
    /\ UNCHANGED <<phase, mem, db, baseline, writing, pending, failed, direct,
                   captured, acked, restarts>>

\* persistStateDurableOrThrow and persistCritical: the snapshot is taken now.
PersistEager(kind) ==
    LET K == IF kind = "critical" THEN Keys ELSE {"state"} IN
    /\ Eager /\ Up
    /\ Enqueue([kind |-> kind, snap |-> Snapshot(K)])
    /\ Ask(K)
    /\ UNCHANGED <<phase, mem, db, baseline, writing, pending, failed, direct,
                   captured, acked, restarts>>

-----------------------------------------------------------------------------
(* The promise chain: one job at a time, in order.                         *)

\* serializeIfChanged: the keys whose content differs from the baseline.
Changed(snap) == {k \in Keys : snap[k] # None /\ snap[k] # baseline[k]}

StartSnapshot(job) ==
    IF job.kind \in LazyKinds THEN Snapshot({job.kind}) ELSE job.snap

\* Mutant of StartWrite: persistPending is only reset by a failure.
StartWritePending ==
    LET job  == Head(queue)
        snap == StartSnapshot(job)
    IN
    /\ queue # <<>> /\ writing = Idle
    /\ queue' = Tail(queue)
    /\ writing' = [kind |-> job.kind, snap |-> snap, send |-> Changed(snap)]
    /\ captured' = Larger(captured, snap["state"])
    /\ UNCHANGED <<phase, mem, db, baseline, pending, failed, direct, requested,
                   acked, restarts>>

StartWrite ==
    LET job  == Head(queue)
        snap == StartSnapshot(job)
    IN
    /\ queue # <<>> /\ writing = Idle
    /\ queue' = Tail(queue)
    /\ writing' = [kind |-> job.kind, snap |-> snap, send |-> Changed(snap)]
    /\ pending' = IF job.kind = "state" THEN FALSE ELSE pending
    /\ captured' = Larger(captured, snap["state"])
    /\ UNCHANGED <<phase, mem, db, baseline, failed, direct, requested, acked,
                   restarts>>

\* write / writeMany: the sent keys change together (one statement or one
\* transaction); the baseline follows; a state write clears the error.
CommitWrite ==
    /\ writing # Idle
    /\ db' = [k \in Keys |-> IF k \in writing.send THEN writing.snap[k] ELSE db[k]]
    /\ baseline' = [k \in Keys |->
                      IF k \in writing.send THEN writing.snap[k] ELSE baseline[k]]
    /\ failed' = IF writing.kind = "control" THEN failed ELSE FALSE
    /\ acked' = [k \in Keys |->
                   IF writing.kind \in EagerKinds /\ writing.snap[k] # None
                   THEN writing.snap[k] ELSE acked[k]]
    /\ writing' = Idle
    /\ UNCHANGED <<phase, mem, queue, pending, direct, requested, captured, restarts>>

\* Mutant of FailWrite: the caller of a critical write is told it succeeded.
FailWriteConfirmed ==
    /\ writing.send # {}
    /\ failed' = TRUE
    /\ acked' = [k \in Keys |->
                   IF writing.kind \in EagerKinds THEN Larger(acked[k], writing.snap[k])
                   ELSE acked[k]]
    /\ writing' = Idle
    /\ UNCHANGED <<phase, mem, db, baseline, queue, pending, direct, requested,
                   captured, restarts>>

\* Mutant of FailWrite: the error is not recorded.
FailWriteSilent ==
    /\ writing.send # {}
    /\ writing' = Idle
    /\ UNCHANGED <<phase, mem, db, baseline, queue, pending, failed, direct,
                   requested, captured, acked, restarts>>

\* Mutant of FailWrite: no catch, so the rejected promise skips every job behind it.
FailWritePoisons ==
    /\ writing.send # {}
    /\ failed' = TRUE
    /\ queue' = <<>>
    /\ writing' = Idle
    /\ UNCHANGED <<phase, mem, db, baseline, pending, direct, requested, captured,
                   acked, restarts>>

\* The chain survives a failed write: the error is recorded, an eager caller
\* gets the rejection, nothing is queued again.  After query_timeout the
\* statement may have committed: the database moves, the baseline does not.
FailWrite ==
    /\ writing.send # {}
    /\ \/ UNCHANGED db
       \/ /\ Timeouts
          /\ db' = [k \in Keys |->
                      IF k \in writing.send THEN writing.snap[k] ELSE db[k]]
    /\ failed' = TRUE
    /\ pending' = IF writing.kind = "state" THEN FALSE ELSE pending
    /\ writing' = Idle
    /\ UNCHANGED <<phase, mem, baseline, queue, direct, requested, captured,
                   acked, restarts>>

-----------------------------------------------------------------------------
(* saveYouTubeDelegationState awaits the adapter itself, off the queue.    *)

DirectStart ==
    /\ Direct /\ Up
    /\ direct = None /\ mem["control"] # baseline["control"]
    /\ direct' = mem["control"]
    /\ Ask({"control"})
    /\ UNCHANGED <<phase, mem, db, baseline, queue, writing, pending, failed,
                   captured, acked, restarts>>

DirectCommit ==
    /\ direct # None
    /\ db' = [db EXCEPT !["control"] = direct]
    /\ baseline' = [baseline EXCEPT !["control"] = direct]
    /\ direct' = None
    /\ UNCHANGED <<phase, mem, queue, writing, pending, failed, requested,
                   captured, acked, restarts>>

DirectFail ==
    /\ direct # None
    /\ direct' = None
    /\ UNCHANGED <<phase, mem, db, baseline, queue, writing, pending, failed,
                   requested, captured, acked, restarts>>

-----------------------------------------------------------------------------
(* The end of a process.                                                   *)

\* MaxRestarts bounds the processes that end.
End == restarts < MaxRestarts /\ restarts' = restarts + 1

\* What the process held is gone; a write in flight may or may not land.
Lose ==
    /\ phase' = "boot"
    /\ mem' = Fresh
    /\ baseline' = Blank
    /\ queue' = <<>> /\ writing' = Idle
    /\ pending' = FALSE /\ failed' = FALSE
    /\ direct' = None
    /\ requested' = Blank
    /\ captured' = None
    /\ acked' = acked

\* SIGKILL, a fatal error, or the hard deadline of the shutdown.
Crash ==
    /\ phase # "exited"
    /\ Lose
    /\ \/ phase = "draining" /\ UNCHANGED restarts
       \/ phase # "draining" /\ End
    /\ \/ UNCHANGED db
       \/ db' = [k \in Keys |-> IF k \in writing.send THEN writing.snap[k] ELSE db[k]]
       \/ direct # None /\ db' = [db EXCEPT !["control"] = direct]

\* SIGTERM: handlers already running may still change state and ask for writes.
Sigterm ==
    /\ phase = "ready"
    /\ End
    /\ phase' = "draining"
    /\ UNCHANGED <<mem, db, baseline, queue, writing, pending, failed, direct,
                   requested, captured, acked>>

\* Mutant of DrainExit: only the write in flight is awaited.
DrainExitOnce ==
    /\ phase = "draining"
    /\ writing = Idle
    /\ phase' = "exited"
    /\ UNCHANGED <<mem, db, baseline, queue, writing, pending, failed, direct,
                   requested, captured, acked, restarts>>

\* drainQueue returns when the promise it awaited is still the last one.
DrainExit ==
    /\ phase = "draining"
    /\ queue = <<>> /\ writing = Idle
    /\ phase' = "exited"
    /\ UNCHANGED <<mem, db, baseline, queue, writing, pending, failed, direct,
                   requested, captured, acked, restarts>>

Restart ==
    /\ phase = "exited"
    /\ Lose
    /\ UNCHANGED <<db, restarts>>

-----------------------------------------------------------------------------
Next ==
    \/ BootRead
    \/ \E k \in Keys : Mutate(k)
    \/ PersistStateEarly
    \/ PersistState
    \/ SaveControlState
    \/ \E kind \in EagerKinds : PersistEager(kind)
    \/ StartWrite
    \/ CommitWrite
    \/ FailWrite
    \/ DirectStart
    \/ DirectCommit
    \/ DirectFail
    \/ Crash
    \/ Sigterm
    \/ DrainExit
    \/ Restart

Spec == Init /\ [][Next]_vars

\* The event loop runs every ready callback, and query_timeout settles every
\* query: a job that can start starts and a started write is settled.
FairSpec ==
    /\ Spec
    /\ WF_vars(StartWrite)
    /\ WF_vars(CommitWrite \/ FailWrite)
    /\ WF_vars(BootRead)

-----------------------------------------------------------------------------
(* Properties.                                                             *)

\* A confirmed critical or strict write (a logout, a consumed OTP window, an
\* accepted webhook event) is in the database from then on, whatever is
\* written, fails or crashes later, and in the memory of every later process.
AckedHolds ==
    \A k \in Keys : /\ db[k] >= acked[k]
                    /\ Up => mem[k] >= acked[k]

\* The promise of the coalescing comment of persistState: every change a
\* write was asked for is captured by a write that started after it, or such
\* a write is still waiting in persistQueue.
ChangeCovered ==
    Up => \/ requested["state"] <= captured
          \/ \E i \in DOMAIN queue :
                \/ queue[i].kind = "state"
                \/ queue[i].snap["state"] >= requested["state"]

\* No snapshot of a process that has not read the database reaches it.
NoBlankOverwrite == \A k \in Keys : db[k] # Unread

\* "Any failure is recorded and announced instead of claiming the state is
\* saved": when the queue is idle and no error is announced, the database
\* holds every change of the state key a write was asked for.
Quiet == queue = <<>> /\ writing = Idle /\ ~failed
HealthyMeansSaved == Up /\ Quiet => db["state"] >= requested["state"]

\* A shutdown that drained the queue without an announced error loses no
\* state change a write was asked for, those asked during the drain included.
CleanExitSaved == phase = "exited" /\ ~failed => db["state"] >= requested["state"]

\* A failed write does not poison the chain: a requested change is eventually
\* captured by a write that starts, unless the process ends first.
RequestedIsCaptured ==
    \A v \in 1..MaxVersion :
        (Up /\ requested["state"] >= v) ~> (captured >= v \/ phase = "boot")

=============================================================================
