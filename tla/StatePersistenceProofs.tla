----------------------- MODULE StatePersistenceProofs -----------------------
(* Machine-checked theorems about StatePersistence, for every value of its  *)
(* bounds: type correctness; the durability of confirmed writes when a      *)
(* failed write is known to have failed and every write goes through the    *)
(* queue; that coalescing loses no request; that the stored state is never  *)
(* blanked; and, without eager snapshots, that a healthy idle queue and a   *)
(* clean exit mean the state is saved.                                      *)
EXTENDS StatePersistence, TLAPS

\* Steps that leave the write path's data alone, and what a step may change.
LEMMA SnapshotType ==
    ASSUME mem \in [Keys -> Version], NEW K
    PROVE  Snapshot(K) \in [Keys -> Version]
BY DEF Snapshot, Version, None

LEMMA InitType == Init => TypeOK
<1> USE DEF Version, None
<1>1. Blank \in [Keys -> Version] /\ Idle \in Write
  BY DEF Blank, Idle, Write
<1>2. <<>> \in Seq(Job) /\ 0 \in Nat
  OBVIOUS
<1>3. [k \in Keys |-> Unread + 1] \in [Keys -> Version] /\ Fresh \in [Keys -> Version]
  BY DEF Unread, Fresh
<1> QED BY <1>3, <1>1, <1>2, Zenon DEF Init, TypeOK

LEMMA StepType == TypeOK /\ [Next]_vars => TypeOK'
<1> USE DEF Version, None
<1> SUFFICES ASSUME TypeOK, [Next]_vars PROVE TypeOK'
  OBVIOUS
<1> USE DEF TypeOK
<1>0. Blank \in [Keys -> Version] /\ Idle \in Write /\ <<>> \in Seq(Job) /\ 0 \in Nat
     /\ Fresh \in [Keys -> Version]
  BY DEF Blank, Idle, Write, Fresh, Unread
<1>1. CASE BootRead
  BY <1>1 DEF BootRead, Keys
<1>2. ASSUME NEW k \in Keys, Mutate(k) PROVE TypeOK'
  BY <1>2 DEF Mutate
<1>3. CASE PersistStateEarly
  BY <1>3 DEF PersistStateEarly
<1>4. CASE PersistState
  <2>1. [kind |-> "state", snap |-> Blank] \in Job
    BY <1>0 DEF Job, Kinds, LazyKinds
  <2>2. \/ queue' = queue /\ pending' = pending
        \/ queue' = Append(queue, [kind |-> "state", snap |-> Blank]) /\ pending' = TRUE
    BY <1>4, Zenon DEF PersistState, Enqueue
  <2>3. queue' \in Seq(Job)
    <3>1. Append(queue, [kind |-> "state", snap |-> Blank]) \in Seq(Job)
      BY <2>1
    <3> QED BY <2>2, <3>1, Zenon
  <2>4. pending' \in BOOLEAN
    BY <2>2, Zenon
  <2> QED BY <1>4, <2>3, <2>4 DEF PersistState, Ask
<1>5. CASE SaveControlState
  <2>1. [kind |-> "control", snap |-> Blank] \in Job
    BY <1>0 DEF Job, Kinds, LazyKinds
  <2> QED BY <1>5, <2>1 DEF SaveControlState, Enqueue, Ask
<1>6. ASSUME NEW kind \in EagerKinds, PersistEager(kind) PROVE TypeOK'
  <2> DEFINE K == IF kind = "critical" THEN Keys ELSE {"state"}
  <2>1. [kind |-> kind, snap |-> Snapshot(K)] \in Job
    BY SnapshotType DEF Job, Kinds
  <2>2. queue' \in Seq(Job)
    BY <1>6, <2>1 DEF PersistEager, Enqueue
  <2> QED BY <1>6, <2>2 DEF PersistEager, Ask
<1>7. CASE StartWrite
  <2> DEFINE job == Head(queue)
  <2>1. job \in Job /\ Tail(queue) \in Seq(Job)
    BY <1>7 DEF StartWrite
  <2>2. StartSnapshot(job) \in [Keys -> Version]
    BY <2>1, SnapshotType DEF StartSnapshot, Job
  <2>3. Changed(StartSnapshot(job)) \in SUBSET Keys
    BY DEF Changed
  <2>4. writing' \in Write
    BY <1>7, <2>1, <2>2, <2>3 DEF StartWrite, Write, Job
  <2>5. captured' \in Version
    BY <1>7, <2>2 DEF StartWrite, Larger, Keys
  <2> QED BY <1>7, <2>1, <2>4, <2>5 DEF StartWrite
<1>8. CASE CommitWrite
  BY <1>8, <1>0 DEF CommitWrite, Write
<1>9. CASE FailWrite
  <2>1. db' \in [Keys -> Version]
    BY <1>9 DEF FailWrite, Write
  <2> QED BY <1>9, <2>1, <1>0 DEF FailWrite
<1>10. CASE DirectStart
  BY <1>10 DEF DirectStart, Ask, Keys
<1>11. CASE DirectCommit
  BY <1>11 DEF DirectCommit, Keys
<1>12. CASE DirectFail
  BY <1>12 DEF DirectFail
<1>13. CASE Crash
  <2>1. db' \in [Keys -> Version]
    BY <1>13 DEF Crash, Write, Keys
  <2>2. restarts' \in Nat
    BY <1>13 DEF Crash, End
  <2> QED BY <1>13, <2>1, <2>2, <1>0, Zenon DEF Crash, Lose
<1>14. CASE Sigterm
  BY <1>14 DEF Sigterm, End
<1>15. CASE DrainExit
  BY <1>15 DEF DrainExit
<1>16. CASE Restart
  BY <1>16, <1>0, Zenon DEF Restart, Lose
<1>17. CASE UNCHANGED vars
  BY <1>17 DEF vars
<1> QED
  BY <1>1, <1>2, <1>3, <1>4, <1>5, <1>6, <1>7, <1>8, <1>9, <1>10, <1>11,
     <1>12, <1>13, <1>14, <1>15, <1>16, <1>17 DEF Next

\* Every variable keeps its type: in particular the queue only ever holds
\* jobs of the four kinds the code appends to persistQueue.
THEOREM TypeCorrect == Spec => []TypeOK
<1>1. QED
  BY InitType, StepType, PTL DEF Spec

-----------------------------------------------------------------------------
(* The inductive invariant behind AckedHolds.  A confirmed version is safe  *)
(* because snapshots enter the queue in the order of the changes: no job    *)
(* that can still be written holds less than what was confirmed.            *)

\* The adapter is right about what the database holds.
BaselineTrue == Up => baseline = db

\* Nothing is queued or in flight outside a running process.
NothingWhenDown == ~Up => queue = <<>> /\ writing = Idle

\* A snapshot in the queue is not older than a confirmed version.
QueueFresh ==
    \A i \in 1..Len(queue), k \in Keys :
        queue[i].snap[k] # None =>
            acked[k] <= queue[i].snap[k] /\ queue[i].snap[k] <= mem[k]

\* Eager snapshots are queued in the order they were taken.
QueueOrdered ==
    \A i, j \in 1..Len(queue), k \in Keys :
        i <= j /\ queue[i].snap[k] # None /\ queue[j].snap[k] # None =>
            queue[i].snap[k] <= queue[j].snap[k]

WritingFresh ==
    \A k \in Keys : writing.snap[k] # None =>
        acked[k] <= writing.snap[k] /\ writing.snap[k] <= mem[k]

WritingFirst ==
    writing.kind \in EagerKinds =>
        \A i \in 1..Len(queue), k \in Keys :
            writing.snap[k] # None /\ queue[i].snap[k] # None =>
                writing.snap[k] <= queue[i].snap[k]

\* What a write does not send is already in the database.
SendExact ==
    \A k \in Keys :
        /\ k \in writing.send => writing.snap[k] # None
        /\ writing.snap[k] # None /\ k \notin writing.send => writing.snap[k] = db[k]

IInv ==
    /\ TypeOK
    /\ direct = None
    /\ BaselineTrue
    /\ NothingWhenDown
    /\ QueueFresh
    /\ QueueOrdered
    /\ WritingFresh
    /\ WritingFirst
    /\ SendExact
    /\ AckedHolds

LEMMA Elements ==
    ASSUME TypeOK
    PROVE  /\ \A k \in Keys : mem[k] \in Nat /\ acked[k] \in Nat /\ db[k] \in Nat
           /\ \A k \in Keys : writing.snap[k] \in Nat
           /\ \A i \in 1..Len(queue) : queue[i] \in Job
           /\ \A i \in 1..Len(queue), k \in Keys : queue[i].snap[k] \in Nat
<1>1. /\ mem \in [Keys -> Nat] /\ acked \in [Keys -> Nat] /\ db \in [Keys -> Nat]
      /\ queue \in Seq(Job) /\ writing \in Write
  BY DEF TypeOK, Version
<1>2. writing.snap \in [Keys -> Nat]
  BY <1>1 DEF Write, Version
<1>3. \A i \in 1..Len(queue) : queue[i] \in Job
  BY <1>1
<1>4. \A i \in 1..Len(queue) : queue[i].snap \in [Keys -> Nat]
  BY <1>3 DEF Job, Version
<1> QED BY <1>1, <1>2, <1>3, <1>4

LEMMA InitInv == Init => IInv
<1> SUFFICES ASSUME Init PROVE IInv
  OBVIOUS
<1>1. TypeOK
  BY InitType
<1>2. direct = None /\ BaselineTrue /\ NothingWhenDown
  BY DEF Init, BaselineTrue, NothingWhenDown, Up
<1>3. QueueFresh /\ QueueOrdered /\ WritingFirst
  BY DEF Init, QueueFresh, QueueOrdered, WritingFirst, Idle, EagerKinds
<1>4. WritingFresh /\ SendExact
  BY DEF Init, WritingFresh, SendExact, Idle, Blank, None
<1>5. AckedHolds
  BY DEF Init, AckedHolds, Blank, None, Unread, Up
<1> QED BY <1>1, <1>2, <1>3, <1>4, <1>5 DEF IInv

\* Appending a job whose snapshot is what memory holds now keeps the queue
\* fresh and ordered, and behind the write in flight.
LEMMA AppendInv ==
    ASSUME IInv, NEW job \in Job,
           \A k \in Keys : job.snap[k] # None => job.snap[k] = mem[k],
           queue' = Append(queue, job),
           UNCHANGED <<mem, acked, writing>>, Up
    PROVE  QueueFresh' /\ QueueOrdered' /\ WritingFirst'
<1> DEFINE n == Len(queue)
<1>0. queue \in Seq(Job)
  BY DEF IInv, TypeOK
<1>1. n \in Nat /\ Len(queue') = n + 1 /\ queue'[n + 1] = job
  BY <1>0
<1>2. \A i \in 1..n : queue'[i] = queue[i] /\ i \in 1..Len(queue')
  BY <1>0, <1>1
<1>3. \A i \in 1..Len(queue') : i \in 1..n \/ i = n + 1
  BY <1>1
<1>4. /\ \A k \in Keys : mem[k] \in Nat /\ acked[k] \in Nat
      /\ \A i \in 1..n, k \in Keys : queue[i].snap[k] \in Nat
      /\ \A k \in Keys : writing.snap[k] \in Nat
  BY Elements DEF IInv
<1>5. \A k \in Keys : acked[k] <= mem[k]
  BY DEF IInv, AckedHolds
<1>6. QueueFresh'
  BY <1>1, <1>2, <1>3, <1>4, <1>5, SMTT(20) DEF IInv, QueueFresh
<1>7. QueueOrdered'
  <2> SUFFICES ASSUME NEW i \in 1..Len(queue'), NEW j \in 1..Len(queue'), NEW k \in Keys,
                      i <= j, queue'[i].snap[k] # None, queue'[j].snap[k] # None
               PROVE  queue'[i].snap[k] <= queue'[j].snap[k]
    BY DEF QueueOrdered
  <2>1. CASE j \in 1..n
    BY <2>1, <1>1, <1>2, <1>3 DEF IInv, QueueOrdered
  <2>2. CASE j = n + 1 /\ i \in 1..n
    BY <2>2, <1>1, <1>2, <1>4 DEF IInv, QueueFresh
  <2>3. CASE j = n + 1 /\ i = n + 1
    BY <2>3, <1>1, <1>4
  <2> QED BY <2>1, <2>2, <2>3, <1>3
<1>8. WritingFirst'
  BY <1>1, <1>2, <1>3, <1>4 DEF IInv, WritingFirst, WritingFresh
<1> QED BY <1>6, <1>7, <1>8

\* Starting the head of the queue keeps the order: what follows it is newer.
LEMMA StartInv ==
    ASSUME IInv, Up, StartWrite
    PROVE  QueueFresh' /\ QueueOrdered' /\ WritingFresh' /\ WritingFirst' /\ SendExact'
<1> DEFINE job == Head(queue)
           snap == StartSnapshot(job)
           n == Len(queue)
<1>0. queue \in Seq(Job) /\ queue # <<>>
  BY DEF IInv, TypeOK, StartWrite
<1>1. /\ n \in Nat /\ n >= 1 /\ job = queue[1] /\ job \in Job
      /\ queue' \in Seq(Job) /\ Len(queue') = n - 1
      /\ \A i \in 1..Len(queue') : queue'[i] = queue[i + 1] /\ i + 1 \in 1..n
  BY <1>0 DEF StartWrite
<1>2. UNCHANGED <<mem, db, baseline, acked, phase>>
  BY DEF StartWrite
<1>3. writing' = [kind |-> job.kind, snap |-> snap, send |-> Changed(snap)]
  BY DEF StartWrite
<1>4. /\ \A k \in Keys : mem[k] \in Nat /\ acked[k] \in Nat
      /\ \A i \in 1..n, k \in Keys : queue[i].snap[k] \in Nat
  BY Elements DEF IInv
<1>5. \A k \in Keys : acked[k] <= mem[k]
  BY DEF IInv, AckedHolds
<1>6. QueueFresh'
  BY <1>1, <1>2 DEF IInv, QueueFresh
<1>7. QueueOrdered'
  <2> SUFFICES ASSUME NEW i \in 1..Len(queue'), NEW j \in 1..Len(queue'), NEW k \in Keys,
                      i <= j, queue'[i].snap[k] # None, queue'[j].snap[k] # None
               PROVE  queue'[i].snap[k] <= queue'[j].snap[k]
    BY DEF QueueOrdered
  <2>1. i + 1 \in 1..n /\ j + 1 \in 1..n /\ i + 1 <= j + 1
    BY <1>1
  <2>2. queue'[i] = queue[i + 1] /\ queue'[j] = queue[j + 1]
    BY <1>1
  <2> QED BY <2>1, <2>2 DEF IInv, QueueOrdered
<1>8. \A k \in Keys : snap[k] # None =>
          acked[k] <= snap[k] /\ snap[k] <= mem[k]
  <2>1. CASE job.kind \in LazyKinds
    BY <2>1, <1>4, <1>5 DEF StartSnapshot, Snapshot
  <2>2. CASE job.kind \notin LazyKinds
    BY <2>2, <1>1, <1>4 DEF StartSnapshot, IInv, QueueFresh
  <2> QED BY <2>1, <2>2
<1>9. WritingFresh'
  BY <1>2, <1>3, <1>8 DEF WritingFresh
<1>10. WritingFirst'
  <2>1. job.kind \in EagerKinds => snap = queue[1].snap
    BY <1>1 DEF StartSnapshot, EagerKinds, LazyKinds
  <2> QED BY <1>1, <1>3, <2>1 DEF IInv, QueueOrdered, WritingFirst
<1>11. SendExact'
  BY <1>2, <1>3 DEF SendExact, Changed, IInv, BaselineTrue
<1> QED BY <1>6, <1>7, <1>9, <1>10, <1>11

\* Between two writes there is nothing to say about the write in flight.
LEMMA IdleInv ==
    ASSUME writing' = Idle
    PROVE  WritingFresh' /\ WritingFirst' /\ SendExact'
<1>1. WritingFirst'
  BY DEF WritingFirst, Idle, EagerKinds
<1>2. WritingFresh' /\ SendExact'
  BY DEF WritingFresh, SendExact, Idle, Blank
<1> QED BY <1>1, <1>2

\* No step of the code breaks the invariant when a failed write is known not
\* to have committed and nothing is written off the queue.
LEMMA StepInv ==
    ASSUME ~Timeouts, ~Direct, IInv, [Next]_vars
    PROVE  IInv'
<1>0. TypeOK /\ TypeOK'
  BY StepType DEF IInv
<1>1. ASSUME UNCHANGED <<phase, direct, mem, db, baseline, acked, writing, queue>>
      PROVE  IInv'
  BY <1>0, <1>1 DEF IInv, BaselineTrue, NothingWhenDown, QueueFresh, QueueOrdered,
                    WritingFresh, WritingFirst, SendExact, AckedHolds, Up
<1>2. CASE BootRead
  <2>1. queue' = <<>> /\ writing' = Idle /\ mem' = db /\ acked' = acked /\ Up'
    BY <1>2 DEF BootRead, IInv, NothingWhenDown, Up
  <2>2. direct' = None /\ BaselineTrue' /\ NothingWhenDown' /\ AckedHolds'
    BY <1>2, <2>1 DEF BootRead, IInv, BaselineTrue, NothingWhenDown, AckedHolds
  <2>3. QueueFresh' /\ QueueOrdered'
    BY <2>1 DEF QueueFresh, QueueOrdered
  <2> QED BY <1>0, <2>1, <2>2, <2>3, IdleInv DEF IInv
<1>3. ASSUME NEW key \in Keys, Mutate(key) PROVE IInv'
  <2>1. /\ UNCHANGED <<phase, direct, db, baseline, acked, writing, queue>>
        /\ \A k \in Keys : mem[k] <= mem'[k] /\ mem'[k] \in Nat
    BY <1>0, <1>3, Elements DEF Mutate, TypeOK, Version
  <2>2. QueueFresh' /\ WritingFresh' /\ AckedHolds'
    BY <1>0, <2>1, Elements DEF IInv, QueueFresh, WritingFresh, AckedHolds, Up
  <2> QED
    BY <1>0, <2>1, <2>2 DEF IInv, BaselineTrue, NothingWhenDown, QueueOrdered,
                            WritingFirst, SendExact, Up
<1>4. CASE PersistStateEarly
  BY <1>1, <1>4 DEF PersistStateEarly
<1>5. ASSUME Up, NEW job \in Job,
             \A k \in Keys : job.snap[k] # None => job.snap[k] = mem[k],
             queue' = Append(queue, job),
             UNCHANGED <<phase, direct, mem, db, baseline, acked, writing>>
      PROVE  IInv'
  <2>1. QueueFresh' /\ QueueOrdered' /\ WritingFirst'
    BY <1>5, AppendInv
  <2> QED
    BY <1>0, <1>5, <2>1 DEF IInv, BaselineTrue, NothingWhenDown, WritingFresh,
                            SendExact, AckedHolds, Up
<1>6. CASE PersistState
  <2>1. CASE queue' = queue
    BY <1>1, <1>6, <2>1 DEF PersistState
  <2>2. CASE queue' = Append(queue, [kind |-> "state", snap |-> Blank])
    <3> DEFINE job == [kind |-> "state", snap |-> Blank]
    <3>1. job \in Job /\ \A k \in Keys : job.snap[k] = None
      BY DEF Job, Kinds, LazyKinds, Blank, None, Version
    <3> QED BY <1>5, <1>6, <2>2, <3>1 DEF PersistState
  <2> QED BY <1>6, <2>1, <2>2, Zenon DEF PersistState, Enqueue
<1>7. CASE SaveControlState
  <2> DEFINE job == [kind |-> "control", snap |-> Blank]
  <2>1. job \in Job /\ \A k \in Keys : job.snap[k] = None
    BY DEF Job, Kinds, LazyKinds, Blank, None, Version
  <2> QED BY <1>5, <1>7, <2>1 DEF SaveControlState, Enqueue
<1>8. ASSUME NEW kind \in EagerKinds, PersistEager(kind) PROVE IInv'
  <2> DEFINE K   == IF kind = "critical" THEN Keys ELSE {"state"}
             job == [kind |-> kind, snap |-> Snapshot(K)]
  <2>1. job \in Job
    BY <1>0, SnapshotType DEF Job, Kinds, TypeOK
  <2>2. \A k \in Keys : job.snap[k] # None => job.snap[k] = mem[k]
    BY DEF Snapshot
  <2>3. queue' = Append(queue, job) /\ Up
        /\ UNCHANGED <<phase, direct, mem, db, baseline, acked, writing>>
    BY <1>8 DEF PersistEager, Enqueue
  <2> QED BY <1>5, <2>1, <2>2, <2>3
<1>9. CASE StartWrite
  <2>1. Up /\ UNCHANGED <<phase, direct, mem, db, baseline, acked>>
    BY <1>9 DEF StartWrite, IInv, NothingWhenDown
  <2>2. QueueFresh' /\ QueueOrdered' /\ WritingFresh' /\ WritingFirst' /\ SendExact'
    BY <1>9, <2>1, StartInv
  <2> QED
    BY <1>0, <2>1, <2>2 DEF IInv, BaselineTrue, NothingWhenDown, AckedHolds, Up
<1>10. CASE CommitWrite
  <2>0. /\ Up /\ Up' /\ writing' = Idle
        /\ UNCHANGED <<phase, mem, queue, direct>>
    BY <1>10 DEF CommitWrite, IInv, NothingWhenDown, Up
  <2>1. /\ \A k \in Keys : db'[k] = IF k \in writing.send THEN writing.snap[k] ELSE db[k]
        /\ \A k \in Keys : acked'[k] = IF writing.kind \in EagerKinds /\ writing.snap[k] # None
                                       THEN writing.snap[k] ELSE acked[k]
    BY <1>10 DEF CommitWrite
  <2>2. BaselineTrue'
    <3>1. baseline' = [k \in Keys |->
                         IF k \in writing.send THEN writing.snap[k] ELSE db[k]]
      BY <1>10, <2>0 DEF CommitWrite, IInv, BaselineTrue
    <3> QED BY <1>10, <3>1 DEF CommitWrite, BaselineTrue
  <2>3. AckedHolds'
    <3> SUFFICES ASSUME NEW k \in Keys PROVE db'[k] >= acked'[k] /\ mem'[k] >= acked'[k]
      BY DEF AckedHolds
    <3>1. /\ db[k] >= acked[k] /\ mem[k] >= acked[k]
          /\ writing.snap[k] # None => acked[k] <= writing.snap[k] /\ writing.snap[k] <= mem[k]
          /\ k \in writing.send => writing.snap[k] # None
          /\ writing.snap[k] # None /\ k \notin writing.send => writing.snap[k] = db[k]
      BY <2>0 DEF IInv, AckedHolds, WritingFresh, SendExact
    <3> QED BY <1>0, <2>0, <2>1, <3>1, Elements
  <2>4. QueueFresh'
    <3> SUFFICES ASSUME NEW i \in 1..Len(queue), NEW k \in Keys, queue[i].snap[k] # None
                 PROVE  acked'[k] <= queue[i].snap[k] /\ queue[i].snap[k] <= mem[k]
      BY <2>0 DEF QueueFresh
    <3> QED BY <2>1 DEF IInv, QueueFresh, WritingFirst
  <2>5. QueueOrdered' /\ NothingWhenDown' /\ direct' = None
    BY <2>0 DEF IInv, QueueOrdered, NothingWhenDown
  <2> QED BY <1>0, <2>0, <2>2, <2>3, <2>4, <2>5, IdleInv DEF IInv
<1>11. CASE FailWrite
  <2>1. /\ Up /\ Up' /\ writing' = Idle
        /\ UNCHANGED <<phase, mem, db, baseline, acked, queue, direct>>
    BY <1>11 DEF FailWrite, IInv, NothingWhenDown, Up, Idle
  <2>2. QueueFresh' /\ QueueOrdered' /\ BaselineTrue' /\ NothingWhenDown' /\ AckedHolds'
    BY <2>1 DEF IInv, QueueFresh, QueueOrdered, BaselineTrue, NothingWhenDown, AckedHolds
  <2> QED BY <1>0, <2>1, <2>2, IdleInv DEF IInv
<1>12. CASE Crash
  <2>1. ~Up' /\ queue' = <<>> /\ writing' = Idle /\ direct' = None /\ acked' = acked
    BY <1>12 DEF Crash, Lose, Up
  <2>2. \A k \in Keys : db'[k] = db[k] \/ (k \in writing.send /\ db'[k] = writing.snap[k])
    BY <1>12 DEF Crash, IInv
  <2>3. AckedHolds'
    <3> SUFFICES ASSUME NEW k \in Keys PROVE db'[k] >= acked[k]
      BY <2>1 DEF AckedHolds
    <3> QED BY <2>2, <1>0, Elements DEF IInv, AckedHolds, WritingFresh, SendExact
  <2>4. QueueFresh' /\ QueueOrdered' /\ BaselineTrue' /\ NothingWhenDown'
    BY <2>1 DEF QueueFresh, QueueOrdered, BaselineTrue, NothingWhenDown
  <2> QED BY <1>0, <2>1, <2>3, <2>4, IdleInv DEF IInv
<1>13. CASE Sigterm
  <2>1. Up /\ Up' /\ UNCHANGED <<direct, mem, db, baseline, acked, writing, queue>>
    BY <1>13 DEF Sigterm, Up
  <2> QED
    BY <1>0, <2>1 DEF IInv, BaselineTrue, NothingWhenDown, QueueFresh, QueueOrdered,
                      WritingFresh, WritingFirst, SendExact, AckedHolds
<1>14. CASE DrainExit
  <2>1. ~Up' /\ queue' = <<>> /\ writing' = Idle
        /\ UNCHANGED <<direct, mem, db, baseline, acked, writing, queue>>
    BY <1>14 DEF DrainExit, Up
  <2> QED
    BY <1>0, <2>1 DEF IInv, BaselineTrue, NothingWhenDown, QueueFresh, QueueOrdered,
                      WritingFresh, WritingFirst, SendExact, AckedHolds
<1>15. CASE Restart
  <2>1. ~Up' /\ queue' = <<>> /\ writing' = Idle /\ direct' = None /\ UNCHANGED <<acked, db>>
    BY <1>15 DEF Restart, Lose, Up
  <2>2. AckedHolds' /\ QueueFresh' /\ QueueOrdered' /\ BaselineTrue' /\ NothingWhenDown'
    BY <2>1 DEF IInv, AckedHolds, QueueFresh, QueueOrdered, BaselineTrue, NothingWhenDown
  <2> QED BY <1>0, <2>1, <2>2, IdleInv DEF IInv
<1>16. CASE UNCHANGED vars
  BY <1>1, <1>16 DEF vars
<1>17. ~DirectStart /\ ~DirectCommit /\ ~DirectFail
  BY DEF DirectStart, DirectCommit, DirectFail, IInv
<1> QED
  BY <1>2, <1>3, <1>4, <1>6, <1>7, <1>8, <1>9, <1>10, <1>11, <1>12, <1>13,
     <1>14, <1>15, <1>16, <1>17 DEF Next

\* A confirmed logout, OTP consumption or webhook event is never lost by a
\* later write, failure, crash or shutdown, nor missing from a later process.
THEOREM ConfirmedWritesHold ==
    ASSUME ~Timeouts, ~Direct
    PROVE  Spec => []AckedHolds
<1>1. IInv /\ [Next]_vars => IInv'
  BY StepInv
<1>2. IInv => AckedHolds
  BY DEF IInv
<1> QED BY InitInv, <1>1, <1>2, PTL DEF Spec

-----------------------------------------------------------------------------
(* The coalescing promise, in every build and under every fault: it rests   *)
(* on the flag never being up without a lazy job that has not started.      *)

HasStateJob == \E i \in 1..Len(queue) : queue[i].kind = "state"

PendingMeansQueued == pending => HasStateJob

\* A lazy job holds nothing until it starts.
LazyBlank ==
    \A i \in 1..Len(queue) : queue[i].kind \in LazyKinds => queue[i].snap = Blank

CInv ==
    /\ TypeOK
    /\ LazyBlank
    /\ PendingMeansQueued
    /\ Up => requested["state"] <= mem["state"]
    /\ ~Up => queue = <<>> /\ writing = Idle
    /\ ChangeCovered

\* A request that appends a job: what was covered stays covered, and what is
\* asked for now is covered by the new job.
LEMMA AppendCovers ==
    ASSUME CInv, Up, NEW job \in Job,
           queue' = Append(queue, job),
           UNCHANGED <<phase, mem, captured>>,
           \/ requested'["state"] = requested["state"]
           \/ job.kind = "state"
           \/ requested'["state"] = mem["state"] /\ job.snap["state"] = mem["state"]
    PROVE  ChangeCovered'
<1>1. queue \in Seq(Job) /\ mem["state"] \in Nat
  BY DEF CInv, TypeOK, Keys, Version
<1>2. /\ Len(queue') = Len(queue) + 1 /\ queue'[Len(queue) + 1] = job
      /\ \A i \in DOMAIN queue : i \in DOMAIN queue' /\ queue'[i] = queue[i]
      /\ Len(queue) + 1 \in DOMAIN queue'
  BY <1>1
<1>3. CASE requested'["state"] = requested["state"]
  BY <1>2, <1>3 DEF CInv, ChangeCovered
<1>4. CASE job.kind = "state"
  BY <1>2, <1>4 DEF ChangeCovered
<1>5. CASE requested'["state"] = mem["state"] /\ job.snap["state"] = mem["state"]
  BY <1>1, <1>2, <1>5 DEF ChangeCovered
<1> QED BY <1>3, <1>4, <1>5

LEMMA AppendPending ==
    ASSUME queue \in Seq(Job), NEW job \in Job, queue' = Append(queue, job),
           PendingMeansQueued, pending' => pending \/ job.kind = "state",
           LazyBlank, job.kind \in LazyKinds => job.snap = Blank
    PROVE  PendingMeansQueued' /\ LazyBlank'
<1>1. /\ Len(queue) + 1 \in 1..Len(queue') /\ queue'[Len(queue) + 1] = job
      /\ \A i \in 1..Len(queue) : i \in 1..Len(queue') /\ queue'[i] = queue[i]
      /\ \A i \in 1..Len(queue') : i \in 1..Len(queue) \/ i = Len(queue) + 1
  OBVIOUS
<1>2. HasStateJob => HasStateJob'
  BY <1>1 DEF HasStateJob
<1>3. job.kind = "state" => HasStateJob'
  BY <1>1 DEF HasStateJob
<1>4. PendingMeansQueued'
  BY <1>2, <1>3, Zenon DEF PendingMeansQueued
<1>5. LazyBlank'
  BY <1>1 DEF LazyBlank
<1> QED BY <1>4, <1>5

\* Starting a job captures what only that job was waiting to write.
LEMMA StartCovers ==
    ASSUME CInv, Up, StartWrite
    PROVE  ChangeCovered' /\ PendingMeansQueued' /\ LazyBlank'
<1> DEFINE job == Head(queue)
           snap == StartSnapshot(job)
<1>0. queue \in Seq(Job) /\ queue # <<>> /\ mem \in [Keys -> Nat] /\ captured \in Nat
      /\ requested["state"] \in Nat
  BY DEF CInv, TypeOK, StartWrite, Keys, Version
<1>1. /\ job = queue[1] /\ job \in Job /\ Len(queue') = Len(queue) - 1
      /\ \A i \in 1..Len(queue) : i # 1 => i - 1 \in 1..Len(queue') /\ queue'[i - 1] = queue[i]
      /\ DOMAIN queue = 1..Len(queue) /\ DOMAIN queue' = 1..Len(queue')
  BY <1>0 DEF StartWrite
<1>2. /\ UNCHANGED <<phase, mem, requested>>
      /\ pending' = IF job.kind = "state" THEN FALSE ELSE pending
      /\ captured' = Larger(captured, snap["state"])
  BY DEF StartWrite
<1>3. snap["state"] \in Nat
  <2>1. snap \in [Keys -> Nat]
    BY <1>0, <1>1, SnapshotType DEF StartSnapshot, Job, Version
  <2> QED BY <2>1 DEF Keys
<1>4. captured' >= captured /\ captured' >= snap["state"] /\ captured' \in Nat
  BY <1>0, <1>2, <1>3 DEF Larger
<1>5. ChangeCovered'
  <2>1. CASE requested["state"] <= captured
    BY <2>1, <1>0, <1>2, <1>4 DEF ChangeCovered
  <2>2. ASSUME NEW i \in 1..Len(queue),
               queue[i].kind = "state" \/ queue[i].snap["state"] >= requested["state"]
        PROVE  ChangeCovered'
    <3>1. CASE i # 1
      BY <2>2, <3>1, <1>1, <1>2 DEF ChangeCovered
    <3>2. CASE i = 1 /\ job.kind = "state"
      <4>1. snap["state"] = mem["state"]
        BY <3>2 DEF StartSnapshot, Snapshot, LazyKinds, Keys
      <4> QED BY <4>1, <1>0, <1>2, <1>3, <1>4 DEF CInv, ChangeCovered
    <3>3. CASE i = 1 /\ job.kind \in EagerKinds
      <4>1. snap = job.snap
        BY <3>3 DEF StartSnapshot, EagerKinds, LazyKinds
      <4>2. snap["state"] >= requested["state"]
        BY <4>1, <2>2, <3>3, <1>1 DEF EagerKinds
      <4> QED BY <4>2, <1>0, <1>2, <1>3, <1>4 DEF ChangeCovered
    <3>4. CASE i = 1 /\ job.kind = "control"
      <4>1. job.snap["state"] = 0
        BY <3>4, <2>2, <1>1 DEF CInv, LazyBlank, LazyKinds, Blank, None, Keys
      <4>2. requested["state"] = 0
        BY <4>1, <3>4, <2>2, <1>0, <1>1
      <4> QED BY <4>2, <1>0, <1>2, <1>4 DEF ChangeCovered
    <3> QED BY <3>1, <3>2, <3>3, <3>4, <1>1 DEF Job, Kinds, LazyKinds
  <2> QED BY <2>1, <2>2, <1>1 DEF CInv, ChangeCovered
<1>6. PendingMeansQueued'
  <2>1. job.kind = "state" => ~pending'
    BY <1>2
  <2>2. job.kind # "state" => pending' = pending
    BY <1>2
  <2>3. job.kind # "state" /\ HasStateJob => HasStateJob'
    BY <1>1 DEF HasStateJob
  <2> QED BY <2>1, <2>2, <2>3, Zenon DEF CInv, PendingMeansQueued
<1>7. LazyBlank'
  <2>1. \A i \in 1..Len(queue') : queue'[i] = queue[i + 1] /\ i + 1 \in 1..Len(queue)
    BY <1>0, <1>1 DEF StartWrite
  <2> QED BY <2>1 DEF CInv, LazyBlank
<1> QED BY <1>5, <1>6, <1>7

LEMMA StepCovered ==
    ASSUME CInv, [Next]_vars
    PROVE  CInv'
<1>0. TypeOK /\ TypeOK'
  BY StepType DEF CInv
<1>1. ASSUME UNCHANGED <<phase, mem, writing, queue, requested, captured>>,
             pending' => pending
      PROVE  CInv'
  BY <1>0, <1>1 DEF CInv, LazyBlank, PendingMeansQueued, HasStateJob, ChangeCovered, Up
<1>2. ASSUME ~Up', queue' = <<>>, writing' = Idle, ~pending'
      PROVE  CInv'
  BY <1>0, <1>2 DEF CInv, LazyBlank, PendingMeansQueued, HasStateJob, ChangeCovered
<1>3. CASE BootRead
  <2>1. queue' = <<>> /\ writing' = Idle /\ queue = <<>> /\ pending' = pending
    BY <1>3 DEF BootRead, CInv, Up
  <2>2. mem'["state"] = db["state"] /\ requested'["state"] = db["state"]
        /\ captured' = db["state"] /\ db["state"] \in Nat /\ Up'
    BY <1>0, <1>3 DEF BootRead, TypeOK, Keys, Version, Up
  <2> QED BY <1>0, <2>1, <2>2 DEF CInv, LazyBlank, PendingMeansQueued, HasStateJob, ChangeCovered
<1>4. ASSUME NEW key \in Keys, Mutate(key) PROVE CInv'
  <2>1. /\ UNCHANGED <<phase, writing, queue, requested, captured, pending>>
        /\ mem["state"] <= mem'["state"]
        /\ mem["state"] \in Nat /\ mem'["state"] \in Nat /\ requested["state"] \in Nat
    BY <1>0, <1>4 DEF Mutate, TypeOK, Keys, Version
  <2> QED BY <1>0, <2>1 DEF CInv, LazyBlank, PendingMeansQueued, HasStateJob, ChangeCovered, Up
<1>5. CASE PersistStateEarly
  BY <1>1, <1>5 DEF PersistStateEarly
<1>6. ASSUME Up, NEW job \in Job,
             job.kind \in LazyKinds => job.snap = Blank,
             queue' = Append(queue, job),
             UNCHANGED <<phase, mem, writing, captured>>,
             pending' => pending \/ job.kind = "state",
             \/ requested'["state"] = requested["state"]
             \/ /\ requested'["state"] = mem["state"]
                /\ job.kind = "state" \/ job.snap["state"] = mem["state"]
      PROVE  CInv'
  <2>1. ChangeCovered'
    BY <1>6, AppendCovers
  <2>2. PendingMeansQueued' /\ LazyBlank'
    BY <1>0, <1>6, AppendPending DEF CInv, TypeOK
  <2>3. requested'["state"] <= mem'["state"]
    <3>1. mem' = mem /\ mem["state"] \in Nat /\ requested["state"] <= mem["state"]
      BY <1>0, <1>6, Elements DEF CInv, Keys
    <3>2. requested'["state"] \in {requested["state"], mem["state"]}
      BY <1>6
    <3> QED BY <3>1, <3>2
  <2> QED BY <1>0, <1>6, <2>1, <2>2, <2>3 DEF CInv, Up
<1>7. CASE PersistState
  <2>0. Up /\ UNCHANGED <<phase, mem, writing, captured>> /\ requested'["state"] = mem["state"]
    BY <1>7 DEF PersistState, Ask, Keys
  <2>1. CASE pending /\ queue' = queue /\ pending' = pending
    <3>0. HasStateJob
      BY <2>1, Zenon DEF CInv, PendingMeansQueued
    <3>1. PICK i \in 1..Len(queue) : queue[i].kind = "state"
      BY <3>0 DEF HasStateJob
    <3>2. ChangeCovered'
      <4>1. DOMAIN queue = 1..Len(queue)
        BY <1>0 DEF TypeOK
      <4> QED BY <2>1, <3>1, <4>1 DEF ChangeCovered
    <3>3. requested'["state"] <= mem'["state"]
      BY <1>0, <2>0, Elements DEF Keys
    <3> QED BY <1>0, <2>0, <2>1, <3>2, <3>3 DEF CInv, LazyBlank, PendingMeansQueued, HasStateJob, Up
  <2>2. CASE queue' = Append(queue, [kind |-> "state", snap |-> Blank])
    <3> DEFINE job == [kind |-> "state", snap |-> Blank]
    <3>1. job \in Job
      BY DEF Job, Kinds, LazyKinds, Blank, None, Version
    <3> QED BY <1>6, <2>0, <2>2, <3>1
  <2> QED BY <1>7, <2>1, <2>2, Zenon DEF PersistState, Enqueue
<1>8. CASE SaveControlState
  <2> DEFINE job == [kind |-> "control", snap |-> Blank]
  <2>1. job \in Job
    BY DEF Job, Kinds, LazyKinds, Blank, None, Version
  <2>2. requested'["state"] = requested["state"]
    BY <1>8 DEF SaveControlState, Ask, Keys
  <2> QED BY <1>6, <1>8, <2>1, <2>2 DEF SaveControlState, Enqueue
<1>9. ASSUME NEW kind \in EagerKinds, PersistEager(kind) PROVE CInv'
  <2> DEFINE K   == IF kind = "critical" THEN Keys ELSE {"state"}
             job == [kind |-> kind, snap |-> Snapshot(K)]
  <2>1. job \in Job /\ job.kind \notin LazyKinds
    BY <1>0, SnapshotType DEF Job, Kinds, TypeOK, LazyKinds, EagerKinds
  <2>2. job.snap["state"] = mem["state"] /\ requested'["state"] = mem["state"]
    BY <1>9 DEF Snapshot, PersistEager, Ask, Keys
  <2>3. queue' = Append(queue, job) /\ Up /\ pending' = pending
        /\ UNCHANGED <<phase, mem, writing, captured>>
    BY <1>9 DEF PersistEager, Enqueue
  <2> QED BY <1>6, <2>1, <2>2, <2>3
<1>10. CASE StartWrite
  <2>1. Up /\ UNCHANGED <<phase, mem, requested>>
    BY <1>10 DEF StartWrite, CInv
  <2>2. ChangeCovered' /\ PendingMeansQueued' /\ LazyBlank'
    BY <1>10, <2>1, StartCovers
  <2> QED BY <1>0, <2>1, <2>2 DEF CInv, Up
<1>11. ASSUME Up, UNCHANGED <<phase, mem, queue, requested, captured>>, pending' => pending
       PROVE  CInv'
  BY <1>0, <1>11 DEF CInv, LazyBlank, PendingMeansQueued, HasStateJob, ChangeCovered, Up
<1>12. CASE CommitWrite
  BY <1>11, <1>12 DEF CommitWrite, CInv
<1>13. CASE FailWrite
  <2>1. Up /\ UNCHANGED <<phase, mem, queue, requested, captured>>
    BY <1>13 DEF FailWrite, CInv, Idle
  <2>2. pending' => pending
    BY <1>13, Zenon DEF FailWrite
  <2> QED BY <1>11, <2>1, <2>2
<1>14. CASE DirectStart
  <2>1. Up /\ UNCHANGED <<phase, mem, queue, captured, pending>>
        /\ requested'["state"] = requested["state"]
    BY <1>14 DEF DirectStart, Ask, Keys
  <2> QED BY <1>0, <2>1 DEF CInv, LazyBlank, PendingMeansQueued, HasStateJob, ChangeCovered, Up
<1>15. CASE DirectCommit
  BY <1>1, <1>15 DEF DirectCommit
<1>16. CASE DirectFail
  BY <1>1, <1>16 DEF DirectFail
<1>17. CASE Crash
  BY <1>2, <1>17 DEF Crash, Lose, Up
<1>18. CASE Sigterm
  <2>1. Up /\ Up' /\ UNCHANGED <<mem, queue, requested, captured, pending, writing>>
    BY <1>18 DEF Sigterm, Up
  <2> QED BY <1>0, <2>1 DEF CInv, LazyBlank, PendingMeansQueued, HasStateJob, ChangeCovered
<1>19. CASE DrainExit
  <2>1. ~Up' /\ queue' = <<>> /\ writing' = Idle /\ queue = <<>> /\ pending' = pending
    BY <1>19 DEF DrainExit, Up
  <2>2. ~HasStateJob
    BY <2>1 DEF HasStateJob
  <2>3. ~pending'
    BY <2>1, <2>2, Zenon DEF CInv, PendingMeansQueued
  <2> QED BY <1>2, <2>1, <2>3
<1>20. CASE Restart
  BY <1>2, <1>20 DEF Restart, Lose, Up
<1>21. CASE UNCHANGED vars
  BY <1>1, <1>21 DEF vars
<1> QED
  BY <1>3, <1>4, <1>5, <1>7, <1>8, <1>9, <1>10, <1>12, <1>13, <1>14, <1>15,
     <1>16, <1>17, <1>18, <1>19, <1>20, <1>21 DEF Next

\* "Every change is followed by a write that starts after it": coalescing two
\* requests into one job never leaves a requested change without a write.
THEOREM CoalescingCovers == Spec => []ChangeCovered
<1>1. Init => CInv
  <2> SUFFICES ASSUME Init PROVE CInv
    OBVIOUS
  <2>1. ~Up /\ queue = <<>> /\ writing = Idle /\ ~pending
    BY DEF Init, Up
  <2> QED BY <2>1, InitType DEF CInv, LazyBlank, PendingMeansQueued, HasStateJob, ChangeCovered
<1>2. CInv /\ [Next]_vars => CInv'
  BY StepCovered
<1>3. CInv => ChangeCovered
  BY DEF CInv
<1> QED BY <1>1, <1>2, <1>3, PTL DEF Spec

-----------------------------------------------------------------------------
(* A process that has not read the database writes nothing over it.         *)

BInv ==
    /\ TypeOK
    /\ \A k \in Keys : db[k] # None /\ db[k] # Unread
    /\ phase # "boot" => \A k \in Keys : mem[k] # None /\ mem[k] # Unread
    /\ phase = "boot" => queue = <<>> /\ writing = Idle /\ direct = None
    /\ \A i \in 1..Len(queue), k \in Keys : queue[i].snap[k] # Unread
    /\ \A k \in Keys : /\ writing.snap[k] # Unread
                       /\ k \in writing.send => writing.snap[k] # None
    /\ direct # Unread

LEMMA StepNotBlank ==
    ASSUME BInv, [Next]_vars
    PROVE  BInv'
<1>0. TypeOK /\ TypeOK' /\ None # Unread
  BY StepType DEF BInv, None, Unread
<1>1. ASSUME UNCHANGED <<mem, writing, queue, db, direct>>,
             phase = phase' \/ (phase # "boot" /\ phase' # "boot")
      PROVE  BInv'
  BY <1>0, <1>1 DEF BInv
<1>2. ASSUME phase' = "boot", queue' = <<>>, writing' = Idle, direct' = None,
             \A k \in Keys : \/ db'[k] = db[k]
                             \/ k \in writing.send /\ db'[k] = writing.snap[k]
                             \/ direct # None /\ db'[k] = direct
      PROVE  BInv'
  <2>1. \A k \in Keys : db'[k] # None /\ db'[k] # Unread
    BY <1>2 DEF BInv
  <2> QED BY <1>0, <1>2, <2>1 DEF BInv, Idle, Blank
<1>3. CASE BootRead
  <2>1. queue' = <<>> /\ writing' = Idle /\ direct' = None /\ mem' = db /\ db' = db
        /\ phase' = "ready"
    BY <1>3 DEF BootRead, BInv
  <2> QED BY <1>0, <2>1 DEF BInv, Idle, Blank
<1>4. ASSUME NEW key \in Keys, Mutate(key) PROVE BInv'
  <2>1. \A k \in Keys : mem'[k] # None /\ mem'[k] # Unread
    BY <1>0, <1>4, Elements DEF Mutate, BInv, Up, Unread, TypeOK, Version, None
  <2> QED BY <1>0, <1>4, <2>1 DEF Mutate, BInv, Up
<1>5. CASE PersistStateEarly
  BY <1>1, <1>5 DEF PersistStateEarly
<1>6. ASSUME Up, NEW job \in Job, \A k \in Keys : job.snap[k] # Unread,
             queue' = Append(queue, job),
             UNCHANGED <<phase, mem, writing, db, direct>>
      PROVE  BInv'
  <2>1. queue \in Seq(Job)
    BY <1>0 DEF TypeOK
  <2>2. \A i \in 1..Len(queue') : queue'[i] = job \/ (i \in 1..Len(queue) /\ queue'[i] = queue[i])
    BY <1>6, <2>1
  <2>3. \A i \in 1..Len(queue'), k \in Keys : queue'[i].snap[k] # Unread
    BY <1>6, <2>2 DEF BInv
  <2> QED BY <1>0, <1>6, <2>3 DEF BInv, Up
<1>7. CASE PersistState
  <2>1. CASE queue' = queue
    BY <1>1, <1>7, <2>1 DEF PersistState
  <2>2. CASE queue' = Append(queue, [kind |-> "state", snap |-> Blank])
    <3> DEFINE job == [kind |-> "state", snap |-> Blank]
    <3>1. job \in Job /\ \A k \in Keys : job.snap[k] # Unread
      BY DEF Job, Kinds, LazyKinds, Blank, None, Unread, Version
    <3> QED BY <1>6, <1>7, <2>2, <3>1 DEF PersistState
  <2> QED BY <1>7, <2>1, <2>2, Zenon DEF PersistState, Enqueue
<1>8. CASE SaveControlState
  <2> DEFINE job == [kind |-> "control", snap |-> Blank]
  <2>1. job \in Job /\ \A k \in Keys : job.snap[k] # Unread
    BY DEF Job, Kinds, LazyKinds, Blank, None, Unread, Version
  <2> QED BY <1>6, <1>8, <2>1 DEF SaveControlState, Enqueue
<1>9. ASSUME NEW kind \in EagerKinds, PersistEager(kind) PROVE BInv'
  <2> DEFINE K   == IF kind = "critical" THEN Keys ELSE {"state"}
             job == [kind |-> kind, snap |-> Snapshot(K)]
  <2>1. job \in Job
    BY <1>0, SnapshotType DEF Job, Kinds, TypeOK
  <2>2. queue' = Append(queue, job) /\ Up
        /\ UNCHANGED <<phase, mem, writing, db, direct>>
    BY <1>9 DEF PersistEager, Enqueue
  <2>3. \A k \in Keys : job.snap[k] # Unread
    BY <1>0, <2>2 DEF Snapshot, BInv, Up
  <2> QED BY <1>6, <2>1, <2>2, <2>3
<1>10. CASE StartWrite
  <2> DEFINE job  == Head(queue)
             snap == StartSnapshot(job)
  <2>1. queue \in Seq(Job) /\ queue # <<>>
    BY <1>0, <1>10 DEF TypeOK, StartWrite
  <2>2. /\ job = queue[1] /\ 1 \in 1..Len(queue) /\ Len(queue') = Len(queue) - 1
        /\ \A i \in 1..Len(queue') : queue'[i] = queue[i + 1] /\ i + 1 \in 1..Len(queue)
    BY <1>10, <2>1 DEF StartWrite
  <2>3. phase # "boot"
    BY <2>1 DEF BInv
  <2>4. \A k \in Keys : snap[k] # Unread
    BY <1>0, <2>2, <2>3 DEF BInv, StartSnapshot, Snapshot
  <2>5. writing' = [kind |-> job.kind, snap |-> snap, send |-> Changed(snap)]
        /\ UNCHANGED <<phase, mem, db, direct>>
    BY <1>10 DEF StartWrite
  <2>6. \A k \in Keys : /\ writing'.snap[k] # Unread
                        /\ k \in writing'.send => writing'.snap[k] # None
    BY <2>4, <2>5 DEF Changed
  <2>7. \A i \in 1..Len(queue'), k \in Keys : queue'[i].snap[k] # Unread
    BY <2>2 DEF BInv
  <2> QED BY <1>0, <2>3, <2>5, <2>6, <2>7 DEF BInv
<1>11. ASSUME phase # "boot", UNCHANGED <<phase, mem, queue>>,
              writing' = Idle \/ writing' = writing,
              direct' # Unread,
              \A k \in Keys : \/ db'[k] = db[k]
                              \/ k \in writing.send /\ db'[k] = writing.snap[k]
                              \/ direct # None /\ db'[k] = direct
       PROVE  BInv'
  <2>1. \A k \in Keys : db'[k] # None /\ db'[k] # Unread
    BY <1>11 DEF BInv
  <2>2. \A k \in Keys : /\ writing'.snap[k] # Unread
                        /\ k \in writing'.send => writing'.snap[k] # None
    BY <1>0, <1>11 DEF BInv, Idle, Blank
  <2> QED BY <1>0, <1>11, <2>1, <2>2 DEF BInv
<1>12. CASE CommitWrite
  BY <1>11, <1>12 DEF CommitWrite, BInv
<1>13. CASE FailWrite
  <2>1. writing # Idle /\ writing' = Idle /\ direct' = direct
        /\ UNCHANGED <<phase, mem, queue>>
    BY <1>13 DEF FailWrite, Idle
  <2>2. \A k \in Keys : db'[k] = db[k] \/ (k \in writing.send /\ db'[k] = writing.snap[k])
    BY <1>13 DEF FailWrite
  <2> QED BY <1>11, <2>1, <2>2 DEF BInv
<1>14. CASE DirectStart
  BY <1>11, <1>14 DEF DirectStart, BInv, Up, Keys
<1>15. CASE DirectCommit
  <2>1. \A k \in Keys : db'[k] = db[k] \/ (direct # None /\ db'[k] = direct)
    BY <1>0, <1>15 DEF DirectCommit, TypeOK
  <2> QED BY <1>0, <1>11, <1>15, <2>1 DEF DirectCommit, BInv
<1>16. CASE DirectFail
  BY <1>0, <1>11, <1>16 DEF DirectFail, BInv
<1>17. CASE Crash
  <2>1. \A k \in Keys : \/ db'[k] = db[k]
                        \/ k \in writing.send /\ db'[k] = writing.snap[k]
                        \/ direct # None /\ db'[k] = direct
    BY <1>0, <1>17 DEF Crash, TypeOK
  <2> QED BY <1>2, <1>17, <2>1 DEF Crash, Lose
<1>18. CASE Sigterm
  BY <1>1, <1>18 DEF Sigterm
<1>19. CASE DrainExit
  BY <1>1, <1>19 DEF DrainExit
<1>20. CASE Restart
  BY <1>2, <1>20 DEF Restart, Lose
<1>21. CASE UNCHANGED vars
  BY <1>1, <1>21 DEF vars
<1> QED
  BY <1>3, <1>4, <1>5, <1>7, <1>8, <1>9, <1>10, <1>12, <1>13, <1>14, <1>15,
     <1>16, <1>17, <1>18, <1>19, <1>20, <1>21 DEF Next

\* Whatever fails, times out or bypasses the queue, an empty start-up snapshot
\* never replaces the stored state: the storageReady guard is enough.
THEOREM StoredStateNotBlanked == Spec => []NoBlankOverwrite
<1>1. Init => BInv
  <2> SUFFICES ASSUME Init PROVE BInv
    OBVIOUS
  <2>1. \A k \in Keys : db[k] # None /\ db[k] # Unread
    BY DEF Init, None, Unread
  <2> QED BY <2>1, InitType DEF Init, BInv, Idle, Blank, None, Unread
<1>2. BInv /\ [Next]_vars => BInv'
  BY StepNotBlank
<1>3. BInv => NoBlankOverwrite
  BY DEF BInv, NoBlankOverwrite
<1> QED BY <1>1, <1>2, <1>3, PTL DEF Spec


-----------------------------------------------------------------------------
(* Without eager snapshots the newest content of the state key is always    *)
(* on its way: a lazy job that has not started, or a write whose snapshot   *)
(* is as new as the last request, or a recorded failure.  The baseline may  *)
(* fall behind the database when a write is carried out and not answered,   *)
(* but it never runs ahead of it, so a write that is left out leaves out    *)
(* nothing.                                                                 *)

OnlyLazy ==
    /\ \A i \in 1..Len(queue) : queue[i].kind \in LazyKinds
    /\ writing = Idle \/ writing.kind \in LazyKinds

StateWrite ==
    writing.kind = "state" =>
       /\ db["state"] <= writing.snap["state"] /\ writing.snap["state"] <= mem["state"]
       /\ HasStateJob \/ requested["state"] <= writing.snap["state"]
       /\ "state" \notin writing.send => writing.snap["state"] = baseline["state"]

Behind == Up => baseline["state"] <= db["state"] /\ db["state"] <= mem["state"]

Announced ==
    Up => \/ failed \/ HasStateJob \/ writing.kind = "state"
          \/ requested["state"] <= db["state"]

HInv ==
    /\ CInv
    /\ OnlyLazy
    /\ StateWrite
    /\ writing.kind # "state" => "state" \notin writing.send
    /\ Behind
    /\ Announced
    /\ CleanExitSaved

LEMMA StateVersions ==
    ASSUME TypeOK
    PROVE  /\ mem["state"] \in Nat /\ db["state"] \in Nat /\ baseline["state"] \in Nat
           /\ requested["state"] \in Nat /\ writing.snap["state"] \in Nat
           /\ writing.kind \in Kinds \union {"idle"} /\ "state" \in Keys
BY DEF TypeOK, Version, Keys, Write

\* Steps that leave the state key, the queue and the write under way alone.
LEMMA ElsewhereKeeps ==
    ASSUME HInv, CInv', UNCHANGED <<phase, writing, queue, failed>>,
           db'["state"] = db["state"], baseline'["state"] = baseline["state"],
           requested'["state"] = requested["state"], mem["state"] <= mem'["state"]
    PROVE  HInv'
<1>0. TypeOK /\ TypeOK'
  BY DEF HInv, CInv
<1>1. HasStateJob' <=> HasStateJob
  BY DEF HasStateJob
<1>5. mem'["state"] \in Nat
  BY <1>0 DEF TypeOK, Version, Keys
<1>6. /\ mem["state"] \in Nat /\ db["state"] \in Nat /\ writing.snap["state"] \in Nat
  BY <1>0, StateVersions
<1>2. StateWrite'
  <2> SUFFICES ASSUME writing.kind = "state"
               PROVE  StateWrite'
    BY DEF StateWrite
  <2>1. /\ db["state"] <= writing.snap["state"] /\ writing.snap["state"] <= mem["state"]
        /\ HasStateJob \/ requested["state"] <= writing.snap["state"]
        /\ "state" \notin writing.send => writing.snap["state"] = baseline["state"]
    BY DEF HInv, StateWrite
  <2>2. writing.snap["state"] <= mem'["state"]
    BY <1>5, <1>6, <2>1
  <2> QED BY <1>1, <2>1, <2>2, Zenon DEF StateWrite
<1>3. Behind'
  <2>1. db["state"] <= mem["state"] => db["state"] <= mem'["state"]
    BY <1>5, <1>6
  <2> QED BY <2>1, Zenon DEF HInv, Behind, Up
<1>4. Announced' /\ CleanExitSaved'
  BY <1>1 DEF HInv, Announced, CleanExitSaved, Up
<1> QED BY <1>2, <1>3, <1>4 DEF HInv, OnlyLazy

\* A lazy job is added, or the one that waits is joined.
LEMMA AskedKeeps ==
    ASSUME HInv, CInv', Up, UNCHANGED <<phase, mem, db, baseline, writing, failed>>,
           HasStateJob => HasStateJob',
           requested'["state"] = requested["state"] \/ HasStateJob',
           \A i \in 1..Len(queue') : queue'[i].kind \in LazyKinds
    PROVE  HInv'
<1>1. StateWrite'
  BY DEF HInv, StateWrite
<1>2. Announced'
  BY DEF HInv, Announced, Up
<1>3. CleanExitSaved'
  BY DEF CleanExitSaved, Up
<1> QED BY <1>1, <1>2, <1>3 DEF HInv, OnlyLazy, Behind, Up

LEMMA StartKeeps ==
    ASSUME HInv, CInv', Up, StartWrite
    PROVE  HInv'
<1> DEFINE job  == Head(queue)
           snap == StartSnapshot(job)
<1>0. /\ TypeOK /\ queue \in Seq(Job) /\ queue # <<>>
      /\ requested["state"] <= mem["state"]
  BY DEF HInv, CInv, TypeOK, StartWrite
<1>1. /\ job = queue[1] /\ queue' = Tail(queue) /\ Len(queue') = Len(queue) - 1
      /\ \A i \in 1..Len(queue) : i # 1 => i - 1 \in 1..Len(queue') /\ queue'[i - 1] = queue[i]
      /\ \A i \in 1..Len(queue') : i + 1 \in 1..Len(queue) /\ queue'[i] = queue[i + 1]
      /\ 1 \in 1..Len(queue)
  BY <1>0 DEF StartWrite
<1>2. /\ UNCHANGED <<phase, mem, db, baseline, failed, requested>>
      /\ writing' = [kind |-> job.kind, snap |-> snap, send |-> Changed(snap)]
  BY DEF StartWrite
<1>3. job.kind \in {"state", "control"}
  BY <1>1 DEF HInv, OnlyLazy, LazyKinds
<1>4. OnlyLazy'
  BY <1>1, <1>2, <1>3 DEF HInv, OnlyLazy, LazyKinds
<1>5. CASE job.kind = "state"
  <2>1. snap["state"] = mem["state"]
    BY <1>5 DEF StartSnapshot, Snapshot, LazyKinds, Keys
  <2>2. "state" \notin Changed(snap) => snap["state"] = None \/ snap["state"] = baseline["state"]
    BY DEF Changed, Keys
  <2>3. baseline["state"] <= mem["state"] /\ db["state"] <= mem["state"]
    BY <1>0, StateVersions DEF HInv, Behind
  <2>4. "state" \notin Changed(snap) => snap["state"] = baseline["state"]
    BY <1>0, <2>1, <2>2, <2>3, StateVersions DEF None
  <2>5. /\ writing'.kind = "state" /\ writing'.snap["state"] = mem["state"]
        /\ "state" \notin writing'.send => mem["state"] = baseline["state"]
    BY <1>2, <1>5, <2>1, <2>4
  <2>6. StateWrite'
    BY <1>0, <1>2, <2>3, <2>5, StateVersions DEF StateWrite
  <2> QED BY <1>2, <1>4, <2>5, <2>6 DEF HInv, Behind, Announced, CleanExitSaved, Up
<1>6. CASE job.kind = "control"
  <2>1. snap["state"] = None
    BY <1>6 DEF StartSnapshot, Snapshot, LazyKinds, Keys
  <2>2. "state" \notin Changed(snap)
    BY <2>1 DEF Changed
  <2>3. writing'.kind = "control" /\ "state" \notin writing'.send
    BY <1>2, <1>6, <2>2
  <2>4. HasStateJob => HasStateJob'
    BY <1>1, <1>6 DEF HasStateJob
  <2>5. writing.kind # "state"
    BY DEF StartWrite, Idle
  <2> QED BY <1>2, <1>4, <2>3, <2>4, <2>5
          DEF HInv, StateWrite, Behind, Announced, CleanExitSaved, Up
<1> QED BY <1>3, <1>5, <1>6

LEMMA CommitKeeps ==
    ASSUME HInv, CInv', Up, CommitWrite
    PROVE  HInv'
<1>0. TypeOK
  BY DEF HInv, CInv
<1>1. /\ UNCHANGED <<phase, mem, queue, requested>> /\ writing' = Idle
      /\ db'["state"] = IF "state" \in writing.send THEN writing.snap["state"] ELSE db["state"]
      /\ baseline'["state"] = IF "state" \in writing.send THEN writing.snap["state"]
                              ELSE baseline["state"]
      /\ failed' = IF writing.kind = "control" THEN failed ELSE FALSE
  BY DEF CommitWrite, Keys
<1>2. /\ writing'.kind = "idle" /\ writing'.send = {}
      /\ HasStateJob' <=> HasStateJob
  BY <1>1 DEF Idle, HasStateJob
<1>3. OnlyLazy' /\ StateWrite'
  BY <1>1, <1>2 DEF HInv, OnlyLazy, StateWrite
<1>4. CleanExitSaved'
  BY <1>1 DEF CleanExitSaved, Up
<1>5. CASE writing.kind = "state"
  <2>1. db'["state"] >= writing.snap["state"] /\ db'["state"] <= mem["state"]
    BY <1>0, <1>1, <1>5, StateVersions DEF HInv, StateWrite, Behind
  <2>2. baseline'["state"] <= db'["state"]
    BY <1>0, <1>1, <1>5, StateVersions DEF HInv, StateWrite, Behind
  <2>3. HasStateJob \/ requested["state"] <= writing.snap["state"]
    BY <1>5 DEF HInv, StateWrite
  <2>4. HasStateJob' \/ requested'["state"] <= db'["state"]
    <3>1. db'["state"] \in Nat
      BY DEF CInv, TypeOK, Version, Keys
    <3> QED BY <1>0, <1>1, <1>2, <2>1, <2>3, <3>1, StateVersions
  <2> QED BY <1>1, <1>2, <1>3, <1>4, <2>1, <2>2, <2>4 DEF HInv, Behind, Announced
<1>6. CASE writing.kind # "state"
  <2>1. db'["state"] = db["state"] /\ baseline'["state"] = baseline["state"]
    BY <1>1, <1>6 DEF HInv
  <2>2. failed' = failed
    <3>1. writing.kind = "control"
      BY <1>6 DEF HInv, OnlyLazy, LazyKinds, CommitWrite
    <3> QED BY <1>1, <3>1
  <2>3. Behind'
    BY <1>1, <2>1 DEF HInv, Behind, Up
  <2>4. Announced'
    <3>1. /\ requested'["state"] = requested["state"] /\ phase' = phase
      BY <1>1
    <3>2. Up => failed \/ HasStateJob \/ requested["state"] <= db["state"]
      BY <1>6, Zenon DEF HInv, Announced
    <3>3. Up'
      BY <3>1 DEF Up
    <3> QED BY <1>2, <2>1, <2>2, <3>1, <3>2, <3>3, Zenon DEF Announced
  <2> QED BY <1>2, <1>3, <1>4, <2>3, <2>4 DEF HInv
<1> QED BY <1>5, <1>6

LEMMA FailKeeps ==
    ASSUME HInv, CInv', Up, FailWrite
    PROVE  HInv'
<1>0. TypeOK
  BY DEF HInv, CInv
<1>1. /\ UNCHANGED <<phase, mem, baseline, queue, requested>>
      /\ writing' = Idle /\ failed' = TRUE
  BY DEF FailWrite
<1>2. \/ db' = db
      \/ db' = [k \in Keys |-> IF k \in writing.send THEN writing.snap[k] ELSE db[k]]
  BY Zenon DEF FailWrite
<1>3. \/ db'["state"] = db["state"]
      \/ writing.kind = "state" /\ db'["state"] = writing.snap["state"]
  <2>1. "state" \in writing.send => writing.kind = "state"
    BY DEF HInv
  <2>2. "state" \in Keys
    BY DEF Keys
  <2> QED BY <1>2, <2>1, <2>2
<1>4. writing'.kind = "idle" /\ writing'.send = {}
  BY <1>1 DEF Idle
<1>5. OnlyLazy' /\ StateWrite' /\ Announced'
  BY <1>1, <1>4 DEF HInv, OnlyLazy, StateWrite, Announced
<1>6. CleanExitSaved'
  BY <1>1 DEF CleanExitSaved
<1>7. baseline["state"] <= db["state"] /\ db["state"] <= mem["state"]
  BY DEF HInv, Behind
<1>8. writing.kind = "state" => /\ db["state"] <= writing.snap["state"]
                                /\ writing.snap["state"] <= mem["state"]
  BY DEF HInv, StateWrite
<1>9. baseline["state"] <= db'["state"] /\ db'["state"] <= mem["state"]
  BY <1>0, <1>3, <1>7, <1>8, StateVersions
<1> QED BY <1>1, <1>4, <1>5, <1>6, <1>9 DEF HInv, Behind

\* A process that starts again knows nothing and has nothing on its way.
LEMMA LoseKeeps ==
    ASSUME CInv', Lose
    PROVE  HInv'
<1>1. phase' = "boot" /\ queue' = <<>> /\ writing' = Idle
  BY DEF Lose
<1>2. writing'.kind = "idle" /\ writing'.send = {} /\ Len(queue') = 0
  BY <1>1 DEF Idle
<1> QED BY <1>1, <1>2 DEF HInv, OnlyLazy, StateWrite, Behind, Announced, CleanExitSaved, Up

LEMMA BootKeeps ==
    ASSUME HInv, CInv', BootRead
    PROVE  HInv'
<1>0. TypeOK
  BY DEF HInv, CInv
<1>1. /\ phase' = "ready" /\ mem' = db /\ baseline' = db /\ requested' = db /\ db' = db
      /\ UNCHANGED <<queue, writing, failed>>
  BY DEF BootRead
<1>2. writing = Idle
  BY DEF BootRead, HInv, CInv, Up
<1>3. writing'.kind = "idle" /\ writing'.send = {}
  BY <1>1, <1>2 DEF Idle
<1>4. db["state"] <= db["state"]
  BY <1>0, StateVersions
<1> QED BY <1>1, <1>3, <1>4 DEF HInv, OnlyLazy, StateWrite, Behind, Announced, CleanExitSaved

LEMMA AppendedLazy ==
    ASSUME queue \in Seq(Job), NEW job \in Job, queue' = Append(queue, job),
           job.kind \in LazyKinds,
           \A i \in 1..Len(queue) : queue[i].kind \in LazyKinds
    PROVE  /\ HasStateJob => HasStateJob'
           /\ job.kind = "state" => HasStateJob'
           /\ \A i \in 1..Len(queue') : queue'[i].kind \in LazyKinds
<1>1. /\ Len(queue) + 1 \in 1..Len(queue') /\ queue'[Len(queue) + 1] = job
      /\ \A i \in 1..Len(queue) : i \in 1..Len(queue') /\ queue'[i] = queue[i]
      /\ \A i \in 1..Len(queue') : i \in 1..Len(queue) \/ i = Len(queue) + 1
  OBVIOUS
<1>2. (HasStateJob => HasStateJob') /\ (job.kind = "state" => HasStateJob')
  BY <1>1 DEF HasStateJob
<1> QED BY <1>1, <1>2

LEMMA StepHealthy == ~Eager /\ HInv /\ [Next]_vars => HInv'
<1> SUFFICES ASSUME ~Eager, HInv, [Next]_vars PROVE HInv'
  OBVIOUS
<1>0. CInv /\ CInv' /\ TypeOK
  BY StepCovered DEF HInv, CInv
<1>1. CASE BootRead
  BY <1>0, <1>1, BootKeeps
<1>2. ASSUME NEW k \in Keys, Mutate(k) PROVE HInv'
  <2>1. mem["state"] <= mem'["state"]
    BY <1>0, <1>2, StateVersions DEF Mutate, TypeOK, Keys
  <2> QED BY <1>0, <1>2, <2>1, ElsewhereKeeps DEF Mutate
<1>3. CASE PersistStateEarly
  BY <1>0, <1>3 DEF PersistStateEarly, HInv, OnlyLazy, StateWrite, Behind, Announced,
                    CleanExitSaved, Up, HasStateJob
<1>4. CASE PersistState
  <2>0. /\ queue \in Seq(Job) /\ Up
        /\ \A i \in 1..Len(queue) : queue[i].kind \in LazyKinds
        /\ UNCHANGED <<phase, mem, db, baseline, writing, failed>>
    BY <1>0, <1>4 DEF PersistState, TypeOK, HInv, OnlyLazy
  <2>1. CASE pending /\ UNCHANGED <<queue, pending>>
    <3>1. HasStateJob /\ HasStateJob' /\ queue' = queue
      BY <1>0, <2>1 DEF CInv, PendingMeansQueued, HasStateJob
    <3> QED BY <1>0, <2>0, <3>1, AskedKeeps
  <2>2. CASE ~pending /\ Enqueue([kind |-> "state", snap |-> Blank])
    <3>1. [kind |-> "state", snap |-> Blank] \in Job
      BY DEF Job, Kinds, LazyKinds, Blank, Version, None
    <3>2. queue' = Append(queue, [kind |-> "state", snap |-> Blank])
      BY <2>2 DEF Enqueue
    <3>3. HasStateJob' /\ \A i \in 1..Len(queue') : queue'[i].kind \in LazyKinds
      BY <2>0, <3>1, <3>2, AppendedLazy DEF LazyKinds
    <3> QED BY <1>0, <2>0, <3>3, AskedKeeps
  <2> QED BY <1>4, <2>1, <2>2, Zenon DEF PersistState
<1>5. CASE SaveControlState
  <2>0. /\ queue \in Seq(Job) /\ Up
        /\ \A i \in 1..Len(queue) : queue[i].kind \in LazyKinds
        /\ UNCHANGED <<phase, mem, db, baseline, writing, failed>>
        /\ requested'["state"] = requested["state"]
    BY <1>0, <1>5 DEF SaveControlState, TypeOK, HInv, OnlyLazy, Ask, Keys
  <2>1. [kind |-> "control", snap |-> Blank] \in Job
    BY DEF Job, Kinds, LazyKinds, Blank, Version, None
  <2>2. queue' = Append(queue, [kind |-> "control", snap |-> Blank])
    BY <1>5 DEF SaveControlState, Enqueue
  <2>3. /\ HasStateJob => HasStateJob'
        /\ \A i \in 1..Len(queue') : queue'[i].kind \in LazyKinds
    BY <2>0, <2>1, <2>2, AppendedLazy DEF LazyKinds
  <2> QED BY <1>0, <2>0, <2>3, AskedKeeps
<1>6. ASSUME NEW kind \in EagerKinds, PersistEager(kind) PROVE HInv'
  BY <1>6 DEF PersistEager
<1>7. CASE StartWrite
  BY <1>0, <1>7, StartKeeps DEF StartWrite, HInv, CInv
<1>8. CASE CommitWrite
  BY <1>0, <1>8, CommitKeeps DEF CommitWrite, CInv
<1>9. CASE FailWrite
  <2>1. Up
    BY <1>0, <1>9 DEF FailWrite, CInv, Idle
  <2> QED BY <1>0, <1>9, <2>1, FailKeeps
<1>10. CASE DirectStart
  <2>1. requested'["state"] = requested["state"]
    BY <1>10 DEF DirectStart, Ask, Keys
  <2> QED BY <1>0, <1>10, <2>1, StateVersions, ElsewhereKeeps DEF DirectStart
<1>11. CASE DirectCommit
  <2>1. db'["state"] = db["state"] /\ baseline'["state"] = baseline["state"]
    BY <1>0, <1>11 DEF DirectCommit, TypeOK, Keys
  <2> QED BY <1>0, <1>11, <2>1, StateVersions, ElsewhereKeeps DEF DirectCommit
<1>12. CASE DirectFail
  BY <1>0, <1>12, StateVersions, ElsewhereKeeps DEF DirectFail
<1>13. CASE Crash
  BY <1>0, <1>13, LoseKeeps DEF Crash
<1>14. CASE Sigterm
  BY <1>0, <1>14 DEF Sigterm, HInv, OnlyLazy, StateWrite, Behind, Announced, CleanExitSaved,
                     Up, HasStateJob
<1>15. CASE DrainExit
  <2>1. /\ phase = "draining" /\ phase' = "exited" /\ queue = <<>> /\ writing = Idle
        /\ UNCHANGED <<mem, db, baseline, queue, writing, failed, requested>>
    BY <1>15 DEF DrainExit
  <2>2. writing.kind = "idle" /\ ~HasStateJob
    BY <2>1 DEF Idle, HasStateJob
  <2>3. failed \/ requested["state"] <= db["state"]
    BY <2>1, <2>2 DEF HInv, Announced, Up
  <2>4. CleanExitSaved'
    BY <1>0, <2>1, <2>3, StateVersions DEF CleanExitSaved
  <2>5. OnlyLazy' /\ StateWrite'
    BY <2>1, <2>2 DEF HInv, OnlyLazy, StateWrite
  <2> QED BY <1>0, <2>1, <2>4, <2>5 DEF HInv, Behind, Announced, Up
<1>16. CASE Restart
  BY <1>0, <1>16, LoseKeeps DEF Restart
<1>17. CASE UNCHANGED vars
  BY <1>0, <1>17, StateVersions, ElsewhereKeeps DEF vars
<1> QED
  BY <1>1, <1>2, <1>3, <1>4, <1>5, <1>6, <1>7, <1>8, <1>9, <1>10, <1>11, <1>12, <1>13,
     <1>14, <1>15, <1>16, <1>17 DEF Next

LEMMA AlwaysHealthy == ASSUME ~Eager PROVE Spec => []HInv
<1>1. Init => HInv
  <2> SUFFICES ASSUME Init PROVE HInv
    OBVIOUS
  <2>1. CInv
    BY InitType DEF Init, CInv, LazyBlank, PendingMeansQueued, HasStateJob, ChangeCovered, Up
  <2>2. writing.kind = "idle" /\ writing.send = {} /\ Len(queue) = 0 /\ phase = "boot"
    BY DEF Init, Idle
  <2> QED BY <2>1, <2>2 DEF HInv, OnlyLazy, StateWrite, Behind, Announced, CleanExitSaved,
                            Up, Init
<1>2. HInv /\ [Next]_vars => HInv'
  BY StepHealthy
<1> QED BY <1>1, <1>2, PTL DEF Spec

\* As long as only persistState and saveControlState ask for writes, whatever
\* fails, times out, crashes or is written to the control key off the queue:
\* an idle queue without an announced error means that the database holds
\* every change of the state key a write was asked for.
THEOREM HealthyIsSaved == ASSUME ~Eager PROVE Spec => []HealthyMeansSaved
<1>1. HInv => HealthyMeansSaved
  <2> SUFFICES ASSUME HInv, Up, queue = <<>>, writing = Idle, ~failed
               PROVE  db["state"] >= requested["state"]
    BY DEF HealthyMeansSaved, Quiet
  <2>1. writing.kind = "idle" /\ ~HasStateJob
    BY DEF Idle, HasStateJob
  <2>2. requested["state"] <= db["state"]
    BY <2>1 DEF HInv, Announced
  <2> QED BY <2>2, StateVersions DEF HInv, CInv
<1> QED BY <1>1, AlwaysHealthy, PTL

\* Under the same condition a shutdown that drained the queue without an
\* announced error loses no change of the state key a write was asked for.
THEOREM CleanExitIsSaved == ASSUME ~Eager PROVE Spec => []CleanExitSaved
<1>1. HInv => CleanExitSaved
  BY DEF HInv
<1> QED BY <1>1, AlwaysHealthy, PTL
=============================================================================
