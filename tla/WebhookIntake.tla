---------------------------- MODULE WebhookIntake ----------------------------
(***************************************************************************)
(* Events that providers push: the signed route /api/webhooks/:platform,   *)
(* which refuses what it cannot store, and the platform routes that go     *)
(* through ingestWebhookComments, which answer 200 after their write has   *)
(* settled, whatever its outcome.  Both put the event on the lists that    *)
(* detect duplicates before they wait for persistQueue.                    *)
(*                                                                         *)
(* A row of a list is the event it stands for.  The write baseline of the  *)
(* adapter plays no part here: a row carries the time of its arrival, so   *)
(* no two snapshots with different rows are ever the same text.            *)
(***************************************************************************)
EXTENDS Naturals, Sequences, SequencesExt

CONSTANTS
    Signed,       \* events of the signed route
    Direct,       \* comments and messages of the platform routes
    Slot,         \* deliveries the process handles together
    Capacity,     \* WORKSPACE_MAX_WEBHOOK_EVENTS
    Impatient,    \* TRUE: a provider may repeat a delivery before its answer
    MaxQueue,     \* bound on the jobs of persistQueue
    MaxRestarts   \* bound on the restarts of the run

ASSUME RoutesAssumption ==
    Signed \intersect Direct = {}

ASSUME IntakeAssumption ==
    /\ Capacity \in Nat \ {0} /\ MaxQueue \in Nat /\ MaxRestarts \in Nat
    /\ Impatient \in BOOLEAN

Event   == Signed \union Direct
Content == [events : Seq(Event), comments : SUBSET Direct]
Empty   == [events |-> <<>>, comments |-> {}]

\* A live job builds its snapshot when it starts; the others carry theirs.
Job == [live : BOOLEAN, data : Content]

\* A delivery: left counts the jobs up to the one whose end it waits for.
Rest     == [stage |-> "idle", event |-> {}, left |-> 0]
Delivery == [stage : {"idle", "waiting", "settled", "refused"},
             event : SUBSET Event, left : 0 .. MaxQueue]

VARIABLES
    mem,       \* webhookEvents, and socialComments with the provider ids
    saved,     \* the same in the database
    queue,     \* jobs of persistQueue, the first one perhaps started
    started,   \* what the started job writes, if one has started
    call,      \* the delivery each slot handles
    acked,     \* events answered with 2xx
    evicted,   \* events that newer ones have pushed off webhookEvents
    restarts

vars == <<mem, saved, queue, started, call, acked, evicted, restarts>>

Held(content) == ToSet(content.events)
Being(e) == \E s \in Slot : e \in call[s].event

TypeOK ==
    /\ mem \in Content /\ Len(mem.events) <= Capacity
    /\ saved \in Content
    /\ queue \in Seq(Job) /\ Len(queue) <= MaxQueue
    /\ started \in SUBSET Content
    /\ call \in [Slot -> Delivery]
    /\ acked \in SUBSET Event /\ evicted \in SUBSET Event
    /\ restarts \in 0 .. MaxRestarts

Init ==
    /\ mem = Empty /\ saved = Empty
    /\ queue = <<>> /\ started = {}
    /\ call = [s \in Slot |-> Rest]
    /\ acked = {} /\ evicted = {}
    /\ restarts = 0

-----------------------------------------------------------------------------
(* Arrival.  A handler's turn starts with no settled delivery left to run. *)

Quiet == \A s \in Slot : call[s].stage \in {"idle", "waiting"}

Arrives(s, e) ==
    /\ Quiet /\ call[s] = Rest
    /\ Impatient \/ ~Being(e)

Wait(s, e, jobs) ==
    call' = [call EXCEPT ![s] = [stage |-> "waiting", event |-> {e}, left |-> jobs]]

\* Mutant of Listed: the slice is forgotten.
ListedUncut(e) == <<e>> \o mem.events

\* unshift and slice: the newest first, the oldest dropped.
Listed(e) ==
    LET rows == <<e>> \o mem.events
    IN SubSeq(rows, 1, IF Len(rows) <= Capacity THEN Len(rows) ELSE Capacity)

Evict(e) == evicted' = evicted \union (Held(mem) \ ToSet(Listed(e)))

\* Mutant of DeliverSigned: the snapshot is built before the event is added.
DeliverSignedLate(s, e) ==
    /\ e \in Signed /\ Arrives(s, e)
    /\ e \notin Held(mem) /\ Len(queue) < MaxQueue
    /\ mem' = [mem EXCEPT !.events = Listed(e)]
    /\ Evict(e)
    /\ queue' = Append(queue, [live |-> FALSE, data |-> mem])
    /\ Wait(s, e, Len(queue) + 1)
    /\ UNCHANGED <<saved, started, acked, restarts>>

\* The signed route: the event is listed, a snapshot with it is queued, and
\* the answer waits for that write alone.
DeliverSigned(s, e) ==
    /\ e \in Signed /\ Arrives(s, e)
    /\ e \notin Held(mem) /\ Len(queue) < MaxQueue
    /\ mem' = [mem EXCEPT !.events = Listed(e)]
    /\ Evict(e)
    /\ queue' = Append(queue, [live |-> FALSE, data |-> mem'])
    /\ Wait(s, e, Len(queue) + 1)
    /\ UNCHANGED <<saved, started, acked, restarts>>

\* persistState: one live job at most waits to be started.
Scheduled == \E i \in DOMAIN queue : queue[i].live /\ (i > 1 \/ started = {})

PersistState ==
    \/ Scheduled /\ UNCHANGED queue
    \/ /\ ~Scheduled /\ Len(queue) < MaxQueue
       /\ queue' = Append(queue, [live |-> TRUE, data |-> Empty])

\* ingestWebhookComments: a new event becomes a comment and a row; the answer
\* waits for the end of the queue, not for the job that captures the event.
\* A duplicate is answered in the same way (Facebook, Instagram, WhatsApp) ...
DeliverComment(s, e) ==
    /\ e \in Direct /\ Arrives(s, e)
    /\ \/ /\ e \notin mem.comments
          /\ mem' = [events |-> Listed(e), comments |-> mem.comments \union {e}]
          /\ Evict(e)
       \/ /\ e \in mem.comments
          /\ UNCHANGED <<mem, evicted>>
    /\ PersistState
    /\ Wait(s, e, Len(queue'))
    /\ UNCHANGED <<saved, started, acked, restarts>>

\* ... or in the turn it arrives in (the signed route, Telegram, TikTok).
Duplicate(s, e) ==
    /\ Arrives(s, e)
    /\ \/ e \in Signed /\ e \in Held(mem)
       \/ e \in Direct /\ e \in mem.comments
    /\ acked' = acked \union {e}
    /\ UNCHANGED <<mem, saved, queue, started, call, evicted, restarts>>

\* Any other handler asks for a write.
Background ==
    /\ Quiet /\ ~Scheduled
    /\ PersistState
    /\ UNCHANGED <<mem, saved, started, call, acked, evicted, restarts>>

-----------------------------------------------------------------------------
(* The queue and the answers.                                              *)

StartJob ==
    /\ queue # <<>> /\ started = {}
    /\ started' = {IF Head(queue).live THEN mem ELSE Head(queue).data}
    /\ UNCHANGED <<mem, saved, queue, call, acked, evicted, restarts>>

\* The first job is over: who waited for it goes on, as refused if it was the
\* strict write of a signed event and it failed.
Settle(failed) ==
    /\ queue' = Tail(queue)
    /\ started' = {}
    /\ call' = [s \in Slot |->
         LET c == call[s] IN
         IF c.stage # "waiting" THEN c
         ELSE IF c.left > 1 THEN [c EXCEPT !.left = @ - 1]
         ELSE [stage |-> IF failed /\ c.event \subseteq Signed
                         THEN "refused" ELSE "settled",
               event |-> c.event, left |-> 0]]

CommitJob ==
    /\ started # {}
    /\ saved' \in started
    /\ Settle(FALSE)
    /\ UNCHANGED <<mem, acked, evicted, restarts>>

\* Mutant of FailJob: the failure does not reach who waits for it.
FailJobSilent ==
    /\ started # {}
    /\ saved' \in started \union {saved}
    /\ queue' = Tail(queue) /\ started' = {}
    /\ UNCHANGED <<mem, call, acked, evicted, restarts>>

\* The write fails, or it times out and may have been carried out.
FailJob ==
    /\ started # {}
    /\ saved' \in started \union {saved}
    /\ Settle(TRUE)
    /\ UNCHANGED <<mem, acked, evicted, restarts>>

\* 202 or 200.
Answer(s) ==
    /\ call[s].stage = "settled"
    /\ acked' = acked \union call[s].event
    /\ call' = [call EXCEPT ![s] = Rest]
    /\ UNCHANGED <<mem, saved, queue, started, evicted, restarts>>

\* Mutant of Rollback: the refused event stays listed.
RollbackKeeps(s) ==
    /\ call[s].stage = "refused"
    /\ call' = [call EXCEPT ![s] = Rest]
    /\ UNCHANGED <<mem, saved, queue, started, acked, evicted, restarts>>

\* 503: the event, which is on the list once, is taken off again.
Rollback(s) ==
    /\ call[s].stage = "refused"
    /\ \E e \in call[s].event : mem' = [mem EXCEPT !.events = RemoveFirst(@, e)]
    /\ call' = [call EXCEPT ![s] = Rest]
    /\ UNCHANGED <<saved, queue, started, acked, evicted, restarts>>

\* The process ends and the next one reads the database; a write under way
\* may still be carried out.
Restart ==
    /\ restarts < MaxRestarts
    /\ restarts' = restarts + 1
    /\ saved' \in started \union {saved}
    /\ mem' = saved'
    /\ queue' = <<>> /\ started' = {}
    /\ call' = [s \in Slot |-> Rest]
    /\ UNCHANGED <<acked, evicted>>

Deliver(s, e) == DeliverSigned(s, e) \/ DeliverComment(s, e) \/ Duplicate(s, e)

Next ==
    \/ \E s \in Slot, e \in Event : Deliver(s, e)
    \/ \E s \in Slot : Answer(s) \/ Rollback(s)
    \/ Background \/ StartJob \/ CommitJob \/ FailJob \/ Restart

Spec == Init /\ [][Next]_vars

\* The first job's end is what a delivery of e waits for.
Decides(e) == \E s \in Slot : e \in call[s].event /\ call[s].left = 1

\* Jobs start, writes settle (query_timeout), answers are given; a provider
\* repeats an event until it is acknowledged, and not all of the writes that
\* an event keeps waiting for fail.
FairSpec ==
    /\ Spec
    /\ WF_vars(StartJob) /\ WF_vars(CommitJob \/ FailJob)
    /\ \A s \in Slot : WF_vars(Answer(s) \/ Rollback(s))
    /\ \A e \in Event :
         /\ SF_vars(\E s \in Slot : e \notin acked /\ Deliver(s, e))
         /\ SF_vars(Decides(e) /\ CommitJob)

-----------------------------------------------------------------------------
(* Properties.                                                             *)

\* A signed event that was acknowledged, as accepted or as a duplicate, is in
\* the database, unless newer events have pushed it off the list: no
\* failed write, rollback or restart takes it away again.
AckedStored == \A e \in Signed : e \in acked => e \in Held(saved) \union evicted

\* The list that refuses duplicates names no signed event that is neither in
\* the database nor still being written: whatever it refuses is not lost.
ListedIsStored == \A e \in Signed \intersect Held(mem) : e \in Held(saved) \/ Being(e)

\* A provider that repeats an event before it has the answer is not told that
\* a delivery is a duplicate of one which is refused afterwards: an event that
\* is acknowledged is stored, or still in the hands of a delivery.
AckedNotLost ==
    \A e \in Signed : e \in acked => e \in Held(saved) \union evicted \/ Being(e)

\* A provider that repeats a signed event after each refusal or lost answer is
\* told in the end that it has been accepted.
EveryEventAcknowledged == \A e \in Signed : <>(e \in acked)
=============================================================================
