-------------------------- MODULE ExternalOperation -------------------------
(***************************************************************************)
(* Replies and publications sent to a provider at most once: the in-flight *)
(* lock of a process, the durable reservation shared by all processes      *)
(* (gharabi_idempotency), the reply history in the memory of a process,    *)
(* the provider, and crashes between any two of their steps.               *)
(*                                                                         *)
(* An attempt is one call of an executor (executeMetaCommentReply and its  *)
(* siblings) for a reply key, of a publish wrapper otherwise.  A step of   *)
(* an attempt is the code between two awaits.  Time is the number of ticks *)
(* a reservation has left, so it needs no bound.                           *)
(***************************************************************************)
EXTENDS Naturals, Sequences, FiniteSets

CONSTANTS
    Process,       \* server processes alive together (rolling deployment)
    Slot,          \* concurrent attempts of a process
    Key, Text,     \* operation keys (provider target) and reply texts
    TTL,           \* IDEMPOTENCY_RESERVATION_TTL_MS, in ticks
    MaxIdentical,  \* maxIdenticalReplies of evaluateReplyGuard
    MaxHistory,    \* WORKSPACE_MAX_SOCIAL_REPLIES
    Replies,       \* the keys of replies; the others are publications
    Slow,          \* TRUE: an attempt may outlive its reservation
    Faults         \* store calls that may fail

ASSUME TimeAssumption == TTL \in Nat \ {0}
ASSUME SwitchAssumption ==
    /\ Replies \subseteq Key /\ Slow \in BOOLEAN
    /\ Faults \subseteq {"reserve", "read", "finish", "save"}
ASSUME DataAssumption == Key # {} /\ Text # {}
ASSUME LimitAssumption == MaxIdentical \in Nat /\ MaxHistory \in Nat \ {0}

Attempt == Process \X Slot
Home(a) == a[1]
Job     == [key : Key, text : Text]
Status  == {"none", "reserved", "done", "failed", "pending_quota"}
Verdict == {"done", "failed", "pending_quota", "keep"}   \* keep: idemOutcome = null
Stage   == {"idle", "asking", "refused", "granted", "sending", "sent", "saving", "ending"}

VARIABLES
    pc,         \* stage of each attempt
    job,        \* what it is about
    verdict,    \* idemOutcome
    locked,     \* inFlightReplyKeys of each process
    history,    \* socialReplies of each process, newest first
    saved,      \* socialReplies in the database
    status,     \* status column of each key
    left,       \* ticks until expires_at
    delivered,  \* keys the provider has carried out
    window      \* what was left of the reservation at the last delivery; 0 once
                \* its answer was taken for a refusal

vars == <<pc, job, verdict, locked, history, saved, status, left, delivered, window>>
store == <<status, left>>
world == <<delivered, window>>

K(a) == job[a].key
Working(a) == pc[a] \in {"granted", "sending", "sent", "saving", "ending"}

TypeOK ==
    /\ pc \in [Attempt -> Stage]
    /\ job \in [Attempt -> Job]
    /\ verdict \in [Attempt -> Verdict]
    /\ locked \in [Process -> SUBSET Key]
    /\ history \in [Process -> Seq(Job)]
    /\ saved \in Seq(Job)
    /\ status \in [Key -> Status]
    /\ left \in [Key -> Nat]
    /\ delivered \subseteq Key
    /\ window \in [Key -> Nat]

Init ==
    /\ pc = [a \in Attempt |-> "idle"]
    /\ job = [a \in Attempt |-> CHOOSE j \in Job : TRUE]
    /\ verdict = [a \in Attempt |-> "failed"]
    /\ locked = [p \in Process |-> {}]
    /\ history = [p \in Process |-> <<>>]
    /\ saved = <<>>
    /\ status = [k \in Key |-> "none"]
    /\ left = [k \in Key |-> 0]
    /\ delivered = {}
    /\ window = [k \in Key |-> 0]

Unlocked(a) ==
    locked' = [locked EXCEPT ![Home(a)] = @ \ {K(a)}]

-----------------------------------------------------------------------------
(* The in-flight lock and the durable reservation.                         *)

\* The call up to its first await on the store: the lock is taken, the
\* synchronous checks pass (a refusal gives the lock back in the same turn).
Begin(a) ==
    /\ pc[a] = "idle"
    /\ \E j \in Job :
         /\ j.key \in Replies => j.key \notin locked[Home(a)]
         /\ job' = [job EXCEPT ![a] = j]
         /\ locked' = [locked EXCEPT ![Home(a)] = @ \union ({j.key} \intersect Replies)]
    /\ pc' = [pc EXCEPT ![a] = "asking"]
    /\ verdict' = [verdict EXCEPT ![a] = "failed"]
    /\ UNCHANGED <<history, saved, store, world>>

\* Mutant of Free: a live reservation does not stop another one.
FreeUnlessDone(k) == status[k] # "done"

\* IDEMPOTENCY_RESERVE_SQL: a new row, a failed or waiting one, or a stale one.
Free(k) ==
    \/ status[k] \in {"none", "failed", "pending_quota"}
    \/ status[k] = "reserved" /\ left[k] = 0

TakeRow(k) ==
    /\ status' = [status EXCEPT ![k] = "reserved"]
    /\ left' = [left EXCEPT ![k] = TTL]

ReserveGranted(a) ==
    /\ pc[a] = "asking" /\ Free(K(a))
    /\ TakeRow(K(a))
    /\ pc' = [pc EXCEPT ![a] = "granted"]
    /\ UNCHANGED <<job, verdict, locked, history, saved, world>>

\* Mutant of ReserveRefused: the refused statement still moves expires_at.
ReserveRefusedRenews(a) ==
    /\ pc[a] = "asking" /\ ~Free(K(a))
    /\ left' = [left EXCEPT ![K(a)] = TTL]
    /\ pc' = [pc EXCEPT ![a] = "refused"]
    /\ UNCHANGED <<job, verdict, locked, history, saved, status, world>>

ReserveRefused(a) ==
    /\ pc[a] = "asking" /\ ~Free(K(a))
    /\ pc' = [pc EXCEPT ![a] = "refused"]
    /\ UNCHANGED <<job, verdict, locked, history, saved, store, world>>

\* The call throws: backend_unavailable, the attempt goes on.  The statement
\* may have been carried out before the error (query_timeout).
ReserveUnavailable(a) ==
    /\ "reserve" \in Faults
    /\ pc[a] = "asking"
    /\ pc' = [pc EXCEPT ![a] = "granted"]
    /\ \/ UNCHANGED store
       \/ Free(K(a)) /\ TakeRow(K(a))
    /\ UNCHANGED <<job, verdict, locked, history, saved, world>>

\* Mutant of ReadRefusal: idemKey is set before the refusal is tested, so the
\* finally clause ends the operation of somebody else.
ReadRefusalEnds(a) ==
    /\ pc[a] = "refused"
    /\ pc' = [pc EXCEPT ![a] = "ending"]
    /\ UNCHANGED <<job, verdict, locked, history, saved, store, world>>

\* Mutant of ReadRefusal: a refusal is taken for an unreachable store.
ReadRefusalGoesOn(a) ==
    /\ pc[a] = "refused"
    /\ pc' = [pc EXCEPT ![a] = "granted"]
    /\ UNCHANGED <<job, verdict, locked, history, saved, store, world>>

\* Mutant of ReadRefusal: the attempt asks again until it gets the row.
ReadRefusalRetries(a) ==
    /\ pc[a] = "refused"
    /\ pc' = [pc EXCEPT ![a] = "asking"]
    /\ UNCHANGED <<job, verdict, locked, history, saved, store, world>>

\* The record is read to word the refusal; nothing is sent.
ReadRefusal(a) ==
    /\ pc[a] = "refused"
    /\ pc' = [pc EXCEPT ![a] = "idle"]
    /\ Unlocked(a)
    /\ UNCHANGED <<job, verdict, history, saved, store, world>>

\* The read throws inside the same try block: backend_unavailable again.
ReadUnavailable(a) ==
    /\ "read" \in Faults
    /\ pc[a] = "refused"
    /\ pc' = [pc EXCEPT ![a] = "granted"]
    /\ UNCHANGED <<job, verdict, locked, history, saved, store, world>>

-----------------------------------------------------------------------------
(* The reply history, the provider and the end of the attempt.             *)

Repeats(p, t) == Cardinality({i \in DOMAIN history[p] : history[p][i].text = t})
Answered(p, k) == \E i \in DOMAIN history[p] : history[p][i].key = k

\* evaluateReplyGuard: no record of this key, whatever its outcome, and the
\* same text not recorded too often.  The publish wrappers have no such guard.
GuardAllows(a) ==
    K(a) \in Replies =>
        /\ ~Answered(Home(a), K(a))
        /\ Repeats(Home(a), job[a].text) < MaxIdentical

End(a, v) ==
    /\ pc' = [pc EXCEPT ![a] = "ending"]
    /\ verdict' = [verdict EXCEPT ![a] = v]
    /\ UNCHANGED <<job, locked, history, saved, store, world>>

\* The guard passes and the request to the provider is under way.
StartSend(a) ==
    /\ pc[a] = "granted" /\ GuardAllows(a)
    /\ pc' = [pc EXCEPT ![a] = "sending"]
    /\ UNCHANGED <<job, verdict, locked, history, saved, store, world>>

\* The guard refuses: the default outcome "failed" ends the reservation.
GuardRefuses(a) == pc[a] = "granted" /\ ~GuardAllows(a) /\ End(a, "failed")

\* A check after the guard refuses, or the connector is not configured.
LateRefusal(a) == pc[a] = "granted" /\ GuardAllows(a) /\ End(a, "failed")

\* Mutant of AwaitQuota: HTTP 200 with pendingRetry taken for a success.
AwaitQuotaAsDone(a) == K(a) \notin Replies /\ pc[a] = "granted" /\ End(a, "done")

\* Only YouTube publishing: the quota is used up, nothing is sent.
AwaitQuota(a) == K(a) \notin Replies /\ pc[a] = "granted" /\ End(a, "pending_quota")

\* The provider carries out the operation.
Deliver(a) ==
    /\ pc[a] = "sending"
    /\ pc' = [pc EXCEPT ![a] = "sent"]
    /\ delivered' = delivered \union {K(a)}
    /\ window' = [window EXCEPT ![K(a)] = left[K(a)]]
    /\ UNCHANGED <<job, verdict, locked, history, saved, store>>

\* The record of the call is put first, the oldest ones are dropped.
Recorded(a) ==
    history' = [history EXCEPT ![Home(a)] =
        IF K(a) \in Replies THEN SubSeq(<<job[a]>> \o @, 1,
                             IF Len(@) < MaxHistory THEN Len(@) + 1 ELSE MaxHistory)
        ELSE @]

Answer(a, v) ==
    /\ pc' = [pc EXCEPT ![a] = "saving"]
    /\ verdict' = [verdict EXCEPT ![a] = v]
    /\ Recorded(a)
    /\ UNCHANGED <<job, locked, saved, store, world>>

Confirmed(a) == pc[a] = "sent" /\ Answer(a, "done")

\* The provider refuses with an error body: classified "failed".
Rejected(a) == pc[a] = "sending" /\ Answer(a, "failed")

\* The provider has acted, but what it answers (a 5xx, a body without the id of
\* the reply) is classified like a refusal: the row is free as soon as the
\* attempt ends, and nothing protects this delivery any more.
Misjudged(a) ==
    /\ pc[a] = "sent"
    /\ pc' = [pc EXCEPT ![a] = "saving"]
    /\ verdict' = [verdict EXCEPT ![a] = "failed"]
    /\ Recorded(a)
    /\ window' = [window EXCEPT ![K(a)] = 0]
    /\ UNCHANGED <<job, locked, saved, store, delivered>>

\* Mutant of AnswerLost: an interruption is classified as a failure.
AnswerLostFails(a) == pc[a] \in {"sending", "sent"} /\ Answer(a, "failed")

\* Mutant of AnswerLost: an interruption is taken for a success.
AnswerLostDone(a) == pc[a] \in {"sending", "sent"} /\ Answer(a, "done")

\* network_after_send: it is not known whether the provider acted.
AnswerLost(a) == pc[a] \in {"sending", "sent"} /\ Answer(a, "keep")

\* persistStateDurable: never rejects; it stores all of this process's state.
Save(a) ==
    /\ pc[a] = "saving"
    /\ pc' = [pc EXCEPT ![a] = "ending"]
    /\ \/ saved' = history[Home(a)]
       \/ "save" \in Faults /\ saved' = saved
    /\ UNCHANGED <<job, verdict, locked, history, store, world>>

\* Mutant of Finish: a lock of an unsettled operation is kept.
FinishKeepsLock(a) ==
    /\ pc[a] = "ending"
    /\ pc' = [pc EXCEPT ![a] = "idle"]
    /\ status' = [status EXCEPT ![K(a)] =
                     IF verdict[a] = "keep" \/ @ = "none" THEN @ ELSE verdict[a]]
    /\ locked' = locked
    /\ UNCHANGED <<job, verdict, history, saved, left, world>>

\* The finally clause: IDEMPOTENCY_FINISH_SQL updates the row by key, whoever
\* reserved it; null leaves it; an error is swallowed.  Then the lock goes.
Finish(a) ==
    /\ pc[a] = "ending"
    /\ pc' = [pc EXCEPT ![a] = "idle"]
    /\ status' = [status EXCEPT ![K(a)] =
                     IF verdict[a] = "keep" \/ @ = "none" THEN @ ELSE verdict[a]]
    /\ Unlocked(a)
    /\ UNCHANGED <<job, verdict, history, saved, left, world>>

FinishUnavailable(a) ==
    /\ "finish" \in Faults
    /\ pc[a] = "ending"
    /\ pc' = [pc EXCEPT ![a] = "idle"]
    /\ Unlocked(a)
    /\ UNCHANGED <<job, verdict, history, saved, store, world>>

-----------------------------------------------------------------------------
(* The process ends and a new one reads the stored history; time passes.   *)

Restart(p) ==
    /\ pc' = [a \in Attempt |-> IF Home(a) = p THEN "idle" ELSE pc[a]]
    /\ locked' = [locked EXCEPT ![p] = {}]
    /\ history' = [history EXCEPT ![p] = saved]
    /\ UNCHANGED <<job, verdict, saved, store, world>>

Less(f) == [k \in Key |-> IF f[k] = 0 THEN 0 ELSE f[k] - 1]

\* Unless Slow, an attempt ends before its reservation does.
Tick ==
    /\ Slow \/ \A a \in Attempt : Working(a) => left[K(a)] # 1
    /\ left' = Less(left)
    /\ window' = Less(window)
    /\ UNCHANGED <<pc, job, verdict, locked, history, saved, status, delivered>>

Advance(a) ==
    \/ ReserveGranted(a) \/ ReserveRefused(a) \/ ReserveUnavailable(a)
    \/ ReadRefusal(a) \/ ReadUnavailable(a)
    \/ StartSend(a) \/ GuardRefuses(a) \/ LateRefusal(a) \/ AwaitQuota(a)
    \/ Deliver(a) \/ Confirmed(a) \/ Rejected(a) \/ Misjudged(a)
    \/ AnswerLost(a) \/ Save(a) \/ Finish(a) \/ FinishUnavailable(a)

Next ==
    \/ \E a \in Attempt : Begin(a) \/ Advance(a)
    \/ \E p \in Process : Restart(p)
    \/ Tick

Spec == Init /\ [][Next]_vars

\* Every await settles (fetch and query time limits) and the clock runs.
FairSpec == Spec /\ WF_vars(Tick) /\ \A a \in Attempt : WF_vars(Advance(a))

-----------------------------------------------------------------------------
(* Properties.                                                             *)

\* Of all processes, at most one attempt at a time executes an operation.
OneExecutor ==
    \A a, b \in Attempt :
        a # b /\ Working(a) /\ Working(b) => K(a) # K(b)

\* The provider is not asked again for an operation recorded as done.
NeverAfterDone ==
    [][\A a \in Attempt : pc[a] = "sending" /\ pc'[a] = "sent"
         => status[K(a)] # "done"]_vars

\* After a delivery, whatever was lost of it (the answer, the process), no
\* second one happens before the reservation of the first has expired, unless
\* the answer to the first came and was taken for a refusal.
RepeatWaits ==
    [][\A a \in Attempt : pc[a] = "sending" /\ pc'[a] = "sent"
         => window[K(a)] = 0]_vars

\* A done row stays done.
DoneIsFinal ==
    [][\A k \in Key : status[k] = "done" => status'[k] = "done"]_vars

\* A row says done only of an operation the provider has carried out.
DoneMeansDelivered == \A k \in Key : status[k] = "done" => k \in delivered

\* A lock is held by exactly one live attempt of its process, and a process
\* without attempts holds none.
LocksHaveOwners ==
    \A p \in Process : \A k \in Replies :
        LET owners == {a \in Attempt : Home(a) = p /\ pc[a] # "idle" /\ K(a) = k}
        IN Cardinality(owners) = IF k \in locked[p] THEN 1 ELSE 0

\* The same text is recorded at most MaxIdentical times by a process.
IdenticalBounded ==
    \A p \in Process, t \in Text : Repeats(p, t) <= MaxIdentical

\* A reservation does not block for ever: it is settled or becomes stale.
ReservationEnds ==
    \A k \in Key : status[k] = "reserved" ~> (status[k] # "reserved" \/ Free(k))

\* The executors, rows, locks and the clock of all processes together keep
\* the promise of OperationPromise: one executor per operation, nothing
\* carried out outside it, soon after it was (unless its executor disowned
\* that), or once it is settled.
Promise == INSTANCE OperationPromise WITH
    Operation <- Key,
    Executor  <- Attempt,
    executing <- [k \in Key |-> {a \in Attempt : Working(a) /\ K(a) = k}],
    carried   <- delivered,
    settled   <- {k \in Key : status[k] = "done"},
    recent    <- {k \in Key : window[k] > 0}

KeepsPromise == Promise!Spec

\* Every attempt comes to its end and gives its lock back.
AttemptEnds == \A a \in Attempt : pc[a] # "idle" ~> pc[a] = "idle"
=============================================================================
