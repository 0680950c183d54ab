----------------------------- MODULE OwnerAlerts ----------------------------
(***************************************************************************)
(* Alerts to the owner by e-mail: events wait in a queue, and a cycle (a   *)
(* timer, or the owner by hand) sends what waits as one digest, at most one*)
(* every 30 minutes.  An event whose key was sent is not queued again.     *)
(* ownerAlertState is replaced as a whole by every operation and saved some*)
(* time later with the control state.  The instant message over Telegram,  *)
(* a second channel without a queue, and the wording are left out; a cycle *)
(* without a configured e-mail provider changes nothing modelled here.     *)
(***************************************************************************)
EXTENDS Naturals, FiniteSets, SequencesExt

CONSTANTS
    Event,        \* keys of events that happen once
    Platform,     \* keys of platforms that lose their connection
    Caller,       \* what may run a cycle: the timer, the route
    MaxPending,   \* OWNER_ALERT_MAX_PENDING
    MaxSent,      \* OWNER_ALERT_MAX_SENT_KEYS
    MaxRestarts   \* bound on the restarts of the run

Key   == Event \union Platform
Seqs(n) == UNION {[1 .. k -> Key] : k \in 0 .. n}
State == [enabled : BOOLEAN, pending : Seqs(MaxPending), sent : Seqs(MaxSent),
          quiet : BOOLEAN]

VARIABLES
    alerts,     \* ownerAlertState; quiet: the 30 minutes are not over
    saved,      \* the same in the store
    cycle,      \* the digest each caller has in flight: none, or its keys
    inFlight,   \* ownerAlertInFlight
    broken,     \* platforms whose connection needs the owner
    mails,      \* e-mails the owner got about an event: none, one or more
    excused,    \* keys of which a mail or its record may have been lost
    late,       \* keys queued while a digest without them was in flight
    cut,        \* keys dropped from the full queue
    restarts

vars == <<alerts, saved, cycle, inFlight, broken, mails, excused, late, cut, restarts>>

TypeOK ==
    /\ alerts \in State /\ saved \in State
    /\ cycle \in [Caller -> {{}} \union {{d} : d \in SUBSET Key}]
    /\ inFlight \in BOOLEAN
    /\ broken \in SUBSET Platform
    /\ mails \in [Key -> 0 .. 2]
    /\ excused \in SUBSET Key /\ late \in SUBSET Key /\ cut \in SUBSET Key
    /\ restarts \in 0 .. MaxRestarts

Init ==
    /\ alerts = [enabled |-> TRUE, pending |-> << >>, sent |-> << >>, quiet |-> FALSE]
    /\ saved = alerts
    /\ cycle = [c \in Caller |-> {}] /\ inFlight = FALSE
    /\ broken = {} /\ mails = [k \in Key |-> 0]
    /\ excused = {} /\ late = {} /\ cut = {} /\ restarts = 0

Newest(s, n) == IF Len(s) <= n THEN s ELSE SubSeq(s, Len(s) - n + 1, Len(s))
Known(a)    == ToSet(a.sent) \union ToSet(a.pending)
OnTheWay    == UNION {UNION cycle[c] : c \in Caller}

-----------------------------------------------------------------------------
(* Events.                                                                 *)

\* enqueueOwnerAlert.
Enqueued(a, k) ==
    IF ~a.enabled \/ k \in Known(a) THEN a
    ELSE [a EXCEPT !.pending = Newest(Append(@, k), MaxPending)]

\* What the queue gained and lost.  A key that is forgotten, or dropped while a mail
\* about it is in flight, may be mailed again.
Queue(a) ==
    LET gained  == ToSet(a.pending) \ ToSet(alerts.pending)
        dropped == ToSet(alerts.pending) \ ToSet(a.pending)
    IN  /\ alerts' = a
        /\ late' = late \union (IF inFlight THEN gained \ OnTheWay ELSE {})
        /\ cut' = (cut \ gained) \union dropped
        /\ excused' = excused \union (dropped \intersect OnTheWay)
                             \union (ToSet(alerts.sent) \ ToSet(a.sent))

\* recordOwnerAlert; the same event may be reported any number of times.
Record(e) ==
    /\ Enqueued(alerts, e) # alerts
    /\ Queue(Enqueued(alerts, e))
    /\ UNCHANGED <<saved, cycle, inFlight, broken, mails, restarts>>

Break(p) ==
    /\ p \notin broken
    /\ broken' = broken \union {p}
    /\ UNCHANGED <<alerts, saved, cycle, inFlight, mails, excused, late, cut, restarts>>

Reconnect(p) ==
    /\ p \in broken
    /\ broken' = broken \ {p}
    /\ UNCHANGED <<alerts, saved, cycle, inFlight, mails, excused, late, cut, restarts>>

\* setOwnerAlertEnabled, then persistCritical, which may fail after the change.
Toggle ==
    /\ alerts' = [alerts EXCEPT !.enabled = ~@]
    /\ saved' \in {saved, alerts'}
    /\ UNCHANGED <<cycle, inFlight, broken, mails, excused, late, cut, restarts>>

\* saveControlState, when its turn comes.
SaveControl ==
    /\ saved # alerts
    /\ saved' = alerts
    /\ UNCHANGED <<alerts, cycle, inFlight, broken, mails, excused, late, cut, restarts>>

WindowEnds ==
    /\ alerts.quiet
    /\ alerts' = [alerts EXCEPT !.quiet = FALSE]
    /\ UNCHANGED <<saved, cycle, inFlight, broken, mails, excused, late, cut, restarts>>

-----------------------------------------------------------------------------
(* runOwnerAlertCycle.                                                     *)

Min2(n) == IF n < 2 THEN n + 1 ELSE n

\* s without keys: SelectSeq, as a function of how much of s is done.
Forget(s, keys) ==
    LET rest[n \in 0 .. Len(s)] ==
          IF n = 0 THEN << >>
          ELSE IF s[n] \in keys THEN rest[n - 1] ELSE Append(rest[n - 1], s[n])
    IN  rest[Len(s)]

\* syncReauthAlerts: the key of a platform that is connected again is forgotten,
\* one event is queued for every platform that is not.
Reauth(a) ==
    IF ~a.enabled THEN a
    ELSE FoldSet(LAMBDA p, b : Enqueued(b, p),
                 [a EXCEPT !.sent = Forget(@, Platform \ broken)], broken)

\* isOwnerAlertDue.
Due(a) == a.enabled /\ a.pending # << >> /\ ~a.quiet

\* Mutant of Free: nothing keeps a second cycle out.
FreeAlways(c) == cycle[c] = {}

\* One cycle at a time.
Free(c) == ~inFlight /\ cycle[c] = {}

\* Up to the await of the e-mail, or to the return when nothing is due.
Cycle(c) ==
    /\ Free(c)
    /\ LET a == Reauth(alerts)
       IN  /\ Queue(a)
           /\ IF Due(a)
              THEN /\ cycle' = [cycle EXCEPT ![c] = {ToSet(a.pending)}]
                   /\ inFlight' = TRUE
              ELSE a # alerts /\ UNCHANGED <<cycle, inFlight>>
    /\ UNCHANGED <<saved, broken, mails, restarts>>

\* Mutant of MarkedSent: the queue is emptied and its keys are not kept.
MarkedSentEmpty == [alerts EXCEPT !.pending = << >>, !.quiet = TRUE]

\* markOwnerAlertSent, "sent": the queue of this moment becomes the keys sent.
MarkedSent ==
    [alerts EXCEPT !.pending = << >>, !.quiet = TRUE,
                   !.sent = Newest(@ \o alerts.pending, MaxSent)]

\* Mutant of MarkedFailed: a mail that fails empties the queue as well.
MarkedFailedEmpty == MarkedSent

\* markOwnerAlertSent, "failed": nothing but the reason of the failure.
MarkedFailed == alerts

\* The oldest keys make room.
Overflown == Len(alerts.sent) + Len(alerts.pending) > MaxSent

Arrive(keys) ==
    mails' = [k \in Key |-> IF k \in keys THEN Min2(mails[k]) ELSE mails[k]]

Sent(c) ==
    /\ cycle[c] # {}
    /\ Arrive(UNION cycle[c])
    /\ alerts' = MarkedSent
    /\ excused' = excused \union
          (IF Overflown THEN Known(alerts) \ Known(MarkedSent) ELSE {})
    /\ cycle' = [cycle EXCEPT ![c] = {}] /\ inFlight' = FALSE
    /\ UNCHANGED <<saved, broken, late, cut, restarts>>

\* Mutant of Released: a cycle that fails does not give the flag back.
ReleasedNot == inFlight

\* The finally of the cycle.
Released == FALSE

\* Declined, or the answer lost on its way back from a mail that arrived.
Failed(c) ==
    /\ cycle[c] # {}
    /\ \/ /\ Arrive(UNION cycle[c])
          /\ excused' = excused \union UNION cycle[c]
       \/ UNCHANGED <<mails, excused>>
    /\ cycle' = [cycle EXCEPT ![c] = {}] /\ inFlight' = Released
    /\ alerts' = MarkedFailed
    /\ UNCHANGED <<saved, broken, late, cut, restarts>>

\* normalizeOwnerAlertState.
Restored == saved

\* Mails in flight may arrive; what was sent or queued after the save is unknown.
Restart ==
    /\ restarts < MaxRestarts
    /\ restarts' = restarts + 1
    /\ alerts' = Restored
    /\ \E keys \in {{}, OnTheWay} : Arrive(keys)
    /\ excused' = excused \union OnTheWay \union (Known(alerts) \ ToSet(saved.sent))
    /\ cut' = cut \union (Known(alerts) \ Known(saved))
    /\ cycle' = [c \in Caller |-> {}] /\ inFlight' = FALSE
    /\ UNCHANGED <<saved, broken, late>>

Next ==
    \/ \E e \in Event : Record(e)
    \/ \E p \in Platform : Break(p) \/ Reconnect(p)
    \/ Toggle \/ SaveControl \/ WindowEnds
    \/ \E c \in Caller : Cycle(c) \/ Sent(c) \/ Failed(c)
    \/ Restart

Fairness ==
    /\ WF_vars(WindowEnds)
    /\ \A c \in Caller :
          /\ WF_vars(Cycle(c))
          /\ WF_vars(Sent(c) \/ Failed(c))
          /\ SF_vars(Sent(c))

Spec == Init /\ [][Next]_vars
FairSpec == Spec /\ Fairness

-----------------------------------------------------------------------------
(* Properties.                                                             *)

\* "The same event is not alerted twice" (ownerAlerts.ts:11), over digests that
\* fail, cycles by hand, repeated reports and restarts: a second mail about it
\* needs a mail or its record to be lost, or its key forgotten.
SecondMailNeedsLoss == \A k \in Key : mails[k] > 1 => k \in excused

\* An event counted as sent was in a mail, or was queued while one was in flight.
MarkedWasMailedOrLate == \A k \in ToSet(alerts.sent) : mails[k] > 0 \/ k \in late

LeavesAsMarked ==
    \A k \in ToSet(alerts.pending) :
        k \in Known(alerts') \/ k \in cut' \/ k \in excused'

\* A queued event leaves the queue only marked as sent, by overflow or by a restart
\* that had not saved it.
LeavesMarked == [][LeavesAsMarked]_vars

InQueue(k) == k \in ToSet(alerts.pending)
Settled(k) == ~InQueue(k) \/ ~alerts.enabled

\* With a provider that delivers now and then, an event in the queue is sent,
\* unless the owner turns the alerts off.
QueueIsSent == \A k \in Key : InQueue(k) ~> Settled(k)

\* The claim of ownerAlerts.ts:10-11: what has accumulated goes into the digest,
\* so an event that counts as sent has been mailed.
SentWasMailed == \A k \in ToSet(alerts.sent) : mails[k] > 0
=============================================================================
