---------------------------- MODULE AccessControl ----------------------------
(***************************************************************************)
(* How one account is entered and left: a one-time code opens a session    *)
(* (verify-challenge), a logout revokes one, and the owner may change the  *)
(* role or deactivate the account, which ends the sessions issued so far.  *)
(* A session is a signed token that no table holds; what ends it is kept   *)
(* in memory and stored with the rest of the state.                        *)
(*                                                                         *)
(* Codes belong to time windows and none is stored, only the last window   *)
(* that was used.  Login and logout wait for a strict write of their own   *)
(* snapshot (persistCritical); the owner's changes ask for a lazy one.  The*)
(* queue of writes is the one of StatePersistence, reduced to snapshots and*)
(* whose they are.  Signatures, the limits on attempts, preview sessions   *)
(* and the expiry of sessions are left out.                                *)
(***************************************************************************)
EXTENDS Naturals, FiniteSets, Sequences

CONSTANTS
    Request,      \* logins and logouts in progress at once
    MaxWindow,    \* bound on the windows of codes
    MaxSession,   \* bound on the sessions issued
    MaxJobs,      \* bound on the writes that wait
    MaxRestarts   \* bound on the restarts

Window == 1 .. MaxWindow

\* Sessions are numbered in the order in which they are issued.

\* What is stored: the window used last, the sessions revoked one by one, the session
\* up to which all are revoked, and whether the account is active.
Access == [consumed : 0 .. MaxWindow, revoked : SUBSET Nat, epoch : Nat, active : BOOLEAN]

Lazy    == "lazy"
Writing == [by : Request \union {Lazy}, snap : Access, started : BOOLEAN]

Stage == {"idle", "consuming", "opening", "leaving"}
Idle  == [stage |-> "idle", window |-> 0, session |-> 0]

VARIABLES
    now,        \* the window of the present time
    mem,        \* consumedChallengeWindows, revokedSessions, userRevocationEpoch, users
    stored,     \* the same in the store
    queue,      \* persistQueue
    request,    \* logins and logouts in progress
    issued,     \* sessions created
    given,      \* sessions whose token the user has
    opened,     \* how many tokens each window gave
    left,       \* sessions whose logout was answered with success
    restarts

vars == <<now, mem, stored, queue, request, issued, given, opened, left, restarts>>

TypeOK ==
    /\ now \in Window
    /\ mem \in Access /\ stored \in Access
    /\ queue \in Seq(Writing)
    /\ request \in [Request -> [stage : Stage, window : 0 .. MaxWindow, session : Nat]]
    /\ issued \in Nat
    /\ given \subseteq Nat /\ left \subseteq Nat
    /\ opened \in [Window -> Nat]
    /\ restarts \in 0 .. MaxRestarts

Init ==
    /\ now = 1
    /\ mem = [consumed |-> 0, revoked |-> {}, epoch |-> 0, active |-> TRUE]
    /\ stored = mem
    /\ queue = << >>
    /\ request = [r \in Request |-> Idle]
    /\ issued = 0 /\ given = {} /\ left = {}
    /\ opened = [w \in Window |-> 0]
    /\ restarts = 0

History == <<issued, given, opened, left>>

-----------------------------------------------------------------------------
(* The handlers up to their first await.                                   *)

Eager(r, snap) == [by |-> r, snap |-> snap, started |-> FALSE]

Room == Len(queue) < MaxJobs

Pending(r) == request[r].stage \in {"consuming", "opening"}

\* A code that was used is refused only once its use is stored.
VerifyStored(r) ==
    /\ request[r].stage = "idle" /\ Room
    /\ issued + Cardinality({q \in Request : Pending(q)}) < MaxSession
    /\ \E w \in {now, now - 1} \intersect Window :
          /\ w > stored.consumed
          /\ mem' = [mem EXCEPT !.consumed = w]
          /\ request' = [request EXCEPT ![r] =
                            [Idle EXCEPT !.stage = "consuming", !.window = w]]
          /\ queue' = Append(queue, Eager(r, mem'))
    /\ UNCHANGED <<now, stored, History, restarts>>

\* A code of this window or the last, later than the last one used: its window counts
\* as used before anything is awaited.  Every other code is refused.
Verify(r) ==
    /\ request[r].stage = "idle" /\ Room
    /\ issued + Cardinality({q \in Request : Pending(q)}) < MaxSession
    /\ \E w \in {now, now - 1} \intersect Window :
          /\ w > mem.consumed
          /\ mem' = [mem EXCEPT !.consumed = w]
          /\ request' = [request EXCEPT ![r] =
                            [Idle EXCEPT !.stage = "consuming", !.window = w]]
          /\ queue' = Append(queue, Eager(r, mem'))
    /\ UNCHANGED <<now, stored, History, restarts>>

Logout(r) ==
    /\ request[r].stage = "idle" /\ Room
    /\ \E s \in given :
          /\ mem' = [mem EXCEPT !.revoked = @ \union {s}]
          /\ request' = [request EXCEPT ![r] = [Idle EXCEPT !.stage = "leaving", !.session = s]]
          /\ queue' = Append(queue, Eager(r, mem'))
    /\ UNCHANGED <<now, stored, History, restarts>>

\* persistState: joins a lazy job that waits.
PersistState ==
    IF \E i \in 1 .. Len(queue) : queue[i].by = Lazy /\ ~queue[i].started
    THEN UNCHANGED queue
    ELSE Room /\ queue' = Append(queue, Eager(Lazy, mem))

\* A new role ends the sessions; so does deactivation; activation brings none back.
ChangeAccount ==
    /\ \/ mem' = [mem EXCEPT !.epoch = issued]
       \/ mem.active /\ mem' = [mem EXCEPT !.epoch = issued, !.active = FALSE]
       \/ ~mem.active /\ mem' = [mem EXCEPT !.active = TRUE]
    /\ PersistState
    /\ UNCHANGED <<now, stored, request, History, restarts>>

-----------------------------------------------------------------------------
(* The queue of writes, and the handlers after it.                         *)

\* A lazy job takes its snapshot when it starts.
Start ==
    /\ queue # << >> /\ ~Head(queue).started
    /\ queue' = [queue EXCEPT ![1].started = TRUE,
                              ![1].snap = IF queue[1].by = Lazy THEN mem ELSE @]
    /\ UNCHANGED <<now, mem, stored, request, History, restarts>>

\* A session is created after the use of the code is stored, for an account that is
\* active by then; its token is given after a second write.
Opens(r) ==
    IF mem.active
    THEN /\ issued' = issued + 1
         /\ request' = [request EXCEPT ![r].stage = "opening", ![r].session = issued']
         /\ queue' = Append(Tail(queue), Eager(r, mem))
         /\ UNCHANGED <<given, opened, left>>
    ELSE /\ request' = [request EXCEPT ![r] = Idle]
         /\ queue' = Tail(queue)
         /\ UNCHANGED History

Answered(r) ==
    /\ request' = [request EXCEPT ![r] = Idle]
    /\ queue' = Tail(queue)
    /\ UNCHANGED issued
    /\ IF request[r].stage = "opening"
       THEN /\ given' = given \union {request[r].session}
            /\ opened' = [opened EXCEPT ![request[r].window] = @ + 1]
            /\ UNCHANGED left
       ELSE /\ left' = left \union {request[r].session}
            /\ UNCHANGED <<given, opened>>

Resume(r) ==
    IF r = Lazy THEN queue' = Tail(queue) /\ UNCHANGED <<request, History>>
    ELSE IF request[r].stage = "consuming" THEN Opens(r) ELSE Answered(r)

\* What a write leaves in the store: a lazy one does not write the key that has the
\* windows of codes.
Landed(job) ==
    IF job.by = Lazy THEN [job.snap EXCEPT !.consumed = stored.consumed] ELSE job.snap

Commit ==
    /\ queue # << >> /\ Head(queue).started
    /\ stored' = Landed(Head(queue))
    /\ Resume(Head(queue).by)
    /\ UNCHANGED <<now, mem, restarts>>

\* The caller is told 503; memory keeps the change.  A write whose answer was lost may
\* have been carried out.
Fail ==
    /\ queue # << >> /\ Head(queue).started
    /\ stored' \in {stored, Landed(Head(queue))}
    /\ queue' = Tail(queue)
    /\ request' = [r \in Request |-> IF r = Head(queue).by THEN Idle ELSE request[r]]
    /\ UNCHANGED <<now, mem, History, restarts>>

Restart ==
    /\ restarts < MaxRestarts
    /\ restarts' = restarts + 1
    /\ stored' \in {stored} \union {Landed(queue[i]) :
                              i \in {j \in 1 .. Len(queue) : queue[j].started}}
    /\ mem' = stored'
    /\ queue' = << >> /\ request' = [r \in Request |-> Idle]
    /\ UNCHANGED <<now, History>>

NextWindow ==
    /\ now < MaxWindow /\ now' = now + 1
    /\ UNCHANGED <<mem, stored, queue, request, History, restarts>>

Next ==
    \/ \E r \in Request : Verify(r) \/ Logout(r)
    \/ ChangeAccount \/ Start \/ Commit \/ Fail \/ Restart \/ NextWindow

Spec == Init /\ [][Next]_vars

-----------------------------------------------------------------------------
(* Properties.                                                             *)

\* A one-time code opens one session, although the record of its use is in memory, in
\* a queue and in the store at different times: two requests with one code, a write
\* that fails after it was carried out, and a restart between the two writes of a
\* login give no second token (verify-challenge).
CodeOpensOnce == \A w \in Window : opened[w] <= 1

\* authenticateToken.
Accepted(s) == s \in given \ mem.revoked /\ s > mem.epoch /\ mem.active

\* A session whose logout was answered with success is never accepted again, whatever
\* is written by others before and after it, and through restarts (logout).
LogoutHolds == \A s \in left : ~Accepted(s)

\* A token the user has is that of a code whose use is stored: no restart makes the code
\* valid again.
GivenIsStored == \A w \in Window : opened[w] > 0 => stored.consumed >= w

AnswersHold == CodeOpensOnce /\ LogoutHolds /\ GivenIsStored
=============================================================================
