------------------------------- MODULE AiEngine ------------------------------
(***************************************************************************)
(* Requests to the AI provider: the cache, the joining of equal requests,  *)
(* the circuit breaker and the daily budget (AiEngine.run, CircuitBreaker, *)
(* aiUsageGuard).  A request that is refused anywhere is answered with a   *)
(* deterministic text and leaves no trace; one that equals a request in    *)
(* progress shares its answer.                                             *)
(*                                                                         *)
(* A request charges the budget before it asks the provider and gives the  *)
(* charge back if it fails.  The count is saved by writes that nobody waits*)
(* for and that no queue orders.  One call stands for all the models and   *)
(* retries of one request.  A count that belongs to another day reads as 0,*)
(* which is how it is kept here once the day has changed.                  *)
(***************************************************************************)
EXTENDS Naturals, FiniteSets

CONSTANTS
    Key,          \* cache keys
    Caller,       \* requests in progress at once
    Limit,        \* GEMINI_DAILY_LIMIT
    Threshold,    \* failures that open the breaker
    Cooldown,     \* its cooldown, in ticks
    MaxDays,      \* bound on the changes of day
    MaxRestarts   \* bound on the restarts

Idle == [key |-> {}, overnight |-> FALSE]

VARIABLES
    cache,      \* keys with a fresh answer
    call,       \* executions in progress; overnight: charged to a day that is over
    breaker,    \* open, failures, and the ticks left of the cooldown
    used,       \* geminiUsageCount
    saved,      \* the count in the store
    writes,     \* counts on their way to the store
    midnight,   \* the day has changed and no request has noticed
    answered,   \* answers of the provider charged to this day
    uncounted,  \* charges of this day that the count has lost
    days,
    restarts

budget == <<used, saved, writes, midnight, answered, uncounted>>
vars   == <<cache, call, breaker, budget, days, restarts>>

Closed == [open |-> FALSE, failures |-> 0, left |-> 0]
None   == [c \in Caller |-> Idle]

TypeOK ==
    /\ cache \subseteq Key
    /\ call \in [Caller -> [key : SUBSET Key, overnight : BOOLEAN]]
    /\ breaker \in [open : BOOLEAN, failures : 0 .. Threshold, left : 0 .. Cooldown]
    /\ used \in 0 .. Limit /\ saved \in 0 .. Limit
    /\ writes \subseteq 0 .. Limit
    /\ midnight \in BOOLEAN
    /\ answered \in Nat /\ uncounted \in Nat
    /\ days \in 0 .. MaxDays /\ restarts \in 0 .. MaxRestarts

Init ==
    /\ cache = {} /\ call = None /\ breaker = Closed
    /\ used = 0 /\ saved = 0 /\ writes = {} /\ midnight = FALSE
    /\ answered = 0 /\ uncounted = 0
    /\ days = 0 /\ restarts = 0

Busy(c)    == call[c].key # {}
Running(k) == \E c \in Caller : call[c].key = {k}

\* The executions charged to this day.
Charged == {c \in Caller : Busy(c) /\ ~call[c].overnight}
Today   == Cardinality(Charged)

-----------------------------------------------------------------------------
(* The breaker.                                                            *)

\* isOpen also closes a breaker whose cooldown is over; the failures start again.
Refuses == breaker.open /\ breaker.left > 0
Asked   == IF breaker.open /\ breaker.left = 0 THEN Closed ELSE breaker

Failed ==
    LET n == IF breaker.failures < Threshold THEN breaker.failures + 1 ELSE Threshold
    IN  IF n = Threshold
        THEN [open |-> TRUE, failures |-> n, left |-> Cooldown]
        ELSE [breaker EXCEPT !.failures = n]

\* The health page asks the breaker too.
Look ==
    /\ breaker' = Asked
    /\ UNCHANGED <<cache, call, budget, days, restarts>>

Tick ==
    /\ breaker.left > 0
    /\ breaker' = [breaker EXCEPT !.left = @ - 1]
    /\ UNCHANGED <<cache, call, budget, days, restarts>>

-----------------------------------------------------------------------------
(* A request.                                                              *)

\* A request that the breaker turns away counts as a failure of the provider.
TurnedAwayFails(k) ==
    /\ k \notin cache /\ ~Running(k)
    /\ Refuses
    /\ breaker' = Failed
    /\ UNCHANGED <<cache, call, budget, days, restarts>>

\* A request that the breaker turns away changes nothing.
TurnedAway(k) ==
    /\ k \notin cache /\ ~Running(k)
    /\ Refuses
    /\ UNCHANGED vars

SaveUsage(n) == writes' = writes \union {n}

\* rollUsageDayIfNeeded, which every request that reaches the guard begins with: the
\* first one of a day starts the count again.  What is in the store, or on its way
\* there, is of the day before.  n: the count that the guard leaves and saves.
Counted == IF midnight THEN 0 ELSE used
Guarded(n) ==
    /\ used' = n /\ midnight' = FALSE
    /\ IF midnight
       THEN saved' = 0 /\ writes' = {0, n} /\ answered' = 0 /\ uncounted' = 0
       ELSE SaveUsage(n) /\ UNCHANGED <<saved, answered, uncounted>>

Dated(d) == [call[d] EXCEPT !.overnight = @ \/ (Busy(d) /\ midnight)]

\* execute up to the call of the provider.
Begin(c, k) ==
    /\ ~Busy(c) /\ k \notin cache /\ ~Running(k)
    /\ ~Refuses /\ breaker' = Asked
    /\ Counted < Limit /\ Guarded(Counted + 1)
    /\ call' = [d \in Caller |->
                  IF d = c THEN [key |-> {k}, overnight |-> FALSE] ELSE Dated(d)]
    /\ UNCHANGED <<cache, days, restarts>>

\* The guard refuses, at the limit or ahead of the pace of the day.
GuardBlocks(k) ==
    /\ k \notin cache /\ ~Running(k)
    /\ ~Refuses /\ breaker' = Asked
    /\ IF midnight THEN Guarded(0) ELSE UNCHANGED budget
    /\ call' = [d \in Caller |-> Dated(d)]
    /\ UNCHANGED <<cache, days, restarts>>

\* release: the count goes down, whatever day the charge was of.
Release(c) ==
    /\ used' = IF used = 0 THEN 0 ELSE used - 1
    /\ SaveUsage(used')
    /\ uncounted' = IF call[c].overnight /\ used > 0 THEN uncounted + 1 ELSE uncounted

\* The charge is given back on every way out.
SucceedReleases(c) ==
    /\ Busy(c)
    /\ breaker' = Closed
    /\ cache' = cache \union call[c].key
    /\ call' = [call EXCEPT ![c] = Idle]
    /\ answered' = IF call[c].overnight THEN answered ELSE answered + 1
    /\ Release(c)
    /\ UNCHANGED <<saved, midnight, days, restarts>>

Succeed(c) ==
    /\ Busy(c)
    /\ breaker' = Closed
    /\ cache' = cache \union call[c].key
    /\ call' = [call EXCEPT ![c] = Idle]
    /\ answered' = IF call[c].overnight THEN answered ELSE answered + 1
    /\ UNCHANGED <<used, saved, writes, midnight, uncounted, days, restarts>>

Fail(c) ==
    /\ Busy(c)
    /\ breaker' = Failed
    /\ call' = [call EXCEPT ![c] = Idle]
    /\ Release(c)
    /\ UNCHANGED <<cache, saved, midnight, answered, days, restarts>>

Expire(k) ==
    /\ k \in cache /\ cache' = cache \ {k}
    /\ UNCHANGED <<call, breaker, budget, days, restarts>>

-----------------------------------------------------------------------------
(* The store, the day and the process.                                     *)

\* A write of the count lands, or fails without a word.
Settle ==
    /\ \E n \in writes :
          /\ writes' = writes \ {n}
          /\ saved' \in {n, saved}
    /\ UNCHANGED <<cache, call, breaker, used, midnight, answered, uncounted, days, restarts>>

DayChanges ==
    /\ days < MaxDays /\ ~midnight
    /\ days' = days + 1 /\ midnight' = TRUE
    /\ UNCHANGED <<cache, call, breaker, used, saved, writes, answered, uncounted, restarts>>

\* The requests in progress may still be answered.  A process that starts after
\* midnight finds no count of its day.
Restart ==
    /\ restarts < MaxRestarts /\ restarts' = restarts + 1
    /\ cache' = {} /\ call' = None /\ breaker' = Closed
    /\ \E n \in writes \union {saved} :
          LET count == IF midnight THEN 0 ELSE n
              spent == IF midnight THEN 0 ELSE answered + Today
          IN  /\ used' = count /\ saved' = count
              /\ answered' = spent
              /\ uncounted' = IF spent > count THEN spent - count ELSE 0
    /\ writes' = {} /\ midnight' = FALSE
    /\ UNCHANGED days

Step(c) == Succeed(c) \/ Fail(c)

Next ==
    \/ \E c \in Caller : Step(c) \/ \E k \in Key : Begin(c, k)
    \/ \E k \in Key : TurnedAway(k) \/ GuardBlocks(k) \/ Expire(k)
    \/ Look \/ Tick \/ Settle \/ DayChanges \/ Restart

Spec == Init /\ [][Next]_vars

\* The calls end (each has a time limit), and time passes.
Fairness ==
    /\ WF_vars(Tick)
    /\ \A c \in Caller : WF_vars(Step(c))
FairSpec == Spec /\ Fairness

-----------------------------------------------------------------------------
(* Properties.                                                             *)

\* The provider answers no more requests in a day than the limit, but for charges the
\* count has lost: a failure of yesterday's request that takes a charge of today away,
\* and a count that did not reach the store before a restart.  Failures, joined
\* requests and the cache neither charge twice nor give back twice (aiUsageGuard).
BudgetHeld == answered + Today <= Limit + uncounted

\* A breaker that has opened lets requests through again, however many it has turned
\* away meanwhile, and however late the failures that opened it arrive.
BreakerComesBack == Refuses ~> ~Refuses
=============================================================================
