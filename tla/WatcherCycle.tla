---------------------------- MODULE WatcherCycle ----------------------------
(***************************************************************************)
(* The polling cycles of the server and their durable lease: the YouTube   *)
(* watcher, and the Meta, Telegram and commercial ones, which have neither *)
(* the running flag nor the persisted claim.                               *)
(*                                                                         *)
(* A call is one invocation of a cycle (timer, manual route, self-healing) *)
(* or of a route that only saves the watcher's state.  A step is the code  *)
(* between two awaits.  Leases carry the ticks they have left.  The lease  *)
(* is read from the database only when a process boots.                    *)
(***************************************************************************)
EXTENDS Naturals, FiniteSets

CONSTANTS
    Process,      \* server processes alive together
    Slot,         \* concurrent calls of a process
    Comment,      \* comments the provider lists
    TTL,          \* WATCHER_LEASE_TTL_MS and its siblings, in ticks
    Budget,       \* comments decided by one cycle at most
    Slow,         \* TRUE: a cycle may outlive its lease
    MaxRestarts   \* bound on the restarts of the run

ASSUME CycleAssumption ==
    /\ TTL \in Nat \ {0} /\ Budget \in Nat \ {0} /\ MaxRestarts \in Nat
    /\ Slow \in BOOLEAN

Call == Process \X Slot
Home(c) == c[1]
Holder == {"none", "mine", "other"}
Lease  == [holder : Holder, left : 0 .. TTL]
Image  == [held : BOOLEAN, left : 0 .. TTL, decided : SUBSET Comment]
Stage  == {"idle", "claiming", "working", "deciding", "saving", "reporting",
           "releasing", "route"}

VARIABLES
    kind,      \* the watcher of this behaviour: "youtube" or another one
    stage,     \* of each call
    subject,   \* the comment a call is deciding, if any
    count,     \* comments the call has decided
    running,   \* watcherRunning
    lease,     \* watcherLease, metaPollingLease, ... in memory
    decided,   \* commentIds of the processed list
    image,     \* the state a call is writing, if any
    memo,      \* watcherWriteMemos: the significant part of the last write
    db,        \* the watcher's key in the database
    restarts

vars == <<kind, stage, subject, count, running, lease, decided, image, memo, db, restarts>>
cycle == <<subject, count>>

InCycle(c) == stage[c] \in {"claiming", "working", "deciding", "saving", "reporting"}
Free == [holder |-> "none", left |-> 0]

TypeOK ==
    /\ kind \in {"youtube", "other"}
    /\ stage \in [Call -> Stage]
    /\ subject \in [Call -> SUBSET Comment]
    /\ count \in [Call -> 0 .. Budget]
    /\ running \in [Process -> BOOLEAN]
    /\ lease \in [Process -> Lease]
    /\ decided \in [Process -> SUBSET Comment]
    /\ image \in [Call -> SUBSET Image]
    /\ memo \in [Process -> SUBSET [held : BOOLEAN, decided : SUBSET Comment]]
    /\ db \in Image
    /\ restarts \in 0 .. MaxRestarts

Init ==
    /\ kind \in {"youtube", "other"}
    /\ stage = [c \in Call |-> "idle"]
    /\ subject = [c \in Call |-> {}]
    /\ count = [c \in Call |-> 0]
    /\ running = [p \in Process |-> FALSE]
    /\ lease = [p \in Process |-> Free]
    /\ decided = [p \in Process |-> {}]
    /\ image = [c \in Call |-> {}]
    /\ memo = [p \in Process |-> {}]
    /\ db = [held |-> FALSE, left |-> 0, decided |-> {}]
    /\ restarts = 0

-----------------------------------------------------------------------------
(* Saving the watcher's state.                                             *)

Snapshot(l, d) == [held |-> l.holder # "none", left |-> l.left, decided |-> d]
Significant(i) == [held |-> i.held, decided |-> i.decided]

\* The write of call c begins with lease l and decisions d.  If nothing but
\* bookkeeping has changed since the last write, it is left out (the code lets
\* one through every half hour, which only renews the lease's time).
BeginSave(c, l, d) ==
    LET s == Snapshot(l, d)
    IN image' = [image EXCEPT ![c] =
                     IF Significant(s) \in memo[Home(c)] THEN {} ELSE {s}]

\* The write settles: committed, or failed (the error is swallowed).
Settle(c) ==
    \/ \E i \in image[c] :
         /\ db' = i
         /\ memo' = [memo EXCEPT ![Home(c)] = {Significant(i)}]
    \/ UNCHANGED <<db, memo>>

EndSave(c) == Settle(c) /\ image' = [image EXCEPT ![c] = {}]

-----------------------------------------------------------------------------
(* One cycle.                                                              *)

\* Mutant of Stale: an expired lease of somebody else is respected for ever.
StaleOnlyMine(l) == l.holder = "mine" /\ l.left = 0

\* isLeaseStale: the time of the lease is over.
Stale(l) == l.holder # "none" /\ l.left = 0

Acquirable(p) == lease[p].holder = "none" \/ Stale(lease[p])

\* Mutant of Start: the flag is left to the end of the first await.
StartFlagsLate(c) ==
    LET p == Home(c) taken == [holder |-> "mine", left |-> TTL]
    IN /\ stage[c] = "idle" /\ Acquirable(p)
       /\ lease' = [lease EXCEPT ![p] = taken]
       /\ stage' = [stage EXCEPT ![c] = IF kind = "youtube" THEN "claiming" ELSE "working"]
       /\ IF kind = "youtube" THEN BeginSave(c, taken, decided[p]) ELSE image' = image
       /\ UNCHANGED <<kind, cycle, running, decided, memo, db, restarts>>

\* The lease is taken in memory; the YouTube watcher also raises its flag and
\* saves the claim before any work.
Start(c) ==
    LET p == Home(c) taken == [holder |-> "mine", left |-> TTL]
    IN /\ stage[c] = "idle" /\ Acquirable(p)
       /\ lease' = [lease EXCEPT ![p] = taken]
       /\ IF kind = "youtube"
          THEN /\ ~running[p]
               /\ running' = [running EXCEPT ![p] = TRUE]
               /\ stage' = [stage EXCEPT ![c] = "claiming"]
               /\ BeginSave(c, taken, decided[p])
          ELSE /\ stage' = [stage EXCEPT ![c] = "working"]
               /\ UNCHANGED <<running, image>>
       /\ UNCHANGED <<kind, cycle, decided, memo, db, restarts>>

Claimed(c) ==
    /\ stage[c] = "claiming"
    /\ stage' = [stage EXCEPT ![c] = "working"]
    /\ EndSave(c)
    /\ UNCHANGED <<kind, cycle, running, lease, decided, restarts>>

\* The next listed comment without a decision goes to the team session and,
\* if it is to be answered, to the executor.
Consider(c) ==
    /\ stage[c] = "working" /\ count[c] < Budget
    /\ \E x \in Comment \ decided[Home(c)] : subject' = [subject EXCEPT ![c] = {x}]
    /\ stage' = [stage EXCEPT ![c] = "deciding"]
    /\ UNCHANGED <<kind, count, running, lease, decided, image, memo, db, restarts>>

\* The decision, whatever it is, is put on the processed list; only the
\* YouTube watcher saves after each one.
Decide(c) ==
    LET d == decided[Home(c)] \union subject[c]
    IN /\ stage[c] = "deciding"
       /\ decided' = [decided EXCEPT ![Home(c)] = d]
       /\ count' = [count EXCEPT ![c] = @ + 1]
       /\ IF kind = "youtube"
          THEN /\ stage' = [stage EXCEPT ![c] = "saving"]
               /\ BeginSave(c, lease[Home(c)], d)
          ELSE /\ stage' = [stage EXCEPT ![c] = "working"]
               /\ UNCHANGED image
       /\ subject' = [subject EXCEPT ![c] = {}]
       /\ UNCHANGED <<kind, running, lease, memo, db, restarts>>

Saved(c) ==
    /\ stage[c] = "saving"
    /\ stage' = [stage EXCEPT ![c] = "working"]
    /\ EndSave(c)
    /\ UNCHANGED <<kind, cycle, running, lease, decided, restarts>>

\* The list is done, a gate or the provider refuses, or the code throws: the
\* cycle saves what it has and returns.
Conclude(c) ==
    /\ stage[c] \in {"working", "deciding"}
    /\ stage' = [stage EXCEPT ![c] = "reporting"]
    /\ BeginSave(c, lease[Home(c)], decided[Home(c)])
    /\ subject' = [subject EXCEPT ![c] = {}]
    /\ count' = [count EXCEPT ![c] = 0]
    /\ UNCHANGED <<kind, running, lease, decided, memo, db, restarts>>

\* Mutant of Finally: the flag is not lowered.
FinallyKeepsFlag(c) ==
    LET p == Home(c) rest == IF lease[p].holder = "mine" THEN Free ELSE lease[p]
    IN /\ stage[c] = "reporting"
       /\ Settle(c)
       /\ running' = running
       /\ lease' = [lease EXCEPT ![p] = IF kind = "youtube" THEN rest ELSE Free]
       /\ stage' = [stage EXCEPT ![c] = IF kind = "youtube" THEN "releasing" ELSE "idle"]
       /\ IF kind = "youtube" THEN BeginSave(c, rest, decided[p]) ELSE image' = [image EXCEPT ![c] = {}]
       /\ UNCHANGED <<kind, cycle, decided, restarts>>

\* The finally clause, in the turn in which the last save settles.  The
\* YouTube watcher lowers its flag, gives up the lease if it owns it and saves
\* that; the others clear the lease whoever holds it.
Finally(c) ==
    LET p == Home(c) rest == IF lease[p].holder = "mine" THEN Free ELSE lease[p]
    IN /\ stage[c] = "reporting"
       /\ Settle(c)
       /\ IF kind = "youtube"
          THEN /\ running' = [running EXCEPT ![p] = FALSE]
               /\ lease' = [lease EXCEPT ![p] = rest]
               /\ stage' = [stage EXCEPT ![c] = "releasing"]
               /\ BeginSave(c, rest, decided[p])
          ELSE /\ lease' = [lease EXCEPT ![p] = Free]
               /\ stage' = [stage EXCEPT ![c] = "idle"]
               /\ image' = [image EXCEPT ![c] = {}]
               /\ UNCHANGED running
       /\ UNCHANGED <<kind, cycle, decided, restarts>>

Released(c) ==
    /\ stage[c] = "releasing"
    /\ stage' = [stage EXCEPT ![c] = "idle"]
    /\ EndSave(c)
    /\ UNCHANGED <<kind, cycle, running, lease, decided, restarts>>

-----------------------------------------------------------------------------
(* Other writers of the key, the end of a process, and time.               *)

RouteSave(c) ==
    /\ stage[c] = "idle"
    /\ stage' = [stage EXCEPT ![c] = "route"]
    /\ BeginSave(c, lease[Home(c)], decided[Home(c)])
    /\ UNCHANGED <<kind, cycle, running, lease, decided, memo, db, restarts>>

RouteSaved(c) ==
    /\ stage[c] = "route"
    /\ stage' = [stage EXCEPT ![c] = "idle"]
    /\ EndSave(c)
    /\ UNCHANGED <<kind, cycle, running, lease, decided, restarts>>

\* A process ends and the next one boots.  A write under way may still commit;
\* an orderly shutdown forces one more in which its own lease is given up.
\* The lease read at boot always carries another owner's name.
Restart(p) ==
    LET mine == {c \in Call : Home(c) = p}
        rest == IF lease[p].holder = "mine" THEN Free ELSE lease[p]
    IN /\ restarts < MaxRestarts
       /\ restarts' = restarts + 1
       /\ db' \in {db, Snapshot(rest, decided[p])} \union UNION {image[c] : c \in mine}
       /\ stage' = [c \in Call |-> IF c \in mine THEN "idle" ELSE stage[c]]
       /\ image' = [c \in Call |-> IF c \in mine THEN {} ELSE image[c]]
       /\ running' = [running EXCEPT ![p] = FALSE]
       /\ lease' = [lease EXCEPT ![p] =
                      IF db'.held THEN [holder |-> "other", left |-> db'.left] ELSE Free]
       /\ decided' = [decided EXCEPT ![p] = db'.decided]
       /\ memo' = [memo EXCEPT ![p] = {}]
       /\ subject' = [c \in Call |-> IF c \in mine THEN {} ELSE subject[c]]
       /\ count' = [c \in Call |-> IF c \in mine THEN 0 ELSE count[c]]
       /\ kind' = kind

Less(n) == IF n = 0 THEN 0 ELSE n - 1
Older(i) == [i EXCEPT !.left = Less(@)]

\* Unless Slow, a cycle ends before the lease it took.
Tick ==
    /\ Slow \/ \A c \in Call : InCycle(c) => lease[Home(c)].left > 1
    /\ lease' = [p \in Process |-> Older(lease[p])]
    /\ db' = Older(db)
    /\ image' = [c \in Call |-> {Older(i) : i \in image[c]}]
    /\ UNCHANGED <<kind, stage, cycle, running, decided, memo, restarts>>

Advance(c) ==
    \/ Claimed(c) \/ Consider(c) \/ Decide(c) \/ Saved(c) \/ Conclude(c)
    \/ Finally(c) \/ Released(c) \/ RouteSaved(c)

Next ==
    \/ \E c \in Call : Start(c) \/ Advance(c) \/ RouteSave(c)
    \/ \E p \in Process : Restart(p)
    \/ Tick

Spec == Init /\ [][Next]_vars

\* The timer of a process keeps starting cycles (setInterval), every await
\* settles, the clock runs, and a provider asked again and again answers in the
\* end, so that some cycle gets to its next comment and through it.
FairSpec ==
    /\ Spec
    /\ WF_vars(Tick)
    /\ \A c \in Call : WF_vars(Advance(c))
    /\ \A p \in Process :
         /\ SF_vars(\E s \in Slot : Start(<<p, s>>))
         /\ SF_vars(\E s \in Slot : Consider(<<p, s>>))
         /\ SF_vars(\E s \in Slot : Decide(<<p, s>>))

-----------------------------------------------------------------------------
(* Properties.                                                             *)

\* A process never runs two cycles of a watcher at once: the YouTube watcher
\* because of its flag, the others as long as a cycle is shorter than its lease.
OneCyclePerProcess ==
    kind = "youtube" \/ ~Slow =>
        \A c, d \in Call :
            Home(c) = Home(d) /\ InCycle(c) /\ InCycle(d) => c = d

\* No two processes are past the claim of a YouTube cycle at once.
OneCycle ==
    LET past == {"working", "deciding", "saving", "reporting"}
    IN kind = "youtube" =>
           \A c, d \in Call : stage[c] \in past /\ stage[d] \in past => c = d

\* The lease a dead process left behind never stops the watcher for good.
LeaseRecovered ==
    \A p \in Process : lease[p].holder = "other" ~> lease[p].holder # "other"

\* Interruptions lose no comment: in the end each one is decided for good.
EveryCommentDecided ==
    \A p \in Process, x \in Comment : <>[](x \in decided[p])
=============================================================================
