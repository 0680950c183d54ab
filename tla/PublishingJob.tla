---------------------------- MODULE PublishingJob ---------------------------
(***************************************************************************)
(* Automation jobs: created, approved by the owner, made ready by a timer  *)
(* (runSafeJobPreflight), and executed by the owner, the agent or another  *)
(* timer through executeApprovedJob.  An execution reserves the job, and   *)
(* inside it executePlatformPublish reserves the publication; a job for    *)
(* Telegram (Direct) sends the message itself, under the first reservation *)
(* alone.  The state of the jobs is saved some time after it changes.      *)
(*                                                                         *)
(* The store of reservations always answers (ExternalOperation has its     *)
(* failures); "failed" and "pending_quota" are reserved again like none.   *)
(***************************************************************************)
EXTENDS Naturals, FiniteSets

CONSTANTS
    Job,          \* ids of jobs
    Direct,       \* the jobs for Telegram
    Slot,         \* executions in progress at once
    MaxRestarts   \* bound on the restarts of the run

Status == {"none", "queued", "approved", "ready", "executed", "failed"}
Level  == {"job", "publish"}
Stage  == {"idle", "asking", "holding", "sent", "answered", "ending"}

\* job, pub: how the two reservations end; status: what the job becomes.
Outcome == {"done", "free", "keep"}
Work == [stage : Stage, item : SUBSET Job, job : Outcome, pub : Outcome,
         status : {"executed", "failed"}]
Rest == [stage |-> "idle", item |-> {}, job |-> "free", pub |-> "free",
         status |-> "failed"]

VARIABLES
    status,     \* automationJobs
    saved,      \* the same in the store
    task,       \* the executions in progress
    res,        \* durable reservations: the job and its publication
    posts,      \* what the provider has published for the job: none, one, more
    lost,       \* jobs with an execution whose result the records lack or misjudge
    withdrawn,  \* jobs cancelled, saved, and not being executed
    restarts

vars == <<status, saved, task, res, posts, lost, withdrawn, restarts>>

TypeOK ==
    /\ status \in [Job -> Status] /\ saved \in [Job -> Status]
    /\ task \in [Slot -> Work]
    /\ res \in [Job \X Level -> {"free", "reserved", "done"}]
    /\ posts \in [Job -> 0 .. 2]
    /\ lost \in SUBSET Job /\ withdrawn \in SUBSET Job
    /\ restarts \in 0 .. MaxRestarts

Init ==
    /\ status = [j \in Job |-> "none"] /\ saved = status
    /\ task = [s \in Slot |-> Rest]
    /\ res = [key \in Job \X Level |-> "free"]
    /\ posts = [j \in Job |-> 0]
    /\ lost = {} /\ withdrawn = {} /\ restarts = 0

Provider == <<res, posts, lost>>

Executing(j) == \E s \in Slot : j \in task[s].item

-----------------------------------------------------------------------------
(* Decisions.  Only the status changes; it is saved later.                 *)

Decision(j, from, to) ==
    /\ status[j] \in from
    /\ status' = [status EXCEPT ![j] = to]
    /\ withdrawn' = withdrawn \ {j}
    /\ UNCHANGED <<saved, task, Provider, restarts>>

Create(j)  == Decision(j, {"none"}, "queued")
Approve(j) == Decision(j, {"queued"}, "approved")
Cancel(j)  == Decision(j, {"queued", "approved", "ready"}, "failed")
Retry(j)   == Decision(j, {"failed"}, "queued")

\* The tools of the agent do the same from every status.
AgentDecision(j) ==
    \E to \in {"approved", "failed", "queued"} : Decision(j, Status \ {"none"}, to)

\* Mutant of Due: a job that failed is due again.
DueFailed == {j \in Job : status[j] \in {"approved", "failed"}}

Due == {j \in Job : status[j] = "approved"}

\* Those of the approved jobs that are connected, filled in and scheduled by now.
Preflight ==
    /\ \E ready \in SUBSET Due \ {{}} :
          status' = [j \in Job |-> IF j \in ready THEN "ready" ELSE status[j]]
    /\ UNCHANGED <<saved, task, Provider, withdrawn, restarts>>

\* persistState, when its turn comes; from here on a cancelled job at rest counts.
SaveState ==
    /\ saved' = status
    /\ withdrawn' = withdrawn \union
          {j \in Job : status[j] = "failed" /\ ~Executing(j)}
    /\ UNCHANGED <<status, task, Provider, restarts>>

-----------------------------------------------------------------------------
(* executeApprovedJob.                                                     *)

\* The checks before the first await.
Execute(s, j) ==
    /\ task[s] = Rest /\ status[j] = "ready"
    /\ task' = [task EXCEPT ![s].stage = "asking", ![s].item = {j}]
    /\ UNCHANGED <<status, saved, Provider, withdrawn, restarts>>

\* The job is reserved or done: a plain refusal, its status is not touched.
Refused(s, j) ==
    /\ task[s].stage = "asking" /\ j \in task[s].item
    /\ res[<<j, "job">>] # "free"
    /\ task' = [task EXCEPT ![s] = Rest]
    /\ UNCHANGED <<status, saved, Provider, withdrawn, restarts>>

Reserve(s, j) ==
    /\ task[s].stage = "asking" /\ j \in task[s].item
    /\ res[<<j, "job">>] = "free"
    /\ res' = [res EXCEPT ![<<j, "job">>] = "reserved"]
    /\ task' = [task EXCEPT ![s].stage = "holding"]
    /\ UNCHANGED <<status, saved, posts, lost, withdrawn, restarts>>

\* Nothing was sent: a gate of the publication, or its own reservation, said no.
\* A bot without a token or a chat leaves the status as it is.
Blocked(s, j) ==
    /\ task[s].stage = "holding" /\ j \in task[s].item
    /\ \/ status' = [status EXCEPT ![j] = "failed"]
       \/ j \in Direct /\ UNCHANGED status
    /\ task' = [task EXCEPT ![s].stage = "ending", ![s].job = "free"]
    /\ UNCHANGED <<saved, Provider, withdrawn, restarts>>

Send(s, j) ==
    /\ task[s].stage = "holding" /\ j \in task[s].item
    /\ \/ j \in Direct /\ UNCHANGED res
       \/ /\ j \notin Direct /\ res[<<j, "publish">>] = "free"
          /\ res' = [res EXCEPT ![<<j, "publish">>] = "reserved"]
    /\ task' = [task EXCEPT ![s].stage = "sent"]
    /\ UNCHANGED <<status, saved, posts, lost, withdrawn, restarts>>

OneMore(n) == IF n < 2 THEN n + 1 ELSE n

\* The answer decides both reservations and what the job becomes.
Answered(s, j, job, pub, becomes) ==
    /\ task[s].stage = "sent" /\ j \in task[s].item
    /\ task' = [task EXCEPT ![s].stage = "answered", ![s].job = job,
                            ![s].pub = pub, ![s].status = becomes]
    /\ UNCHANGED <<status, saved, res, withdrawn, restarts>>

Published(s, j) ==
    /\ Answered(s, j, "done", "done", "executed")
    /\ posts' = [posts EXCEPT ![j] = OneMore(@)]
    /\ UNCHANGED lost

\* The quota is used up: the job counts as executed, its reservations as free.
QuotaSpent(s, j) ==
    /\ j \notin Direct
    /\ Answered(s, j, "free", "free", "executed")
    /\ UNCHANGED <<posts, lost>>

Declined(s, j) ==
    /\ Answered(s, j, "free", "free", "failed")
    /\ UNCHANGED <<posts, lost>>

\* It is published, but the answer is an error of the server, cannot be read or has no id,
\* or writing it down throws: it counts as a refusal.
Misjudged(s, j) ==
    /\ Answered(s, j, "free", "free", "failed")
    /\ posts' = [posts EXCEPT ![j] = OneMore(@)]
    /\ lost' = lost \union {j}

AnswerLost(s, j) ==
    /\ Answered(s, j, "keep", "keep", "failed")
    /\ \E made \in BOOLEAN :
          posts' = [posts EXCEPT ![j] = IF made THEN OneMore(@) ELSE @]
    /\ lost' = lost \union {j}

\* Mutants of Concluded: a success ends like a failure; a failure is never ended.
ConcludedFree(key, outcome) == IF outcome = "keep" THEN res[key] ELSE "free"
ConcludedHeld(key, outcome) == IF outcome = "done" THEN "done" ELSE res[key]

\* endExternalOperation.
Concluded(key, outcome) == IF outcome = "keep" THEN res[key] ELSE outcome

\* The publication ends; in the same turn the job takes its result, whatever its
\* status has become in the meantime.
EndPublish(s, j) ==
    /\ task[s].stage = "answered" /\ j \in task[s].item
    /\ res' = IF j \in Direct THEN res
              ELSE [res EXCEPT ![<<j, "publish">>] = Concluded(<<j, "publish">>, task[s].pub)]
    /\ status' = [status EXCEPT ![j] = task[s].status]
    /\ task' = [task EXCEPT ![s].stage = "ending"]
    /\ UNCHANGED <<saved, posts, lost, withdrawn, restarts>>

EndJob(s, j) ==
    /\ task[s].stage = "ending" /\ j \in task[s].item
    /\ res' = [res EXCEPT ![<<j, "job">>] = Concluded(<<j, "job">>, task[s].job)]
    /\ task' = [task EXCEPT ![s] = Rest]
    /\ UNCHANGED <<status, saved, posts, lost, withdrawn, restarts>>

\* A reservation outlives the execution that took it, then it is free again.
Expire(key) ==
    /\ res[key] = "reserved" /\ ~Executing(key[1])
    /\ res' = [res EXCEPT ![key] = "free"]
    /\ UNCHANGED <<status, saved, task, posts, lost, withdrawn, restarts>>

-----------------------------------------------------------------------------
\* What is cut off is lost, unless nothing was sent yet.
Cut == {j \in Job : \E s \in Slot :
          j \in task[s].item /\ task[s].stage # "asking"}

Restart ==
    /\ restarts < MaxRestarts
    /\ restarts' = restarts + 1
    /\ status' = saved
    /\ task' = [s \in Slot |-> Rest]
    /\ \E made \in SUBSET {j \in Job : \E s \in Slot :
                             j \in task[s].item /\ task[s].stage = "sent"} :
          posts' = [j \in Job |-> IF j \in made THEN OneMore(posts[j]) ELSE posts[j]]
    /\ lost' = lost \union Cut
    /\ UNCHANGED <<saved, res, withdrawn>>

Deciding ==
    \E j \in Job : Create(j) \/ Approve(j) \/ Cancel(j) \/ Retry(j) \/ AgentDecision(j)

Running(s, j) ==
    \/ Execute(s, j) \/ Refused(s, j) \/ Reserve(s, j) \/ Blocked(s, j) \/ Send(s, j)
    \/ Published(s, j) \/ QuotaSpent(s, j) \/ Declined(s, j)
    \/ Misjudged(s, j) \/ AnswerLost(s, j)
    \/ EndPublish(s, j) \/ EndJob(s, j)

Next ==
    \/ Deciding
    \/ Preflight
    \/ \E s \in Slot, j \in Job : Running(s, j)
    \/ \E key \in Job \X Level : Expire(key)
    \/ SaveState
    \/ Restart

Spec == Init /\ [][Next]_vars

-----------------------------------------------------------------------------
(* Properties.                                                             *)

\* However often a job is retried, approved again or executed at once by the
\* owner, the agent and the timer, it is published once, unless an execution was
\* cut off, lost its answer or took it for a refusal.
SecondPostNeedsLoss == \A j \in Job : posts[j] > 1 => j \in lost

\* A job that failed or was cancelled, with nothing executing it and the store
\* up to date, is not executed again before somebody decides it anew.
CancelledStays ==
    \A j \in withdrawn : status[j] = "failed" /\ saved[j] = "failed" /\ ~Executing(j)

\* The two nested reservations of a job end together: a job that was never
\* published, has lost no answer and is not being executed finds both free, so a
\* retry is not refused as a duplicate.
RetryFindsFree ==
    \A j \in Job :
       (posts[j] = 0 /\ j \notin lost /\ ~Executing(j))
          => \A level \in Level : res[<<j, level>>] = "free"
=============================================================================
