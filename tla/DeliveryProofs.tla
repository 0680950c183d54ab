-------------------------- MODULE DeliveryProofs ---------------------------
(***************************************************************************)
(* Machine-checked theorems about what goes out through reservations, for  *)
(* every value of the constants: the automation jobs (PublishingJob), the  *)
(* replies that wait for the owner (OutboundApproval) and the content      *)
(* queue (ContentQueue).  One module for the three, each with an instance  *)
(* of its component; what belongs to one begins with the name of its       *)
(* instance.                                                               *)
(***************************************************************************)
EXTENDS Naturals, FiniteSets, TLAPS

CONSTANTS Job, Direct, JobSlot, JobRestarts, Target, Text, Capacity, MaxDrafts, MaxRows,
          SaveResults, MaxSnapshots, Slot, MaxRestarts, Item, Timer, Timed, MaxVersion,
          QueueSlot, QueueSaves, QueueSnapshots, QueueRestarts

VARIABLES status, saved, task, res, posts, lost, withdrawn, restarts, rows, drafts,
          preparing, history, replies, got, asked, refused, made, queue, due, keys,
          savedKeys, videos, decided

Jobs == INSTANCE PublishingJob WITH Slot <- JobSlot, MaxRestarts <- JobRestarts
Replies == INSTANCE OutboundApproval
Queue == INSTANCE ContentQueue WITH
    Slot <- QueueSlot, SaveResults <- QueueSaves, MaxSnapshots <- QueueSnapshots,
    MaxRestarts <- QueueRestarts

-----------------------------------------------------------------------------
(* The automation jobs (PublishingJob).                                    *)

JobsParameters == JobRestarts \in Nat

JobsMark == {"free", "reserved", "done"}

-----------------------------------------------------------------------------
(* Typing lemmas.                                                           *)

LEMMA JobsRestType == Jobs!Rest \in Jobs!Work
BY DEF Jobs!Rest, Jobs!Work, Jobs!Stage, Jobs!Outcome

LEMMA JobsWorkUpdates ==
    ASSUME NEW w \in Jobs!Work, NEW stage \in Jobs!Stage
    PROVE  /\ [w EXCEPT !.stage = stage] \in Jobs!Work
           /\ \A job \in Jobs!Outcome : [w EXCEPT !.stage = stage, !.job = job] \in Jobs!Work
           /\ \A job \in Jobs!Outcome, pub \in Jobs!Outcome, st \in {"executed", "failed"} :
                 [w EXCEPT !.stage = stage, !.job = job, !.pub = pub, !.status = st] \in Jobs!Work
           /\ \A item \in SUBSET Job : [w EXCEPT !.stage = stage, !.item = item] \in Jobs!Work
BY DEF Jobs!Work

LEMMA JobsOneMoreType == ASSUME NEW n \in 0 .. 2 PROVE Jobs!OneMore(n) \in 1 .. 2
BY DEF Jobs!OneMore

LEMMA JobsConcludedType ==
    ASSUME Jobs!TypeOK, NEW key \in Job \X Jobs!Level, NEW outcome \in Jobs!Outcome
    PROVE  Jobs!Concluded(key, outcome) \in JobsMark
BY DEF Jobs!TypeOK, Jobs!Concluded, Jobs!Outcome, JobsMark

LEMMA JobsDecidingType ==
    ASSUME Jobs!TypeOK, Jobs!Deciding
    PROVE  Jobs!TypeOK'
<1>1. ASSUME NEW j \in Job, NEW from \in SUBSET Jobs!Status, NEW to \in Jobs!Status,
             Jobs!Decision(j, from, to)
      PROVE  Jobs!TypeOK'
  BY <1>1 DEF Jobs!Decision, Jobs!TypeOK, Jobs!Provider
<1>2. PICK j \in Job :
         Jobs!Create(j) \/ Jobs!Approve(j) \/ Jobs!Cancel(j) \/ Jobs!Retry(j) \/ Jobs!AgentDecision(j)
  BY DEF Jobs!Deciding
<1>3. /\ {"none"} \subseteq Jobs!Status /\ {"queued"} \subseteq Jobs!Status /\ {"failed"} \subseteq Jobs!Status
      /\ {"queued", "approved", "ready"} \subseteq Jobs!Status
      /\ Jobs!Status \ {"none"} \subseteq Jobs!Status /\ {"approved", "failed", "queued"} \subseteq Jobs!Status
      /\ "queued" \in Jobs!Status /\ "approved" \in Jobs!Status /\ "failed" \in Jobs!Status
  BY DEF Jobs!Status
<1>4. CASE Jobs!AgentDecision(j)
  <2>1. PICK to \in {"approved", "failed", "queued"} : Jobs!Decision(j, Jobs!Status \ {"none"}, to)
    BY <1>4 DEF Jobs!AgentDecision
  <2> QED BY <1>1, <1>3, <2>1
<1> QED BY <1>1, <1>2, <1>3, <1>4 DEF Jobs!Create, Jobs!Approve, Jobs!Cancel, Jobs!Retry

LEMMA JobsRunningType ==
    ASSUME Jobs!TypeOK, NEW s \in JobSlot, NEW j \in Job, Jobs!Running(s, j)
    PROVE  Jobs!TypeOK'
<1>t. /\ task[s] \in Jobs!Work /\ task \in [JobSlot -> Jobs!Work] /\ posts[j] \in 0 .. 2
      /\ status \in [Job -> Jobs!Status] /\ res \in [Job \X Jobs!Level -> JobsMark]
      /\ posts \in [Job -> 0 .. 2]
      /\ <<j, "job">> \in Job \X Jobs!Level /\ <<j, "publish">> \in Job \X Jobs!Level
  BY DEF Jobs!TypeOK, Jobs!Level, JobsMark
<1>s. /\ {"idle", "asking", "holding", "sent", "answered", "ending"} \subseteq Jobs!Stage
      /\ "executed" \in Jobs!Status /\ "failed" \in Jobs!Status
      /\ {"done", "free", "keep"} \subseteq Jobs!Outcome
      /\ {"free", "reserved", "done"} \subseteq JobsMark
  BY DEF Jobs!Stage, Jobs!Status, Jobs!Outcome, JobsMark
<1>1. CASE Jobs!Execute(s, j)
  <2>1. task' = [task EXCEPT ![s] = [task[s] EXCEPT !.stage = "asking", !.item = {j}]]
    BY <1>1, <1>t DEF Jobs!Execute
  <2>2. [task[s] EXCEPT !.stage = "asking", !.item = {j}] \in Jobs!Work
    BY <1>t, <1>s, JobsWorkUpdates
  <2>3. task' \in [JobSlot -> Jobs!Work]
    BY <1>t, <2>1, <2>2
  <2> QED BY <1>1, <2>3 DEF Jobs!Execute, Jobs!TypeOK, Jobs!Provider
<1>2. CASE Jobs!Refused(s, j)
  BY <1>2, <1>t, JobsRestType DEF Jobs!Refused, Jobs!TypeOK, Jobs!Provider
<1>3. CASE Jobs!Reserve(s, j)
  <2>1. task' \in [JobSlot -> Jobs!Work]
    <3>1. [task[s] EXCEPT !.stage = "holding"] \in Jobs!Work
      BY <1>t, <1>s, JobsWorkUpdates
    <3> QED BY <1>3, <1>t, <3>1 DEF Jobs!Reserve
  <2>2. res' \in [Job \X Jobs!Level -> JobsMark]
    BY <1>3, <1>t, <1>s DEF Jobs!Reserve
  <2> QED BY <1>3, <2>1, <2>2 DEF Jobs!Reserve, Jobs!TypeOK, JobsMark
<1>4. CASE Jobs!Blocked(s, j)
  <2>1. task' \in [JobSlot -> Jobs!Work]
    <3>1. [task[s] EXCEPT !.stage = "ending", !.job = "free"] \in Jobs!Work
      BY <1>t, <1>s, JobsWorkUpdates
    <3> QED BY <1>4, <1>t, <3>1 DEF Jobs!Blocked
  <2>2. status' \in [Job -> Jobs!Status]
    BY <1>4, <1>t, <1>s DEF Jobs!Blocked
  <2> QED BY <1>4, <2>1, <2>2 DEF Jobs!Blocked, Jobs!TypeOK, Jobs!Provider
<1>5. CASE Jobs!Send(s, j)
  <2>1. task' \in [JobSlot -> Jobs!Work]
    <3>1. [task[s] EXCEPT !.stage = "sent"] \in Jobs!Work
      BY <1>t, <1>s, JobsWorkUpdates
    <3> QED BY <1>5, <1>t, <3>1 DEF Jobs!Send
  <2>2. res' \in [Job \X Jobs!Level -> JobsMark]
    BY <1>5, <1>t, <1>s DEF Jobs!Send
  <2> QED BY <1>5, <2>1, <2>2 DEF Jobs!Send, Jobs!TypeOK, JobsMark
<1>6. ASSUME NEW job \in Jobs!Outcome, NEW pub \in Jobs!Outcome, NEW st \in {"executed", "failed"},
             Jobs!Answered(s, j, job, pub, st), posts' \in [Job -> 0 .. 2], lost' \in SUBSET Job
      PROVE  Jobs!TypeOK'
  <2>1. [task[s] EXCEPT !.stage = "answered", !.job = job, !.pub = pub, !.status = st] \in Jobs!Work
    BY <1>t, <1>s, JobsWorkUpdates
  <2>2. task' \in [JobSlot -> Jobs!Work]
    BY <1>6, <1>t, <2>1 DEF Jobs!Answered
  <2> QED BY <1>6, <2>2 DEF Jobs!Answered, Jobs!TypeOK
<1>7. [posts EXCEPT ![j] = Jobs!OneMore(@)] \in [Job -> 0 .. 2]
  <2>1. Jobs!OneMore(posts[j]) \in 0 .. 2
    BY <1>t, JobsOneMoreType
  <2> QED BY <1>t, <2>1
<1>8. CASE Jobs!Published(s, j)
  BY <1>6, <1>7, <1>8, <1>s DEF Jobs!Published, Jobs!TypeOK
<1>14. CASE Jobs!Misjudged(s, j)
  <2>1. lost' \in SUBSET Job
    BY <1>14 DEF Jobs!Misjudged, Jobs!TypeOK
  <2> QED BY <1>6, <1>7, <1>14, <1>s, <2>1 DEF Jobs!Misjudged
<1>9. CASE Jobs!QuotaSpent(s, j) \/ Jobs!Declined(s, j)
  BY <1>6, <1>9, <1>s DEF Jobs!QuotaSpent, Jobs!Declined, Jobs!TypeOK
<1>10. CASE Jobs!AnswerLost(s, j)
  <2>1. posts' \in [Job -> 0 .. 2]
    <3>1. PICK oneMore \in BOOLEAN :
            posts' = [posts EXCEPT ![j] = IF oneMore THEN Jobs!OneMore(@) ELSE @]
      BY <1>10 DEF Jobs!AnswerLost
    <3>2. CASE oneMore
      BY <1>7, <3>1, <3>2
    <3>3. CASE ~oneMore
      BY <1>t, <3>1, <3>3
    <3> QED BY <3>2, <3>3
  <2>2. lost' \in SUBSET Job
    BY <1>10 DEF Jobs!AnswerLost, Jobs!TypeOK
  <2> QED BY <1>6, <1>10, <1>s, <2>1, <2>2 DEF Jobs!AnswerLost
<1>11. CASE Jobs!EndPublish(s, j)
  <2>1. task' \in [JobSlot -> Jobs!Work]
    <3>1. [task[s] EXCEPT !.stage = "ending"] \in Jobs!Work
      BY <1>t, <1>s, JobsWorkUpdates
    <3> QED BY <1>11, <1>t, <3>1 DEF Jobs!EndPublish
  <2>2. Jobs!Concluded(<<j, "publish">>, task[s].pub) \in JobsMark
    BY <1>t, JobsConcludedType DEF Jobs!Work
  <2>3. res' \in [Job \X Jobs!Level -> JobsMark]
    BY <1>11, <1>t, <2>2 DEF Jobs!EndPublish
  <2>4. task[s].status \in Jobs!Status
    BY <1>t, <1>s DEF Jobs!Work
  <2>5. status' \in [Job -> Jobs!Status]
    BY <1>11, <1>t, <2>4 DEF Jobs!EndPublish
  <2> QED BY <1>11, <2>1, <2>3, <2>5 DEF Jobs!EndPublish, Jobs!TypeOK, JobsMark
<1>12. CASE Jobs!EndJob(s, j)
  <2>1. Jobs!Concluded(<<j, "job">>, task[s].job) \in JobsMark
    BY <1>t, JobsConcludedType DEF Jobs!Work
  <2>2. res' \in [Job \X Jobs!Level -> JobsMark]
    BY <1>12, <1>t, <2>1 DEF Jobs!EndJob
  <2>3. task' \in [JobSlot -> Jobs!Work]
    BY <1>12, <1>t, JobsRestType DEF Jobs!EndJob
  <2> QED BY <1>12, <2>2, <2>3 DEF Jobs!EndJob, Jobs!TypeOK, JobsMark
<1> QED BY <1>1, <1>2, <1>3, <1>4, <1>5, <1>8, <1>9, <1>10, <1>11, <1>12, <1>14
        DEF Jobs!Running

LEMMA JobsTypeStep ==
    ASSUME JobsParameters, Jobs!TypeOK, [Jobs!Next]_(Jobs!vars)
    PROVE  Jobs!TypeOK'
<1>1. CASE Jobs!Preflight
  <2>1. PICK ready \in SUBSET Jobs!Due \ {{}} :
          status' = [j \in Job |-> IF j \in ready THEN "ready" ELSE status[j]]
    BY <1>1 DEF Jobs!Preflight
  <2>2. status' \in [Job -> Jobs!Status]
    BY <2>1 DEF Jobs!TypeOK, Jobs!Status
  <2> QED BY <1>1, <2>2 DEF Jobs!Preflight, Jobs!TypeOK, Jobs!Provider
<1>2. ASSUME NEW key \in Job \X Jobs!Level, Jobs!Expire(key) PROVE Jobs!TypeOK'
  BY <1>2 DEF Jobs!Expire, Jobs!TypeOK
<1>3. CASE Jobs!SaveState
  BY <1>3 DEF Jobs!SaveState, Jobs!TypeOK, Jobs!Provider
<1>4. CASE Jobs!Restart
  <2>1. PICK oneMore \in SUBSET {j \in Job : \E s \in JobSlot :
                                 j \in task[s].item /\ task[s].stage = "sent"} :
          posts' = [j \in Job |-> IF j \in oneMore THEN Jobs!OneMore(posts[j]) ELSE posts[j]]
    BY <1>4 DEF Jobs!Restart
  <2>2. \A j \in Job : Jobs!OneMore(posts[j]) \in 0 .. 2 /\ posts[j] \in 0 .. 2
    BY JobsOneMoreType DEF Jobs!TypeOK
  <2>3. posts' \in [Job -> 0 .. 2]
    BY <2>1, <2>2
  <2>4. task' \in [JobSlot -> Jobs!Work]
    BY <1>4, JobsRestType DEF Jobs!Restart
  <2>5. lost' \in SUBSET Job
    BY <1>4 DEF Jobs!Restart, Jobs!Cut, Jobs!TypeOK
  <2>6. restarts' \in 0 .. JobRestarts
    BY <1>4 DEF Jobs!Restart, Jobs!TypeOK, JobsParameters
  <2> QED BY <1>4, <2>3, <2>4, <2>5, <2>6 DEF Jobs!Restart, Jobs!TypeOK
<1>5. CASE UNCHANGED Jobs!vars
  BY <1>5 DEF Jobs!vars, Jobs!TypeOK
<1> QED BY <1>1, <1>2, <1>3, <1>4, <1>5, JobsDecidingType, JobsRunningType DEF Jobs!Next

LEMMA JobsTypeInit == ASSUME JobsParameters, Jobs!Init PROVE Jobs!TypeOK
<1>1. 0 \in 0 .. 2 /\ 0 \in 0 .. JobRestarts
  BY DEF JobsParameters
<1> QED BY <1>1, JobsRestType DEF Jobs!Init, Jobs!TypeOK, Jobs!Status

\* The records of the jobs, of the two reservations and of the executions keep their
\* types, through every decision, expiry and restart.
THEOREM JobsTypeCorrect == ASSUME JobsParameters PROVE Jobs!Spec => []Jobs!TypeOK
BY JobsTypeInit, JobsTypeStep, PTL DEF Jobs!Spec

-----------------------------------------------------------------------------
(* A retry finds both reservations free.  While a job was never published   *)
(* and has lost no answer, a reservation that is not free has an execution  *)
(* that will end it, and ends it as free.                                   *)

JobsClean(j) == posts[j] = 0 /\ j \notin lost

JobsHolds(s, j)     == j \in task[s].item /\ task[s].stage \in {"holding", "sent", "answered", "ending"}
JobsPublishes(s, j) == j \in task[s].item /\ task[s].stage \in {"sent", "answered"}

\* A job for Telegram takes no second reservation.
JobsHeldFor(j) ==
    /\ JobsClean(j) =>
          /\ res[<<j, "job">>] # "free" => \E s \in JobSlot : JobsHolds(s, j)
          /\ res[<<j, "publish">>] # "free" => \E s \in JobSlot : JobsPublishes(s, j)
    /\ j \in Direct => res[<<j, "publish">>] = "free"

JobsEnds(w) ==
    /\ w.stage \in {"answered", "ending"} => w.job = "free"
    /\ w.stage = "answered" => w.pub = "free"

JobsEndsFree == \A s \in JobSlot : \A j \in task[s].item : JobsClean(j) => JobsEnds(task[s])

JobsOneItem == \A s \in JobSlot : \A j, k \in task[s].item : j = k

JobsFree == Jobs!TypeOK /\ (\A j \in Job : JobsHeldFor(j)) /\ JobsEndsFree /\ JobsOneItem

\* A step of one execution, given what it does to its own job.
LEMMA JobsSlotStep ==
    ASSUME JobsFree, Jobs!TypeOK', NEW s \in JobSlot, NEW j \in Job, NEW w \in Jobs!Work,
           task' = [task EXCEPT ![s] = w],
           task[s].item \subseteq {j}, w.item \subseteq {j},
           \A k \in Job : JobsClean(k)' => JobsClean(k),
           \A k \in Job \ {j} : /\ res'[<<k, "job">>] = res[<<k, "job">>]
                                /\ res'[<<k, "publish">>] = res[<<k, "publish">>],
           j \in Direct => res'[<<j, "publish">>] = "free",
           JobsClean(j)' /\ res'[<<j, "job">>] # "free" =>
              \/ JobsHolds(s, j)'
              \/ res[<<j, "job">>] # "free" /\ ~JobsHolds(s, j),
           JobsClean(j)' /\ res'[<<j, "publish">>] # "free" =>
              \/ JobsPublishes(s, j)'
              \/ res[<<j, "publish">>] # "free" /\ ~JobsPublishes(s, j),
           JobsClean(j)' /\ j \in w.item => JobsEnds(w)
    PROVE  JobsFree'
<1>1. task'[s] = w /\ \A t \in JobSlot : t # s => task'[t] = task[t]
  BY DEF JobsFree, Jobs!TypeOK
<1>2. ASSUME NEW k \in Job PROVE JobsHeldFor(k)'
  <2>1. JobsHeldFor(k)
    BY DEF JobsFree
  <2>2. \A t \in JobSlot \ {s} : /\ JobsHolds(t, k) => JobsHolds(t, k)'
                                 /\ JobsPublishes(t, k) => JobsPublishes(t, k)'
    BY <1>1 DEF JobsHolds, JobsPublishes
  <2>3. CASE k # j
    <3>1. ~JobsHolds(s, k) /\ ~JobsPublishes(s, k)
      BY <2>3 DEF JobsHolds, JobsPublishes
    <3>2. /\ res'[<<k, "job">>] = res[<<k, "job">>]
          /\ res'[<<k, "publish">>] = res[<<k, "publish">>]
      BY <2>3
    <3> QED BY <2>1, <2>2, <3>1, <3>2 DEF JobsHeldFor
  <2>4. CASE k = j
    <3>1. ASSUME JobsClean(j)', res'[<<j, "job">>] # "free" PROVE \E t \in JobSlot : JobsHolds(t, j)'
      <4>1. CASE JobsHolds(s, j)'
        BY <4>1
      <4>2. CASE res[<<j, "job">>] # "free" /\ ~JobsHolds(s, j)
        BY <2>1, <2>2, <2>4, <3>1, <4>2 DEF JobsHeldFor
      <4> QED BY <3>1, <4>1, <4>2
    <3>2. ASSUME JobsClean(j)', res'[<<j, "publish">>] # "free"
          PROVE  \E t \in JobSlot : JobsPublishes(t, j)'
      <4>1. CASE JobsPublishes(s, j)'
        BY <4>1
      <4>2. CASE res[<<j, "publish">>] # "free" /\ ~JobsPublishes(s, j)
        BY <2>1, <2>2, <2>4, <3>2, <4>2 DEF JobsHeldFor
      <4> QED BY <3>2, <4>1, <4>2
    <3> QED BY <2>4, <3>1, <3>2 DEF JobsHeldFor
  <2> QED BY <2>3, <2>4
<1>3. ASSUME NEW t \in JobSlot, NEW k \in task'[t].item, JobsClean(k)' PROVE JobsEnds(task'[t])
  <2>1. CASE t = s
    BY <1>1, <1>3, <2>1
  <2>2. CASE t # s
    <3>1. k \in task[t].item /\ k \in Job
      BY <1>1, <1>3, <2>2 DEF JobsFree, Jobs!TypeOK, Jobs!Work
    <3> QED BY <1>1, <1>3, <2>2, <3>1 DEF JobsFree, JobsEndsFree
  <2> QED BY <2>1, <2>2
<1>4. JobsOneItem'
  BY <1>1 DEF JobsFree, JobsOneItem
<1>5. JobsEndsFree'
  BY <1>3 DEF JobsEndsFree, JobsEnds
<1> QED BY <1>2, <1>4, <1>5 DEF JobsFree

LEMMA JobsRunningKeeps ==
    ASSUME JobsFree, Jobs!TypeOK', NEW s \in JobSlot, NEW j \in Job, Jobs!Running(s, j)
    PROVE  JobsFree'
<1>t. /\ task[s] \in Jobs!Work /\ task \in [JobSlot -> Jobs!Work] /\ res \in [Job \X Jobs!Level -> JobsMark]
      /\ task' \in [JobSlot -> Jobs!Work] /\ posts \in [Job -> 0 .. 2]
      /\ <<j, "job">> \in Job \X Jobs!Level /\ <<j, "publish">> \in Job \X Jobs!Level
      /\ <<j, "job">> # <<j, "publish">>
      /\ \A k \in Job : k # j => /\ <<k, "job">> \in Job \X Jobs!Level
                                 /\ <<k, "publish">> \in Job \X Jobs!Level
                                 /\ <<k, "job">> # <<j, "job">>
                                 /\ <<k, "job">> # <<j, "publish">>
                                 /\ <<k, "publish">> # <<j, "publish">>
                                 /\ <<k, "publish">> # <<j, "job">>
      /\ j \in Direct => res[<<j, "publish">>] = "free"
  BY DEF JobsFree, JobsHeldFor, Jobs!TypeOK, Jobs!Level, JobsMark
<1>i. ASSUME j \in task[s].item PROVE task[s].item \subseteq {j}
  BY <1>i DEF JobsFree, JobsOneItem
<1> DEFINE w == task'[s]
<1>w. w \in Jobs!Work
  BY <1>t
<1>1. CASE Jobs!Execute(s, j)
  <2>1. /\ task' = [task EXCEPT ![s] = w] /\ w.item = {j} /\ w.stage = "asking"
        /\ task[s] = Jobs!Rest
    BY <1>1, <1>t DEF Jobs!Execute, Jobs!Work
  <2>2. res' = res /\ posts' = posts /\ lost' = lost
    BY <1>1 DEF Jobs!Execute, Jobs!Provider
  <2>3. task[s].item = {} /\ ~JobsHolds(s, j) /\ ~JobsPublishes(s, j)
    BY <2>1 DEF Jobs!Rest, JobsHolds, JobsPublishes
  <2> HIDE DEF w
  <2> QED BY <1>t, <1>w, <2>1, <2>2, <2>3, JobsSlotStep DEF JobsClean, JobsEnds
<1>2. CASE Jobs!Refused(s, j)
  <2>1. /\ task' = [task EXCEPT ![s] = w] /\ w = Jobs!Rest
        /\ task[s].stage = "asking" /\ j \in task[s].item
    BY <1>2, <1>t DEF Jobs!Refused
  <2>2. res' = res /\ posts' = posts /\ lost' = lost
    BY <1>2 DEF Jobs!Refused, Jobs!Provider
  <2>3. w.item = {} /\ ~JobsHolds(s, j) /\ ~JobsPublishes(s, j)
    BY <2>1 DEF Jobs!Rest, JobsHolds, JobsPublishes
  <2> HIDE DEF w
  <2> QED BY <1>i, <1>t, <1>w, <2>1, <2>2, <2>3, JobsSlotStep DEF JobsClean
<1>3. CASE Jobs!Reserve(s, j)
  <2>1. /\ task' = [task EXCEPT ![s] = w] /\ w.stage = "holding" /\ w.item = task[s].item
        /\ task[s].stage = "asking" /\ j \in task[s].item
    BY <1>3, <1>t DEF Jobs!Reserve, Jobs!Work
  <2>2. /\ res' = [res EXCEPT ![<<j, "job">>] = "reserved"] /\ posts' = posts /\ lost' = lost
    BY <1>3 DEF Jobs!Reserve
  <2>3. /\ res'[<<j, "publish">>] = res[<<j, "publish">>]
        /\ \A k \in Job \ {j} : /\ res'[<<k, "job">>] = res[<<k, "job">>]
                                /\ res'[<<k, "publish">>] = res[<<k, "publish">>]
    BY <1>t, <2>2
  <2>4. JobsHolds(s, j)' /\ ~JobsPublishes(s, j)
    BY <2>1 DEF JobsHolds, JobsPublishes
  <2> HIDE DEF w
  <2> QED BY <1>i, <1>t, <1>w, <2>1, <2>2, <2>3, <2>4, JobsSlotStep DEF JobsClean,
             JobsEnds
<1>4. CASE Jobs!Blocked(s, j)
  <2>1. /\ task' = [task EXCEPT ![s] = w] /\ w.stage = "ending" /\ w.item = task[s].item
        /\ w.job = "free" /\ task[s].stage = "holding" /\ j \in task[s].item
    BY <1>4, <1>t DEF Jobs!Blocked, Jobs!Work
  <2>2. res' = res /\ posts' = posts /\ lost' = lost
    BY <1>4 DEF Jobs!Blocked, Jobs!Provider
  <2>3. JobsHolds(s, j)' /\ ~JobsPublishes(s, j)
    BY <2>1 DEF JobsHolds, JobsPublishes
  <2> HIDE DEF w
  <2> QED BY <1>i, <1>t, <1>w, <2>1, <2>2, <2>3, JobsSlotStep DEF JobsClean, JobsEnds
<1>5. CASE Jobs!Send(s, j)
  <2>1. /\ task' = [task EXCEPT ![s] = w] /\ w.stage = "sent" /\ w.item = task[s].item
        /\ task[s].stage = "holding" /\ j \in task[s].item
    BY <1>5, <1>t DEF Jobs!Send, Jobs!Work
  <2>2. posts' = posts /\ lost' = lost
    BY <1>5 DEF Jobs!Send
  <2>3. /\ j \in Direct => res'[<<j, "publish">>] = "free"
        /\ res'[<<j, "job">>] = res[<<j, "job">>]
        /\ \A k \in Job \ {j} : /\ res'[<<k, "job">>] = res[<<k, "job">>]
                                /\ res'[<<k, "publish">>] = res[<<k, "publish">>]
    <3>1. CASE j \in Direct /\ UNCHANGED res
      BY <1>t, <3>1
    <3>2. CASE j \notin Direct /\ res' = [res EXCEPT ![<<j, "publish">>] = "reserved"]
      BY <1>t, <3>2
    <3> QED BY <1>5, <3>1, <3>2 DEF Jobs!Send
  <2>4. JobsHolds(s, j)' /\ JobsPublishes(s, j)'
    BY <2>1 DEF JobsHolds, JobsPublishes
  <2> HIDE DEF w
  <2> QED BY <1>i, <1>t, <1>w, <2>1, <2>2, <2>3, <2>4, JobsSlotStep DEF JobsClean,
             JobsEnds
<1>6. ASSUME NEW job, NEW pub, NEW st, Jobs!Answered(s, j, job, pub, st),
             \A k \in Job : JobsClean(k)' => JobsClean(k),
             JobsClean(j)' => job = "free" /\ pub = "free"
      PROVE  JobsFree'
  <2>1. /\ task' = [task EXCEPT ![s] = w] /\ w.stage = "answered" /\ w.item = task[s].item
        /\ w.job = job /\ w.pub = pub /\ j \in task[s].item
    BY <1>6, <1>t DEF Jobs!Answered, Jobs!Work
  <2>2. res' = res
    BY <1>6 DEF Jobs!Answered
  <2>3. JobsHolds(s, j)' /\ JobsPublishes(s, j)'
    BY <2>1 DEF JobsHolds, JobsPublishes
  <2> HIDE DEF w
  <2> QED BY <1>i, <1>t, <1>w, <1>6, <2>1, <2>2, <2>3, JobsSlotStep DEF JobsEnds
<1>7. \A k \in Job : Jobs!OneMore(posts[k]) # 0
  BY <1>t DEF Jobs!OneMore
<1>8. CASE Jobs!Published(s, j)
  <2>1. posts' = [posts EXCEPT ![j] = Jobs!OneMore(posts[j])] /\ lost' = lost
    BY <1>8 DEF Jobs!Published
  <2>2. posts'[j] # 0 /\ \A k \in Job : k # j => posts'[k] = posts[k]
    BY <1>t, <1>7, <2>1
  <2> QED BY <1>6, <1>8, <2>1, <2>2 DEF Jobs!Published, JobsClean
<1>9. CASE Jobs!QuotaSpent(s, j) \/ Jobs!Declined(s, j)
  BY <1>6, <1>9 DEF Jobs!QuotaSpent, Jobs!Declined, JobsClean
<1>10. CASE Jobs!AnswerLost(s, j)
  <2>1. lost' = lost \union {j} /\ \A k \in Job : k # j => posts'[k] = posts[k]
    BY <1>10, <1>t DEF Jobs!AnswerLost
  <2> QED BY <1>6, <1>10, <2>1 DEF Jobs!AnswerLost, JobsClean
<1>14. CASE Jobs!Misjudged(s, j)
  <2>1. lost' = lost \union {j} /\ \A k \in Job : k # j => posts'[k] = posts[k]
    BY <1>14, <1>t DEF Jobs!Misjudged
  <2> QED BY <1>6, <1>14, <2>1 DEF Jobs!Misjudged, JobsClean
<1>11. CASE Jobs!EndPublish(s, j)
  <2>1. /\ task' = [task EXCEPT ![s] = w] /\ w.stage = "ending" /\ w.item = task[s].item
        /\ w.job = task[s].job /\ task[s].stage = "answered" /\ j \in task[s].item
    BY <1>11, <1>t DEF Jobs!EndPublish, Jobs!Work
  <2>2. posts' = posts /\ lost' = lost
    BY <1>11 DEF Jobs!EndPublish
  <2>3. JobsClean(j) => task[s].job = "free" /\ task[s].pub = "free"
    BY <2>1 DEF JobsFree, JobsEndsFree, JobsEnds
  <2>4. /\ j \in Direct => res'[<<j, "publish">>] = "free"
        /\ JobsClean(j) => res'[<<j, "publish">>] = "free"
        /\ res'[<<j, "job">>] = res[<<j, "job">>]
        /\ \A k \in Job \ {j} : /\ res'[<<k, "job">>] = res[<<k, "job">>]
                                /\ res'[<<k, "publish">>] = res[<<k, "publish">>]
    <3>1. CASE j \in Direct
      BY <1>11, <1>t, <3>1 DEF Jobs!EndPublish
    <3>2. CASE j \notin Direct
      <4>1. res' = [res EXCEPT ![<<j, "publish">>] =
                       Jobs!Concluded(<<j, "publish">>, task[s].pub)]
        BY <1>11, <3>2 DEF Jobs!EndPublish
      <4>2. JobsClean(j) => Jobs!Concluded(<<j, "publish">>, task[s].pub) = "free"
        BY <2>3 DEF Jobs!Concluded
      <4> QED BY <1>t, <3>2, <4>1, <4>2
    <3> QED BY <3>1, <3>2
  <2>5. JobsHolds(s, j)'
    BY <2>1 DEF JobsHolds
  <2> HIDE DEF w
  <2> QED BY <1>i, <1>t, <1>w, <2>1, <2>2, <2>3, <2>4, <2>5, JobsSlotStep DEF JobsClean,
             JobsEnds
<1>12. CASE Jobs!EndJob(s, j)
  <2>1. /\ task' = [task EXCEPT ![s] = w] /\ w = Jobs!Rest
        /\ task[s].stage = "ending" /\ j \in task[s].item
    BY <1>12, <1>t DEF Jobs!EndJob
  <2>2. posts' = posts /\ lost' = lost
    BY <1>12 DEF Jobs!EndJob
  <2>3. JobsClean(j) => Jobs!Concluded(<<j, "job">>, task[s].job) = "free"
    BY <2>1 DEF JobsFree, JobsEndsFree, JobsEnds, Jobs!Concluded
  <2>4. /\ JobsClean(j) => res'[<<j, "job">>] = "free"
        /\ res'[<<j, "publish">>] = res[<<j, "publish">>]
        /\ \A k \in Job \ {j} : /\ res'[<<k, "job">>] = res[<<k, "job">>]
                                /\ res'[<<k, "publish">>] = res[<<k, "publish">>]
    BY <1>12, <1>t, <2>3 DEF Jobs!EndJob
  <2>5. w.item = {} /\ ~JobsPublishes(s, j)
    BY <2>1 DEF Jobs!Rest, JobsPublishes
  <2> HIDE DEF w
  <2> QED BY <1>i, <1>t, <1>w, <2>1, <2>2, <2>4, <2>5, JobsSlotStep DEF JobsClean
<1> QED BY <1>1, <1>2, <1>3, <1>4, <1>5, <1>8, <1>9, <1>10, <1>11, <1>12, <1>14
        DEF Jobs!Running

LEMMA JobsExpireKeeps ==
    ASSUME JobsFree, Jobs!TypeOK', NEW key \in Job \X Jobs!Level, Jobs!Expire(key)
    PROVE  JobsFree'
<1>1. /\ res' = [res EXCEPT ![key] = "free"]
      /\ task' = task /\ posts' = posts /\ lost' = lost
  BY DEF Jobs!Expire
<1>2. \A k \in Job \X Jobs!Level : res'[k] = res[k] \/ res'[k] = "free"
  BY <1>1 DEF JobsFree, Jobs!TypeOK
<1>3. ASSUME NEW j \in Job PROVE JobsHeldFor(j)'
  <2>1. <<j, "job">> \in Job \X Jobs!Level /\ <<j, "publish">> \in Job \X Jobs!Level
    BY DEF Jobs!Level
  <2>2. JobsHeldFor(j)
    BY DEF JobsFree
  <2> QED BY <1>1, <1>2, <2>1, <2>2 DEF JobsHeldFor, JobsClean, JobsHolds, JobsPublishes
<1> QED BY <1>1, <1>3 DEF JobsFree, JobsEndsFree, JobsClean, JobsOneItem

LEMMA JobsRestartKeeps ==
    ASSUME JobsFree, Jobs!TypeOK', Jobs!Restart
    PROVE  JobsFree'
<1>1. /\ task' = [s \in JobSlot |-> Jobs!Rest] /\ lost' = lost \union Jobs!Cut /\ res' = res
  BY DEF Jobs!Restart
<1>2. \A s \in JobSlot : task'[s] = Jobs!Rest /\ task'[s].item = {}
  BY <1>1 DEF Jobs!Rest
<1>3. \A j \in Job : JobsClean(j)' => JobsClean(j) /\ j \notin Jobs!Cut
  <2>1. PICK oneMore :
          posts' = [j \in Job |-> IF j \in oneMore THEN Jobs!OneMore(posts[j]) ELSE posts[j]]
    BY DEF Jobs!Restart
  <2>2. \A j \in Job : posts[j] # 0 => Jobs!OneMore(posts[j]) # 0
    BY DEF JobsFree, Jobs!TypeOK, Jobs!OneMore
  <2>3. \A j \in Job : posts'[j] = 0 => posts[j] = 0
    BY <2>1, <2>2
  <2> QED BY <1>1, <2>3 DEF JobsClean
<1>4. ASSUME NEW j \in Job PROVE JobsHeldFor(j)'
  <2>1. j \notin Jobs!Cut => \A s \in JobSlot : ~JobsHolds(s, j) /\ ~JobsPublishes(s, j)
    BY DEF Jobs!Cut, JobsHolds, JobsPublishes
  <2>2. JobsHeldFor(j)
    BY DEF JobsFree
  <2> QED BY <1>1, <1>3, <2>1, <2>2 DEF JobsHeldFor
<1> QED BY <1>2, <1>4 DEF JobsFree, JobsEndsFree, JobsOneItem

LEMMA JobsFreeInit == ASSUME JobsParameters PROVE Jobs!Init => JobsFree
<1> SUFFICES ASSUME Jobs!Init PROVE JobsFree
  OBVIOUS
<1>1. \A j \in Job : JobsHeldFor(j)
  BY DEF Jobs!Init, JobsHeldFor, Jobs!Level
<1>2. \A s \in JobSlot : task[s].item = {}
  BY DEF Jobs!Init, Jobs!Rest
<1> QED BY <1>1, <1>2, JobsTypeInit DEF JobsFree, JobsEndsFree, JobsOneItem

LEMMA JobsFreeStep ==
    ASSUME JobsParameters PROVE JobsFree /\ [Jobs!Next]_(Jobs!vars) => JobsFree'
<1> SUFFICES ASSUME JobsFree, [Jobs!Next]_(Jobs!vars) PROVE JobsFree'
  OBVIOUS
<1>1. Jobs!TypeOK'
  BY JobsTypeStep DEF JobsFree
<1>2. CASE Jobs!Deciding \/ Jobs!Preflight \/ Jobs!SaveState \/ UNCHANGED Jobs!vars
  <2>1. task' = task /\ res' = res /\ posts' = posts /\ lost' = lost
    BY <1>2 DEF Jobs!Deciding, Jobs!Create, Jobs!Approve, Jobs!Cancel, Jobs!Retry,
                Jobs!AgentDecision, Jobs!Decision, Jobs!Preflight, Jobs!SaveState,
                Jobs!Provider, Jobs!vars
  <2> QED BY <1>1, <2>1 DEF JobsFree, JobsHeldFor, JobsEndsFree, JobsOneItem, JobsClean,
             JobsHolds, JobsPublishes
<1> QED BY <1>1, <1>2, JobsRunningKeeps, JobsExpireKeeps, JobsRestartKeeps DEF Jobs!Next

LEMMA JobsFreeImplies == JobsFree => Jobs!RetryFindsFree
<1> SUFFICES ASSUME JobsFree, NEW j \in Job, posts[j] = 0, j \notin lost, ~Jobs!Executing(j),
                    NEW level \in Jobs!Level
             PROVE  res[<<j, level>>] = "free"
  BY DEF Jobs!RetryFindsFree
<1>1. \A s \in JobSlot : ~JobsHolds(s, j) /\ ~JobsPublishes(s, j)
  BY DEF Jobs!Executing, JobsHolds, JobsPublishes
<1> QED BY <1>1 DEF JobsFree, JobsHeldFor, JobsClean, Jobs!Level

-----------------------------------------------------------------------------
(* What the owner cancelled, and the publications of a job.  While no result*)
(* of a job is lost, one execution holds it, and a publication is recorded  *)
(* as done or has the execution that will record it.                        *)

JobsSettles(s, j) ==
    j \in task[s].item /\ task[s].stage \in {"answered", "ending"} /\ task[s].job = "done"

JobsOnceFor(j) ==
    /\ posts[j] <= 1
    /\ \A s \in JobSlot : JobsHolds(s, j) => /\ res[<<j, "job">>] = "reserved"
                                        /\ \A t \in JobSlot : JobsHolds(t, j) => t = s
    /\ posts[j] = 1 => \/ res[<<j, "job">>] = "done"
                       \/ \E s \in JobSlot : JobsSettles(s, j)

JobsOnce == \A j \in Job \ lost : JobsOnceFor(j)

JobsInv == JobsFree /\ Jobs!CancelledStays /\ JobsOnce

LEMMA JobsCancelStep ==
    ASSUME JobsFree, Jobs!CancelledStays, [Jobs!Next]_(Jobs!vars)
    PROVE  Jobs!CancelledStays'
<1>t. /\ status \in [Job -> Jobs!Status] /\ task \in [JobSlot -> Jobs!Work] /\ withdrawn \subseteq Job
      /\ \A j \in withdrawn : status[j] = "failed" /\ saved[j] = "failed" /\ ~Jobs!Executing(j)
      /\ \A s \in JobSlot : \A j, k \in task[s].item : j = k
  BY DEF JobsFree, Jobs!TypeOK, Jobs!CancelledStays, JobsOneItem
<1>1. ASSUME NEW j \in Job, NEW from, NEW to, Jobs!Decision(j, from, to)
      PROVE  Jobs!CancelledStays'
  <2>1. /\ status' = [status EXCEPT ![j] = to] /\ withdrawn' = withdrawn \ {j}
        /\ saved' = saved /\ task' = task
    BY <1>1 DEF Jobs!Decision
  <2>2. \A k \in Job : k # j => status'[k] = status[k]
    BY <2>1, <1>t
  <2> QED BY <2>1, <2>2, <1>t DEF Jobs!CancelledStays, Jobs!Executing
<1>2. CASE Jobs!Deciding
  BY <1>1, <1>2 DEF Jobs!Deciding, Jobs!Create, Jobs!Approve, Jobs!Cancel, Jobs!Retry,
                    Jobs!AgentDecision
<1>3. CASE Jobs!Preflight
  <2>1. PICK ready \in SUBSET Jobs!Due :
           status' = [j \in Job |-> IF j \in ready THEN "ready" ELSE status[j]]
    BY <1>3 DEF Jobs!Preflight
  <2>2. \A j \in ready : status[j] = "approved"
    BY DEF Jobs!Due
  <2>3. saved' = saved /\ task' = task /\ withdrawn' = withdrawn
    BY <1>3 DEF Jobs!Preflight
  <2>4. \A j \in withdrawn : status'[j] = "failed"
    BY <2>1, <2>2, <1>t
  <2> QED BY <2>3, <2>4, <1>t DEF Jobs!CancelledStays, Jobs!Executing
<1>4. CASE Jobs!SaveState
  BY <1>4, <1>t DEF Jobs!SaveState, Jobs!CancelledStays, Jobs!Executing
<1>5. CASE Jobs!Restart
  BY <1>5, <1>t DEF Jobs!Restart, Jobs!CancelledStays, Jobs!Executing, Jobs!Rest
<1>6. ASSUME NEW key \in Job \X Jobs!Level, Jobs!Expire(key) PROVE Jobs!CancelledStays'
  BY <1>6, <1>t DEF Jobs!Expire, Jobs!CancelledStays, Jobs!Executing
<1>7. CASE UNCHANGED Jobs!vars
  BY <1>7, <1>t DEF Jobs!vars, Jobs!CancelledStays, Jobs!Executing
<1>8. ASSUME NEW s \in JobSlot, NEW j \in Job, Jobs!Running(s, j) PROVE Jobs!CancelledStays'
  <2>1. /\ saved' = saved /\ withdrawn' = withdrawn
        /\ \A z \in JobSlot : z # s => task'[z] = task[z]
    BY <1>8, <1>t DEF Jobs!Running, Jobs!Execute, Jobs!Refused, Jobs!Reserve,
       Jobs!Blocked, Jobs!Send,
       Jobs!Published, Jobs!QuotaSpent, Jobs!Declined, Jobs!Misjudged, Jobs!AnswerLost, Jobs!Answered,
       Jobs!EndPublish, Jobs!EndJob
  <2>2. CASE Jobs!Execute(s, j)
    <3>1. status' = status /\ status[j] = "ready" /\ task'[s].item = {j}
      BY <2>2, <1>t DEF Jobs!Execute, Jobs!Work
    <3> QED BY <2>1, <3>1, <1>t DEF Jobs!CancelledStays, Jobs!Executing
  <2>3. CASE ~Jobs!Execute(s, j)
    <3>1. j \in task[s].item
      BY <1>8, <2>3 DEF Jobs!Running, Jobs!Execute, Jobs!Refused, Jobs!Reserve,
         Jobs!Blocked,
         Jobs!Send, Jobs!Published, Jobs!QuotaSpent, Jobs!Declined, Jobs!Misjudged, Jobs!AnswerLost,
         Jobs!Answered, Jobs!EndPublish, Jobs!EndJob
    <3>2. task'[s].item \subseteq task[s].item
      BY <1>8, <2>3, <1>t DEF Jobs!Running, Jobs!Refused, Jobs!Reserve, Jobs!Blocked,
         Jobs!Send, Jobs!Published, Jobs!QuotaSpent, Jobs!Declined, Jobs!Misjudged, Jobs!AnswerLost,
         Jobs!Answered, Jobs!EndPublish, Jobs!EndJob, Jobs!Work, Jobs!Rest
    <3>3. \A k \in Job : k # j => status'[k] = status[k]
      BY <1>8, <2>3, <1>t DEF Jobs!Running, Jobs!Refused, Jobs!Reserve, Jobs!Blocked,
         Jobs!Send, Jobs!Published, Jobs!QuotaSpent, Jobs!Declined, Jobs!Misjudged, Jobs!AnswerLost,
         Jobs!Answered, Jobs!EndPublish, Jobs!EndJob
    <3>4. j \notin withdrawn
      BY <3>1, <1>t DEF Jobs!Executing
    <3> QED BY <2>1, <3>2, <3>3, <3>4, <1>t DEF Jobs!CancelledStays, Jobs!Executing
  <2> QED BY <2>2, <2>3
<1> QED BY <1>2, <1>3, <1>4, <1>5, <1>6, <1>7, <1>8 DEF Jobs!Next

\* Only the job of the execution is touched.
LEMMA JobsOnceSlot ==
    ASSUME JobsFree, JobsOnce, NEW s \in JobSlot, NEW j \in Job, NEW w,
           task' = [task EXCEPT ![s] = w], w.item \subseteq {j}, task[s].item \subseteq {j},
           lost \subseteq lost',
           \A k \in Job : k # j => posts'[k] = posts[k] /\ res'[<<k, "job">>] = res[<<k, "job">>],
           j \notin lost' => JobsOnceFor(j)'
    PROVE  JobsOnce'
<1>1. task'[s] = w /\ \A t \in JobSlot : t # s => task'[t] = task[t]
  BY DEF JobsFree, Jobs!TypeOK
<1>2. ASSUME NEW k \in Job \ lost', k # j PROVE JobsOnceFor(k)'
  <2>1. JobsOnceFor(k)
    BY <1>2 DEF JobsOnce
  <2>2. ~JobsHolds(s, k) /\ ~JobsHolds(s, k)' /\ ~JobsSettles(s, k)
    BY <1>1, <1>2 DEF JobsHolds, JobsSettles
  <2>3. \A t \in JobSlot : t # s => /\ JobsHolds(t, k)' <=> JobsHolds(t, k)
                                    /\ JobsSettles(t, k)' <=> JobsSettles(t, k)
    BY <1>1 DEF JobsHolds, JobsSettles
  <2> QED BY <1>2, <2>1, <2>2, <2>3 DEF JobsOnceFor
<1> QED BY <1>2 DEF JobsOnce

LEMMA JobsOnceRunning ==
    ASSUME JobsFree, JobsOnce, NEW s \in JobSlot, NEW j \in Job, Jobs!Running(s, j)
    PROVE  JobsOnce'
<1>t. /\ task[s] \in Jobs!Work /\ task \in [JobSlot -> Jobs!Work]
      /\ res \in [Job \X Jobs!Level -> JobsMark] /\ posts \in [Job -> 0 .. 2] /\ posts[j] \in 0 .. 2
      /\ \A k \in Job : /\ <<k, "job">> \in Job \X Jobs!Level /\ <<k, "publish">> \in Job \X Jobs!Level
                        /\ <<k, "job">> # <<j, "publish">>
                        /\ k # j => <<k, "job">> # <<j, "job">>
      /\ j \in task[s].item => task[s].item \subseteq {j}
  BY DEF JobsFree, Jobs!TypeOK, Jobs!Level, JobsMark, JobsOneItem
<1> DEFINE w == task'[s]
<1>j. j \notin lost => JobsOnceFor(j)
  BY DEF JobsOnce
<1>k. /\ res' = res => \A k \in Job : res'[<<k, "job">>] = res[<<k, "job">>]
      /\ \A t \in JobSlot : t # s /\ task'[t] = task[t]
            => (JobsHolds(t, j)' <=> JobsHolds(t, j)) /\ (JobsSettles(t, j)' <=> JobsSettles(t, j))
  BY DEF JobsHolds, JobsSettles
\* Nothing of the job is held or settled by s before and after, or it goes on holding it.
<1>a. ASSUME task' = [task EXCEPT ![s] = w], posts' = posts, lost' = lost,
             res'[<<j, "job">>] = res[<<j, "job">>],
             JobsHolds(s, j)' <=> JobsHolds(s, j),
             JobsSettles(s, j)' <=> JobsSettles(s, j), j \notin lost
      PROVE  JobsOnceFor(j)'
  <2>1. \A t \in JobSlot : (JobsHolds(t, j)' <=> JobsHolds(t, j))
                           /\ (JobsSettles(t, j)' <=> JobsSettles(t, j))
    <3>1. \A t \in JobSlot : t # s => task'[t] = task[t]
      BY <1>a, <1>t
    <3> QED BY <1>a, <1>k, <3>1
  <2> QED BY <1>a, <1>j, <2>1 DEF JobsOnceFor
<1>1. CASE Jobs!Execute(s, j)
  <2>1. /\ task' = [task EXCEPT ![s] = w] /\ w.item = {j} /\ w.stage = "asking"
        /\ task[s] = Jobs!Rest
    BY <1>1, <1>t DEF Jobs!Execute, Jobs!Work
  <2>2. res' = res /\ posts' = posts /\ lost' = lost
    BY <1>1 DEF Jobs!Execute, Jobs!Provider
  <2>3. /\ ~JobsHolds(s, j) /\ ~JobsHolds(s, j)' /\ ~JobsSettles(s, j) /\ ~JobsSettles(s, j)'
        /\ task[s].item \subseteq {j}
    BY <2>1 DEF JobsHolds, JobsSettles, Jobs!Rest
  <2> HIDE DEF w
  <2> QED BY <2>1, <2>2, <2>3, <1>a, <1>t, JobsOnceSlot
<1>2. CASE Jobs!Refused(s, j)
  <2>1. /\ task' = [task EXCEPT ![s] = w] /\ w = Jobs!Rest /\ w.item \subseteq {j}
        /\ task[s].stage = "asking" /\ j \in task[s].item
    BY <1>2, <1>t DEF Jobs!Refused, Jobs!Rest
  <2>2. res' = res /\ posts' = posts /\ lost' = lost
    BY <1>2 DEF Jobs!Refused, Jobs!Provider
  <2>3. ~JobsHolds(s, j) /\ ~JobsHolds(s, j)' /\ ~JobsSettles(s, j) /\ ~JobsSettles(s, j)'
    BY <2>1 DEF JobsHolds, JobsSettles, Jobs!Rest
  <2> HIDE DEF w
  <2> QED BY <2>1, <2>2, <2>3, <1>a, <1>t, JobsOnceSlot
<1>3. CASE Jobs!Reserve(s, j)
  <2>1. /\ task' = [task EXCEPT ![s] = w] /\ w.stage = "holding" /\ w.item = task[s].item
        /\ task[s].stage = "asking" /\ j \in task[s].item
    BY <1>3, <1>t DEF Jobs!Reserve, Jobs!Work
  <2>2. /\ res[<<j, "job">>] = "free" /\ res'[<<j, "job">>] = "reserved"
        /\ posts' = posts /\ lost' = lost
        /\ \A k \in Job : k # j => res'[<<k, "job">>] = res[<<k, "job">>]
    BY <1>3, <1>t DEF Jobs!Reserve
  <2>3. ASSUME j \notin lost PROVE JobsOnceFor(j)'
    <3>1. \A t \in JobSlot : ~JobsHolds(t, j)
      BY <2>2, <2>3, <1>j DEF JobsOnceFor
    <3>2. \A t \in JobSlot : ~JobsSettles(t, j)
      BY <3>1 DEF JobsHolds, JobsSettles
    <3>3. posts[j] <= 1 /\ posts[j] # 1
      BY <2>2, <2>3, <3>2, <1>j DEF JobsOnceFor
    <3>4. \A t \in JobSlot : t # s => ~JobsHolds(t, j)'
      BY <2>1, <3>1, <1>t DEF JobsHolds
    <3> QED BY <2>2, <3>3, <3>4 DEF JobsOnceFor
  <2> HIDE DEF w
  <2> QED BY <2>1, <2>2, <2>3, <1>t, JobsOnceSlot
<1>4. CASE Jobs!Blocked(s, j) \/ Jobs!Send(s, j)
  <2>1. /\ task' = [task EXCEPT ![s] = w] /\ w.item = task[s].item
        /\ (w.stage = "ending" /\ w.job = "free") \/ w.stage = "sent"
        /\ task[s].stage = "holding" /\ j \in task[s].item
    BY <1>4, <1>t DEF Jobs!Blocked, Jobs!Send, Jobs!Work
  <2>2. /\ \A k \in Job : res'[<<k, "job">>] = res[<<k, "job">>]
        /\ posts' = posts /\ lost' = lost
    BY <1>4, <1>t DEF Jobs!Blocked, Jobs!Send, Jobs!Provider
  <2>3. JobsHolds(s, j) /\ JobsHolds(s, j)' /\ ~JobsSettles(s, j) /\ ~JobsSettles(s, j)'
    BY <2>1 DEF JobsHolds, JobsSettles
  <2> HIDE DEF w
  <2> QED BY <2>1, <2>2, <2>3, <1>a, <1>t, JobsOnceSlot
<1>5. ASSUME NEW job, NEW pub, NEW st, Jobs!Answered(s, j, job, pub, st),
             \A k \in Job : k # j => posts'[k] = posts[k], lost \subseteq lost',
             j \notin lost' => /\ posts'[j] = IF job = "done" THEN Jobs!OneMore(posts[j])
                                              ELSE posts[j]
      PROVE  JobsOnce'
  <2>1. /\ task' = [task EXCEPT ![s] = w] /\ w.item = task[s].item /\ w.stage = "answered"
        /\ w.job = job /\ task[s].stage = "sent" /\ j \in task[s].item
    BY <1>5, <1>t DEF Jobs!Answered, Jobs!Work
  <2>2. res' = res
    BY <1>5 DEF Jobs!Answered
  <2>3. JobsHolds(s, j) /\ JobsHolds(s, j)' /\ ~JobsSettles(s, j)
        /\ (job = "done" => JobsSettles(s, j)')
    BY <2>1 DEF JobsHolds, JobsSettles
  <2>4. ASSUME j \notin lost' PROVE JobsOnceFor(j)'
    <3>1. JobsOnceFor(j)
      BY <1>5, <2>4, <1>j
    <3>2. \A t \in JobSlot : JobsHolds(t, j) => t = s
      BY <2>3, <3>1 DEF JobsOnceFor
    <3>3. res[<<j, "job">>] = "reserved"
      BY <2>3, <3>1 DEF JobsOnceFor
    <3>4. \A t \in JobSlot : ~JobsSettles(t, j)
      <4>1. \A t \in JobSlot : JobsSettles(t, j) => JobsHolds(t, j)
        BY DEF JobsHolds, JobsSettles
      <4> QED BY <4>1, <3>2, <2>3
    <3>5. posts[j] = 0
      BY <3>1, <3>3, <3>4, <1>t DEF JobsOnceFor
    <3>6. posts'[j] = IF job = "done" THEN 1 ELSE 0
      BY <1>5, <2>4, <3>5 DEF Jobs!OneMore
    <3>7. \A t \in JobSlot : JobsHolds(t, j)' => t = s
      BY <2>1, <3>2, <1>t DEF JobsHolds
    <3> QED BY <2>2, <2>3, <3>3, <3>6, <3>7 DEF JobsOnceFor
  <2> HIDE DEF w
  <2> QED BY <2>1, <2>2, <2>4, <1>5, <1>t, JobsOnceSlot
<1>6. CASE Jobs!Published(s, j)
  BY <1>5, <1>6, <1>t DEF Jobs!Published
<1>7. CASE Jobs!QuotaSpent(s, j) \/ Jobs!Declined(s, j)
  BY <1>5, <1>7, <1>t DEF Jobs!QuotaSpent, Jobs!Declined
<1>8. CASE Jobs!Misjudged(s, j) \/ Jobs!AnswerLost(s, j)
  BY <1>5, <1>8, <1>t DEF Jobs!Misjudged, Jobs!AnswerLost
<1>9. CASE Jobs!EndPublish(s, j)
  <2>1. /\ task' = [task EXCEPT ![s] = w] /\ w.item = task[s].item /\ w.stage = "ending"
        /\ w.job = task[s].job /\ task[s].stage = "answered" /\ j \in task[s].item
    BY <1>9, <1>t DEF Jobs!EndPublish, Jobs!Work
  <2>2. /\ \A k \in Job : res'[<<k, "job">>] = res[<<k, "job">>]
        /\ posts' = posts /\ lost' = lost
    BY <1>9, <1>t DEF Jobs!EndPublish
  <2>3. JobsHolds(s, j) /\ JobsHolds(s, j)' /\ (JobsSettles(s, j)' <=> JobsSettles(s, j))
    BY <2>1 DEF JobsHolds, JobsSettles
  <2> HIDE DEF w
  <2> QED BY <2>1, <2>2, <2>3, <1>a, <1>t, JobsOnceSlot
<1>10. CASE Jobs!EndJob(s, j)
  <2>1. /\ task' = [task EXCEPT ![s] = w] /\ w = Jobs!Rest /\ w.item \subseteq {j}
        /\ task[s].stage = "ending" /\ j \in task[s].item
    BY <1>10, <1>t DEF Jobs!EndJob, Jobs!Rest
  <2>2. /\ posts' = posts /\ lost' = lost
        /\ \A k \in Job : k # j => res'[<<k, "job">>] = res[<<k, "job">>]
        /\ res'[<<j, "job">>] = Jobs!Concluded(<<j, "job">>, task[s].job)
    BY <1>10, <1>t DEF Jobs!EndJob
  <2>3. JobsHolds(s, j) /\ ~JobsHolds(s, j)' /\ ~JobsSettles(s, j)'
        /\ (JobsSettles(s, j) <=> task[s].job = "done")
    BY <2>1 DEF JobsHolds, JobsSettles, Jobs!Rest
  <2>4. ASSUME j \notin lost PROVE JobsOnceFor(j)'
    <3>1. JobsOnceFor(j)
      BY <2>4, <1>j
    <3>2. \A t \in JobSlot : JobsHolds(t, j) => t = s
      BY <2>3, <3>1 DEF JobsOnceFor
    <3>3. \A t \in JobSlot : ~JobsHolds(t, j)'
      BY <2>1, <2>3, <3>2, <1>t DEF JobsHolds
    <3>4. posts[j] = 1 => task[s].job = "done"
      <4>1. \A t \in JobSlot : JobsSettles(t, j) => JobsHolds(t, j)
        BY DEF JobsHolds, JobsSettles
      <4> QED BY <2>3, <3>1, <3>2, <4>1 DEF JobsOnceFor
    <3>5. posts[j] = 1 => res'[<<j, "job">>] = "done"
      BY <2>2, <3>4 DEF Jobs!Concluded
    <3> QED BY <2>2, <3>1, <3>3, <3>5 DEF JobsOnceFor
  <2> HIDE DEF w
  <2> QED BY <2>1, <2>2, <2>4, <1>t, JobsOnceSlot
<1> QED BY <1>1, <1>2, <1>3, <1>4, <1>6, <1>7, <1>8, <1>9, <1>10 DEF Jobs!Running

LEMMA JobsOnceStep ==
    ASSUME JobsFree, JobsOnce, [Jobs!Next]_(Jobs!vars)
    PROVE  JobsOnce'
<1>1. CASE Jobs!Deciding \/ Jobs!Preflight \/ Jobs!SaveState \/ UNCHANGED Jobs!vars
  <2>1. task' = task /\ res' = res /\ posts' = posts /\ lost' = lost
    BY <1>1 DEF Jobs!Deciding, Jobs!Create, Jobs!Approve, Jobs!Cancel, Jobs!Retry,
                Jobs!AgentDecision, Jobs!Decision, Jobs!Preflight, Jobs!SaveState,
                Jobs!Provider, Jobs!vars
  <2> QED BY <2>1 DEF JobsOnce, JobsOnceFor, JobsHolds, JobsSettles
<1>2. ASSUME NEW key \in Job \X Jobs!Level, Jobs!Expire(key) PROVE JobsOnce'
  <2>1. /\ res[key] = "reserved" /\ ~Jobs!Executing(key[1])
        /\ res' = [res EXCEPT ![key] = "free"]
        /\ task' = task /\ posts' = posts /\ lost' = lost
    BY <1>2 DEF Jobs!Expire
  <2>2. SUFFICES ASSUME NEW j \in Job \ lost PROVE JobsOnceFor(j)'
    BY <2>1 DEF JobsOnce
  <2>3. JobsOnceFor(j)
    BY DEF JobsOnce
  <2>4. CASE key = <<j, "job">>
    <3>1. \A s \in JobSlot : ~JobsHolds(s, j) /\ ~JobsSettles(s, j)
      BY <2>1, <2>4 DEF JobsHolds, JobsSettles, Jobs!Executing
    <3>2. \A s \in JobSlot : ~JobsHolds(s, j)'
      BY <2>1, <3>1 DEF JobsHolds
    <3>3. posts[j] # 1
      BY <2>1, <2>3, <2>4, <3>1 DEF JobsOnceFor
    <3> QED BY <2>1, <2>3, <3>2, <3>3 DEF JobsOnceFor
  <2>5. CASE key # <<j, "job">>
    <3>1. res'[<<j, "job">>] = res[<<j, "job">>]
      BY <2>1, <2>5 DEF JobsFree, Jobs!TypeOK, Jobs!Level
    <3> QED BY <2>1, <2>3, <3>1 DEF JobsOnceFor, JobsHolds, JobsSettles
  <2> QED BY <2>4, <2>5
<1>3. CASE Jobs!Restart
  <2>1. /\ task' = [s \in JobSlot |-> Jobs!Rest] /\ lost' = lost \union Jobs!Cut /\ res' = res
    BY <1>3 DEF Jobs!Restart
  <2>2. PICK oneMore \in SUBSET {j \in Job : \E s \in JobSlot :
                               j \in task[s].item /\ task[s].stage = "sent"} :
           posts' = [j \in Job |-> IF j \in oneMore THEN Jobs!OneMore(posts[j]) ELSE posts[j]]
    BY <1>3 DEF Jobs!Restart
  <2>3. SUFFICES ASSUME NEW j \in Job \ lost' PROVE JobsOnceFor(j)'
    BY DEF JobsOnce
  <2>4. j \notin lost /\ j \notin Jobs!Cut /\ JobsOnceFor(j)
    BY <2>1 DEF JobsOnce
  <2>5. \A s \in JobSlot : ~JobsSettles(s, j) /\ ~(j \in task[s].item /\ task[s].stage = "sent")
    BY <2>4 DEF Jobs!Cut, JobsSettles
  <2>6. posts'[j] = posts[j]
    BY <2>2, <2>5
  <2>7. \A s \in JobSlot : ~JobsHolds(s, j)'
    BY <2>1 DEF JobsHolds, Jobs!Rest
  <2> QED BY <2>1, <2>4, <2>5, <2>6, <2>7 DEF JobsOnceFor
<1> QED BY <1>1, <1>2, <1>3, JobsOnceRunning DEF Jobs!Next

LEMMA JobsInit == ASSUME JobsParameters PROVE Jobs!Init => JobsInv
<1> SUFFICES ASSUME Jobs!Init PROVE JobsInv
  OBVIOUS
<1>1. JobsFree
  BY JobsFreeInit
<1>2. Jobs!CancelledStays
  BY DEF Jobs!Init, Jobs!CancelledStays
<1>3. JobsOnce
  BY DEF Jobs!Init, JobsOnce, JobsOnceFor, JobsHolds, Jobs!Rest
<1> QED BY <1>1, <1>2, <1>3 DEF JobsInv

LEMMA JobsStep == ASSUME JobsParameters PROVE JobsInv /\ [Jobs!Next]_(Jobs!vars) => JobsInv'
BY JobsFreeStep, JobsCancelStep, JobsOnceStep DEF JobsInv

LEMMA JobsImplies ==
    JobsInv => /\ Jobs!TypeOK /\ Jobs!RetryFindsFree
               /\ Jobs!CancelledStays /\ Jobs!SecondPostNeedsLoss
<1> SUFFICES ASSUME JobsInv
             PROVE  /\ Jobs!TypeOK /\ Jobs!RetryFindsFree
                    /\ Jobs!CancelledStays /\ Jobs!SecondPostNeedsLoss
  OBVIOUS
<1>1. Jobs!TypeOK /\ Jobs!RetryFindsFree /\ Jobs!CancelledStays
  BY JobsFreeImplies DEF JobsInv, JobsFree
<1>2. \A j \in Job : posts[j] \in 0 .. 2
  BY <1>1 DEF Jobs!TypeOK
<1>3. \A j \in Job \ lost : posts[j] <= 1
  BY DEF JobsInv, JobsOnce, JobsOnceFor
<1>4. Jobs!SecondPostNeedsLoss
  BY <1>2, <1>3 DEF Jobs!SecondPostNeedsLoss
<1> QED BY <1>1, <1>4

\* A job that was never published finds its reservations free, one that was cancelled stays
\* so, and none is published twice without an answer lost or misjudged.
THEOREM JobsStand ==
    ASSUME JobsParameters
    PROVE  Jobs!Spec => [](/\ Jobs!RetryFindsFree
                          /\ Jobs!CancelledStays
                          /\ Jobs!SecondPostNeedsLoss)
BY JobsInit, JobsStep, JobsImplies, PTL DEF Jobs!Spec

-----------------------------------------------------------------------------
(* The replies that wait for the owner (OutboundApproval).                 *)

RepliesParameters == MaxRows \in Nat /\ MaxRestarts \in Nat

\* A row keeps the comment it was made for, in the list and in every snapshot, and so does
\* a decision about it.
RowsShape(table) ==
    \A i \in Replies!Id :
       /\ table[i].status = "none" => table[i].target = {}
       /\ \A t, u \in table[i].target : t = u
       /\ i > made => table[i].target = {}

TaskShape(s) ==
    /\ task[s].id <= made
    /\ \A k, l \in task[s].key : k = l
    /\ task[s].stage = "idle" => task[s].key = {} /\ task[s].id = 0
    /\ task[s].id # 0 => \A k \in task[s].key :
          /\ k[1] = "row"
          /\ \A leads \in Replies!Found : leads.rows[task[s].id].target \subseteq {k[2]}
    /\ task[s].id = 0 => \A k \in task[s].key : k[1] = "draft"
    /\ task[s].id # 0 => task[s].key # {}

RepliesShape ==
    /\ \A leads \in Replies!Found : RowsShape(leads.rows)
    /\ \A one, other \in Replies!Found, i \in Replies!Id :
          \A t \in one.rows[i].target, u \in other.rows[i].target : t = u
    /\ \A s \in Slot : TaskShape(s)

RowsTrue(table) ==
    \A i \in Replies!Id : table[i].status = "sent" =>
       \A t \in table[i].target, text \in table[i].text : <<<<"row", t>>, text>> \in got

RepliesTrue ==
    /\ \A leads \in Replies!Found : RowsTrue(leads.rows)
    /\ \A s \in Slot : task[s].stage = "answered" /\ task[s].result = "sent" =>
          \A k \in task[s].key, text \in task[s].text : <<k, text>> \in got

Holding(s, k) == k \in task[s].key /\ task[s].stage # "asking"
RepliesOnceFor(k) ==
    /\ \A s, z \in Slot : Holding(s, k) /\ Holding(z, k) => s = z
    /\ k \notin lost =>
          /\ replies[k] <= 1
          /\ \A s \in Slot : Holding(s, k) => res[k] = "reserved"
          /\ replies[k] = 1 =>
                \/ res[k] = "done"
                \/ \E s \in Slot : /\ Holding(s, k) /\ task[s].stage = "answered"
                                   /\ task[s].outcome = "done"
RepliesOnce == \A k \in Replies!Key : RepliesOnceFor(k)

RepliesInv ==
    /\ Replies!TypeOK /\ RepliesShape /\ RepliesTrue /\ RepliesOnce
    /\ Replies!RejectionStands /\ Replies!AskedIsKept

\* What a restart may find after a step: what it found before, or what the step wrote.
LEMMA RepliesFound ==
    /\ Replies!Leads \in Replies!Found
    /\ Replies!Leads.rows = rows /\ Replies!Leads.drafts = drafts
    /\ Replies!Leads'.rows = rows' /\ Replies!Leads'.drafts = drafts'
    /\ saved' \subseteq saved \union {Replies!Leads'} =>
          \A leads \in Replies!Found' :
             \/ leads \in Replies!Found
             \/ leads.rows = rows' /\ leads.drafts = drafts'
BY DEF Replies!Found, Replies!Leads

LEMMA RepliesKeys ==
    /\ \A t \in Target : <<"row", t>> \in Replies!Key /\ <<"draft", t>> \in Replies!Key
    /\ \A k \in Replies!Key : k = <<k[1], k[2]>> /\ k[2] \in Target
BY DEF Replies!Key, Replies!Kind

LEMMA RepliesNoRow == Replies!NoRow \in Replies!Row
BY DEF Replies!NoRow, Replies!Row, Replies!Status

LEMMA RepliesRest == Replies!Rest \in Replies!Work
BY DEF Replies!Rest, Replies!Work

\* The cut of the list takes a row away or leaves it as it is.
LEMMA RepliesCut ==
    ASSUME NEW T \in [Replies!Id -> Replies!Row]
    PROVE  /\ Replies!Cut(T) \in [Replies!Id -> Replies!Row]
           /\ \A i \in Replies!Id : Replies!Cut(T)[i] = T[i] \/ Replies!Cut(T)[i] = Replies!NoRow
<1> DEFINE o == Replies!Oldest(T)
<1>1. Replies!Cut(T) = T \/ Replies!Cut(T) = [T EXCEPT ![o] = Replies!NoRow]
  BY DEF Replies!Cut
<1> HIDE DEF o
<1> QED BY <1>1, RepliesNoRow

RepliesSnapshots ==
    SUBSET [rows : [Replies!Id -> Replies!Row], drafts : [Target -> Replies!Draft]]

LEMMA RepliesSaved ==
    ASSUME Replies!TypeOK, Replies!SaveLeads
    PROVE  /\ saved' \subseteq saved \union {Replies!Leads'}
           /\ rows' \in [Replies!Id -> Replies!Row] /\ drafts' \in [Target -> Replies!Draft]
                 => saved' \in RepliesSnapshots
<1>1. saved' \subseteq saved \union {Replies!Leads'}
  BY DEF Replies!SaveLeads
<1>2. ASSUME rows' \in [Replies!Id -> Replies!Row], drafts' \in [Target -> Replies!Draft]
      PROVE  saved' \in RepliesSnapshots
  <2>1. Replies!Leads' \in [rows : [Replies!Id -> Replies!Row],
                            drafts : [Target -> Replies!Draft]]
    BY <1>2 DEF Replies!Leads
  <2>2. saved \in RepliesSnapshots
    BY DEF Replies!TypeOK, RepliesSnapshots
  <2> QED BY <1>1, <2>1, <2>2 DEF RepliesSnapshots
<1> QED BY <1>1, <1>2

\* What a decision writes to the row it is about.
LEMMA RepliesOutcome ==
    ASSUME Replies!TypeOK, NEW s \in Slot, NEW result \in {"sent", "failed"}
    PROVE  /\ Replies!Outcome(s, result) \in [Replies!Id -> Replies!Row]
           /\ \A i \in Replies!Id :
                 /\ Replies!Outcome(s, result)[i].target = rows[i].target
                 /\ \/ Replies!Outcome(s, result)[i] = rows[i]
                    \/ /\ i = task[s].id /\ rows[i].status # "none"
                       /\ Replies!Outcome(s, result)[i].status = result
                       /\ result = "sent" => Replies!Outcome(s, result)[i].text = task[s].text
<1>1. ASSUME NEW i \in Replies!Id
      PROVE  /\ Replies!Outcome(s, result)[i] \in Replies!Row
             /\ Replies!Outcome(s, result)[i].target = rows[i].target
             /\ \/ Replies!Outcome(s, result)[i] = rows[i]
                \/ /\ i = task[s].id /\ rows[i].status # "none"
                   /\ Replies!Outcome(s, result)[i].status = result
                   /\ result = "sent" => Replies!Outcome(s, result)[i].text = task[s].text
  <2>1. rows[i] \in Replies!Row /\ task[s].text \in SUBSET Text
    BY DEF Replies!TypeOK, Replies!Work
  <2>2. CASE ~(i = task[s].id /\ rows[i].status # "none")
    BY <2>1, <2>2 DEF Replies!Outcome
  <2>3. CASE i = task[s].id /\ rows[i].status # "none"
    <3>1. CASE result = "sent"
      <4>1. Replies!Outcome(s, result)[i]
              = [rows[i] EXCEPT !.status = result, !.text = task[s].text]
        BY <2>3, <3>1 DEF Replies!Outcome
      <4> QED BY <2>1, <2>3, <3>1, <4>1 DEF Replies!Row, Replies!Status
    <3>2. CASE result # "sent"
      <4>1. Replies!Outcome(s, result)[i]
              = [rows[i] EXCEPT !.status = result, !.text = rows[i].text]
        BY <2>3, <3>2 DEF Replies!Outcome
      <4> QED BY <2>1, <2>3, <3>2, <4>1 DEF Replies!Row, Replies!Status
    <3> QED BY <3>1, <3>2
  <2> QED BY <2>2, <2>3
<1>2. Replies!Outcome(s, result) \in [Replies!Id -> Replies!Row]
  BY <1>1 DEF Replies!Outcome
<1> QED BY <1>1, <1>2

\* A new text for a row that waits, or a new row behind the others.
LEMMA RepliesPrepare ==
    ASSUME RepliesParameters, Replies!TypeOK, RepliesShape,
           NEW t \in Target, NEW text \in Text, Replies!Prepare(t, text)
    PROVE  /\ rows' \in [Replies!Id -> Replies!Row]
           /\ drafts' = drafts /\ task' = task /\ preparing' = preparing
           /\ UNCHANGED <<history, res, replies, got, lost, restarts>>
           /\ made' \in 0 .. MaxRows /\ made <= made'
           /\ Replies!SaveLeads
           /\ asked' = {u \in asked : Replies!RowsOf(rows', u) # {} \/ drafts[u] # "none"}
                          \union {u \in {t} : Replies!Recorded(u)'}
           /\ refused' = {u \in refused : Replies!RowsOf(rows', u) # {}}
           /\ \A i \in Replies!Id : rows[i].target = {t} => rows[i].status \notin {"sent", "rejected"}
           /\ \A i \in Replies!Id :
                 \/ rows'[i] = rows[i]
                 \/ rows'[i] = Replies!NoRow
                 \/ /\ rows'[i].status = "pending" /\ rows'[i].target = {t}
                    /\ \/ rows[i].status = "pending" /\ rows[i].target = {t}
                       \/ i > made /\ i <= made'
<1>t. /\ rows \in [Replies!Id -> Replies!Row] /\ made \in 0 .. MaxRows /\ made \in Nat
      /\ \A i \in Replies!Id : i \in Nat
      /\ RowsShape(rows)
  BY RepliesFound DEF Replies!TypeOK, Replies!Id, RepliesParameters, RepliesShape
<1> DEFINE waiting == {i \in Replies!RowsOf(rows, t) : rows[i].status = "pending"}
<1>1. /\ drafts' = drafts /\ task' = task /\ preparing' = preparing
      /\ UNCHANGED <<history, res, replies, got, lost, restarts>>
      /\ Replies!SaveLeads
      /\ asked' = {u \in asked : Replies!RowsOf(rows', u) # {} \/ drafts[u] # "none"}
                     \union {u \in {t} : Replies!Recorded(u)'}
      /\ refused' = {u \in refused : Replies!RowsOf(rows', u) # {}}
  BY DEF Replies!Prepare, Replies!Provider
<1>2. \A i \in Replies!Id : rows[i].target = {t} => rows[i].status \notin {"sent", "rejected"}
  BY DEF Replies!Prepare, Replies!Decided, Replies!RowsOf
<1>3. CASE waiting # {}
  <2>1. PICK i \in waiting : rows' = [rows EXCEPT ![i].text = {text}] /\ made' = made
    BY <1>3 DEF Replies!Prepare
  <2>2. i \in Replies!Id /\ t \in rows[i].target /\ rows[i].status = "pending"
    BY DEF Replies!RowsOf
  <2>3. rows[i].target = {t}
    BY <2>2, <1>t DEF RowsShape
  <2>4. rows' = [rows EXCEPT ![i] = [rows[i] EXCEPT !.text = {text}]]
    BY <2>1
  <2>5. [rows[i] EXCEPT !.text = {text}] \in Replies!Row
    BY <2>2, <1>t DEF Replies!Row
  <2>6. rows' \in [Replies!Id -> Replies!Row] /\ \A k \in Replies!Id : k # i => rows'[k] = rows[k]
    BY <2>2, <2>4, <2>5, <1>t
  <2>7. rows'[i].status = "pending" /\ rows'[i].target = {t}
    BY <2>2, <2>3, <2>4, <1>t DEF Replies!Row
  <2>8. \A k \in Replies!Id :
           \/ rows'[k] = rows[k]
           \/ /\ rows'[k].status = "pending" /\ rows'[k].target = {t}
              /\ rows[k].status = "pending" /\ rows[k].target = {t}
    BY <2>2, <2>3, <2>6, <2>7
  <2>9. made' \in 0 .. MaxRows /\ made <= made'
    BY <2>1, <1>t
  <2> QED BY <1>1, <1>2, <2>6, <2>8, <2>9
<1>4. CASE waiting = {}
  <2> DEFINE new == [status |-> "pending", target |-> {t}, text |-> {text}]
             T == [rows EXCEPT ![made + 1] = new]
  <2>1. made < MaxRows /\ made' = made + 1 /\ rows' = Replies!Cut(T)
    BY <1>4 DEF Replies!Prepare
  <2>2. new \in Replies!Row
    BY DEF Replies!Row, Replies!Status
  <2>3. made + 1 \in Replies!Id
    BY <2>1, <1>t DEF Replies!Id, RepliesParameters
  <2> HIDE DEF new
  <2>4. T \in [Replies!Id -> Replies!Row] /\ T[made + 1] = new
        /\ \A i \in Replies!Id : i # made + 1 => T[i] = rows[i]
    BY <2>2, <2>3, <1>t
  <2> HIDE DEF T
  <2>5. rows' \in [Replies!Id -> Replies!Row]
        /\ \A i \in Replies!Id : rows'[i] = T[i] \/ rows'[i] = Replies!NoRow
    BY <2>1, <2>4, RepliesCut
  <2>6. new.status = "pending" /\ new.target = {t}
    BY DEF new
  <2>7. \A i \in Replies!Id :
           \/ rows'[i] = rows[i] \/ rows'[i] = Replies!NoRow
           \/ /\ rows'[i].status = "pending" /\ rows'[i].target = {t}
              /\ i > made /\ i <= made'
    BY <2>1, <2>3, <2>4, <2>5, <2>6, <1>t
  <2>8. made' \in 0 .. MaxRows /\ made <= made'
    BY <2>1, <1>t DEF RepliesParameters
  <2> QED BY <1>1, <1>2, <2>5, <2>7, <2>8
<1> QED BY <1>3, <1>4

\* The rows a draft replaces were waiting.
LEMMA RepliesFinish ==
    ASSUME Replies!TypeOK, NEW t \in Target, Replies!FinishDraft(t)
    PROVE  /\ UNCHANGED <<saved, task, history, res, replies, got, lost, refused, made>>
           /\ asked' = asked \ {u \in Target : drafts[u] # "none" /\ drafts'[u] = "none"}
           /\ \A i \in Replies!Id :
                 \/ rows'[i] = rows[i]
                 \/ /\ rows'[i] = Replies!NoRow /\ t \in rows[i].target
                    /\ rows[i].status = "pending"
           /\ drafts' \in [Target -> Replies!Draft]
           /\ drafts'[t] = "pending"
<1>1. "pending" \in Replies!Draft /\ "none" \in Replies!Draft
  BY DEF Replies!Draft
<1> DEFINE one == [drafts EXCEPT ![t] = "pending"]
<1>2. one \in [Target -> Replies!Draft] /\ one[t] = "pending"
  BY <1>1 DEF Replies!TypeOK
<1>3. drafts' = one \/ \E u \in Target \ {t} : drafts' = [one EXCEPT ![u] = "none"]
  BY DEF Replies!FinishDraft, Replies!Drafted
<1> HIDE DEF one
<1>4. drafts' \in [Target -> Replies!Draft] /\ drafts'[t] = "pending"
  BY <1>1, <1>2, <1>3
<1> QED BY <1>4 DEF Replies!FinishDraft, Replies!Provider, Replies!Superseded, Replies!RowsOf

LEMMA RepliesTypeStep ==
    ASSUME RepliesParameters, Replies!TypeOK, RepliesShape, [Replies!Next]_(Replies!vars)
    PROVE  Replies!TypeOK'
<1>t. /\ rows \in [Replies!Id -> Replies!Row] /\ drafts \in [Target -> Replies!Draft]
      /\ saved \in RepliesSnapshots
      /\ task \in [Slot -> Replies!Work]
      /\ preparing \in SUBSET Target
      /\ history \in SUBSET Replies!Key
      /\ res \in [Replies!Key -> {"free", "reserved", "done"}]
      /\ replies \in [Replies!Key -> 0 .. 2]
      /\ got \in SUBSET (Replies!Key \X Text)
      /\ lost \in SUBSET Replies!Key
      /\ asked \in SUBSET Target /\ refused \in SUBSET Target
      /\ made \in 0 .. MaxRows /\ restarts \in 0 .. MaxRestarts
  BY DEF Replies!TypeOK, RepliesSnapshots
<1>u. /\ rows' \in [Replies!Id -> Replies!Row] /\ drafts' \in [Target -> Replies!Draft]
      /\ saved' \in RepliesSnapshots
      /\ task' \in [Slot -> Replies!Work]
      /\ preparing' \in SUBSET Target
      /\ history' \in SUBSET Replies!Key
      /\ res' \in [Replies!Key -> {"free", "reserved", "done"}]
      /\ replies' \in [Replies!Key -> 0 .. 2]
      /\ got' \in SUBSET (Replies!Key \X Text)
      /\ lost' \in SUBSET Replies!Key
      /\ asked' \in SUBSET Target /\ refused' \in SUBSET Target
      /\ made' \in 0 .. MaxRows /\ restarts' \in 0 .. MaxRestarts
      => Replies!TypeOK'
  BY DEF Replies!TypeOK, RepliesSnapshots
<1>d. "pending" \in Replies!Draft /\ "approved" \in Replies!Draft /\ "rejected" \in Replies!Draft
      /\ "closed" \in Replies!Draft
  BY DEF Replies!Draft
<1>1. ASSUME NEW t \in Target, NEW text \in Text, Replies!Prepare(t, text) PROVE Replies!TypeOK'
  <2>1. /\ Replies!SaveLeads
        /\ asked' = {u \in asked : Replies!RowsOf(rows', u) # {} \/ drafts[u] # "none"}
                       \union {u \in {t} : Replies!Recorded(u)'}
    BY <1>1, RepliesPrepare
  <2>2. asked' \in SUBSET Target
    BY <2>1, <1>t
  <2>3. rows' \in [Replies!Id -> Replies!Row] /\ drafts' \in [Target -> Replies!Draft]
    BY <1>1, <1>t, RepliesPrepare
  <2>4. saved' \in RepliesSnapshots
    BY <2>1, <2>3, RepliesSaved
  <2>5. refused' \in SUBSET Target
    <3>1. refused' = {u \in refused : Replies!RowsOf(rows', u) # {}}
      BY <1>1, RepliesPrepare
    <3> QED BY <3>1, <1>t
  <2>6. /\ task' = task /\ preparing' = preparing
        /\ UNCHANGED <<history, res, replies, got, lost, restarts>>
        /\ made' \in 0 .. MaxRows
    BY <1>1, RepliesPrepare
  <2> QED BY <2>2, <2>3, <2>4, <2>5, <2>6, <1>t, <1>u
<1>2. ASSUME NEW t \in Target, Replies!StartDraft(t) \/ Replies!NoDraft(t) PROVE Replies!TypeOK'
  BY <1>2, <1>t, <1>u DEF Replies!StartDraft, Replies!NoDraft, Replies!Provider
<1>3. ASSUME NEW t \in Target, Replies!FinishDraft(t) PROVE Replies!TypeOK'
  <2>1. rows' \in [Replies!Id -> Replies!Row]
    BY <1>3, <1>t, RepliesNoRow DEF Replies!FinishDraft
  <2>2. drafts' \in [Target -> Replies!Draft]
    BY <1>3, RepliesFinish
  <2>3. asked' \in SUBSET Target
    BY <1>3, <1>t DEF Replies!FinishDraft
  <2> QED BY <2>1, <2>2, <2>3, <1>3, <1>t, <1>u DEF Replies!FinishDraft, Replies!Provider
<1>4. ASSUME NEW t \in Target, Replies!CloseDraft(t) \/ Replies!RejectDraft(t) PROVE Replies!TypeOK'
  <2>1. /\ rows' = rows /\ drafts' \in [Target -> Replies!Draft]
        /\ UNCHANGED <<task, preparing, history, res, replies, got, lost, asked, refused, made, restarts>>
        /\ Replies!SaveLeads
    BY <1>4, <1>t, <1>d DEF Replies!CloseDraft, Replies!RejectDraft, Replies!Provider
  <2>2. saved' \in RepliesSnapshots
    BY <2>1, <1>t, RepliesSaved
  <2> QED BY <2>1, <2>2, <1>t, <1>u
<1>5. ASSUME NEW i \in Replies!Id, Replies!RejectRow(i) PROVE Replies!TypeOK'
  <2>1. /\ rows' = [rows EXCEPT ![i] = [rows[i] EXCEPT !.status = "rejected"]] /\ drafts' = drafts
        /\ UNCHANGED <<task, preparing, history, res, replies, got, lost, asked, made, restarts>>
    BY <1>5 DEF Replies!RejectRow, Replies!Provider
  <2>2. [rows[i] EXCEPT !.status = "rejected"] \in Replies!Row
    <3>1. rows[i] \in Replies!Row
      BY <1>t
    <3> QED BY <3>1 DEF Replies!Row, Replies!Status
  <2>3. rows' \in [Replies!Id -> Replies!Row]
    BY <2>1, <2>2, <1>t
  <2>4. /\ Replies!SaveLeads
        /\ refused' = refused \union {t \in rows[i].target : Replies!DecidedForGood(t)'}
    BY <1>5 DEF Replies!RejectRow
  <2>5. refused' \in SUBSET Target
    <3>1. rows[i].target \subseteq Target
      BY <1>t DEF Replies!Row
    <3> QED BY <3>1, <2>4, <1>t
  <2>6. saved' \in RepliesSnapshots
    BY <2>1, <2>3, <2>4, <1>t, RepliesSaved
  <2> QED BY <2>1, <2>3, <2>5, <2>6, <1>t, <1>u
<1>6. ASSUME NEW s \in Slot, NEW i \in {0} \union Replies!Id, NEW k \in Replies!Key, NEW text \in Text,
             task' = [task EXCEPT ![s] = Replies!Captured(k, i, text)],
             UNCHANGED <<rows, drafts, saved, preparing, history, res, replies, got, lost,
                         asked, refused, made, restarts>>
      PROVE  Replies!TypeOK'
  <2>1. Replies!Captured(k, i, text) \in Replies!Work
    BY DEF Replies!Captured, Replies!Work, Replies!Rest
  <2> QED BY <2>1, <1>6, <1>t, <1>u
<1>7. ASSUME NEW s \in Slot, NEW i \in Replies!Id, NEW text \in Text, Replies!ApproveRow(s, i, text)
      PROVE  Replies!TypeOK'
  <2>1. PICK t \in rows[i].target : task' = [task EXCEPT ![s] = Replies!Captured(<<"row", t>>, i, text)]
    BY <1>7 DEF Replies!ApproveRow
  <2>2. t \in Target /\ <<"row", t>> \in Replies!Key
    BY <1>t, RepliesKeys DEF Replies!Row
  <2> QED BY <2>1, <2>2, <1>6, <1>7 DEF Replies!ApproveRow, Replies!Provider
<1>8. ASSUME NEW s \in Slot, NEW t \in Target, NEW text \in Text, Replies!ApproveDraft(s, t, text)
      PROVE  Replies!TypeOK'
  BY <1>6, <1>8, RepliesKeys DEF Replies!ApproveDraft, Replies!Provider
<1>9. ASSUME NEW s \in Slot, NEW result \in {"sent", "failed"}, Replies!Write(s, result),
             UNCHANGED <<history, replies, got, lost>>,
             res' \in [Replies!Key -> {"free", "reserved", "done"}]
      PROVE  Replies!TypeOK'
  <2>1. rows' \in [Replies!Id -> Replies!Row]
    BY <1>9, RepliesOutcome DEF Replies!Write
  <2>2. drafts' \in [Target -> Replies!Draft]
    BY <1>9, <1>t, <1>d DEF Replies!Write
  <2>3. saved' \in RepliesSnapshots
    BY <1>9, <2>1, <2>2, RepliesSaved DEF Replies!Write
  <2> QED BY <1>9, <2>1, <2>2, <2>3, <1>t, <1>u, RepliesRest DEF Replies!Write
<1>10. ASSUME NEW s \in Slot, Replies!Refused(s) PROVE Replies!TypeOK'
  BY <1>9, <1>10, <1>t DEF Replies!Refused, Replies!Provider
<1>11. ASSUME NEW s \in Slot, NEW k \in Replies!Key, Replies!Send(s, k) PROVE Replies!TypeOK'
  <2>1. [task[s] EXCEPT !.stage = "sent"] \in Replies!Work
    BY <1>t DEF Replies!Work
  <2>2. task' \in [Slot -> Replies!Work]
    BY <1>11, <2>1, <1>t DEF Replies!Send
  <2> QED BY <2>2, <1>11, <1>t, <1>u DEF Replies!Send
<1>12. ASSUME NEW s \in Slot, NEW k \in Replies!Key, NEW result \in {"sent", "failed"},
              NEW outcome \in {"done", "free", "keep"}, Replies!Answered(s, k, result, outcome),
              (replies' = replies /\ got' = got) \/ Replies!Arrived(s, k),
              lost' \subseteq lost \union {k}
       PROVE  Replies!TypeOK'
  <2>1. [task[s] EXCEPT !.stage = "answered", !.result = result, !.outcome = outcome] \in Replies!Work
    <3>1. task[s] \in Replies!Work
      BY <1>t
    <3> QED BY <3>1 DEF Replies!Work
  <2>2. task' = [task EXCEPT ![s] = [task[s] EXCEPT !.stage = "answered", !.result = result,
                                                    !.outcome = outcome]]
    BY <1>12 DEF Replies!Answered
  <2>3. task' \in [Slot -> Replies!Work]
    BY <2>1, <2>2, <1>t
  <2>4. task[s].text \subseteq Text
    BY <1>t DEF Replies!Work
  <2>5. got' \subseteq Replies!Key \X Text
    BY <1>12, <2>4, <1>t DEF Replies!Arrived
  <2>6. replies' \in [Replies!Key -> 0 .. 2]
    <3>1. Replies!OneMore(replies[k]) \in 0 .. 2
      BY <1>t DEF Replies!OneMore
    <3>2. replies' = replies \/ replies' = [replies EXCEPT ![k] = Replies!OneMore(replies[k])]
      BY <1>12 DEF Replies!Arrived
    <3> QED BY <3>1, <3>2, <1>t
  <2> QED BY <2>3, <2>5, <2>6, <1>12, <1>t, <1>u DEF Replies!Answered
<1>13. ASSUME NEW s \in Slot, NEW k \in Replies!Key,
              \/ Replies!Delivered(s, k) \/ Replies!Declined(s, k)
              \/ Replies!Misjudged(s, k) \/ Replies!AnswerLost(s, k)
       PROVE  Replies!TypeOK'
  <2>1. CASE Replies!Delivered(s, k)
    BY <2>1, <1>12 DEF Replies!Delivered
  <2>2. CASE Replies!Declined(s, k)
    BY <2>2, <1>12 DEF Replies!Declined
  <2>3. CASE Replies!AnswerLost(s, k)
    BY <2>3, <1>12 DEF Replies!AnswerLost
  <2>4. CASE Replies!Misjudged(s, k)
    BY <2>4, <1>12 DEF Replies!Misjudged
  <2> QED BY <1>13, <2>1, <2>2, <2>3, <2>4
<1>14. ASSUME NEW s \in Slot, NEW k \in Replies!Key, Replies!End(s, k) PROVE Replies!TypeOK'
  <2>1. task[s].outcome \in {"done", "free", "keep"} /\ task[s].result \in {"sent", "failed"}
    BY <1>t DEF Replies!Work
  <2>2. Replies!Concluded(s, k) \in {"free", "reserved", "done"}
    BY <2>1, <1>t DEF Replies!Concluded
  <2>3. res' \in [Replies!Key -> {"free", "reserved", "done"}]
    BY <1>14, <2>2, <1>t DEF Replies!End
  <2> QED BY <2>1, <2>3, <1>9, <1>14 DEF Replies!End
<1>15. ASSUME NEW k \in Replies!Key, Replies!Expire(k) PROVE Replies!TypeOK'
  BY <1>15, <1>t, <1>u DEF Replies!Expire
<1>16. CASE Replies!SaveCycle
  BY <1>16, <1>t, <1>u, RepliesSaved DEF Replies!SaveCycle, Replies!Provider
<1>22. CASE Replies!Settle
  <2>1. saved' \in RepliesSnapshots /\ asked' \in SUBSET Target /\ refused' \in SUBSET Target
    BY <1>22, <1>t DEF Replies!Settle, RepliesSnapshots
  <2> QED BY <2>1, <1>22, <1>t, <1>u DEF Replies!Settle, Replies!Provider
<1>17. CASE Replies!Restart
  <2>1. task' \in [Slot -> Replies!Work]
    BY <1>17, RepliesRest DEF Replies!Restart
  <2>2. PICK arrived \in SUBSET Replies!Sending :
           /\ replies' = [k \in Replies!Key |->
                 IF \E s \in arrived : k \in task[s].key THEN Replies!OneMore(replies[k])
                 ELSE replies[k]]
           /\ got' = got \union UNION {task[s].key \X task[s].text : s \in arrived}
    BY <1>17 DEF Replies!Restart
  <2>3. \A k \in Replies!Key : Replies!OneMore(replies[k]) \in 0 .. 2 /\ replies[k] \in 0 .. 2
    BY <1>t DEF Replies!OneMore
  <2>4. replies' \in [Replies!Key -> 0 .. 2]
    BY <2>2, <2>3
  <2>5. \A s \in arrived : task[s].key \subseteq Replies!Key /\ task[s].text \subseteq Text
    BY <1>t DEF Replies!Sending, Replies!Work
  <2>6. got' \subseteq Replies!Key \X Text
    <3>1. \A s \in arrived : task[s].key \X task[s].text \subseteq Replies!Key \X Text
      BY <2>5
    <3>2. UNION {task[s].key \X task[s].text : s \in arrived} \subseteq Replies!Key \X Text
      BY <3>1
    <3> QED BY <2>2, <3>2, <1>t
  <2>8. rows' \in [Replies!Id -> Replies!Row] /\ drafts' \in [Target -> Replies!Draft]
    BY <1>17, <1>t DEF Replies!Restart, RepliesSnapshots
  <2>7. /\ saved' = saved
        /\ preparing' = {} /\ history' \in SUBSET history /\ lost' \in SUBSET Replies!Key
        /\ restarts' \in 0 .. MaxRestarts /\ UNCHANGED <<res, asked, refused, made>>
    BY <1>17, <1>t DEF Replies!Restart, RepliesParameters
  <2> QED BY <2>1, <2>4, <2>6, <2>7, <2>8, <1>t, <1>u
<1>18. CASE UNCHANGED Replies!vars
  BY <1>18, <1>t, <1>u DEF Replies!vars
<1>19. CASE Replies!Preparing
  BY <1>19, <1>1, <1>2, <1>3, <1>4 DEF Replies!Preparing
<1>20. CASE Replies!Deciding
  BY <1>20, <1>4, <1>5, <1>7, <1>8 DEF Replies!Deciding
<1>21. ASSUME NEW s \in Slot, Replies!Executing(s) PROVE Replies!TypeOK'
  BY <1>21, <1>10, <1>11, <1>13, <1>14 DEF Replies!Executing
<1> QED BY <1>15, <1>16, <1>17, <1>18, <1>19, <1>20, <1>21, <1>22 DEF Replies!Next

\* The steps that leave the rows and the decisions in progress alone.
LEMMA RepliesQuiet ==
    ASSUME Replies!TypeOK,
           \/ \E t \in Target : \/ Replies!StartDraft(t) \/ Replies!NoDraft(t)
                                \/ Replies!CloseDraft(t) \/ Replies!RejectDraft(t)
           \/ \E k \in Replies!Key : Replies!Expire(k)
           \/ Replies!SaveCycle
           \/ UNCHANGED Replies!vars
    PROVE  /\ UNCHANGED <<rows, task, history, replies, got, lost, asked, refused, made>>
           /\ saved' \subseteq saved \union {Replies!Leads'}
           /\ \A t \in Target : drafts[t] # "none" => drafts'[t] # "none"
<1>t. drafts \in [Target -> Replies!Draft]
  BY DEF Replies!TypeOK
<1>1. ASSUME NEW t \in Target, Replies!StartDraft(t) \/ Replies!NoDraft(t)
      PROVE  UNCHANGED <<rows, task, history, replies, got, lost, asked, refused, made, saved, drafts>>
  BY <1>1 DEF Replies!StartDraft, Replies!NoDraft, Replies!Provider
<1>2. ASSUME NEW t \in Target, Replies!CloseDraft(t) \/ Replies!RejectDraft(t)
      PROVE  /\ UNCHANGED <<rows, task, history, replies, got, lost, asked, refused, made>>
             /\ saved' \subseteq saved \union {Replies!Leads'}
             /\ \A u \in Target : drafts[u] # "none" => drafts'[u] # "none"
  <2>1. /\ UNCHANGED <<rows, task, history, replies, got, lost, asked, refused, made>>
        /\ Replies!SaveLeads
    BY <1>2 DEF Replies!CloseDraft, Replies!RejectDraft, Replies!Provider
  <2>2. saved' \subseteq saved \union {Replies!Leads'}
    BY <2>1, RepliesSaved
  <2>3. drafts' = [drafts EXCEPT ![t] = "closed"] \/ drafts' = [drafts EXCEPT ![t] = "rejected"]
    BY <1>2 DEF Replies!CloseDraft, Replies!RejectDraft
  <2> QED BY <2>1, <2>2, <2>3, <1>t
<1>3. ASSUME NEW k \in Replies!Key, Replies!Expire(k)
      PROVE  UNCHANGED <<rows, task, history, replies, got, lost, asked, refused, made, saved, drafts>>
  BY <1>3 DEF Replies!Expire
<1>4. CASE Replies!SaveCycle
  BY <1>4, RepliesSaved DEF Replies!SaveCycle, Replies!Provider
<1>5. CASE UNCHANGED Replies!vars
  BY <1>5 DEF Replies!vars
<1> QED BY <1>1, <1>2, <1>3, <1>4, <1>5

\* The steps that leave the rows alone, and the store.
RowsAlone(s, w) ==
    /\ task' = [task EXCEPT ![s] = w]
    /\ UNCHANGED <<rows, drafts, saved, asked, refused, made>>

LEMMA RepliesCapture ==
    ASSUME Replies!TypeOK, RepliesShape, NEW s \in Slot, NEW text \in Text,
           \/ \E i \in Replies!Id : Replies!ApproveRow(s, i, text)
           \/ \E t \in Target : Replies!ApproveDraft(s, t, text)
    PROVE  \E w \in Replies!Work :
              /\ RowsAlone(s, w) /\ task[s] = Replies!Rest
              /\ UNCHANGED <<history, res, replies, got, lost>>
              /\ w.stage = "asking" /\ w.text = {text}
              /\ \/ \E t \in Target : w.id = 0 /\ w.key = {<<"draft", t>>}
                 \/ \E t \in Target : /\ w.id \in Replies!Id /\ w.key = {<<"row", t>>}
                                      /\ t \in rows[w.id].target
                                      /\ rows[w.id].status \in {"pending", "failed"}
<1>1. ASSUME NEW i \in Replies!Id, Replies!ApproveRow(s, i, text)
      PROVE  \E w \in Replies!Work :
              /\ RowsAlone(s, w) /\ task[s] = Replies!Rest
              /\ UNCHANGED <<history, res, replies, got, lost>>
              /\ w.stage = "asking" /\ w.text = {text}
              /\ \E t \in Target : /\ w.id \in Replies!Id /\ w.key = {<<"row", t>>}
                                   /\ t \in rows[w.id].target
                                   /\ rows[w.id].status \in {"pending", "failed"}
  <2>1. PICK t \in rows[i].target :
           task' = [task EXCEPT ![s] = Replies!Captured(<<"row", t>>, i, text)]
    BY <1>1 DEF Replies!ApproveRow
  <2>2. t \in Target
    BY DEF Replies!TypeOK, Replies!Row
  <2> DEFINE w == Replies!Captured(<<"row", t>>, i, text)
  <2>3. <<"row", t>> \in Replies!Key
    BY <2>2, RepliesKeys
  <2>4. /\ w.stage = "asking" /\ w.text = {text} /\ w.id = i /\ w.key = {<<"row", t>>}
        /\ w \in Replies!Work
    BY <2>3 DEF Replies!Captured, Replies!Rest, Replies!Work
  <2>5. RowsAlone(s, w)
    BY <1>1, <2>1 DEF RowsAlone, Replies!ApproveRow
  <2>6. /\ task[s] = Replies!Rest /\ UNCHANGED <<history, res, replies, got, lost>>
        /\ rows[i].status \in {"pending", "failed"}
    BY <1>1 DEF Replies!ApproveRow, Replies!Provider
  <2> HIDE DEF w
  <2> QED BY <2>2, <2>4, <2>5, <2>6
<1>2. ASSUME NEW t \in Target, Replies!ApproveDraft(s, t, text)
      PROVE  \E w \in Replies!Work :
              /\ RowsAlone(s, w) /\ task[s] = Replies!Rest
              /\ UNCHANGED <<history, res, replies, got, lost>>
              /\ w.stage = "asking" /\ w.text = {text}
              /\ w.id = 0 /\ w.key = {<<"draft", t>>}
  <2> DEFINE w == Replies!Captured(<<"draft", t>>, 0, text)
  <2>3. <<"draft", t>> \in Replies!Key
    BY RepliesKeys
  <2>4. /\ w.stage = "asking" /\ w.text = {text} /\ w.id = 0 /\ w.key = {<<"draft", t>>}
        /\ w \in Replies!Work
    BY <2>3 DEF Replies!Captured, Replies!Rest, Replies!Work
  <2>5. RowsAlone(s, w)
    BY <1>2 DEF RowsAlone, Replies!ApproveDraft
  <2>6. task[s] = Replies!Rest /\ UNCHANGED <<history, res, replies, got, lost>>
    BY <1>2 DEF Replies!ApproveDraft, Replies!Provider
  <2> HIDE DEF w
  <2> QED BY <2>4, <2>5, <2>6
<1> QED BY <1>1, <1>2

\* A call goes out, and its answer comes.
LEMMA RepliesCall ==
    ASSUME Replies!TypeOK, RepliesShape, NEW s \in Slot, NEW k \in Replies!Key,
           \/ Replies!Send(s, k) \/ Replies!Delivered(s, k)
           \/ Replies!Declined(s, k) \/ Replies!Misjudged(s, k) \/ Replies!AnswerLost(s, k)
    PROVE  \E w \in Replies!Work :
              /\ RowsAlone(s, w)
              /\ w.key = task[s].key /\ w.id = task[s].id /\ w.text = task[s].text
              /\ task[s].key = {k} /\ lost \subseteq lost' /\ got \subseteq got'
              /\ \/ /\ task[s].stage = "asking" /\ w.stage = "sent" /\ Replies!Clear(k)
                    /\ res' = [res EXCEPT ![k] = "reserved"]
                    /\ UNCHANGED <<history, replies, got, lost>>
                 \/ /\ task[s].stage = "sent" /\ w.stage = "answered" /\ res' = res
                    /\ \/ replies' = replies
                       \/ replies' = [replies EXCEPT ![k] = Replies!OneMore(replies[k])]
                    /\ k \in lost' \/ (w.outcome = "done" \/ replies' = replies)
                    /\ w.result = "sent" =>
                          got' = got \union {<<k, text>> : text \in task[s].text}
<1>t. task \in [Slot -> Replies!Work] /\ task[s] \in Replies!Work
  BY DEF Replies!TypeOK
<1>k. k \in task[s].key => task[s].key = {k}
  BY DEF RepliesShape, TaskShape
<1>1. CASE Replies!Send(s, k)
  <2> DEFINE w == [task[s] EXCEPT !.stage = "sent"]
  <2>1. /\ w \in Replies!Work /\ w.stage = "sent" /\ w.key = task[s].key /\ w.id = task[s].id
        /\ w.text = task[s].text
    BY <1>t DEF Replies!Work
  <2>2. /\ task[s].stage = "asking" /\ k \in task[s].key /\ Replies!Clear(k)
        /\ res' = [res EXCEPT ![k] = "reserved"]
        /\ UNCHANGED <<history, replies, got, lost>>
        /\ task' = [task EXCEPT ![s] = w]
        /\ UNCHANGED <<rows, drafts, saved, asked, refused, made>>
    BY <1>1 DEF Replies!Send
  <2> HIDE DEF w
  <2> QED BY <1>k, <2>1, <2>2 DEF RowsAlone
<1>2. ASSUME NEW result \in {"sent", "failed"}, NEW outcome \in {"done", "free", "keep"},
             Replies!Answered(s, k, result, outcome), lost \subseteq lost',
             (replies' = replies /\ got' = got) \/ Replies!Arrived(s, k),
             k \in lost' \/ outcome = "done" \/ replies' = replies,
             result = "sent" => Replies!Arrived(s, k)
      PROVE  \E w \in Replies!Work :
              /\ RowsAlone(s, w)
              /\ w.key = task[s].key /\ w.id = task[s].id /\ w.text = task[s].text
              /\ task[s].key = {k} /\ lost \subseteq lost' /\ got \subseteq got'
              /\ task[s].stage = "sent" /\ w.stage = "answered" /\ res' = res
              /\ \/ replies' = replies
                 \/ replies' = [replies EXCEPT ![k] = Replies!OneMore(replies[k])]
              /\ k \in lost' \/ (w.outcome = "done" \/ replies' = replies)
              /\ w.result = "sent" => got' = got \union {<<k, text>> : text \in task[s].text}
  <2> DEFINE w == [task[s] EXCEPT !.stage = "answered", !.result = result, !.outcome = outcome]
  <2>1. /\ w \in Replies!Work /\ w.stage = "answered" /\ w.key = task[s].key /\ w.id = task[s].id
        /\ w.text = task[s].text /\ w.result = result /\ w.outcome = outcome
    BY <1>t DEF Replies!Work
  <2>2. task' = [task EXCEPT ![s] = w]
    BY <1>2 DEF Replies!Answered
  <2>3. /\ UNCHANGED <<rows, drafts, saved, asked, refused, made, res>>
        /\ task[s].stage = "sent" /\ k \in task[s].key
    BY <1>2 DEF Replies!Answered
  <2>4. /\ replies' = replies \/ replies' = [replies EXCEPT ![k] = Replies!OneMore(replies[k])]
        /\ got \subseteq got'
        /\ result = "sent" => got' = got \union {<<k, text>> : text \in task[s].text}
    BY <1>2 DEF Replies!Arrived
  <2> HIDE DEF w
  <2> QED BY <1>2, <1>k, <2>1, <2>2, <2>3, <2>4 DEF RowsAlone
<1>3. CASE Replies!Delivered(s, k)
  <2>1. lost' = lost /\ Replies!Answered(s, k, "sent", "done") /\ Replies!Arrived(s, k)
    BY <1>3 DEF Replies!Delivered
  <2> QED BY <1>2, <2>1
<1>4. CASE Replies!Declined(s, k)
  <2>1. lost' = lost /\ Replies!Answered(s, k, "failed", "free") /\ replies' = replies /\ got' = got
    BY <1>4 DEF Replies!Declined
  <2> QED BY <1>2, <2>1
<1>5. CASE Replies!AnswerLost(s, k)
  <2>1. /\ lost' = lost \union {k} /\ Replies!Answered(s, k, "failed", "keep")
        /\ (replies' = replies /\ got' = got) \/ Replies!Arrived(s, k)
    BY <1>5 DEF Replies!AnswerLost
  <2> QED BY <1>2, <2>1
<1>6. CASE Replies!Misjudged(s, k)
  <2>1. /\ lost' = lost \union {k} /\ Replies!Answered(s, k, "failed", "free")
        /\ Replies!Arrived(s, k)
    BY <1>6 DEF Replies!Misjudged
  <2> QED BY <1>2, <2>1
<1> QED BY <1>1, <1>3, <1>4, <1>5, <1>6

\* The decision writes its result.
LEMMA RepliesWrite ==
    ASSUME Replies!TypeOK, RepliesShape, NEW s \in Slot,
           Replies!Refused(s) \/ \E k \in Replies!Key : Replies!End(s, k)
    PROVE  /\ task' = [task EXCEPT ![s] = Replies!Rest]
           /\ UNCHANGED <<history, replies, got, lost, asked, refused, made>>
           /\ saved' \subseteq saved \union {Replies!Leads'}
           /\ \A t \in Target : drafts[t] # "none" => drafts'[t] # "none"
           /\ \A i \in Replies!Id :
                 /\ rows'[i].target = rows[i].target
                 /\ \/ rows'[i] = rows[i]
                    \/ /\ i = task[s].id /\ rows[i].status # "none"
                       /\ rows'[i].status \in {"sent", "failed"}
                       /\ rows'[i].status = "sent" =>
                             /\ rows'[i].text = task[s].text
                             /\ task[s].stage = "answered" /\ task[s].result = "sent"
           /\ \/ task[s].stage = "asking" /\ res' = res
              \/ \E k \in Replies!Key :
                    /\ task[s].stage = "answered" /\ task[s].key = {k}
                    /\ res' = [res EXCEPT ![k] = Replies!Concluded(s, k)]
<1>t. task[s] \in Replies!Work /\ drafts \in [Target -> Replies!Draft]
  BY DEF Replies!TypeOK
<1>1. ASSUME NEW result \in {"sent", "failed"}, Replies!Write(s, result)
      PROVE  /\ task' = [task EXCEPT ![s] = Replies!Rest]
             /\ UNCHANGED <<asked, refused, made>>
             /\ saved' \subseteq saved \union {Replies!Leads'}
             /\ \A t \in Target : drafts[t] # "none" => drafts'[t] # "none"
             /\ rows' = Replies!Outcome(s, result)
  <2>1. /\ task' = [task EXCEPT ![s] = Replies!Rest]
        /\ UNCHANGED <<asked, refused, made>>
        /\ Replies!SaveLeads
        /\ drafts' = [t \in Target |->
              IF <<"draft", t>> \in task[s].key THEN "approved" ELSE drafts[t]]
        /\ rows' = Replies!Outcome(s, result)
    BY <1>1 DEF Replies!Write
  <2>2. saved' \subseteq saved \union {Replies!Leads'}
    BY <2>1, RepliesSaved
  <2> QED BY <2>1, <2>2, <1>t
<1>2. ASSUME NEW result \in {"sent", "failed"}, rows' = Replies!Outcome(s, result),
             result = "sent" => task[s].stage = "answered" /\ task[s].result = "sent"
      PROVE  \A i \in Replies!Id :
                 /\ rows'[i].target = rows[i].target
                 /\ \/ rows'[i] = rows[i]
                    \/ /\ i = task[s].id /\ rows[i].status # "none"
                       /\ rows'[i].status \in {"sent", "failed"}
                       /\ rows'[i].status = "sent" =>
                             /\ rows'[i].text = task[s].text
                             /\ task[s].stage = "answered" /\ task[s].result = "sent"
  BY <1>2, RepliesOutcome
<1>3. CASE Replies!Refused(s)
  <2>1. /\ task[s].stage = "asking" /\ Replies!Write(s, "failed")
        /\ UNCHANGED <<history, res, replies, got, lost>>
    BY <1>3 DEF Replies!Refused, Replies!Provider
  <2>2. rows' = Replies!Outcome(s, "failed")
    BY <2>1, <1>1
  <2> QED BY <1>1, <1>2, <2>1, <2>2
<1>4. ASSUME NEW k \in Replies!Key, Replies!End(s, k)
      PROVE  /\ task[s].stage = "answered" /\ task[s].key = {k}
             /\ task[s].result \in {"sent", "failed"} /\ Replies!Write(s, task[s].result)
             /\ UNCHANGED <<history, replies, got, lost>>
             /\ res' = [res EXCEPT ![k] = Replies!Concluded(s, k)]
  <2>1. k \in task[s].key => task[s].key = {k}
    BY DEF RepliesShape, TaskShape
  <2>2. task[s].result \in {"sent", "failed"}
    BY <1>t DEF Replies!Work
  <2> QED BY <1>4, <2>1, <2>2 DEF Replies!End
<1>5. ASSUME NEW k \in Replies!Key, Replies!End(s, k)
      PROVE  /\ task' = [task EXCEPT ![s] = Replies!Rest]
             /\ UNCHANGED <<history, replies, got, lost, asked, refused, made>>
             /\ saved' \subseteq saved \union {Replies!Leads'}
             /\ \A t \in Target : drafts[t] # "none" => drafts'[t] # "none"
             /\ \A i \in Replies!Id :
                   /\ rows'[i].target = rows[i].target
                   /\ \/ rows'[i] = rows[i]
                      \/ /\ i = task[s].id /\ rows[i].status # "none"
                         /\ rows'[i].status \in {"sent", "failed"}
                         /\ rows'[i].status = "sent" =>
                               /\ rows'[i].text = task[s].text
                               /\ task[s].stage = "answered" /\ task[s].result = "sent"
             /\ \E l \in Replies!Key :
                   /\ task[s].stage = "answered" /\ task[s].key = {l}
                   /\ res' = [res EXCEPT ![l] = Replies!Concluded(s, l)]
  <2>1. rows' = Replies!Outcome(s, task[s].result)
    BY <1>5, <1>4, <1>1
  <2> QED BY <1>5, <1>4, <1>1, <1>2, <2>1
<1> QED BY <1>3, <1>5

LEMMA RepliesReject ==
    ASSUME Replies!TypeOK, NEW i \in Replies!Id, Replies!RejectRow(i)
    PROVE  /\ UNCHANGED <<drafts, task, history, res, replies, got, lost, asked, made>>
           /\ saved' \subseteq saved \union {Replies!Leads'}
           /\ refused' = refused \union {t \in rows[i].target : Replies!DecidedForGood(t)'}
           /\ rows[i].status \in {"pending", "failed"}
           /\ \A j \in Replies!Id :
                 \/ rows'[j] = rows[j]
                 \/ /\ j = i /\ rows'[j].status = "rejected"
                    /\ rows'[j].target = rows[j].target
<1>1. rows \in [Replies!Id -> Replies!Row]
  BY DEF Replies!TypeOK
<1>2. rows' = [rows EXCEPT ![i] = [rows[i] EXCEPT !.status = "rejected"]]
  BY DEF Replies!RejectRow
<1>3. /\ [rows[i] EXCEPT !.status = "rejected"].status = "rejected"
      /\ [rows[i] EXCEPT !.status = "rejected"].target = rows[i].target
  <2>1. rows[i] \in Replies!Row
    BY <1>1
  <2> QED BY <2>1 DEF Replies!Row
<1>4. \A j \in Replies!Id :
         \/ rows'[j] = rows[j]
         \/ /\ j = i /\ rows'[j].status = "rejected"
            /\ rows'[j].target = rows[j].target
  BY <1>1, <1>2, <1>3
<1>5. saved' \subseteq saved \union {Replies!Leads'}
  BY RepliesSaved DEF Replies!RejectRow
<1> QED BY <1>4, <1>5 DEF Replies!RejectRow, Replies!Provider

\* One snapshot less is in question.
LEMMA RepliesSettle ==
    ASSUME Replies!Settle
    PROVE  /\ UNCHANGED <<rows, drafts, task, history, res, replies, got, lost, made>>
           /\ Replies!Found' \subseteq Replies!Found
           /\ asked' = asked \union {t \in Target : Replies!Recorded(t)'}
           /\ refused' = refused \union {t \in Target : Replies!DecidedForGood(t)'}
BY DEF Replies!Settle, Replies!Provider, Replies!Found, Replies!Leads

\* A restart goes on with one of the snapshots.
LEMMA RepliesRestart ==
    ASSUME Replies!TypeOK, Replies!Restart
    PROVE  /\ task' = [s \in Slot |-> Replies!Rest] /\ UNCHANGED <<res, asked, refused, made>>
           /\ Replies!Found' \subseteq Replies!Found
           /\ got \subseteq got'
<1>1. PICK leads \in saved : rows' = leads.rows /\ drafts' = leads.drafts
  BY DEF Replies!Restart
<1>2. Replies!Leads' = leads
  <2>1. leads \in [rows : [Replies!Id -> Replies!Row], drafts : [Target -> Replies!Draft]]
    BY DEF Replies!TypeOK
  <2>2. leads = [rows |-> leads.rows, drafts |-> leads.drafts]
    BY <2>1
  <2> QED BY <1>1, <2>2 DEF Replies!Leads
<1>3. Replies!Found' \subseteq Replies!Found
  BY <1>2 DEF Replies!Found, Replies!Restart
<1> QED BY <1>3 DEF Replies!Restart


LEMMA RepliesShapeKeeps ==
    ASSUME RepliesParameters, Replies!TypeOK, RepliesShape, made' \in Nat, made <= made',
           \A i \in Replies!Id :
              /\ rows'[i].status = "none" => rows'[i].target = {}
              /\ \A t, u \in rows'[i].target : t = u
              /\ i > made' => rows'[i].target = {}
              /\ rows'[i].target \subseteq rows[i].target \/ i > made,
           saved' \subseteq saved \union {Replies!Leads'},
           \A s \in Slot :
              \/ task'[s].key = {} /\ task'[s].id = 0
              \/ task'[s].key = task[s].key /\ task'[s].id = task[s].id /\ task'[s].stage # "idle"
              \/ task'[s] = task[s]
              \/ TaskShape(s)'
    PROVE  RepliesShape'
<1>t. /\ made \in Nat /\ \A i \in Replies!Id : i \in Nat
      /\ \A s \in Slot : task[s].id \in {0} \union Replies!Id
      /\ 0 \notin Replies!Id
  BY DEF Replies!TypeOK, Replies!Work, Replies!Id, RepliesParameters
<1>f. \A leads \in Replies!Found' : leads \in Replies!Found \/ leads.rows = rows'
  BY RepliesFound
<1>g. \A leads \in Replies!Found, i \in Replies!Id :
         /\ leads.rows[i].status = "none" => leads.rows[i].target = {}
         /\ \A t, u \in leads.rows[i].target : t = u
         /\ i > made => leads.rows[i].target = {}
         /\ \A t \in rows[i].target, u \in leads.rows[i].target : t = u
  BY RepliesFound DEF RepliesShape, RowsShape
<1>1. ASSUME NEW leads \in Replies!Found' PROVE RowsShape(leads.rows)'
  <2>1. CASE leads \in Replies!Found
    BY <1>g, <1>t, <2>1 DEF RowsShape
  <2>2. CASE leads.rows = rows'
    BY <2>2 DEF RowsShape
  <2> QED BY <1>f, <2>1, <2>2
<1>2. ASSUME NEW leads \in Replies!Found, NEW i \in Replies!Id,
             NEW t \in rows'[i].target, NEW u \in leads.rows[i].target
      PROVE  t = u
  <2>1. CASE rows'[i].target \subseteq rows[i].target
    BY <1>g, <2>1
  <2>2. CASE i > made
    BY <1>g, <2>2
  <2> QED BY <2>1, <2>2
<1>3. ASSUME NEW one \in Replies!Found', NEW other \in Replies!Found', NEW i \in Replies!Id,
             NEW t \in one.rows[i].target, NEW u \in other.rows[i].target
      PROVE  t = u
  <2>1. CASE one \in Replies!Found /\ other \in Replies!Found
    BY <2>1 DEF RepliesShape
  <2>2. CASE one.rows = rows' /\ other \in Replies!Found
    BY <1>2, <2>2
  <2>3. CASE one \in Replies!Found /\ other.rows = rows'
    BY <1>2, <2>3
  <2>4. CASE one.rows = rows' /\ other.rows = rows'
    BY <2>4
  <2> QED BY <1>f, <2>1, <2>2, <2>3, <2>4
<1>5. ASSUME NEW s \in Slot PROVE TaskShape(s)'
  <2>1. TaskShape(s)
    BY DEF RepliesShape
  <2>2. CASE task'[s].key = {} /\ task'[s].id = 0
    BY <2>2, <1>t DEF TaskShape
  <2>3. ASSUME task'[s].key = task[s].key, task'[s].id = task[s].id,
               task'[s].stage = "idle" => task[s].stage = "idle"
        PROVE  TaskShape(s)'
    <3>1. ASSUME NEW k \in task[s].key, task[s].id # 0, NEW leads \in Replies!Found'
          PROVE  leads.rows[task[s].id].target \subseteq {k[2]}
      <4>1. CASE leads \in Replies!Found
        BY <2>1, <3>1, <4>1 DEF TaskShape
      <4>2. CASE leads.rows = rows'
        <5>1. rows'[task[s].id].target \subseteq rows[task[s].id].target
          BY <2>1, <3>1, <1>t DEF TaskShape
        <5>2. rows[task[s].id].target \subseteq {k[2]}
          BY <2>1, <3>1, RepliesFound DEF TaskShape
        <5> QED BY <4>2, <5>1, <5>2
      <4> QED BY <1>f, <4>1, <4>2
    <3>2. task[s].id <= made'
      BY <2>1, <1>t DEF TaskShape
    <3> QED BY <2>1, <2>3, <3>1, <3>2 DEF TaskShape
  <2> QED BY <2>2, <2>3
<1> QED BY <1>1, <1>3, <1>5 DEF RepliesShape

LEMMA RepliesShapeStep ==
    ASSUME RepliesParameters, Replies!TypeOK, RepliesShape, [Replies!Next]_(Replies!vars)
    PROVE  RepliesShape'
<1>t. /\ rows \in [Replies!Id -> Replies!Row] /\ task \in [Slot -> Replies!Work] /\ made \in Nat
      /\ \A i \in Replies!Id : i \in Nat
  BY DEF Replies!TypeOK, Replies!Id, RepliesParameters
<1>r. /\ \A i \in Replies!Id :
            /\ rows[i].status = "none" => rows[i].target = {}
            /\ \A t, u \in rows[i].target : t = u
            /\ i > made => rows[i].target = {}
      /\ \A leads \in Replies!Found, i \in Replies!Id :
            \A t \in rows[i].target, u \in leads.rows[i].target : t = u
  BY RepliesFound DEF RepliesShape, RowsShape
<1>n. Replies!NoRow.target = {} /\ Replies!NoRow.status = "none"
  BY DEF Replies!NoRow
<1>1. ASSUME NEW t \in Target, NEW text \in Text, Replies!Prepare(t, text) PROVE RepliesShape'
  <2>1. /\ task' = task /\ made <= made' /\ made' \in Nat
        /\ \A i \in Replies!Id :
              \/ rows'[i] = rows[i]
              \/ rows'[i] = Replies!NoRow
              \/ /\ rows'[i].status = "pending" /\ rows'[i].target = {t}
                 /\ \/ rows[i].status = "pending" /\ rows[i].target = {t}
                    \/ i > made /\ i <= made'
    BY <1>1, RepliesPrepare DEF RepliesParameters
  <2>2. saved' \subseteq saved \union {Replies!Leads'}
    BY <1>1, RepliesPrepare, RepliesSaved
  <2>3. \A i \in Replies!Id :
              /\ rows'[i].status = "none" => rows'[i].target = {}
              /\ \A v, u \in rows'[i].target : v = u
              /\ i > made' => rows'[i].target = {}
              /\ rows'[i].target \subseteq rows[i].target \/ i > made
    <3> SUFFICES ASSUME NEW i \in Replies!Id
                 PROVE  /\ rows'[i].status = "none" => rows'[i].target = {}
                        /\ \A v, u \in rows'[i].target : v = u
                        /\ i > made' => rows'[i].target = {}
                        /\ rows'[i].target \subseteq rows[i].target \/ i > made
      OBVIOUS
    <3>1. CASE rows'[i] = rows[i]
      <4>1. i > made' => i > made
        BY <2>1, <1>t
      <4> QED BY <3>1, <4>1, <1>r
    <3>2. CASE rows'[i] = Replies!NoRow
      BY <3>2, <1>n
    <3>3. CASE /\ rows'[i].status = "pending" /\ rows'[i].target = {t}
               /\ \/ rows[i].status = "pending" /\ rows[i].target = {t}
                  \/ i > made /\ i <= made'
      <4>1. i <= made'
        <5>1. CASE rows[i].target = {t}
          <6>1. ~(i > made)
            BY <5>1, <1>r
          <6> QED BY <6>1, <2>1, <1>t
        <5>2. CASE i <= made'
          BY <5>2
        <5> QED BY <3>3, <5>1, <5>2
      <4>2. ~(i > made')
        BY <4>1, <2>1, <1>t
      <4> QED BY <3>3, <4>2
    <3> QED BY <2>1, <3>1, <3>2, <3>3
  <2> QED BY <2>1, <2>2, <2>3, RepliesShapeKeeps
<1>2. ASSUME UNCHANGED <<rows, task, made>>, saved' \subseteq saved \union {Replies!Leads'}
      PROVE  RepliesShape'
  BY <1>2, <1>r, <1>t, RepliesShapeKeeps
<1>3. ASSUME NEW t \in Target, Replies!FinishDraft(t) PROVE RepliesShape'
  <2>1. /\ UNCHANGED <<saved, task, made>>
        /\ \A i \in Replies!Id : rows'[i] = rows[i] \/ rows'[i] = Replies!NoRow
    BY <1>3, RepliesFinish
  <2> QED BY <2>1, <1>r, <1>t, <1>n, RepliesShapeKeeps
<1>4. ASSUME NEW i \in Replies!Id, Replies!RejectRow(i) PROVE RepliesShape'
  <2>1. /\ UNCHANGED <<task, made>> /\ rows[i].status \in {"pending", "failed"}
        /\ \A j \in Replies!Id :
              \/ rows'[j] = rows[j]
              \/ j = i /\ rows'[j].status = "rejected" /\ rows'[j].target = rows[j].target
    BY <1>4, RepliesReject
  <2>2. saved' \subseteq saved \union {Replies!Leads'}
    BY <1>4, RepliesReject
  <2> QED BY <2>1, <2>2, <1>r, <1>t, RepliesShapeKeeps
<1>5. ASSUME NEW s \in Slot, NEW text \in Text,
             \/ \E i \in Replies!Id : Replies!ApproveRow(s, i, text)
             \/ \E t \in Target : Replies!ApproveDraft(s, t, text)
      PROVE  RepliesShape'
  <2>1. PICK w \in Replies!Work :
              /\ RowsAlone(s, w) /\ w.stage = "asking"
              /\ \/ \E t \in Target : w.id = 0 /\ w.key = {<<"draft", t>>}
                 \/ \E t \in Target : /\ w.id \in Replies!Id /\ w.key = {<<"row", t>>}
                                      /\ t \in rows[w.id].target
    BY <1>5, RepliesCapture
  <2>2. /\ task'[s] = w /\ \A z \in Slot : z # s => task'[z] = task[z]
        /\ UNCHANGED <<rows, saved, made>>
    BY <2>1, <1>t DEF RowsAlone
  <2>3. TaskShape(s)'
    <3>1. CASE \E t \in Target : w.id = 0 /\ w.key = {<<"draft", t>>}
      BY <2>1, <2>2, <3>1, <1>t DEF TaskShape
    <3>2. ASSUME NEW t \in Target, w.id \in Replies!Id, w.key = {<<"row", t>>},
                 t \in rows[w.id].target
          PROVE  TaskShape(s)'
      <4>0. Replies!Found' = Replies!Found
        BY <2>2, <2>1 DEF Replies!Found, Replies!Leads, RowsAlone
      <4>1. \A leads \in Replies!Found' : leads.rows[w.id].target \subseteq {t}
        BY <3>2, <4>0, <1>r
      <4>2. w.id <= made
        BY <3>2, <1>r, <1>t
      <4>3. w.id # 0
        BY <3>2 DEF Replies!Id
      <4>4. w.id <= made'
        BY <4>2, <2>2
      <4>5. \A k \in w.key : k = <<"row", t>> /\ k[1] = "row" /\ k[2] = t
        BY <3>2
      <4> QED BY <2>1, <2>2, <4>1, <4>3, <4>4, <4>5 DEF TaskShape
    <3> QED BY <2>1, <3>1, <3>2
  <2> QED BY <2>2, <2>3, <1>r, <1>t, RepliesShapeKeeps
<1>6. ASSUME NEW s \in Slot, NEW k \in Replies!Key,
             \/ Replies!Send(s, k) \/ Replies!Delivered(s, k)
             \/ Replies!Declined(s, k) \/ Replies!Misjudged(s, k) \/ Replies!AnswerLost(s, k)
      PROVE  RepliesShape'
  <2>1. PICK w \in Replies!Work :
           /\ RowsAlone(s, w) /\ w.key = task[s].key /\ w.id = task[s].id
           /\ w.stage \in {"sent", "answered"}
    BY <1>6, RepliesCall
  <2>2. /\ task'[s] = w /\ \A z \in Slot : z # s => task'[z] = task[z]
        /\ UNCHANGED <<rows, saved, made>>
    BY <2>1, <1>t DEF RowsAlone
  <2> QED BY <2>1, <2>2, <1>r, <1>t, RepliesShapeKeeps
<1>7. ASSUME NEW s \in Slot, Replies!Refused(s) \/ \E k \in Replies!Key : Replies!End(s, k)
      PROVE  RepliesShape'
  <2>1. /\ task' = [task EXCEPT ![s] = Replies!Rest] /\ made' = made
        /\ saved' \subseteq saved \union {Replies!Leads'}
        /\ \A i \in Replies!Id :
              /\ rows'[i].target = rows[i].target
              /\ rows'[i].status = "none" => rows[i].status = "none"
    BY <1>7, RepliesWrite
  <2>2. /\ task'[s].key = {} /\ task'[s].id = 0
        /\ \A z \in Slot : z # s => task'[z] = task[z]
    BY <2>1, <1>t DEF Replies!Rest
  <2> QED BY <2>1, <2>2, <1>r, <1>t, RepliesShapeKeeps
<1>8. CASE Replies!Restart \/ Replies!Settle
  <2>1. made' = made /\ Replies!Found' \subseteq Replies!Found
    BY <1>8, RepliesRestart, RepliesSettle
  <2>2. \A s \in Slot : TaskShape(s)'
    <3>1. CASE Replies!Restart
      <4>1. task' = [s \in Slot |-> Replies!Rest]
        BY <3>1, RepliesRestart
      <4> QED BY <2>1, <4>1, <1>t DEF TaskShape, Replies!Rest
    <3>2. CASE Replies!Settle
      <4>1. task' = task
        BY <3>2, RepliesSettle
      <4> QED BY <2>1, <4>1 DEF RepliesShape, TaskShape
    <3> QED BY <1>8, <3>1, <3>2
  <2> QED BY <2>1, <2>2 DEF RepliesShape, RowsShape
<1>9. CASE \/ \E t \in Target : \/ Replies!StartDraft(t) \/ Replies!NoDraft(t)
                                \/ Replies!CloseDraft(t) \/ Replies!RejectDraft(t)
           \/ \E k \in Replies!Key : Replies!Expire(k)
           \/ Replies!SaveCycle
           \/ UNCHANGED Replies!vars
  BY <1>2, <1>9, RepliesQuiet
<1> QED
  BY <1>1, <1>3, <1>4, <1>5, <1>6, <1>7, <1>8, <1>9
  DEF Replies!Next, Replies!Preparing, Replies!Deciding, Replies!Executing

LEMMA RepliesTrueKeeps ==
    ASSUME RepliesTrue, got \subseteq got',
           \A i \in Replies!Id : rows'[i].status = "sent" =>
              \/ /\ rows[i].status = "sent" /\ rows'[i].target \subseteq rows[i].target
                 /\ rows'[i].text = rows[i].text
              \/ \A t \in rows'[i].target, text \in rows'[i].text :
                    <<<<"row", t>>, text>> \in got',
           saved' \subseteq saved \union {Replies!Leads'},
           \A s \in Slot : task'[s].stage = "answered" /\ task'[s].result = "sent" =>
              \/ task'[s] = task[s]
              \/ \A k \in task'[s].key, text \in task'[s].text : <<k, text>> \in got'
    PROVE  RepliesTrue'
<1>0. RowsTrue(rows)
  BY RepliesFound DEF RepliesTrue
<1>1. \A i \in Replies!Id : rows'[i].status = "sent" =>
         \A t \in rows'[i].target, text \in rows'[i].text : <<<<"row", t>>, text>> \in got'
  BY <1>0 DEF RowsTrue
<1>2. ASSUME NEW leads \in Replies!Found' PROVE RowsTrue(leads.rows)'
  <2>1. CASE leads \in Replies!Found
    BY <2>1 DEF RepliesTrue, RowsTrue
  <2>2. CASE leads.rows = rows'
    BY <1>1, <2>2 DEF RowsTrue
  <2> QED BY <2>1, <2>2, RepliesFound
<1>3. \A s \in Slot : task'[s].stage = "answered" /\ task'[s].result = "sent" =>
         \A k \in task'[s].key, text \in task'[s].text : <<k, text>> \in got'
  BY DEF RepliesTrue
<1> QED BY <1>2, <1>3 DEF RepliesTrue

LEMMA RepliesTrueStep ==
    ASSUME RepliesParameters, Replies!TypeOK, RepliesShape, RepliesTrue,
           [Replies!Next]_(Replies!vars)
    PROVE  RepliesTrue'
<1>t. rows \in [Replies!Id -> Replies!Row] /\ task \in [Slot -> Replies!Work]
  BY DEF Replies!TypeOK
<1>n. Replies!NoRow.status = "none"
  BY DEF Replies!NoRow
<1>1. ASSUME NEW t \in Target, NEW text \in Text, Replies!Prepare(t, text) PROVE RepliesTrue'
  <2>1. /\ task' = task /\ got' = got
        /\ \A i \in Replies!Id : rows'[i] = rows[i] \/ rows'[i].status # "sent"
    BY <1>1, <1>n, RepliesPrepare
  <2>2. saved' \subseteq saved \union {Replies!Leads'}
    BY <1>1, RepliesPrepare, RepliesSaved
  <2> QED BY <2>1, <2>2, RepliesTrueKeeps
<1>3. ASSUME NEW t \in Target, Replies!FinishDraft(t) PROVE RepliesTrue'
  <2>1. /\ UNCHANGED <<saved, task, got>>
        /\ \A i \in Replies!Id : rows'[i] = rows[i] \/ rows'[i].status # "sent"
    BY <1>3, <1>n, RepliesFinish
  <2> QED BY <2>1, RepliesTrueKeeps
<1>4. ASSUME NEW i \in Replies!Id, Replies!RejectRow(i) PROVE RepliesTrue'
  <2>1. /\ UNCHANGED <<task, got>>
        /\ \A j \in Replies!Id : rows'[j] = rows[j] \/ rows'[j].status # "sent"
    BY <1>4, RepliesReject
  <2>2. saved' \subseteq saved \union {Replies!Leads'}
    BY <1>4, RepliesReject
  <2> QED BY <2>1, <2>2, RepliesTrueKeeps
<1>5. ASSUME NEW s \in Slot, NEW text \in Text,
             \/ \E i \in Replies!Id : Replies!ApproveRow(s, i, text)
             \/ \E t \in Target : Replies!ApproveDraft(s, t, text)
      PROVE  RepliesTrue'
  <2>1. PICK w \in Replies!Work : RowsAlone(s, w) /\ w.stage = "asking" /\ got' = got
    BY <1>5, RepliesCapture
  <2>2. /\ task'[s] = w /\ \A z \in Slot : z # s => task'[z] = task[z]
        /\ UNCHANGED <<rows, saved>>
    BY <2>1, <1>t DEF RowsAlone
  <2> QED BY <2>1, <2>2, RepliesTrueKeeps
<1>6. ASSUME NEW s \in Slot, NEW k \in Replies!Key,
             \/ Replies!Send(s, k) \/ Replies!Delivered(s, k)
             \/ Replies!Declined(s, k) \/ Replies!Misjudged(s, k) \/ Replies!AnswerLost(s, k)
      PROVE  RepliesTrue'
  <2>1. PICK w \in Replies!Work :
           /\ RowsAlone(s, w) /\ w.key = {k} /\ w.text = task[s].text /\ got \subseteq got'
           /\ \/ w.stage = "sent"
              \/ /\ w.stage = "answered"
                 /\ w.result = "sent" =>
                       got' = got \union {<<k, text>> : text \in task[s].text}
    BY <1>6, RepliesCall
  <2>2. /\ task'[s] = w /\ \A z \in Slot : z # s => task'[z] = task[z]
        /\ UNCHANGED <<rows, saved>>
    BY <2>1, <1>t DEF RowsAlone
  <2>3. w.stage = "answered" /\ w.result = "sent" =>
           \A l \in w.key, text \in w.text : <<l, text>> \in got'
    BY <2>1
  <2> QED BY <2>1, <2>2, <2>3, RepliesTrueKeeps
<1>7. ASSUME NEW s \in Slot, Replies!Refused(s) \/ \E k \in Replies!Key : Replies!End(s, k)
      PROVE  RepliesTrue'
  <2>1. /\ task' = [task EXCEPT ![s] = Replies!Rest] /\ got' = got
        /\ saved' \subseteq saved \union {Replies!Leads'}
        /\ \A i \in Replies!Id :
              /\ rows'[i].target = rows[i].target
              /\ \/ rows'[i] = rows[i]
                 \/ /\ i = task[s].id
                    /\ rows'[i].status = "sent" =>
                          /\ rows'[i].text = task[s].text
                          /\ task[s].stage = "answered" /\ task[s].result = "sent"
    BY <1>7, RepliesWrite
  <2>2. /\ task'[s].stage = "idle" /\ \A z \in Slot : z # s => task'[z] = task[z]
    BY <2>1, <1>t DEF Replies!Rest
  <2>3. ASSUME NEW i \in Replies!Id, i = task[s].id, rows'[i].status = "sent", rows'[i] # rows[i],
               NEW t \in rows'[i].target, NEW text \in rows'[i].text
        PROVE  <<<<"row", t>>, text>> \in got
    <3>1. /\ text \in task[s].text /\ task[s].stage = "answered" /\ task[s].result = "sent"
          /\ t \in rows[i].target /\ i # 0
      BY <2>1, <2>3 DEF Replies!Id
    <3>2. PICK k \in task[s].key : TRUE
      BY <1>7, <3>1 DEF Replies!Refused, Replies!End
    <3>3. k \in Replies!Key /\ k[1] = "row" /\ t = k[2]
      <4>1. /\ k[1] = "row"
            /\ \A leads \in Replies!Found : leads.rows[task[s].id].target \subseteq {k[2]}
        BY <2>3, <3>1, <3>2 DEF RepliesShape, TaskShape
      <4>2. Replies!Leads \in Replies!Found /\ Replies!Leads.rows = rows
        BY RepliesFound
      <4>3. rows[i].target \subseteq {k[2]}
        BY <2>3, <4>1, <4>2
      <4> QED BY <3>1, <3>2, <4>1, <4>3, <1>t DEF Replies!Work
    <3>4. k = <<"row", t>>
      BY <3>3, RepliesKeys
    <3> QED BY <3>1, <3>2, <3>4 DEF RepliesTrue
  <2> QED BY <2>1, <2>2, <2>3, RepliesTrueKeeps
<1>8. CASE Replies!Restart
  <2>1. /\ Replies!Found' \subseteq Replies!Found /\ got \subseteq got'
        /\ \A s \in Slot : task'[s].stage = "idle"
    BY <1>8, RepliesRestart DEF Replies!Rest
  <2> QED BY <2>1 DEF RepliesTrue, RowsTrue
<1>10. CASE Replies!Settle
  <2>1. Replies!Found' \subseteq Replies!Found /\ UNCHANGED <<task, got>>
    BY <1>10, RepliesSettle
  <2> QED BY <2>1 DEF RepliesTrue, RowsTrue
<1>9. CASE \/ \E t \in Target : \/ Replies!StartDraft(t) \/ Replies!NoDraft(t)
                                \/ Replies!CloseDraft(t) \/ Replies!RejectDraft(t)
           \/ \E k \in Replies!Key : Replies!Expire(k)
           \/ Replies!SaveCycle
           \/ UNCHANGED Replies!vars
  <2>1. UNCHANGED <<rows, task, got>> /\ saved' \subseteq saved \union {Replies!Leads'}
    BY <1>9, RepliesQuiet
  <2> QED BY <2>1, RepliesTrueKeeps
<1> QED
  BY <1>1, <1>3, <1>4, <1>5, <1>6, <1>7, <1>8, <1>9, <1>10
  DEF Replies!Next, Replies!Preparing, Replies!Deciding, Replies!Executing

\* Only the key of the call is touched.
LEMMA RepliesOnceKeeps ==
    ASSUME Replies!TypeOK, RepliesOnce, NEW s \in Slot, NEW w, NEW K, K \subseteq Replies!Key,
           task' = [task EXCEPT ![s] = w],
           \A k \in Replies!Key : (k \in w.key /\ w.stage # "asking") =>
                                     k \in K \/ (Holding(s, k) /\ w = task[s]),
           \A k \in Replies!Key : Holding(s, k) => k \in K \/ w = task[s],
           lost \subseteq lost',
           \A k \in Replies!Key \ K : replies'[k] = replies[k] /\ res'[k] = res[k],
           \A k \in K : RepliesOnceFor(k)'
    PROVE  RepliesOnce'
<1>1. task'[s] = w /\ \A z \in Slot : z # s => task'[z] = task[z]
  BY DEF Replies!TypeOK
<1>2. ASSUME NEW k \in Replies!Key \ K PROVE RepliesOnceFor(k)'
  <2>1. \A z \in Slot : Holding(z, k)' <=> Holding(z, k)
    BY <1>1, <1>2 DEF Holding
  <2>2. \A z \in Slot : Holding(z, k) => task'[z] = task[z]
    BY <1>1, <1>2
  <2>3. RepliesOnceFor(k)
    BY DEF RepliesOnce
  <2> QED BY <1>2, <2>1, <2>2, <2>3 DEF RepliesOnceFor
<1> QED BY <1>2 DEF RepliesOnce

LEMMA RepliesOnceStep ==
    ASSUME RepliesParameters, Replies!TypeOK, RepliesShape, RepliesOnce,
           [Replies!Next]_(Replies!vars)
    PROVE  RepliesOnce'
<1>t. /\ task \in [Slot -> Replies!Work] /\ res \in [Replies!Key -> {"free", "reserved", "done"}]
      /\ replies \in [Replies!Key -> 0 .. 2]
  BY DEF Replies!TypeOK
<1>i. \A s \in Slot : task[s].stage = "idle" => task[s].key = {}
  BY DEF RepliesShape, TaskShape
<1>1. ASSUME UNCHANGED <<task, res, replies, lost>> PROVE RepliesOnce'
  BY <1>1 DEF RepliesOnce, RepliesOnceFor, Holding
<1>2. ASSUME NEW t \in Target, NEW text \in Text, Replies!Prepare(t, text) PROVE RepliesOnce'
  BY <1>1, <1>2, RepliesPrepare
<1>3. ASSUME NEW t \in Target, Replies!FinishDraft(t) PROVE RepliesOnce'
  BY <1>1, <1>3, RepliesFinish
<1>4. ASSUME NEW i \in Replies!Id, Replies!RejectRow(i) PROVE RepliesOnce'
  BY <1>1, <1>4, RepliesReject
<1>5. ASSUME NEW s \in Slot, NEW text \in Text,
             \/ \E i \in Replies!Id : Replies!ApproveRow(s, i, text)
             \/ \E t \in Target : Replies!ApproveDraft(s, t, text)
      PROVE  RepliesOnce'
  <2>1. PICK w \in Replies!Work : /\ RowsAlone(s, w) /\ w.stage = "asking" /\ task[s] = Replies!Rest
                                  /\ UNCHANGED <<res, replies, lost>>
    BY <1>5, RepliesCapture
  <2>2. task' = [task EXCEPT ![s] = w] /\ task[s].key = {}
    BY <2>1 DEF RowsAlone, Replies!Rest
  <2>3. \A k \in Replies!Key : ~Holding(s, k)
    BY <2>2 DEF Holding
  <2> QED BY <2>1, <2>2, <2>3, RepliesOnceKeeps
<1>6. ASSUME NEW s \in Slot, NEW k \in Replies!Key,
             \/ Replies!Send(s, k) \/ Replies!Delivered(s, k)
             \/ Replies!Declined(s, k) \/ Replies!Misjudged(s, k) \/ Replies!AnswerLost(s, k)
      PROVE  RepliesOnce'
  <2>1. PICK w \in Replies!Work :
              /\ RowsAlone(s, w) /\ w.key = task[s].key
              /\ task[s].key = {k} /\ lost \subseteq lost'
              /\ \/ /\ task[s].stage = "asking" /\ w.stage = "sent" /\ Replies!Clear(k)
                    /\ res' = [res EXCEPT ![k] = "reserved"]
                    /\ UNCHANGED <<history, replies, got, lost>>
                 \/ /\ task[s].stage = "sent" /\ w.stage = "answered" /\ res' = res
                    /\ \/ replies' = replies
                       \/ replies' = [replies EXCEPT ![k] = Replies!OneMore(replies[k])]
                    /\ k \in lost' \/ (w.outcome = "done" \/ replies' = replies)
    BY <1>6, RepliesCall
  <2>2. task' = [task EXCEPT ![s] = w]
    BY <2>1 DEF RowsAlone
  <2>3. task'[s] = w /\ \A z \in Slot : z # s => task'[z] = task[z]
    BY <2>2, <1>t
  <2>4. RepliesOnceFor(k)
    BY DEF RepliesOnce
  <2>5. RepliesOnceFor(k)'
    <3>1. CASE /\ task[s].stage = "asking" /\ w.stage = "sent" /\ Replies!Clear(k)
               /\ res' = [res EXCEPT ![k] = "reserved"]
               /\ UNCHANGED <<replies, lost>>
      <4>1. \A z \in Slot : ~Holding(z, k)
        BY <3>1 DEF Replies!Clear, Replies!Held, Holding
      <4>2. res[k] = "free" /\ res'[k] = "reserved"
        BY <3>1, <1>t DEF Replies!Clear
      <4>3. \A z \in Slot : Holding(z, k)' => z = s
        BY <2>3, <4>1 DEF Holding
      <4>4. k \notin lost => replies[k] <= 1 /\ replies[k] # 1
        BY <2>4, <4>1, <4>2 DEF RepliesOnceFor
      <4> QED BY <3>1, <4>2, <4>3, <4>4 DEF RepliesOnceFor
    <3>2. CASE /\ task[s].stage = "sent" /\ w.stage = "answered" /\ res' = res
               /\ \/ replies' = replies
                  \/ replies' = [replies EXCEPT ![k] = Replies!OneMore(replies[k])]
               /\ k \in lost' \/ (w.outcome = "done" \/ replies' = replies)
      <4>1. Holding(s, k)
        BY <2>1, <3>2 DEF Holding
      <4>2. \A z \in Slot : Holding(z, k)' <=> Holding(z, k)
        BY <2>1, <2>3, <3>2 DEF Holding
      <4>3. \A z \in Slot : Holding(z, k) => z = s
        BY <2>4, <4>1 DEF RepliesOnceFor
      <4>4. ASSUME k \notin lost'
            PROVE  /\ replies'[k] <= 1 /\ res[k] = "reserved"
                   /\ replies'[k] = 1 => w.outcome = "done"
        <5>1. k \notin lost
          BY <2>1, <4>4
        <5>2. replies[k] <= 1 /\ res[k] = "reserved"
          BY <2>4, <4>1, <5>1 DEF RepliesOnceFor
        <5>3. replies[k] # 1
          BY <2>4, <4>3, <5>1, <5>2, <3>2 DEF RepliesOnceFor
        <5>4. replies[k] = 0
          BY <5>2, <5>3, <1>t
        <5>5. replies'[k] = 0 \/ replies'[k] = 1
          <6>1. Replies!OneMore(replies[k]) = 1
            BY <5>4 DEF Replies!OneMore
          <6> QED BY <3>2, <5>4, <6>1, <1>t
        <5>6. replies'[k] = 1 => w.outcome = "done"
          BY <3>2, <4>4, <5>4
        <5> QED BY <5>2, <5>5, <5>6
      <4>5. Holding(s, k)' /\ task'[s].stage = "answered"
        BY <2>3, <3>2, <4>1, <4>2
      <4> QED BY <2>3, <3>2, <4>2, <4>3, <4>4, <4>5 DEF RepliesOnceFor
    <3> QED BY <2>1, <3>1, <3>2
  <2>6. \A l \in Replies!Key \ {k} : replies'[l] = replies[l] /\ res'[l] = res[l]
    BY <2>1, <1>t
  <2> DEFINE K == {k}
  <2>7. \A l \in Replies!Key : (l \in w.key \/ Holding(s, l)) => l \in K
    BY <2>1 DEF Holding
  <2>8. K \subseteq Replies!Key /\ \A l \in K : RepliesOnceFor(l)'
    BY <2>5
  <2>9. \A l \in Replies!Key \ K : replies'[l] = replies[l] /\ res'[l] = res[l]
    BY <2>6
  <2> HIDE DEF K
  <2> QED BY <2>1, <2>2, <2>7, <2>8, <2>9, RepliesOnceKeeps
<1>7. ASSUME NEW s \in Slot, Replies!Refused(s) \/ \E k \in Replies!Key : Replies!End(s, k)
      PROVE  RepliesOnce'
  <2>1. /\ task' = [task EXCEPT ![s] = Replies!Rest] /\ replies' = replies /\ lost' = lost
        /\ \/ task[s].stage = "asking" /\ res' = res
           \/ \E k \in Replies!Key :
                 /\ task[s].stage = "answered" /\ task[s].key = {k}
                 /\ res' = [res EXCEPT ![k] = Replies!Concluded(s, k)]
    BY <1>7, RepliesWrite
  <2>2. /\ task'[s] = Replies!Rest /\ task'[s].key = {}
        /\ \A z \in Slot : z # s => task'[z] = task[z]
    BY <2>1, <1>t DEF Replies!Rest
  <2>r. Replies!Rest.key = {}
    BY DEF Replies!Rest
  <2>3. CASE task[s].stage = "asking" /\ res' = res
    <3>1. \A k \in Replies!Key : ~Holding(s, k)
      BY <2>3 DEF Holding
    <3> QED BY <2>1, <2>3, <2>r, <3>1, RepliesOnceKeeps
  <2>4. ASSUME NEW k \in Replies!Key, task[s].stage = "answered", task[s].key = {k},
               res' = [res EXCEPT ![k] = Replies!Concluded(s, k)]
        PROVE  RepliesOnce'
    <3>1. Holding(s, k) /\ RepliesOnceFor(k)
      BY <2>4 DEF Holding, RepliesOnce
    <3>2. \A z \in Slot : Holding(z, k) => z = s
      BY <3>1 DEF RepliesOnceFor
    <3>3. \A z \in Slot : ~Holding(z, k)'
      BY <2>2, <3>2 DEF Holding
    <3>4. k \notin lost /\ replies[k] = 1 => task[s].outcome = "done"
      BY <3>1, <3>2 DEF RepliesOnceFor
    <3>5. res'[k] = Replies!Concluded(s, k)
      BY <2>4, <1>t
    <3>6. k \notin lost /\ replies[k] = 1 => res'[k] = "done"
      BY <3>4, <3>5 DEF Replies!Concluded
    <3>7. RepliesOnceFor(k)'
      BY <2>1, <3>1, <3>3, <3>6 DEF RepliesOnceFor
    <3>8. \A l \in Replies!Key \ {k} : res'[l] = res[l]
      BY <2>4, <1>t
    <3> DEFINE K == {k}
               w == Replies!Rest
    <3>9. \A l \in Replies!Key : Holding(s, l) => l \in K
      BY <2>4 DEF Holding
    <3>10. K \subseteq Replies!Key /\ \A l \in K : RepliesOnceFor(l)'
      BY <3>7
    <3>11. \A l \in Replies!Key \ K : replies'[l] = replies[l] /\ res'[l] = res[l]
      BY <2>1, <3>8
    <3>12. task' = [task EXCEPT ![s] = w] /\ w.key = {}
      BY <2>1, <2>r
    <3> HIDE DEF K, w
    <3> QED BY <2>1, <3>9, <3>10, <3>11, <3>12, RepliesOnceKeeps
  <2> QED BY <2>1, <2>3, <2>4
<1>8. ASSUME NEW k \in Replies!Key, Replies!Expire(k) PROVE RepliesOnce'
  <2>1. /\ res[k] = "reserved" /\ \A s \in Slot : ~Holding(s, k)
        /\ res' = [res EXCEPT ![k] = "free"] /\ UNCHANGED <<task, replies, lost>>
    BY <1>8 DEF Replies!Expire, Replies!Held, Holding
  <2>2. ASSUME NEW l \in Replies!Key PROVE RepliesOnceFor(l)'
    <3>1. RepliesOnceFor(l)
      BY DEF RepliesOnce
    <3>2. CASE l = k
      <4>1. \A s \in Slot : ~Holding(s, l)'
        BY <2>1, <3>2 DEF Holding
      <4>2. l \notin lost => replies[l] # 1
        BY <2>1, <3>1, <3>2 DEF RepliesOnceFor
      <4> QED BY <2>1, <3>1, <4>1, <4>2 DEF RepliesOnceFor
    <3>3. CASE l # k
      <4>1. res'[l] = res[l]
        BY <2>1, <3>3, <1>t
      <4> QED BY <2>1, <3>1, <4>1 DEF RepliesOnceFor, Holding
    <3> QED BY <3>2, <3>3
  <2> QED BY <2>2 DEF RepliesOnce
<1>9. CASE Replies!Restart
  <2>1. /\ task' = [s \in Slot |-> Replies!Rest] /\ res' = res
        /\ lost' = lost \union {k \in Replies!Key : Replies!Held(k)}
    BY <1>9 DEF Replies!Restart
  <2>2. PICK arrived \in SUBSET Replies!Sending :
           replies' = [k \in Replies!Key |->
                 IF \E s \in arrived : k \in task[s].key THEN Replies!OneMore(replies[k])
                 ELSE replies[k]]
    BY <1>9 DEF Replies!Restart
  <2>3. ASSUME NEW k \in Replies!Key PROVE RepliesOnceFor(k)'
    <3>1. \A s \in Slot : ~Holding(s, k)'
      BY <2>1 DEF Holding, Replies!Rest
    <3>2. ASSUME k \notin lost'
          PROVE  replies'[k] <= 1 /\ (replies'[k] = 1 => res[k] = "done")
      <4>1. k \notin lost /\ \A s \in Slot : ~Holding(s, k)
        BY <2>1, <3>2 DEF Replies!Held, Holding
      <4>2. \A s \in arrived : k \notin task[s].key
        BY <4>1 DEF Replies!Sending, Holding
      <4>3. replies'[k] = replies[k]
        BY <2>2, <4>2
      <4>4. RepliesOnceFor(k)
        BY DEF RepliesOnce
      <4> QED BY <4>1, <4>3, <4>4 DEF RepliesOnceFor
    <3> QED BY <2>1, <3>1, <3>2 DEF RepliesOnceFor
  <2> QED BY <2>3 DEF RepliesOnce
<1>10. CASE \/ \E t \in Target : \/ Replies!StartDraft(t) \/ Replies!NoDraft(t)
                                 \/ Replies!CloseDraft(t) \/ Replies!RejectDraft(t)
            \/ Replies!SaveCycle \/ Replies!Settle
            \/ UNCHANGED Replies!vars
  BY <1>1, <1>10, RepliesSettle DEF Replies!StartDraft, Replies!NoDraft, Replies!CloseDraft,
     Replies!RejectDraft, Replies!SaveCycle, Replies!vars, Replies!Provider
<1> QED
  BY <1>2, <1>3, <1>4, <1>5, <1>6, <1>7, <1>8, <1>9, <1>10
  DEF Replies!Next, Replies!Preparing, Replies!Deciding, Replies!Executing

\* The rows of a refused comment, given what a step does to the rows and the store.
LEMMA RepliesRefusedKeeps ==
    ASSUME Replies!RejectionStands,
           saved' \subseteq saved \union {Replies!Leads'},
           \A t \in refused' :
              \/ Replies!DecidedForGood(t)'
              \/ /\ t \in refused
                 /\ \E i \in Replies!Id : t \in rows'[i].target
                 /\ \A i \in Replies!Id : t \in rows'[i].target =>
                       rows'[i] = rows[i] \/ rows'[i].status \in {"sent", "rejected"}
                 /\ \A s \in Slot :
                       <<"row", t>> \in task'[s].key => <<"row", t>> \in task[s].key
    PROVE  Replies!RejectionStands'
<1>1. ASSUME NEW t \in refused', t \in refused, \E i \in Replies!Id : t \in rows'[i].target,
             \A i \in Replies!Id : t \in rows'[i].target =>
                rows'[i] = rows[i] \/ rows'[i].status \in {"sent", "rejected"},
             \A s \in Slot : <<"row", t>> \in task'[s].key => <<"row", t>> \in task[s].key
      PROVE  Replies!DecidedForGood(t)'
  <2>1. Replies!DecidedForGood(t)
    BY <1>1 DEF Replies!RejectionStands
  <2>2. \A i \in Replies!Id : t \in rows'[i].target => rows'[i].status \in {"sent", "rejected"}
    BY <1>1, <2>1, RepliesFound DEF Replies!DecidedForGood, Replies!RowsOf
  <2>3. ASSUME NEW leads \in Replies!Found'
        PROVE  /\ Replies!RowsOf(leads.rows, t) # {}
               /\ \A i \in Replies!RowsOf(leads.rows, t) :
                     leads.rows[i].status \in {"sent", "rejected"}
    <3>1. CASE leads \in Replies!Found
      BY <2>1, <3>1 DEF Replies!DecidedForGood
    <3>2. CASE leads.rows = rows'
      BY <1>1, <2>2, <3>2 DEF Replies!RowsOf
    <3> QED BY <3>1, <3>2, RepliesFound
  <2>4. ~\E s \in Slot : <<"row", t>> \in task'[s].key
    BY <1>1, <2>1 DEF Replies!DecidedForGood
  <2> QED BY <2>3, <2>4 DEF Replies!DecidedForGood
<1> QED BY <1>1 DEF Replies!RejectionStands

LEMMA RepliesRefusedStep ==
    ASSUME RepliesParameters, Replies!TypeOK, RepliesShape, Replies!RejectionStands,
           [Replies!Next]_(Replies!vars)
    PROVE  Replies!RejectionStands'
<1>t. /\ task \in [Slot -> Replies!Work] /\ rows \in [Replies!Id -> Replies!Row]
      /\ refused \subseteq Target
  BY DEF Replies!TypeOK
<1>r. \A t \in refused :
         /\ \E i \in Replies!Id : t \in rows[i].target
         /\ \A i \in Replies!Id : t \in rows[i].target => rows[i].status \in {"sent", "rejected"}
  BY RepliesFound DEF Replies!RejectionStands, Replies!DecidedForGood, Replies!RowsOf
<1>n. Replies!NoRow.target = {}
  BY DEF Replies!NoRow
<1>o. \A i \in Replies!Id : \A t, u \in rows[i].target : t = u
  BY RepliesFound DEF RepliesShape, RowsShape
<1>1. ASSUME NEW t \in Target, NEW text \in Text, Replies!Prepare(t, text) PROVE Replies!RejectionStands'
  <2>1. /\ task' = task
        /\ refused' = {u \in refused : Replies!RowsOf(rows', u) # {}}
        /\ \A i \in Replies!Id : rows[i].target = {t} => rows[i].status \notin {"sent", "rejected"}
        /\ \A i \in Replies!Id :
              \/ rows'[i] = rows[i]
              \/ rows'[i] = Replies!NoRow
              \/ rows'[i].status = "pending" /\ rows'[i].target = {t}
    BY <1>1, RepliesPrepare
  <2>2. saved' \subseteq saved \union {Replies!Leads'}
    BY <1>1, RepliesPrepare, RepliesSaved
  <2>3. t \notin refused
    <3>1. ASSUME t \in refused PROVE FALSE
      <4>1. PICK i \in Replies!Id : t \in rows[i].target
        BY <3>1, <1>r
      <4>2. rows[i].target = {t} /\ rows[i].status \in {"sent", "rejected"}
        BY <3>1, <4>1, <1>r, <1>o
      <4> QED BY <2>1, <4>2
    <3> QED BY <3>1
  <2>4. refused' \subseteq refused /\ \A u \in refused' : \E i \in Replies!Id : u \in rows'[i].target
    BY <2>1 DEF Replies!RowsOf
  <2>5. \A u \in refused', i \in Replies!Id : u \in rows'[i].target => rows'[i] = rows[i]
    BY <2>1, <2>3, <2>4, <1>n
  <2> QED BY <2>1, <2>2, <2>4, <2>5, RepliesRefusedKeeps
<1>3. ASSUME NEW t \in Target, Replies!FinishDraft(t) PROVE Replies!RejectionStands'
  <2>1. /\ UNCHANGED <<saved, task, refused>>
        /\ \A i \in Replies!Id :
              \/ rows'[i] = rows[i]
              \/ rows'[i] = Replies!NoRow /\ rows[i].status = "pending"
    BY <1>3, RepliesFinish
  <2>2. \A u \in refused, i \in Replies!Id : u \in rows[i].target => rows'[i] = rows[i]
    BY <2>1, <1>r
  <2>3. \A u \in refused : \E i \in Replies!Id : u \in rows'[i].target
    BY <2>2, <1>r
  <2>4. \A u \in refused, i \in Replies!Id : u \in rows'[i].target => rows'[i] = rows[i]
    BY <2>1, <1>n
  <2> QED BY <2>1, <2>3, <2>4, RepliesRefusedKeeps
<1>4. ASSUME NEW i \in Replies!Id, Replies!RejectRow(i) PROVE Replies!RejectionStands'
  <2>1. /\ task' = task /\ rows[i].status \in {"pending", "failed"}
        /\ saved' \subseteq saved \union {Replies!Leads'}
        /\ refused' = refused \union {t \in rows[i].target : Replies!DecidedForGood(t)'}
        /\ \A j \in Replies!Id :
              \/ rows'[j] = rows[j]
              \/ /\ j = i /\ rows'[j].status = "rejected"
                 /\ rows'[j].target = rows[j].target
    BY <1>4, RepliesReject
  <2>2. \A j \in Replies!Id : rows'[j].target = rows[j].target
    BY <2>1
  <2>3. \A t \in refused : /\ \E j \in Replies!Id : t \in rows'[j].target
                           /\ \A j \in Replies!Id : t \in rows'[j].target =>
                                 rows'[j] = rows[j] \/ rows'[j].status \in {"sent", "rejected"}
    BY <2>1, <2>2, <1>r
  <2>4. \A t \in refused' : t \in refused \/ Replies!DecidedForGood(t)'
    BY <2>1
  <2> QED BY <2>1, <2>3, <2>4, RepliesRefusedKeeps
<1>5. ASSUME NEW s \in Slot, NEW text \in Text,
             \/ \E i \in Replies!Id : Replies!ApproveRow(s, i, text)
             \/ \E t \in Target : Replies!ApproveDraft(s, t, text)
      PROVE  Replies!RejectionStands'
  <2>1. PICK w \in Replies!Work :
              /\ RowsAlone(s, w)
              /\ \/ \E t \in Target : w.key = {<<"draft", t>>}
                 \/ \E t \in Target : /\ w.id \in Replies!Id /\ w.key = {<<"row", t>>}
                                      /\ t \in rows[w.id].target
                                      /\ rows[w.id].status \in {"pending", "failed"}
    BY <1>5, RepliesCapture
  <2>2. /\ task'[s] = w /\ \A z \in Slot : z # s => task'[z] = task[z]
        /\ UNCHANGED <<rows, saved, refused>>
    BY <2>1, <1>t DEF RowsAlone
  <2>3. \A t \in refused : <<"row", t>> \notin w.key
    BY <2>1, <1>r
  <2> QED BY <2>2, <2>3, <1>r, RepliesRefusedKeeps
<1>6. ASSUME NEW s \in Slot, NEW k \in Replies!Key,
             \/ Replies!Send(s, k) \/ Replies!Delivered(s, k)
             \/ Replies!Declined(s, k) \/ Replies!Misjudged(s, k) \/ Replies!AnswerLost(s, k)
      PROVE  Replies!RejectionStands'
  <2>1. PICK w \in Replies!Work : RowsAlone(s, w) /\ w.key = task[s].key
    BY <1>6, RepliesCall
  <2>2. /\ task'[s] = w /\ \A z \in Slot : z # s => task'[z] = task[z]
        /\ UNCHANGED <<rows, saved, refused>>
    BY <2>1, <1>t DEF RowsAlone
  <2> QED BY <2>1, <2>2, <1>r, RepliesRefusedKeeps
<1>7. ASSUME NEW s \in Slot, Replies!Refused(s) \/ \E k \in Replies!Key : Replies!End(s, k)
      PROVE  Replies!RejectionStands'
  <2>1. /\ task' = [task EXCEPT ![s] = Replies!Rest] /\ refused' = refused
        /\ saved' \subseteq saved \union {Replies!Leads'}
        /\ \A i \in Replies!Id :
              /\ rows'[i].target = rows[i].target
              /\ rows'[i] = rows[i] \/ i = task[s].id
    BY <1>7, RepliesWrite
  <2>2. /\ task'[s].key = {} /\ \A z \in Slot : z # s => task'[z] = task[z]
    BY <2>1, <1>t DEF Replies!Rest
  <2>3. ASSUME NEW i \in Replies!Id, i = task[s].id, NEW t \in refused
        PROVE  t \notin rows[i].target
    <3>0. task[s].id # 0
      BY <2>3 DEF Replies!Id
    <3>1. PICK k \in task[s].key : TRUE
      BY <3>0 DEF RepliesShape, TaskShape
    <3>2. /\ k \in Replies!Key /\ k[1] = "row" /\ rows[i].target \subseteq {k[2]}
      <4>1. i # 0
        BY DEF Replies!Id
      <4> QED BY <2>3, <3>1, <4>1, <1>t, RepliesFound DEF RepliesShape, TaskShape, Replies!Work
    <3>3. k = <<"row", k[2]>>
      BY <3>2, RepliesKeys
    <3> QED BY <3>1, <3>2, <3>3 DEF Replies!RejectionStands, Replies!DecidedForGood
  <2>4. \A t \in refused, i \in Replies!Id : t \in rows'[i].target => rows'[i] = rows[i]
    BY <2>1, <2>3
  <2>5. \A t \in refused : \E i \in Replies!Id : t \in rows'[i].target
    BY <2>1, <1>r
  <2> QED BY <2>1, <2>2, <2>4, <2>5, RepliesRefusedKeeps
<1>8. CASE Replies!Restart
  <2>1. /\ Replies!Found' \subseteq Replies!Found /\ refused' = refused
        /\ \A s \in Slot : task'[s].key = {}
    BY <1>8, RepliesRestart DEF Replies!Rest
  <2> QED BY <2>1 DEF Replies!RejectionStands, Replies!DecidedForGood
<1>10. CASE Replies!Settle
  <2>1. /\ Replies!Found' \subseteq Replies!Found /\ task' = task
        /\ refused' = refused \union {t \in Target : Replies!DecidedForGood(t)'}
    BY <1>10, RepliesSettle
  <2>2. ASSUME NEW t \in refused PROVE Replies!DecidedForGood(t)'
    <3>1. Replies!DecidedForGood(t)
      BY DEF Replies!RejectionStands
    <3> QED BY <2>1, <3>1 DEF Replies!DecidedForGood
  <2> QED BY <2>1, <2>2 DEF Replies!RejectionStands
<1>9. CASE \/ \E t \in Target : \/ Replies!StartDraft(t) \/ Replies!NoDraft(t)
                                \/ Replies!CloseDraft(t) \/ Replies!RejectDraft(t)
           \/ \E k \in Replies!Key : Replies!Expire(k)
           \/ Replies!SaveCycle
           \/ UNCHANGED Replies!vars
  <2>1. UNCHANGED <<rows, task, refused>> /\ saved' \subseteq saved \union {Replies!Leads'}
    BY <1>9, RepliesQuiet
  <2> QED BY <2>1, <1>r, RepliesRefusedKeeps
<1> QED
  BY <1>1, <1>3, <1>4, <1>5, <1>6, <1>7, <1>8, <1>9, <1>10
  DEF Replies!Next, Replies!Preparing, Replies!Deciding, Replies!Executing

LEMMA RepliesAskedKeeps ==
    ASSUME Replies!AskedIsKept,
           saved' \subseteq saved \union {Replies!Leads'},
           \A t \in asked' :
              \/ Replies!Recorded(t)'
              \/ /\ t \in asked
                 /\ Replies!RowsOf(rows', t) # {} \/ drafts'[t] # "none"
    PROVE  Replies!AskedIsKept'
<1>1. ASSUME NEW t \in asked, Replies!RowsOf(rows', t) # {} \/ drafts'[t] # "none"
      PROVE  Replies!Recorded(t)'
  <2>1. Replies!Recorded(t)
    BY DEF Replies!AskedIsKept
  <2>2. ASSUME NEW leads \in Replies!Found'
        PROVE  Replies!RowsOf(leads.rows, t) # {} \/ leads.drafts[t] # "none"
    <3>1. CASE leads \in Replies!Found
      BY <2>1, <3>1 DEF Replies!Recorded
    <3>2. CASE leads.rows = rows' /\ leads.drafts = drafts'
      BY <1>1, <3>2
    <3> QED BY <3>1, <3>2, RepliesFound
  <2> QED BY <2>2 DEF Replies!Recorded
<1> QED BY <1>1 DEF Replies!AskedIsKept

LEMMA RepliesAskedStep ==
    ASSUME RepliesParameters, Replies!TypeOK, RepliesShape, Replies!AskedIsKept,
           [Replies!Next]_(Replies!vars)
    PROVE  Replies!AskedIsKept'
<1>t. asked \subseteq Target
  BY DEF Replies!TypeOK
<1>a. \A t \in asked : Replies!RowsOf(rows, t) # {} \/ drafts[t] # "none"
  BY RepliesFound DEF Replies!AskedIsKept, Replies!Recorded
<1>1. ASSUME NEW t \in Target, NEW text \in Text, Replies!Prepare(t, text)
      PROVE  Replies!AskedIsKept'
  <2>1. /\ saved' \subseteq saved \union {Replies!Leads'} /\ drafts' = drafts
        /\ asked' = {u \in asked : Replies!RowsOf(rows', u) # {} \/ drafts[u] # "none"}
                       \union {u \in {t} : Replies!Recorded(u)'}
    BY <1>1, RepliesPrepare, RepliesSaved
  <2> QED BY <2>1, RepliesAskedKeeps
<1>2. ASSUME NEW t \in Target, Replies!FinishDraft(t) PROVE Replies!AskedIsKept'
  <2>1. /\ saved' = saved /\ drafts'[t] = "pending"
        /\ asked' = asked \ {u \in Target : drafts[u] # "none" /\ drafts'[u] = "none"}
        /\ \A i \in Replies!Id : rows'[i] = rows[i] \/ t \in rows[i].target
    BY <1>2, RepliesFinish
  <2>2. \A i \in Replies!Id : \A u, v \in rows[i].target : u = v
    BY RepliesFound DEF RepliesShape, RowsShape
  <2>3. ASSUME NEW u \in asked'
        PROVE  u \in asked /\ (Replies!RowsOf(rows', u) # {} \/ drafts'[u] # "none")
    <3>1. u \in asked /\ u \in Target /\ (drafts[u] # "none" => drafts'[u] # "none")
      BY <2>1, <1>t
    <3>2. CASE u # t /\ Replies!RowsOf(rows, u) # {}
      <4>1. PICK i \in Replies!Id : u \in rows[i].target
        BY <3>2 DEF Replies!RowsOf
      <4>2. rows'[i] = rows[i]
        BY <2>1, <2>2, <3>2, <4>1
      <4> QED BY <3>1, <4>1, <4>2 DEF Replies!RowsOf
    <3>3. CASE u = t
      BY <2>1, <3>1, <3>3
    <3>4. CASE drafts[u] # "none"
      BY <3>1, <3>4
    <3> QED BY <3>1, <3>2, <3>3, <3>4, <1>a
  <2> QED BY <2>1, <2>3, RepliesAskedKeeps
\* The steps that leave every comment where it was recorded.
<1>3. ASSUME asked' = asked, \A i \in Replies!Id : rows'[i].target = rows[i].target,
             \A t \in Target : drafts[t] # "none" => drafts'[t] # "none",
             saved' \subseteq saved \union {Replies!Leads'}
      PROVE  Replies!AskedIsKept'
  <2>1. ASSUME NEW t \in asked PROVE Replies!RowsOf(rows', t) # {} \/ drafts'[t] # "none"
    BY <1>3, <1>a, <1>t DEF Replies!RowsOf
  <2> QED BY <1>3, <2>1, RepliesAskedKeeps
<1>4. ASSUME NEW i \in Replies!Id, Replies!RejectRow(i) PROVE Replies!AskedIsKept'
  <2>1. /\ UNCHANGED <<drafts, asked>> /\ saved' \subseteq saved \union {Replies!Leads'}
        /\ \A j \in Replies!Id : rows'[j].target = rows[j].target
    BY <1>4, RepliesReject
  <2> QED BY <1>3, <2>1
<1>5. ASSUME UNCHANGED <<rows, drafts, saved, asked>> PROVE Replies!AskedIsKept'
  BY <1>3, <1>5
<1>6. ASSUME NEW s \in Slot, NEW text \in Text,
             \/ \E i \in Replies!Id : Replies!ApproveRow(s, i, text)
             \/ \E t \in Target : Replies!ApproveDraft(s, t, text)
      PROVE  Replies!AskedIsKept'
  BY <1>5, <1>6, RepliesCapture DEF RowsAlone
<1>7. ASSUME NEW s \in Slot, NEW k \in Replies!Key,
             \/ Replies!Send(s, k) \/ Replies!Delivered(s, k)
             \/ Replies!Declined(s, k) \/ Replies!Misjudged(s, k) \/ Replies!AnswerLost(s, k)
      PROVE  Replies!AskedIsKept'
  BY <1>5, <1>7, RepliesCall DEF RowsAlone
<1>8. ASSUME NEW s \in Slot, Replies!Refused(s) \/ \E k \in Replies!Key : Replies!End(s, k)
      PROVE  Replies!AskedIsKept'
  <2>1. /\ asked' = asked /\ saved' \subseteq saved \union {Replies!Leads'}
        /\ \A t \in Target : drafts[t] # "none" => drafts'[t] # "none"
        /\ \A i \in Replies!Id : rows'[i].target = rows[i].target
    BY <1>8, RepliesWrite
  <2> QED BY <2>1, <1>3
<1>9. CASE Replies!Restart \/ Replies!Settle
  <2>1. /\ Replies!Found' \subseteq Replies!Found
        /\ \A t \in asked' : t \in asked \/ Replies!Recorded(t)'
    BY <1>9, RepliesRestart, RepliesSettle
  <2> QED BY <2>1 DEF Replies!AskedIsKept, Replies!Recorded
<1>10. CASE \/ \E t \in Target : \/ Replies!StartDraft(t) \/ Replies!NoDraft(t)
                                 \/ Replies!CloseDraft(t) \/ Replies!RejectDraft(t)
            \/ \E k \in Replies!Key : Replies!Expire(k)
            \/ Replies!SaveCycle
            \/ UNCHANGED Replies!vars
  <2>1. /\ UNCHANGED <<rows, asked>> /\ saved' \subseteq saved \union {Replies!Leads'}
        /\ \A t \in Target : drafts[t] # "none" => drafts'[t] # "none"
    BY <1>10, RepliesQuiet
  <2>2. asked' = asked /\ \A i \in Replies!Id : rows'[i].target = rows[i].target
    BY <2>1
  <2> QED BY <2>1, <2>2, <1>3
<1> QED
  BY <1>1, <1>2, <1>4, <1>6, <1>7, <1>8, <1>9, <1>10
  DEF Replies!Next, Replies!Preparing, Replies!Deciding, Replies!Executing

LEMMA RepliesInit == ASSUME RepliesParameters PROVE Replies!Init => RepliesInv
<1> SUFFICES ASSUME Replies!Init PROVE RepliesInv
  OBVIOUS
<1>1. /\ rows = [i \in Replies!Id |-> Replies!NoRow] /\ drafts = [t \in Target |-> "none"]
      /\ saved = {[rows |-> rows, drafts |-> drafts]}
      /\ task = [s \in Slot |-> Replies!Rest]
      /\ preparing = {} /\ history = {}
      /\ res = [k \in Replies!Key |-> "free"] /\ replies = [k \in Replies!Key |-> 0]
      /\ got = {} /\ lost = {} /\ asked = {} /\ refused = {}
      /\ made = 0 /\ restarts = 0
  BY DEF Replies!Init
<1>2. Replies!TypeOK
  BY <1>1, RepliesNoRow, RepliesRest DEF Replies!TypeOK, Replies!Draft, RepliesParameters
<1>3. /\ \A leads \in Replies!Found, i \in Replies!Id :
            leads.rows[i].target = {} /\ leads.rows[i].status = "none"
      /\ \A s \in Slot : task[s].key = {} /\ task[s].id = 0 /\ task[s].stage = "idle"
  BY <1>1 DEF Replies!NoRow, Replies!Rest, Replies!Found, Replies!Leads
<1>4. RepliesShape
  BY <1>1, <1>3 DEF RepliesShape, RowsShape, TaskShape
<1>5. RepliesTrue
  BY <1>3 DEF RepliesTrue, RowsTrue
<1>6. RepliesOnce
  BY <1>1, <1>3 DEF RepliesOnce, RepliesOnceFor, Holding
<1>7. Replies!RejectionStands /\ Replies!AskedIsKept
  BY <1>1 DEF Replies!RejectionStands, Replies!AskedIsKept
<1> QED BY <1>2, <1>4, <1>5, <1>6, <1>7 DEF RepliesInv

LEMMA RepliesStep ==
    ASSUME RepliesParameters
    PROVE  RepliesInv /\ [Replies!Next]_(Replies!vars) => RepliesInv'
BY RepliesTypeStep, RepliesShapeStep, RepliesTrueStep, RepliesOnceStep,
   RepliesRefusedStep,
   RepliesAskedStep DEF RepliesInv

LEMMA RepliesImplies ==
    RepliesInv => /\ Replies!TypeOK /\ Replies!SentIsTrue /\ Replies!SecondReplyNeedsLoss
                  /\ Replies!RejectionStands /\ Replies!AskedIsKept
<1> SUFFICES ASSUME RepliesInv
             PROVE  /\ Replies!TypeOK /\ Replies!SentIsTrue /\ Replies!SecondReplyNeedsLoss
                    /\ Replies!RejectionStands /\ Replies!AskedIsKept
  OBVIOUS
<1>1. Replies!TypeOK /\ Replies!AskedIsKept /\ Replies!RejectionStands
  BY DEF RepliesInv
<1>2. Replies!SentIsTrue
  BY RepliesFound DEF RepliesInv, RepliesTrue, RowsTrue, Replies!SentIsTrue
<1>3. Replies!SecondReplyNeedsLoss
  <2>1. \A k \in Replies!Key : replies[k] \in 0 .. 2
    BY <1>1 DEF Replies!TypeOK
  <2>2. \A k \in Replies!Key : k \notin lost => replies[k] <= 1
    BY DEF RepliesInv, RepliesOnce, RepliesOnceFor
  <2> QED BY <2>1, <2>2 DEF Replies!SecondReplyNeedsLoss
<1> QED BY <1>1, <1>2, <1>3

\* A reply that shows as sent has the words the customer got; one the owner rejected is not
\* sent and one the owner was asked about is kept, whichever of the writes that overtake
\* each other a restart finds; and none goes out twice without a loss.
THEOREM RepliesStand ==
    ASSUME RepliesParameters
    PROVE  Replies!Spec => [](/\ Replies!TypeOK
                             /\ Replies!SentIsTrue
                             /\ Replies!SecondReplyNeedsLoss
                             /\ Replies!RejectionStands
                             /\ Replies!AskedIsKept)
BY RepliesInit, RepliesStep, RepliesImplies, PTL DEF Replies!Spec

-----------------------------------------------------------------------------
(* The content queue (ContentQueue).                                       *)

QueueParameters ==
    MaxVersion \in Nat \ {0} /\ QueueRestarts \in Nat /\ Timed \subseteq BOOLEAN

QueueMark == {"free", "reserved", "done"}

-----------------------------------------------------------------------------
(* Typing lemmas.                                                           *)

LEMMA QueueRows ==
    ASSUME NEW row \in Queue!Row, NEW state \in Queue!State, NEW timed \in BOOLEAN,
           NEW date \in BOOLEAN
    PROVE  /\ [row EXCEPT !.state = state] \in Queue!Row
           /\ [row EXCEPT !.timed = timed] \in Queue!Row
           /\ [row EXCEPT !.date = date] \in Queue!Row
           /\ [row EXCEPT !.state = state, !.timed = timed] \in Queue!Row
           /\ [row EXCEPT !.state = state, !.date = date] \in Queue!Row
           /\ [row EXCEPT !.state = state].state = state
           /\ [row EXCEPT !.state = state, !.timed = timed].state = state
           /\ [row EXCEPT !.date = date].state = row.state
BY DEF Queue!Row

LEMMA QueueRestType == ASSUME QueueParameters PROVE Queue!Rest \in Queue!Work
<1>1. 1 \in Queue!Version
  BY DEF Queue!Version, QueueParameters
<1> QED BY <1>1 DEF Queue!Rest, Queue!Work, Queue!Stage, Queue!Outcome

LEMMA QueueCapturedType ==
    ASSUME NEW i \in Item, NEW row \in Queue!Row
    PROVE  Queue!Captured(i, row) \in Queue!Work
BY DEF Queue!Captured, Queue!Row, Queue!Work, Queue!Stage, Queue!Outcome

LEMMA QueueWorks ==
    ASSUME NEW w \in Queue!Work, NEW i \in Item, NEW outcome \in Queue!Outcome,
           NEW quota \in BOOLEAN
    PROVE  /\ [w EXCEPT !.stage = "drafted", !.item = {i}] \in Queue!Work
           /\ [w EXCEPT !.stage = "sent"] \in Queue!Work
           /\ [w EXCEPT !.stage = "answered", !.outcome = outcome, !.quota = quota]
                 \in Queue!Work
BY DEF Queue!Work, Queue!Stage

LEMMA QueueOneMoreType == ASSUME NEW n \in 0 .. 2 PROVE Queue!OneMore(n) \in 1 .. 2
BY DEF Queue!OneMore

QueueOneItem == \A t \in Queue!Task : \A i, j \in task[t].item : i = j

QueueShape == Queue!TypeOK /\ QueueOneItem

-----------------------------------------------------------------------------
(* What a step does to the rows and to the tasks.                           *)

QueueRowStep(i) ==
    /\ queue' \in [Item -> Queue!Row]
    /\ \A j \in Item \ {i} : queue'[j] = queue[j]
    /\ saved' \subseteq saved \union {queue'}
    /\ decided' \in [Item -> 0 .. MaxVersion]
    /\ restarts' = restarts

QueueTaskStep(t, i) ==
    /\ task' \in [Queue!Task -> Queue!Work]
    /\ \A u \in Queue!Task \ {t} : task'[u] = task[u]
    /\ task[t].item \subseteq {i} /\ task'[t].item \subseteq {i}

QueueHolds(t, i) == i \in task[t].item /\ task[t].stage \in {"sent", "answered"}

QueueSettles(t, i) ==
    i \in task[t].item /\ task[t].stage = "answered" /\ task[t].outcome = "done"

LEMMA QueueSaved == ASSUME Queue!Save PROVE saved' \subseteq saved \union {queue'}
BY DEF Queue!Save

\* An item stays withdrawn while its row does and the snapshots in question are old ones
\* or the one of now.
LEMMA QueueStandingKeeps ==
    ASSUME NEW i \in Item, Queue!Standing(i), Queue!Untouched(i)',
           queue'[i].state \in Queue!Off, saved' \subseteq saved \union {queue'}
    PROVE  Queue!Standing(i)'
BY DEF Queue!Standing

LEMMA QueueRowBy ==
    ASSUME Queue!TypeOK, NEW i \in Item, NEW row \in Queue!Row,
           queue' = [queue EXCEPT ![i] = row],
           saved' \subseteq saved \union {queue'},
           decided' \in [Item -> 0 .. MaxVersion], restarts' = restarts
    PROVE  QueueRowStep(i) /\ queue'[i] = row
BY DEF Queue!TypeOK, QueueRowStep

LEMMA QueueTaskBy ==
    ASSUME Queue!TypeOK, NEW t \in Queue!Task, NEW i \in Item, NEW w \in Queue!Work,
           task' = [task EXCEPT ![t] = w], task[t].item \subseteq {i}, w.item \subseteq {i}
    PROVE  QueueTaskStep(t, i) /\ task'[t] = w
BY DEF Queue!TypeOK, QueueTaskStep

LEMMA QueueSameRows ==
    ASSUME Queue!TypeOK, NEW i \in Item, UNCHANGED <<queue, saved, decided, restarts>>
    PROVE  QueueRowStep(i)
BY DEF Queue!TypeOK, QueueRowStep

LEMMA QueueDecidedType ==
    ASSUME QueueParameters, Queue!TypeOK, NEW i \in Item
    PROVE  /\ [decided EXCEPT ![i] = 0] \in [Item -> 0 .. MaxVersion]
           /\ [decided EXCEPT ![i] = queue[i].version] \in [Item -> 0 .. MaxVersion]
           /\ decided \in [Item -> 0 .. MaxVersion]
<1>1. queue[i].version \in 0 .. MaxVersion /\ 0 \in 0 .. MaxVersion
  BY DEF Queue!TypeOK, Queue!Row, Queue!Version, QueueParameters
<1> QED BY <1>1 DEF Queue!TypeOK

-----------------------------------------------------------------------------
(* The decisions of the owner.                                              *)

QueueDecides(i) ==
    /\ QueueRowStep(i)
    /\ UNCHANGED <<keys, savedKeys, res, videos, lost, due>>
    /\ withdrawn' \subseteq withdrawn \union {i}
    /\ i \in withdrawn' => Queue!Standing(i)' /\ task' = task
    /\ \/ task' = task
       \/ \E s \in QueueSlot : QueueTaskStep(s, i) /\ ~QueueHolds(s, i) /\ ~QueueHolds(s, i)'

LEMMA QueueWithdraw ==
    ASSUME QueueParameters, QueueShape, Queue!WithdrawnStays, NEW i \in Item,
           NEW row \in Queue!Row, row.state \in Queue!Off, Queue!Withdraw(i, row)
    PROVE  QueueDecides(i)
<1>1. /\ queue' = [queue EXCEPT ![i] = row] /\ decided' = [decided EXCEPT ![i] = 0]
      /\ withdrawn' = withdrawn \union {j \in {i} : Queue!Standing(j)'}
      /\ UNCHANGED <<keys, savedKeys, res, videos, lost, task, due, restarts>>
  BY DEF Queue!Withdraw, Queue!Provider
<1>2. saved' \subseteq saved \union {queue'}
  BY QueueSaved DEF Queue!Withdraw
<1>3. QueueRowStep(i) /\ queue'[i] = row
  BY <1>1, <1>2, QueueRowBy, QueueDecidedType DEF QueueShape
<1>4. i \in withdrawn' => Queue!Standing(i)'
  <2>1. CASE i \in withdrawn
    <3>1. Queue!Standing(i)
      BY <2>1 DEF Queue!WithdrawnStays
    <3>2. Queue!Untouched(i)'
      BY <3>1, <1>1 DEF Queue!Standing, Queue!Untouched, Queue!Working
    <3> QED BY <3>1, <3>2, <1>2, <1>3, QueueStandingKeeps
  <2>2. CASE i \notin withdrawn
    BY <2>2, <1>1
  <2> QED BY <2>1, <2>2
<1>5. withdrawn' \subseteq withdrawn \union {i}
  BY <1>1
<1> QED BY <1>1, <1>3, <1>4, <1>5 DEF QueueDecides

LEMMA QueueDecidesAll ==
    ASSUME QueueParameters, QueueShape, Queue!WithdrawnStays, Queue!Deciding
    PROVE  \E i \in Item : QueueDecides(i)
<1>t. /\ queue \in [Item -> Queue!Row] /\ saved \in SUBSET [Item -> Queue!Row]
      /\ task \in [Queue!Task -> Queue!Work] /\ withdrawn \subseteq Item
      /\ QueueSlot \subseteq Queue!Task /\ Timed \subseteq BOOLEAN
      /\ \A i \in Item : queue[i] \in Queue!Row
      /\ \A s \in Queue!Task : task[s] \in Queue!Work
  BY DEF QueueShape, Queue!TypeOK, Queue!Task, QueueParameters
<1>s. /\ {"REJECTED", "REVIEW_REQUIRED", "DRAFT", "APPROVED", "FAILED"} \subseteq Queue!State
      /\ "REJECTED" \in Queue!Off /\ "REVIEW_REQUIRED" \in Queue!Off
      /\ Queue!Off \subseteq Queue!State
      /\ "none" \notin Queue!Off
  BY DEF Queue!State, Queue!Off, Queue!Final
<1>r. Queue!Rest.item = {} /\ Queue!Rest.stage = "idle"
  BY DEF Queue!Rest
\* A row that changes while the item keeps its place among those withdrawn.
<1>a. ASSUME NEW i \in Item, NEW row \in Queue!Row, queue' = [queue EXCEPT ![i] = row],
             saved' \subseteq saved \union {queue'},
             decided' \in [Item -> 0 .. MaxVersion],
             UNCHANGED <<keys, savedKeys, res, videos, lost, due, restarts>>,
             \/ withdrawn' = withdrawn \ {i}
             \/ withdrawn' = withdrawn /\ task' = task /\ row.state \in Queue!Off
             \/ withdrawn' = withdrawn /\ i \notin withdrawn,
             \/ task' = task
             \/ \E s \in QueueSlot : QueueTaskStep(s, i) /\ ~QueueHolds(s, i) /\ ~QueueHolds(s, i)'
      PROVE  QueueDecides(i)
  <2>1. QueueRowStep(i) /\ queue'[i] = row
    BY <1>a, QueueRowBy DEF QueueShape
  <2>2. ASSUME i \in withdrawn'
        PROVE  Queue!Standing(i)' /\ task' = task
    <3>1. i \in withdrawn /\ task' = task /\ row.state \in Queue!Off
      BY <1>a, <2>2
    <3>2. Queue!Standing(i)
      BY <3>1 DEF Queue!WithdrawnStays
    <3>3. Queue!Untouched(i)'
      BY <3>1, <3>2, <1>a DEF Queue!Standing, Queue!Untouched, Queue!Working
    <3> QED BY <2>1, <3>1, <3>2, <3>3, <1>a, QueueStandingKeeps
  <2>3. withdrawn' \subseteq withdrawn \union {i}
    BY <1>a
  <2> QED BY <1>a, <2>1, <2>2, <2>3 DEF QueueDecides
\* A slot that takes the item, or leaves it, and does not hold it.
<1>b. ASSUME NEW s \in QueueSlot, NEW i \in Item, NEW w \in Queue!Work,
             task' = [task EXCEPT ![s] = w], task[s].item \subseteq {i}, w.item \subseteq {i},
             task[s].stage \notin {"sent", "answered"}, w.stage \notin {"sent", "answered"}
      PROVE  QueueTaskStep(s, i) /\ ~QueueHolds(s, i) /\ ~QueueHolds(s, i)'
  <2>1. QueueTaskStep(s, i) /\ task'[s] = w
    BY <1>b, <1>t, QueueTaskBy DEF QueueShape
  <2> QED BY <1>b, <2>1 DEF QueueHolds
<1>c. ASSUME Queue!Save PROVE saved' \subseteq saved \union {queue'}
  BY <1>c, QueueSaved
<1>1. ASSUME NEW i \in Item, Queue!Refuse(i) PROVE QueueDecides(i)
  <2>1. /\ [queue[i] EXCEPT !.state = "REJECTED"] \in Queue!Row
        /\ [queue[i] EXCEPT !.state = "REJECTED"].state = "REJECTED"
    BY <1>t, <1>s, QueueRows
  <2>2. Queue!Withdraw(i, [queue[i] EXCEPT !.state = "REJECTED"])
    BY <1>1 DEF Queue!Refuse
  <2> QED BY <2>1, <2>2, <1>s, QueueWithdraw
<1>2. ASSUME NEW i \in Item, NEW timed \in Timed, Queue!Edit(i, timed) PROVE QueueDecides(i)
  <2>1. PICK version \in {queue[i].version, queue[i].version + 1} \intersect Queue!Version :
           Queue!Withdraw(i, [state |-> "REVIEW_REQUIRED", version |-> version,
                              timed |-> timed \/ queue[i].timed, date |-> FALSE])
    BY <1>2 DEF Queue!Edit
  <2> DEFINE later == timed \/ queue[i].timed
             row == [state |-> "REVIEW_REQUIRED", version |-> version,
                     timed |-> later, date |-> FALSE]
  <2>2. later \in BOOLEAN
    OBVIOUS
  <2>3. Queue!Withdraw(i, row)
    BY <2>1
  <2> HIDE DEF later
  <2>4. row \in Queue!Row /\ row.state \in Queue!Off
    BY <2>2, <1>s DEF Queue!Row
  <2> HIDE DEF row
  <2> QED BY <2>3, <2>4, QueueWithdraw
<1>3. ASSUME NEW i \in Item, Queue!Approve(i) PROVE QueueDecides(i)
  <2>1. /\ queue' = [queue EXCEPT ![i] = [queue[i] EXCEPT !.state = "APPROVED"]]
        /\ saved' \subseteq saved \union {queue'}
        /\ decided' = [decided EXCEPT ![i] = queue[i].version] /\ withdrawn' = withdrawn \ {i}
        /\ UNCHANGED <<keys, savedKeys, res, videos, lost, due, restarts, task>>
    BY <1>3, <1>c, <1>t DEF Queue!Approve, Queue!Decide, Queue!Provider
  <2>2. [queue[i] EXCEPT !.state = "APPROVED"] \in Queue!Row
    BY <1>t, <1>s, QueueRows
  <2>3. decided' \in [Item -> 0 .. MaxVersion]
    BY <2>1, QueueDecidedType DEF QueueShape
  <2> QED BY <2>1, <2>2, <2>3, <1>a
<1>4. ASSUME NEW i \in Item, NEW timed \in BOOLEAN, Queue!DecisionBlocked(i, timed)
      PROVE  QueueDecides(i)
  <2> DEFINE row == [queue[i] EXCEPT !.state = "REVIEW_REQUIRED", !.timed = timed]
  <2>1. /\ queue' = [queue EXCEPT ![i] = row]
        /\ saved' \subseteq saved \union {queue'}
        /\ decided' = decided /\ withdrawn' = withdrawn
        /\ UNCHANGED <<keys, savedKeys, res, videos, lost, due, restarts, task>>
    BY <1>4, <1>c, <1>t DEF Queue!DecisionBlocked, Queue!Provider
  <2>2. row \in Queue!Row /\ row.state \in Queue!Off
    <3>1. queue[i] \in Queue!Row
      BY <1>t
    <3> QED BY <3>1, <1>s DEF Queue!Row
  <2>3. decided' \in [Item -> 0 .. MaxVersion]
    BY <2>1, QueueDecidedType DEF QueueShape
  <2> HIDE DEF row
  <2> QED BY <2>1, <2>2, <2>3, <1>a
<1>5. ASSUME NEW i \in Item, NEW s \in QueueSlot, Queue!PublishNow(s, i) PROVE QueueDecides(i)
  <2> DEFINE row == [queue[i] EXCEPT !.state = "APPROVED", !.timed = FALSE]
  <2>1. /\ queue' = [queue EXCEPT ![i] = row]
        /\ saved' = saved /\ task[s] = Queue!Rest
        /\ task' = [task EXCEPT ![s] = Queue!Captured(i, queue'[i])]
        /\ decided' = [decided EXCEPT ![i] = queue[i].version] /\ withdrawn' = withdrawn \ {i}
        /\ UNCHANGED <<keys, savedKeys, res, videos, lost, due, restarts>>
    BY <1>5, <1>t DEF Queue!PublishNow, Queue!Decide, Queue!Provider
  <2>2. row \in Queue!Row
    BY <1>t, <1>s, QueueRows
  <2>3. decided' \in [Item -> 0 .. MaxVersion]
    BY <2>1, QueueDecidedType DEF QueueShape
  <2> HIDE DEF row
  <2>4. queue'[i] \in Queue!Row
    BY <2>1, <2>2, <1>t
  <2>5. /\ Queue!Captured(i, queue'[i]) \in Queue!Work
        /\ Queue!Captured(i, queue'[i]).item = {i}
        /\ Queue!Captured(i, queue'[i]).stage = "asking"
    BY <2>4, QueueCapturedType DEF Queue!Captured
  <2>6. QueueTaskStep(s, i) /\ ~QueueHolds(s, i) /\ ~QueueHolds(s, i)'
    BY <2>1, <2>5, <1>b, <1>r
  <2> QED BY <2>1, <2>2, <2>3, <2>6, <1>a
<1>6. ASSUME NEW i \in Item, NEW s \in QueueSlot, Queue!Schedule(s, i) PROVE QueueDecides(i)
  <2> DEFINE row == [queue[i] EXCEPT !.state = "APPROVED"]
  <2>1. /\ queue' = [queue EXCEPT ![i] = row]
        /\ saved' \subseteq saved \union {queue'}
        /\ task[s] = Queue!Rest
        /\ task' = task \/ task' = [task EXCEPT ![s] = Queue!Captured(i, queue'[i])]
        /\ decided' = [decided EXCEPT ![i] = queue[i].version] /\ withdrawn' = withdrawn \ {i}
        /\ UNCHANGED <<keys, savedKeys, res, videos, lost, due, restarts>>
    BY <1>6, <1>c, <1>t DEF Queue!Schedule, Queue!Decide, Queue!Provider
  <2>2. row \in Queue!Row
    BY <1>t, <1>s, QueueRows
  <2>3. decided' \in [Item -> 0 .. MaxVersion]
    BY <2>1, QueueDecidedType DEF QueueShape
  <2> HIDE DEF row
  <2>4. queue'[i] \in Queue!Row
    BY <2>1, <2>2, <1>t
  <2>5. /\ Queue!Captured(i, queue'[i]) \in Queue!Work
        /\ Queue!Captured(i, queue'[i]).item = {i}
        /\ Queue!Captured(i, queue'[i]).stage = "asking"
    BY <2>4, QueueCapturedType DEF Queue!Captured
  <2>6. task' # task => QueueTaskStep(s, i) /\ ~QueueHolds(s, i) /\ ~QueueHolds(s, i)'
    BY <2>1, <2>5, <1>b, <1>r
  <2> QED BY <2>1, <2>2, <2>3, <2>6, <1>a
<1>7. ASSUME NEW i \in Item, NEW s \in QueueSlot, Queue!AutoExecute(s, i) PROVE QueueDecides(i)
  <2>1. /\ task[s].stage = "drafted" /\ i \in task[s].item
        /\ UNCHANGED <<keys, savedKeys, res, videos, lost, due, restarts, withdrawn, decided>>
    BY <1>7 DEF Queue!AutoExecute, Queue!Provider
  <2>2. task[s].item \subseteq {i} /\ i \notin withdrawn
    BY <2>1, <1>t DEF QueueShape, QueueOneItem, Queue!WithdrawnStays, Queue!Standing,
                      Queue!Untouched, Queue!Working
  <2>3. decided' \in [Item -> 0 .. MaxVersion]
    BY <2>1, QueueDecidedType DEF QueueShape
  <2>4. CASE task' = [task EXCEPT ![s] = Queue!Captured(i, queue[i])]
             /\ UNCHANGED <<queue, saved>>
    <3>1. /\ Queue!Captured(i, queue[i]) \in Queue!Work
          /\ Queue!Captured(i, queue[i]).item = {i}
          /\ Queue!Captured(i, queue[i]).stage = "asking"
      BY <1>t, QueueCapturedType DEF Queue!Captured
    <3>2. QueueTaskStep(s, i) /\ ~QueueHolds(s, i) /\ ~QueueHolds(s, i)'
      BY <2>1, <2>2, <2>4, <3>1, <1>b
    <3>3. queue' = [queue EXCEPT ![i] = queue[i]] /\ queue[i] \in Queue!Row
      BY <2>4, <1>t
    <3> QED BY <2>1, <2>2, <2>3, <2>4, <3>2, <3>3, <1>a
  <2>5. CASE ~(task' = [task EXCEPT ![s] = Queue!Captured(i, queue[i])]
               /\ UNCHANGED <<queue, saved>>)
    <3> DEFINE row == [queue[i] EXCEPT !.state = "REVIEW_REQUIRED"]
    <3>1. /\ queue' = [queue EXCEPT ![i] = row]
          /\ saved' \subseteq saved \union {queue'}
          /\ task' = [task EXCEPT ![s] = Queue!Rest]
      BY <1>7, <1>c, <1>t, <2>5 DEF Queue!AutoExecute
    <3>2. row \in Queue!Row
      BY <1>t, <1>s, QueueRows
    <3> HIDE DEF row
    <3>3. Queue!Rest \in Queue!Work
      BY QueueRestType
    <3>4. QueueTaskStep(s, i) /\ ~QueueHolds(s, i) /\ ~QueueHolds(s, i)'
      BY <2>1, <2>2, <3>1, <3>3, <1>b, <1>r
    <3> QED BY <2>1, <2>2, <2>3, <3>1, <3>2, <3>4, <1>a
  <2> QED BY <2>4, <2>5
<1>8. ASSUME NEW i \in Item, NEW s \in QueueSlot, NEW timed \in Timed,
             NEW state \in {"DRAFT", "REVIEW_REQUIRED", "APPROVED"},
             Queue!CreateDraft(s, i, state, timed)
      PROVE  QueueDecides(i)
  <2> DEFINE row == [queue[i] EXCEPT !.state = state, !.timed = timed]
             w == [task[s] EXCEPT !.stage = "drafted", !.item = {i}]
  <2>1. /\ queue' = [queue EXCEPT ![i] = row] /\ queue[i].state = "none"
        /\ saved' \subseteq saved \union {queue'}
        /\ task[s] = Queue!Rest /\ withdrawn' = withdrawn
        /\ task' = task \/ task' = [task EXCEPT ![s] = w]
        /\ decided' = decided \/ decided' = [decided EXCEPT ![i] = queue[i].version]
        /\ UNCHANGED <<keys, savedKeys, res, videos, lost, due, restarts>>
    BY <1>8, <1>c, <1>t DEF Queue!CreateDraft, Queue!Provider
  <2>2. row \in Queue!Row
    BY <1>t, <1>s, QueueRows
  <2>3. decided' \in [Item -> 0 .. MaxVersion]
    BY <2>1, QueueDecidedType DEF QueueShape
  <2>4. i \notin withdrawn
    BY <2>1, <1>s DEF Queue!WithdrawnStays, Queue!Standing
  <2>5. w.item = {i} /\ w.stage = "drafted" /\ task[s].item = {} /\ task[s].stage = "idle"
    BY <2>1, <1>t, <1>r DEF Queue!Work
  <2>6. w \in Queue!Work
    <3>1. task[s] \in Queue!Work /\ "keep" \in Queue!Outcome
      BY <1>t DEF Queue!Outcome
    <3> QED BY <3>1, QueueWorks
  <2> HIDE DEF row, w
  <2>7. task' # task => QueueTaskStep(s, i) /\ ~QueueHolds(s, i) /\ ~QueueHolds(s, i)'
    BY <2>1, <2>5, <2>6, <1>b
  <2> QED BY <2>1, <2>2, <2>3, <2>4, <2>7, <1>a
<1> QED BY <1>1, <1>2, <1>3, <1>4, <1>5, <1>6, <1>7, <1>8 DEF Queue!Deciding

-----------------------------------------------------------------------------
(* A request at the provider.                                               *)

\* While no result of an item is lost one request holds it, and its video is
\* recorded as done or has the request that will record it.
QueueOnceFor(i) ==
    /\ videos[i] <= 1
    /\ \A t \in Queue!Task : QueueHolds(t, i) =>
          /\ res[i] = "reserved"
          /\ \A u \in Queue!Task : QueueHolds(u, i) => u = t
    /\ videos[i] = 1 => res[i] = "done" \/ \E t \in Queue!Task : QueueSettles(t, i)

QueueOnce == \A i \in Item \ lost : QueueOnceFor(i)

QueueExecutes(t, i) ==
    /\ QueueRowStep(i) /\ QueueTaskStep(t, i) /\ i \in task[t].item
    /\ withdrawn' = withdrawn /\ due' = due
    /\ keys' \in SUBSET Queue!Key /\ savedKeys' \in SUBSET Queue!Key
    /\ res' \in [Item -> QueueMark] /\ videos' \in [Item -> 0 .. 2]
    /\ \A j \in Item \ {i} : res'[j] = res[j] /\ videos'[j] = videos[j]
    /\ lost \subseteq lost' /\ lost' \subseteq lost \union {i}

\* What each step of an execution does to the reservation, the videos and the task.
QueueStages(t, i) ==
    LET was == task[t].stage  is == task'[t].stage IN
    \/ /\ was = "asking" /\ is = "idle" /\ UNCHANGED <<res, videos, lost>>
       /\ i \notin task'[t].item
    \/ /\ was = "asking" /\ is = "sent" /\ UNCHANGED <<videos, lost>>
       /\ res[i] = "free" /\ res'[i] = "reserved" /\ i \in task'[t].item
    \/ /\ was = "sent" /\ is = "answered" /\ res' = res
       /\ i \in task'[t].item
       /\ \/ /\ task'[t].outcome = "done" /\ lost' = lost
             /\ videos'[i] = Queue!OneMore(videos[i])
          \/ task'[t].outcome # "done" /\ UNCHANGED <<videos, lost>>
          \/ i \in lost'
    \/ /\ was = "answered" /\ is = "idle" /\ UNCHANGED <<videos, lost>>
       /\ i \notin task'[t].item
       /\ res'[i] = Queue!Finished(i, task[t].outcome)

LEMMA QueueExecutesAll ==
    ASSUME QueueParameters, QueueShape, NEW t \in Queue!Task, Queue!Executing(t)
    PROVE  \E i \in Item : QueueExecutes(t, i) /\ QueueStages(t, i)
<1>t. /\ queue \in [Item -> Queue!Row] /\ task \in [Queue!Task -> Queue!Work]
      /\ res \in [Item -> QueueMark] /\ videos \in [Item -> 0 .. 2]
      /\ keys \in SUBSET Queue!Key /\ savedKeys \in SUBSET Queue!Key
      /\ decided \in [Item -> 0 .. MaxVersion]
      /\ task[t] \in Queue!Work
      /\ \A i \in task[t].item : task[t].item \subseteq {i}
  BY DEF QueueShape, Queue!TypeOK, QueueOneItem, QueueMark
<1>s. /\ {"SCHEDULED", "PUBLISHED", "PENDING_RETRY", "FAILED"} \subseteq Queue!State
      /\ {"free", "reserved", "done"} \subseteq QueueMark
      /\ {"done", "free", "keep"} \subseteq Queue!Outcome
  BY DEF Queue!State, QueueMark, Queue!Outcome
<1>k. ASSUME NEW i \in task[t].item PROVE Queue!KeyOf(t, i) \in Queue!Key
  <2>1. /\ task[t].version \in Queue!Version /\ task[t].timed \in BOOLEAN /\ i \in Item
    BY <1>t DEF Queue!Work
  <2> QED BY <2>1 DEF Queue!KeyOf, Queue!Key
<1>o. ASSUME NEW i \in Item, NEW b \in BOOLEAN
      PROVE  [videos EXCEPT ![i] = IF b THEN Queue!OneMore(@) ELSE @] \in [Item -> 0 .. 2]
  <2>1. Queue!OneMore(videos[i]) \in 0 .. 2
    BY <1>t, QueueOneMoreType
  <2> QED BY <1>t, <2>1
<1>1. ASSUME NEW i \in Item, Queue!Blocked(t, i) PROVE QueueExecutes(t, i) /\ QueueStages(t, i)
  <2>1. /\ task[t].stage = "asking" /\ i \in task[t].item
        /\ task' = [task EXCEPT ![t] = Queue!Rest]
        /\ UNCHANGED <<queue, saved, due, keys, savedKeys, res, videos, lost, decided,
                       withdrawn, restarts>>
    BY <1>1 DEF Queue!Blocked, Queue!Provider
  <2>2. Queue!Rest \in Queue!Work /\ Queue!Rest.item = {} /\ Queue!Rest.stage = "idle"
    BY QueueRestType DEF Queue!Rest
  <2>3. QueueTaskStep(t, i) /\ task'[t] = Queue!Rest
    BY <2>1, <2>2, <1>t, QueueTaskBy DEF QueueShape
  <2>4. QueueRowStep(i)
    BY <2>1, QueueSameRows DEF QueueShape
  <2> QED BY <2>1, <2>2, <2>3, <2>4, <1>t DEF QueueExecutes, QueueStages
<1>2. ASSUME NEW i \in Item, Queue!Send(t, i) PROVE QueueExecutes(t, i) /\ QueueStages(t, i)
  <2> DEFINE w == [task[t] EXCEPT !.stage = "sent"]
  <2>1. /\ task[t].stage = "asking" /\ i \in task[t].item
        /\ task' = [task EXCEPT ![t] = w]
        /\ res[i] = "free" /\ res' = [res EXCEPT ![i] = "reserved"]
        /\ UNCHANGED <<queue, saved, due, keys, savedKeys, videos, lost, decided,
                       withdrawn, restarts>>
    BY <1>2, <1>t DEF Queue!Send
  <2>2. w.item = task[t].item /\ w.stage = "sent"
    BY <1>t DEF Queue!Work
  <2>3. w \in Queue!Work
    <3>1. "keep" \in Queue!Outcome
      BY <1>s
    <3> QED BY <3>1, <1>t, QueueWorks
  <2> HIDE DEF w
  <2>4. QueueTaskStep(t, i) /\ task'[t] = w
    BY <2>1, <2>2, <2>3, <1>t, QueueTaskBy DEF QueueShape
  <2>5. QueueRowStep(i)
    BY <2>1, QueueSameRows DEF QueueShape
  <2>6. /\ res' \in [Item -> QueueMark] /\ res'[i] = "reserved"
        /\ \A j \in Item \ {i} : res'[j] = res[j]
    BY <2>1, <1>t, <1>s
  <2> QED BY <2>1, <2>2, <2>4, <2>5, <2>6, <1>t DEF QueueExecutes, QueueStages
\* An answer.
<1>3. ASSUME NEW i \in Item, NEW outcome \in Queue!Outcome, NEW quota \in BOOLEAN,
             Queue!Answered(t, i, outcome, quota),
             NEW row \in Queue!Row, queue' = [queue EXCEPT ![i] = row],
             keys' \in SUBSET Queue!Key, videos' \in [Item -> 0 .. 2],
             \A j \in Item \ {i} : videos'[j] = videos[j],
             lost' = lost \/ lost' = lost \union {i},
             \/ outcome = "done" /\ lost' = lost /\ videos'[i] = Queue!OneMore(videos[i])
             \/ outcome # "done" /\ UNCHANGED <<videos, lost>>
             \/ i \in lost'
      PROVE  QueueExecutes(t, i) /\ QueueStages(t, i)
  <2> DEFINE w == [task[t] EXCEPT !.stage = "answered", !.outcome = outcome, !.quota = quota]
  <2>1. /\ task[t].stage = "sent" /\ i \in task[t].item
        /\ task' = [task EXCEPT ![t] = w]
        /\ UNCHANGED <<saved, due, savedKeys, res, decided, withdrawn, restarts>>
    BY <1>3, <1>t DEF Queue!Answered
  <2>2. w.item = task[t].item /\ w.stage = "answered" /\ w.outcome = outcome
    BY <1>t DEF Queue!Work
  <2>3. w \in Queue!Work
    BY <1>t, QueueWorks
  <2> HIDE DEF w
  <2>4. QueueTaskStep(t, i) /\ task'[t] = w
    BY <2>1, <2>2, <2>3, <1>t, QueueTaskBy DEF QueueShape
  <2>5. QueueRowStep(i)
    BY <2>1, <1>3, <1>t, QueueRowBy DEF QueueShape
  <2>6. QueueExecutes(t, i)
    BY <2>1, <2>4, <2>5, <1>3, <1>t DEF QueueExecutes
  <2> QED BY <2>1, <2>2, <2>4, <2>6, <1>3 DEF QueueStages
<1>4. ASSUME NEW i \in Item, Queue!Uploaded(t, i) PROVE QueueExecutes(t, i) /\ QueueStages(t, i)
  <2> DEFINE state == IF task[t].timed THEN "SCHEDULED" ELSE "PUBLISHED"
             row == [queue[i] EXCEPT !.state = state]
  <2>1. /\ Queue!Answered(t, i, "done", FALSE) /\ lost' = lost
        /\ videos' = [videos EXCEPT ![i] = Queue!OneMore(videos[i])]
        /\ queue' = [queue EXCEPT ![i] = row]
        /\ keys' = keys \union {Queue!KeyOf(t, i)} /\ i \in task[t].item
    BY <1>4, <1>t DEF Queue!Uploaded, Queue!Answered
  <2>2. row \in Queue!Row
    <3>1. state \in Queue!State /\ queue[i] \in Queue!Row
      BY <1>s, <1>t
    <3> HIDE DEF state
    <3> QED BY <3>1 DEF Queue!Row
  <2>3. keys' \in SUBSET Queue!Key
    BY <2>1, <1>k, <1>t
  <2>4. Queue!OneMore(videos[i]) \in 0 .. 2
    BY <1>t, QueueOneMoreType
  <2>5. /\ videos' \in [Item -> 0 .. 2] /\ videos'[i] = Queue!OneMore(videos[i])
        /\ \A j \in Item \ {i} : videos'[j] = videos[j]
    BY <2>1, <2>4, <1>t
  <2> HIDE DEF row
  <2> QED BY <2>1, <2>2, <2>3, <2>5, <1>3, <1>s
<1>5. ASSUME NEW i \in Item, Queue!Unknown(t, i) PROVE QueueExecutes(t, i) /\ QueueStages(t, i)
  <2>1. PICK oneMore \in BOOLEAN :
           videos' = [videos EXCEPT ![i] = IF oneMore THEN Queue!OneMore(@) ELSE @]
    BY <1>5 DEF Queue!Unknown
  <2>2. /\ Queue!Answered(t, i, "keep", FALSE) /\ lost' = lost \union {i}
        /\ queue' = [queue EXCEPT ![i] = queue[i]] /\ keys' = keys
    BY <1>5, <1>t DEF Queue!Unknown
  <2>3. videos' \in [Item -> 0 .. 2] /\ queue[i] \in Queue!Row
    BY <2>1, <1>o, <1>t
  <2>4. \A j \in Item \ {i} : videos'[j] = videos[j]
    BY <2>1, <1>t
  <2> QED BY <2>2, <2>3, <2>4, <1>3, <1>s, <1>t
<1>6. ASSUME NEW i \in Item, Queue!QuotaSpent(t, i) \/ Queue!Rejected(t, i)
      PROVE  QueueExecutes(t, i) /\ QueueStages(t, i)
  <2>1. CASE Queue!QuotaSpent(t, i)
    <3> DEFINE row == [queue[i] EXCEPT !.state = "PENDING_RETRY", !.date = TRUE]
               quota == (t = Timer)
    <3>1. /\ Queue!Answered(t, i, "free", quota) /\ UNCHANGED <<keys, videos, lost>>
          /\ queue' = [queue EXCEPT ![i] = row]
      BY <2>1, <1>t DEF Queue!QuotaSpent
    <3>2. row \in Queue!Row
      <4>1. queue[i] \in Queue!Row
        BY <1>t
      <4> QED BY <4>1, <1>s DEF Queue!Row
    <3>3. quota \in BOOLEAN
      OBVIOUS
    <3> HIDE DEF row, quota
    <3> QED BY <3>1, <3>2, <3>3, <1>3, <1>s, <1>t
  <2>2. CASE Queue!Rejected(t, i)
    <3> DEFINE row == [queue[i] EXCEPT !.state = "FAILED"]
    <3>1. /\ Queue!Answered(t, i, "free", FALSE) /\ UNCHANGED <<keys, videos, lost>>
          /\ queue' = [queue EXCEPT ![i] = row]
      BY <2>2, <1>t DEF Queue!Rejected
    <3>2. row \in Queue!Row
      <4>1. queue[i] \in Queue!Row
        BY <1>t
      <4> QED BY <4>1, <1>s DEF Queue!Row
    <3> HIDE DEF row
    <3> QED BY <3>1, <3>2, <1>3, <1>s, <1>t
  <2> QED BY <1>6, <2>1, <2>2
<1>8. ASSUME NEW i \in Item, Queue!Misjudged(t, i) PROVE QueueExecutes(t, i) /\ QueueStages(t, i)
  <2> DEFINE row == [queue[i] EXCEPT !.state = "FAILED"]
  <2>1. /\ Queue!Answered(t, i, "free", FALSE) /\ keys' = keys /\ lost' = lost \union {i}
        /\ videos' = [videos EXCEPT ![i] = Queue!OneMore(videos[i])]
        /\ queue' = [queue EXCEPT ![i] = row]
    BY <1>8, <1>t DEF Queue!Misjudged
  <2>2. row \in Queue!Row
    <3>1. queue[i] \in Queue!Row
      BY <1>t
    <3> QED BY <3>1, <1>s DEF Queue!Row
  <2>3. Queue!OneMore(videos[i]) \in 0 .. 2
    BY <1>t, QueueOneMoreType
  <2>4. videos' \in [Item -> 0 .. 2] /\ \A j \in Item \ {i} : videos'[j] = videos[j]
    BY <2>1, <2>3, <1>t
  <2> HIDE DEF row
  <2> QED BY <2>1, <2>2, <2>4, <1>3, <1>s, <1>t
<1>7. ASSUME NEW i \in Item, Queue!End(t, i) PROVE QueueExecutes(t, i) /\ QueueStages(t, i)
  <2> DEFINE date == (queue[i].date \/ task[t].quota) /\ task[t].outcome # "done"
             row == [queue[i] EXCEPT !.date = date]
  <2>1. /\ task[t].stage = "answered" /\ i \in task[t].item
        /\ task' = [task EXCEPT ![t] = Queue!Rest]
        /\ queue' = [queue EXCEPT ![i] = row]
        /\ res' = [res EXCEPT ![i] = Queue!Finished(i, task[t].outcome)]
        /\ UNCHANGED <<due, keys, videos, lost, decided, withdrawn, restarts>>
    BY <1>7, <1>t DEF Queue!End
  <2>2. (savedKeys' = savedKeys \/ savedKeys' = keys) /\ saved' \subseteq saved \union {queue'}
    BY <1>7, QueueSaved DEF Queue!End
  <2>3. row \in Queue!Row
    <3>1. date \in BOOLEAN /\ queue[i] \in Queue!Row
      BY <1>t
    <3> HIDE DEF date
    <3> QED BY <3>1 DEF Queue!Row
  <2> HIDE DEF row
  <2>4. Queue!Finished(i, task[t].outcome) \in QueueMark
    <3>1. task[t].outcome \in Queue!Outcome /\ res[i] \in QueueMark
      BY <1>t DEF Queue!Work
    <3> QED BY <3>1, <1>s DEF Queue!Finished, Queue!Outcome
  <2>5. /\ res' \in [Item -> QueueMark] /\ res'[i] = Queue!Finished(i, task[t].outcome)
        /\ \A j \in Item \ {i} : res'[j] = res[j]
    BY <2>1, <2>4, <1>t
  <2>6. Queue!Rest \in Queue!Work /\ Queue!Rest.item = {} /\ Queue!Rest.stage = "idle"
    BY QueueRestType DEF Queue!Rest
  <2>7. QueueTaskStep(t, i) /\ task'[t] = Queue!Rest
    BY <2>1, <2>6, <1>t, QueueTaskBy DEF QueueShape
  <2>8. QueueRowStep(i)
    BY <2>1, <2>2, <2>3, <1>t, QueueRowBy DEF QueueShape
  <2> QED BY <2>1, <2>2, <2>5, <2>6, <2>7, <2>8, <1>t DEF QueueExecutes, QueueStages
<1> QED BY <1>1, <1>2, <1>4, <1>5, <1>6, <1>7, <1>8 DEF Queue!Executing

-----------------------------------------------------------------------------
(* The invariant.                                                           *)

QueueInv == QueueShape /\ Queue!WithdrawnStays /\ QueueOnce

\* The items of a task, and what others work on, when one task takes or leaves an item.
LEMMA QueueTaskKeeps ==
    ASSUME QueueShape, NEW t \in Queue!Task, NEW i \in Item, QueueTaskStep(t, i)
    PROVE  /\ QueueOneItem'
           /\ \A j \in Item \ {i} : Queue!Working(j)' <=> Queue!Working(j)
           /\ \A j \in Item \ {i}, u \in Queue!Task :
                 /\ QueueHolds(u, j)' <=> QueueHolds(u, j)
                 /\ QueueSettles(u, j)' <=> QueueSettles(u, j)
           /\ \A u \in Queue!Task \ {t} :
                 /\ QueueHolds(u, i)' <=> QueueHolds(u, i)
                 /\ QueueSettles(u, i)' <=> QueueSettles(u, i)
<1>1. \A u \in Queue!Task : u # t => task'[u] = task[u]
  BY DEF QueueTaskStep
<1>2. task[t].item \subseteq {i} /\ task'[t].item \subseteq {i}
  BY DEF QueueTaskStep
<1>3. QueueOneItem'
  BY <1>1, <1>2 DEF QueueShape, QueueOneItem
<1>4. \A j \in Item \ {i} : Queue!Working(j)' <=> Queue!Working(j)
  BY <1>1, <1>2 DEF Queue!Working
<1> QED BY <1>1, <1>2, <1>3, <1>4 DEF QueueHolds, QueueSettles

\* Only item i is touched: the other items stay withdrawn.
LEMMA QueueWithdrawnKeeps ==
    ASSUME QueueShape, Queue!WithdrawnStays, NEW i \in Item, QueueRowStep(i),
           \A j \in Item \ {i} : Queue!Working(j)' => Queue!Working(j),
           withdrawn' \subseteq withdrawn \union {i}, due' \subseteq due,
           i \in withdrawn' => Queue!Standing(i)'
    PROVE  Queue!WithdrawnStays'
<1>1. ASSUME NEW j \in withdrawn', j # i PROVE Queue!Standing(j)'
  <2>1. j \in withdrawn /\ j \in Item
    BY <1>1 DEF QueueShape, Queue!TypeOK
  <2>2. Queue!Standing(j)
    BY <2>1 DEF Queue!WithdrawnStays
  <2>3. queue'[j] = queue[j] /\ saved' \subseteq saved \union {queue'}
    BY <1>1, <2>1 DEF QueueRowStep
  <2>4. Queue!Untouched(j)' /\ queue[j].state \in Queue!Off
    BY <1>1, <2>1, <2>2 DEF Queue!Standing, Queue!Untouched
  <2> QED BY <2>1, <2>2, <2>3, <2>4, QueueStandingKeeps
<1>2. ASSUME NEW j \in withdrawn' PROVE Queue!Standing(j)'
  BY <1>1, <1>2
<1> QED BY <1>2 DEF Queue!WithdrawnStays

LEMMA QueueDecideKeeps ==
    ASSUME QueueInv, NEW i \in Item, QueueDecides(i)
    PROVE  QueueInv'
<1>1. /\ QueueRowStep(i)
      /\ UNCHANGED <<keys, savedKeys, res, videos, lost, due>>
      /\ withdrawn' \subseteq withdrawn \union {i}
      /\ i \in withdrawn' => Queue!Standing(i)' /\ task' = task
  BY DEF QueueDecides
<1>a. QueueShape /\ Queue!WithdrawnStays /\ QueueOnce /\ QueueSlot \subseteq Queue!Task
  BY DEF QueueInv, Queue!Task
<1>2. CASE task' = task
  <2>1. /\ QueueOneItem' /\ \A j \in Item : Queue!Working(j)' <=> Queue!Working(j)
        /\ task' \in [Queue!Task -> Queue!Work]
    BY <1>2, <1>a DEF QueueShape, QueueOneItem, Queue!Working, Queue!TypeOK
  <2>3. Queue!WithdrawnStays'
    BY <1>1, <1>a, <2>1, QueueWithdrawnKeeps
  <2>4. QueueOnce'
    BY <1>1, <1>2, <1>a DEF QueueOnce, QueueOnceFor, QueueHolds, QueueSettles
  <2>5. Queue!TypeOK'
    BY <1>1, <1>a, <2>1 DEF QueueShape, Queue!TypeOK, QueueRowStep
  <2> QED BY <2>1, <2>3, <2>4, <2>5 DEF QueueInv, QueueShape
<1>3. CASE task' # task
  <2>1. PICK s \in QueueSlot : QueueTaskStep(s, i) /\ ~QueueHolds(s, i) /\ ~QueueHolds(s, i)'
    BY <1>3 DEF QueueDecides
  <2>2. /\ QueueOneItem'
        /\ \A j \in Item \ {i} : Queue!Working(j)' <=> Queue!Working(j)
        /\ \A j \in Item \ {i}, u \in Queue!Task :
                 /\ QueueHolds(u, j)' <=> QueueHolds(u, j)
                 /\ QueueSettles(u, j)' <=> QueueSettles(u, j)
        /\ \A u \in Queue!Task \ {s} :
                 /\ QueueHolds(u, i)' <=> QueueHolds(u, i)
                 /\ QueueSettles(u, i)' <=> QueueSettles(u, i)
    BY <2>1, <1>a, QueueTaskKeeps
  <2>3. i \notin withdrawn'
    BY <1>1, <1>3
  <2>4. Queue!WithdrawnStays'
    BY <1>1, <1>a, <2>2, <2>3, QueueWithdrawnKeeps
  <2>5. \A u \in Queue!Task : /\ QueueHolds(u, i)' <=> QueueHolds(u, i)
                              /\ QueueSettles(u, i)' <=> QueueSettles(u, i)
    <3>1. ~QueueSettles(s, i) /\ ~QueueSettles(s, i)'
      BY <2>1 DEF QueueHolds, QueueSettles
    <3> QED BY <2>1, <2>2, <3>1
  <2>6. \A j \in Item, u \in Queue!Task : /\ QueueHolds(u, j)' <=> QueueHolds(u, j)
                                          /\ QueueSettles(u, j)' <=> QueueSettles(u, j)
    BY <2>2, <2>5
  <2>7. QueueOnce'
    BY <1>1, <1>a, <2>6 DEF QueueOnce, QueueOnceFor
  <2>8. Queue!TypeOK'
    BY <1>1, <1>a, <2>1 DEF QueueShape, Queue!TypeOK, QueueRowStep, QueueTaskStep
  <2> QED BY <2>2, <2>4, <2>7, <2>8 DEF QueueInv, QueueShape
<1> QED BY <1>2, <1>3

LEMMA QueueExecuteKeeps ==
    ASSUME QueueInv, NEW t \in Queue!Task, NEW i \in Item,
           QueueExecutes(t, i), QueueStages(t, i)
    PROVE  QueueInv'
<1>1. /\ QueueRowStep(i) /\ QueueTaskStep(t, i) /\ i \in task[t].item
      /\ withdrawn' = withdrawn /\ due' = due
      /\ keys' \in SUBSET Queue!Key /\ savedKeys' \in SUBSET Queue!Key
      /\ res' \in [Item -> QueueMark] /\ videos' \in [Item -> 0 .. 2]
      /\ \A j \in Item \ {i} : res'[j] = res[j] /\ videos'[j] = videos[j]
      /\ lost \subseteq lost' /\ lost' \subseteq lost \union {i}
  BY DEF QueueExecutes
<1>a. QueueShape /\ Queue!WithdrawnStays /\ QueueOnce
  BY DEF QueueInv
<1>2. /\ QueueOneItem'
      /\ \A j \in Item \ {i} : Queue!Working(j)' <=> Queue!Working(j)
      /\ \A j \in Item \ {i}, u \in Queue!Task :
                 /\ QueueHolds(u, j)' <=> QueueHolds(u, j)
                 /\ QueueSettles(u, j)' <=> QueueSettles(u, j)
      /\ \A u \in Queue!Task \ {t} :
                 /\ QueueHolds(u, i)' <=> QueueHolds(u, i)
                 /\ QueueSettles(u, i)' <=> QueueSettles(u, i)
  BY <1>1, <1>a, QueueTaskKeeps
<1>3. i \notin withdrawn
  BY <1>1, <1>a DEF Queue!WithdrawnStays, Queue!Standing, Queue!Untouched, Queue!Working
<1>4. Queue!WithdrawnStays'
  BY <1>1, <1>2, <1>3, <1>a, QueueWithdrawnKeeps
<1>5. Queue!TypeOK'
  <2>1. lost' \subseteq Item
    BY <1>1, <1>a DEF QueueShape, Queue!TypeOK
  <2> QED BY <1>1, <1>a, <2>1 DEF QueueShape, Queue!TypeOK, QueueRowStep, QueueTaskStep,
             QueueMark
<1>6. ASSUME NEW j \in Item \ lost', j # i PROVE QueueOnceFor(j)'
  <2>1. QueueOnceFor(j)
    BY <1>1, <1>6, <1>a DEF QueueOnce
  <2> QED BY <1>1, <1>2, <1>6, <2>1 DEF QueueOnceFor
<1>7. ASSUME i \notin lost' PROVE QueueOnceFor(i)'
  <2>1. i \notin lost /\ QueueOnceFor(i) /\ i \in task[t].item
    BY <1>1, <1>7, <1>a DEF QueueOnce
  <2>v. videos[i] \in 0 .. 2
    BY <1>a DEF QueueShape, Queue!TypeOK
  <2>2. CASE /\ task[t].stage = "asking" /\ task'[t].stage = "idle"
             /\ UNCHANGED <<res, videos, lost>> /\ i \notin task'[t].item
    <3>1. ~QueueHolds(t, i) /\ ~QueueHolds(t, i)' /\ ~QueueSettles(t, i) /\ ~QueueSettles(t, i)'
      BY <2>2 DEF QueueHolds, QueueSettles
    <3> QED BY <2>1, <2>2, <3>1, <1>2 DEF QueueOnceFor
  <2>3. CASE /\ task[t].stage = "asking" /\ task'[t].stage = "sent" /\ UNCHANGED <<videos, lost>>
             /\ res[i] = "free" /\ res'[i] = "reserved" /\ i \in task'[t].item
    <3>1. \A u \in Queue!Task : ~QueueHolds(u, i)
      BY <2>1, <2>3 DEF QueueOnceFor
    <3>2. \A u \in Queue!Task : ~QueueSettles(u, i)
      BY <3>1 DEF QueueHolds, QueueSettles
    <3>3. videos[i] # 1
      BY <2>1, <2>3, <3>2 DEF QueueOnceFor
    <3> QED BY <2>1, <2>3, <3>1, <3>3, <1>2 DEF QueueOnceFor
  <2>4. CASE /\ task[t].stage = "sent" /\ task'[t].stage = "answered" /\ res' = res
             /\ i \in task'[t].item
             /\ \/ /\ task'[t].outcome = "done" /\ lost' = lost
                   /\ videos'[i] = Queue!OneMore(videos[i])
                \/ task'[t].outcome # "done" /\ UNCHANGED <<videos, lost>>
    <3>1. QueueHolds(t, i) /\ QueueHolds(t, i)'
      BY <2>1, <2>4 DEF QueueHolds
    <3>2. /\ res[i] = "reserved" /\ \A u \in Queue!Task : QueueHolds(u, i) => u = t
          /\ ~QueueSettles(t, i)
      BY <2>1, <2>4, <3>1 DEF QueueOnceFor, QueueSettles
    <3>3. \A u \in Queue!Task : ~QueueSettles(u, i)
      BY <3>2 DEF QueueHolds, QueueSettles
    <3>4. videos[i] = 0
      BY <2>1, <2>v, <3>2, <3>3 DEF QueueOnceFor
    <3>5. \A u \in Queue!Task : QueueHolds(u, i)' => u = t
      BY <3>2, <1>2
    <3>6. videos'[i] <= 1 /\ (videos'[i] = 1 => QueueSettles(t, i)')
      BY <2>4, <3>4 DEF Queue!OneMore, QueueSettles
    <3> QED BY <2>4, <3>2, <3>5, <3>6 DEF QueueOnceFor
  <2>5. CASE /\ task[t].stage = "answered" /\ task'[t].stage = "idle" /\ UNCHANGED <<videos, lost>>
             /\ i \notin task'[t].item /\ res'[i] = Queue!Finished(i, task[t].outcome)
    <3>1. QueueHolds(t, i) /\ ~QueueHolds(t, i)'
      BY <2>1, <2>5 DEF QueueHolds
    <3>2. res[i] = "reserved" /\ \A u \in Queue!Task : QueueHolds(u, i) => u = t
      BY <2>1, <3>1 DEF QueueOnceFor
    <3>3. \A u \in Queue!Task : ~QueueHolds(u, i)'
      BY <3>1, <3>2, <1>2
    <3>4. videos[i] = 1 => task[t].outcome = "done"
      <4>1. \A u \in Queue!Task : QueueSettles(u, i) => QueueHolds(u, i)
        BY DEF QueueHolds, QueueSettles
      <4> QED BY <2>1, <3>2, <4>1 DEF QueueOnceFor, QueueSettles
    <3>5. videos'[i] = 1 => res'[i] = "done"
      BY <2>5, <3>4 DEF Queue!Finished
    <3> QED BY <2>1, <2>5, <3>3, <3>5 DEF QueueOnceFor
  <2> QED BY <2>2, <2>3, <2>4, <2>5, <1>7 DEF QueueStages
<1>8. QueueOnce'
  BY <1>6, <1>7 DEF QueueOnce
<1> QED BY <1>2, <1>4, <1>5, <1>8 DEF QueueInv, QueueShape

\* A step that leaves the tasks and the provider as they are.
LEMMA QueueRest ==
    ASSUME QueueInv, UNCHANGED <<task, keys, savedKeys, res, videos, lost, decided, restarts>>,
           queue' \in [Item -> Queue!Row], saved' \in SUBSET [Item -> Queue!Row],
           due' \in SUBSET Item, Queue!WithdrawnStays', withdrawn' \in SUBSET Item
    PROVE  QueueInv'
<1>1. Queue!TypeOK' /\ QueueOneItem'
  BY DEF QueueInv, QueueShape, Queue!TypeOK, QueueOneItem
<1>2. QueueOnce'
  BY DEF QueueInv, QueueOnce, QueueOnceFor, QueueHolds, QueueSettles
<1> QED BY <1>1, <1>2 DEF QueueInv, QueueShape

LEMMA QueueRestart ==
    ASSUME QueueParameters, QueueInv, Queue!Restart
    PROVE  QueueInv'
<1>a. QueueShape /\ Queue!WithdrawnStays /\ QueueOnce /\ Queue!TypeOK
  BY DEF QueueInv, QueueShape
<1>1. /\ restarts < QueueRestarts /\ restarts' = restarts + 1
      /\ task' = [t \in Queue!Task |-> Queue!Rest] /\ due' = {}
      /\ keys' = savedKeys /\ lost' = lost \union Queue!Cut
      /\ UNCHANGED <<saved, savedKeys, res, decided, withdrawn>>
  BY DEF Queue!Restart
<1>q. PICK table \in saved : queue' = [i \in Item |-> Queue!Restored(table[i])]
  BY DEF Queue!Restart
<1>2. PICK oneMore \in SUBSET {i \in Item : \E t \in Queue!Task :
                             i \in task[t].item /\ task[t].stage = "sent"} :
         videos' = [i \in Item |-> IF i \in oneMore THEN Queue!OneMore(videos[i]) ELSE videos[i]]
  BY DEF Queue!Restart
<1>3. /\ \A i \in Item : table[i] \in Queue!Row
      /\ \A i \in Item : videos[i] \in 0 .. 2 /\ Queue!OneMore(videos[i]) \in 0 .. 2
      /\ restarts \in Nat /\ restarts' \in 0 .. QueueRestarts
  BY <1>1, <1>a, QueueOneMoreType DEF Queue!TypeOK, QueueParameters
<1>4. \A i \in Item : queue'[i] \in Queue!Row /\ queue'[i].state = table[i].state
  <2>1. \A i \in Item : queue'[i] = [table[i] EXCEPT !.date = FALSE]
    BY <1>q DEF Queue!Restored
  <2> QED BY <2>1, <1>3 DEF Queue!Row
<1>5. Queue!Rest \in Queue!Work /\ Queue!Rest.item = {}
  BY QueueRestType DEF Queue!Rest
<1>6. queue' \in [Item -> Queue!Row] /\ videos' \in [Item -> 0 .. 2]
  BY <1>q, <1>2, <1>3, <1>4
<1>7. task' \in [Queue!Task -> Queue!Work] /\ \A t \in Queue!Task : task'[t].item = {}
  BY <1>1, <1>5
<1>8. Queue!TypeOK'
  <2>1. lost' \subseteq Item
    BY <1>1, <1>a DEF Queue!TypeOK, Queue!Cut
  <2> QED BY <1>1, <1>3, <1>6, <1>7, <1>a, <2>1 DEF Queue!TypeOK
<1>9. QueueOneItem'
  BY <1>7 DEF QueueOneItem
<1>10. Queue!WithdrawnStays'
  <2>1. ASSUME NEW i \in withdrawn' PROVE Queue!Standing(i)'
    <3>1. i \in Item /\ \A other \in saved : other[i].state \in Queue!Off
      BY <1>1, <1>a, <2>1 DEF Queue!TypeOK, Queue!WithdrawnStays, Queue!Standing
    <3>2. Queue!Untouched(i)'
      BY <1>1, <1>7 DEF Queue!Working, Queue!Untouched
    <3>3. queue'[i].state \in Queue!Off
      BY <1>4, <3>1
    <3> QED BY <1>1, <3>1, <3>2, <3>3 DEF Queue!Standing
  <2> QED BY <2>1 DEF Queue!WithdrawnStays
<1>11. ASSUME NEW i \in Item \ lost' PROVE QueueOnceFor(i)'
  <2>1. i \notin lost /\ i \notin Queue!Cut /\ QueueOnceFor(i)
    BY <1>1, <1>11, <1>a DEF QueueOnce
  <2>2. \A t \in Queue!Task : ~QueueSettles(t, i) /\ ~(i \in task[t].item /\ task[t].stage = "sent")
    BY <2>1 DEF Queue!Cut, QueueSettles
  <2>3. videos'[i] = videos[i]
    BY <1>2, <2>2
  <2>4. \A t \in Queue!Task : ~QueueHolds(t, i)'
    BY <1>7 DEF QueueHolds
  <2> QED BY <1>1, <2>1, <2>2, <2>3, <2>4 DEF QueueOnceFor
<1>12. QueueOnce'
  BY <1>11 DEF QueueOnce
<1> QED BY <1>8, <1>9, <1>10, <1>12 DEF QueueInv, QueueShape

LEMMA QueueStep ==
    ASSUME QueueParameters PROVE QueueInv /\ [Queue!Next]_(Queue!vars) => QueueInv'
<1> SUFFICES ASSUME QueueInv, [Queue!Next]_(Queue!vars) PROVE QueueInv'
  OBVIOUS
<1>a. QueueShape /\ Queue!WithdrawnStays /\ QueueOnce /\ Queue!TypeOK /\ Timer \in Queue!Task
  BY DEF QueueInv, QueueShape, Queue!Task
<1>t. /\ queue \in [Item -> Queue!Row] /\ saved \in SUBSET [Item -> Queue!Row]
      /\ due \subseteq Item /\ withdrawn \subseteq Item
      /\ \A i \in withdrawn : /\ Queue!Untouched(i) /\ queue[i].state \in Queue!Off
                               /\ \A table \in saved : table[i].state \in Queue!Off
  BY <1>a DEF Queue!TypeOK, Queue!WithdrawnStays, Queue!Standing
<1>o. "PENDING_RETRY" \notin Queue!Off /\ "SCHEDULED" \notin Queue!Off
  BY DEF Queue!Off, Queue!Final
<1>1. CASE Queue!Deciding
  BY <1>1, <1>a, QueueDecidesAll, QueueDecideKeeps
<1>2. ASSUME NEW t \in Queue!Task, Queue!Executing(t) PROVE QueueInv'
  BY <1>2, <1>a, QueueExecutesAll, QueueExecuteKeeps
<1>3. ASSUME NEW force \in BOOLEAN, Queue!StartRetry(force) PROVE QueueInv'
  <2>1. /\ due' = Queue!Waiting(force)
        /\ UNCHANGED <<queue, saved, task, keys, savedKeys, res, videos, lost, decided,
                       withdrawn, restarts>>
    BY <1>3 DEF Queue!StartRetry, Queue!Provider
  <2>2. due' \subseteq Item /\ \A i \in due' : queue[i].state = "PENDING_RETRY"
    BY <2>1 DEF Queue!Waiting
  <2>3. Queue!WithdrawnStays'
    <3>1. \A i \in withdrawn : i \notin due'
      BY <2>2, <1>t, <1>o
    <3> QED BY <2>1, <3>1, <1>t DEF Queue!WithdrawnStays, Queue!Standing, Queue!Untouched, Queue!Working
  <2> QED BY <2>1, <2>2, <2>3, <1>t, QueueRest
<1>4. ASSUME NEW i \in Item, Queue!RetryNext(i) PROVE QueueInv'
  <2> DEFINE w == Queue!Captured(i, queue[i])
  <2>1. /\ task[Timer] = Queue!Rest /\ i \in due /\ due' = due \ {i}
        /\ task' = [task EXCEPT ![Timer] = w]
        /\ UNCHANGED <<queue, saved, keys, savedKeys, res, videos, lost, decided,
                       withdrawn, restarts>>
    BY <1>4 DEF Queue!RetryNext, Queue!Provider
  <2>2. w \in Queue!Work /\ w.item = {i} /\ w.stage = "asking"
    BY <1>t, QueueCapturedType DEF Queue!Captured
  <2>3. task[Timer].item = {} /\ task[Timer].stage = "idle"
    BY <2>1 DEF Queue!Rest
  <2> HIDE DEF w
  <2>4. QueueTaskStep(Timer, i) /\ task'[Timer] = w
    BY <2>1, <2>2, <2>3, <1>a, QueueTaskBy
  <2>5. QueueRowStep(i)
    BY <2>1, <1>a, QueueSameRows
  <2>6. /\ QueueOneItem'
        /\ \A j \in Item \ {i} : Queue!Working(j)' <=> Queue!Working(j)
        /\ \A j \in Item \ {i}, u \in Queue!Task :
                 /\ QueueHolds(u, j)' <=> QueueHolds(u, j)
                 /\ QueueSettles(u, j)' <=> QueueSettles(u, j)
        /\ \A u \in Queue!Task \ {Timer} :
                 /\ QueueHolds(u, i)' <=> QueueHolds(u, i)
                 /\ QueueSettles(u, i)' <=> QueueSettles(u, i)
    BY <2>4, <1>a, QueueTaskKeeps
  <2>7. i \notin withdrawn
    BY <2>1, <1>t DEF Queue!Untouched
  <2>8. Queue!WithdrawnStays'
    <3>1. /\ withdrawn' \subseteq withdrawn \union {i} /\ due' \subseteq due /\ i \notin withdrawn'
          /\ \A j \in Item \ {i} : Queue!Working(j)' => Queue!Working(j)
      BY <2>1, <2>6, <2>7
    <3> QED BY <2>5, <3>1, <1>a, QueueWithdrawnKeeps
  <2>9. \A j \in Item, u \in Queue!Task : /\ QueueHolds(u, j)' <=> QueueHolds(u, j)
                                          /\ QueueSettles(u, j)' <=> QueueSettles(u, j)
    <3>1. /\ ~QueueHolds(Timer, i) /\ ~QueueHolds(Timer, i)'
          /\ ~QueueSettles(Timer, i) /\ ~QueueSettles(Timer, i)'
      BY <2>2, <2>3, <2>4 DEF QueueHolds, QueueSettles
    <3> QED BY <2>6, <3>1
  <2>10. QueueOnce'
    BY <2>1, <2>9, <1>a DEF QueueOnce, QueueOnceFor
  <2>11. Queue!TypeOK'
    BY <2>1, <2>4, <1>a DEF Queue!TypeOK, QueueTaskStep
  <2> QED BY <2>6, <2>8, <2>10, <2>11 DEF QueueInv, QueueShape
<1>5. ASSUME NEW i \in Item, Queue!Verify(i) PROVE QueueInv'
  <2> DEFINE row == [queue[i] EXCEPT !.state = "VERIFIED"]
  <2>1. /\ queue[i].state = "SCHEDULED" /\ queue' = [queue EXCEPT ![i] = row]
        /\ saved' \subseteq saved \union {queue'}
        /\ UNCHANGED <<task, due, keys, savedKeys, res, videos, lost, decided,
                       withdrawn, restarts>>
    BY <1>5, <1>t, QueueSaved DEF Queue!Verify, Queue!Provider
  <2>2. row \in Queue!Row
    <3>1. queue[i] \in Queue!Row /\ "VERIFIED" \in Queue!State
      BY <1>t DEF Queue!State
    <3> QED BY <3>1 DEF Queue!Row
  <2> HIDE DEF row
  <2>3. QueueRowStep(i)
    BY <2>1, <2>2, <1>a, QueueRowBy DEF Queue!TypeOK
  <2>4. i \notin withdrawn
    BY <2>1, <1>t, <1>o
  <2>5. Queue!WithdrawnStays'
    <3>1. /\ withdrawn' \subseteq withdrawn \union {i} /\ due' \subseteq due /\ i \notin withdrawn'
          /\ \A j \in Item \ {i} : Queue!Working(j)' => Queue!Working(j)
      BY <2>1, <2>4 DEF Queue!Working
    <3> QED BY <2>3, <3>1, <1>a, QueueWithdrawnKeeps
  <2>6. queue' \in [Item -> Queue!Row] /\ saved' \in SUBSET [Item -> Queue!Row]
    BY <2>1, <2>3, <1>t DEF QueueRowStep
  <2> QED BY <2>1, <2>5, <2>6, <1>t, QueueRest
<1>6. ASSUME NEW i \in Item, Queue!Expire(i) PROVE QueueInv'
  <2>1. /\ res[i] = "reserved" /\ ~Queue!Working(i) /\ res' = [res EXCEPT ![i] = "free"]
        /\ UNCHANGED <<queue, saved, task, due, keys, savedKeys, videos, lost,
                       decided, withdrawn, restarts>>
    BY <1>6 DEF Queue!Expire
  <2>2. Queue!TypeOK' /\ QueueOneItem'
    BY <2>1, <1>a DEF Queue!TypeOK, QueueShape, QueueOneItem
  <2>3. Queue!WithdrawnStays'
    BY <2>1, <1>a DEF Queue!WithdrawnStays, Queue!Standing, Queue!Untouched, Queue!Working
  <2>4. ASSUME NEW j \in Item \ lost' PROVE QueueOnceFor(j)'
    <3>1. QueueOnceFor(j)
      BY <2>1, <2>4, <1>a DEF QueueOnce
    <3>2. CASE j = i
      <4>1. \A t \in Queue!Task : ~QueueHolds(t, i) /\ ~QueueSettles(t, i)
        BY <2>1 DEF QueueHolds, QueueSettles, Queue!Working
      <4>2. \A t \in Queue!Task : ~QueueHolds(t, i)'
        BY <2>1, <4>1 DEF QueueHolds
      <4>3. videos[i] # 1
        BY <2>1, <3>1, <3>2, <4>1 DEF QueueOnceFor
      <4> QED BY <2>1, <3>1, <3>2, <4>2, <4>3 DEF QueueOnceFor
    <3>3. CASE j # i
      <4>1. res'[j] = res[j]
        BY <2>1, <3>3, <1>a DEF Queue!TypeOK
      <4> QED BY <2>1, <3>1, <4>1 DEF QueueOnceFor, QueueHolds, QueueSettles
    <3> QED BY <3>2, <3>3
  <2>5. QueueOnce'
    BY <2>4 DEF QueueOnce
  <2> QED BY <2>2, <2>3, <2>5 DEF QueueInv, QueueShape
<1>7. CASE Queue!SaveQueue
  <2>1. /\ saved' \subseteq saved \union {queue}
        /\ UNCHANGED <<queue, task, due, keys, savedKeys, res, videos, lost, decided,
                       withdrawn, restarts>>
    BY <1>7, QueueSaved DEF Queue!SaveQueue, Queue!Provider
  <2>2. Queue!WithdrawnStays'
    BY <2>1, <1>t DEF Queue!WithdrawnStays, Queue!Standing, Queue!Untouched, Queue!Working
  <2> QED BY <2>1, <2>2, <1>t, QueueRest
<1>8. CASE Queue!Restart
  BY <1>8, QueueRestart
<1>9. CASE UNCHANGED Queue!vars
  <2>1. UNCHANGED <<queue, saved, task, due, keys, savedKeys, res, videos, lost, decided,
                    withdrawn, restarts>>
    BY <1>9 DEF Queue!vars
  <2>2. Queue!WithdrawnStays'
    BY <2>1, <1>t DEF Queue!WithdrawnStays, Queue!Standing, Queue!Untouched, Queue!Working
  <2> QED BY <2>1, <2>2, <1>t, QueueRest
<1>10. CASE Queue!Settle
  <2>1. /\ saved' \subseteq saved
        /\ withdrawn' = withdrawn \union {i \in Item : Queue!Standing(i)'}
        /\ UNCHANGED <<queue, task, due, keys, savedKeys, res, videos, lost, decided, restarts>>
    BY <1>10 DEF Queue!Settle, Queue!Provider
  <2>2. \A i \in withdrawn : Queue!Standing(i)'
    BY <2>1, <1>t DEF Queue!Standing, Queue!Untouched, Queue!Working
  <2>3. Queue!WithdrawnStays'
    BY <2>1, <2>2 DEF Queue!WithdrawnStays
  <2> QED BY <2>1, <2>3, <1>t, QueueRest
<1> QED BY <1>1, <1>2, <1>3, <1>4, <1>5, <1>6, <1>7, <1>8, <1>9, <1>10 DEF Queue!Next

LEMMA QueueInit == ASSUME QueueParameters PROVE Queue!Init => QueueInv
<1> SUFFICES ASSUME Queue!Init PROVE QueueInv
  OBVIOUS
<1>1. Queue!NoRow \in Queue!Row /\ Queue!Rest \in Queue!Work /\ Queue!Rest.item = {}
  <2>1. 1 \in Queue!Version
    BY DEF Queue!Version, QueueParameters
  <2>2. Queue!Rest \in Queue!Work
    BY QueueRestType
  <2> QED BY <2>1, <2>2 DEF Queue!NoRow, Queue!Row, Queue!State, Queue!Rest
<1>2. 0 \in 0 .. MaxVersion /\ 0 \in 0 .. QueueRestarts
  BY DEF QueueParameters
<1>3. Queue!TypeOK
  BY <1>1, <1>2 DEF Queue!Init, Queue!TypeOK
<1>4. \A t \in Queue!Task : task[t].item = {}
  BY <1>1 DEF Queue!Init
<1>5. QueueOneItem /\ Queue!WithdrawnStays
  BY <1>4 DEF QueueOneItem, Queue!Init, Queue!WithdrawnStays
<1>6. QueueOnce
  BY <1>4 DEF Queue!Init, QueueOnce, QueueOnceFor, QueueHolds
<1> QED BY <1>3, <1>5, <1>6 DEF QueueInv, QueueShape

LEMMA QueueImplies ==
    QueueInv => Queue!TypeOK /\ Queue!WithdrawnStays /\ Queue!SecondVideoNeedsLoss
<1> SUFFICES ASSUME QueueInv
             PROVE  Queue!TypeOK /\ Queue!WithdrawnStays /\ Queue!SecondVideoNeedsLoss
  OBVIOUS
<1>1. \A i \in Item : videos[i] \in 0 .. 2
  BY DEF QueueInv, QueueShape, Queue!TypeOK
<1>2. \A i \in Item \ lost : videos[i] <= 1
  BY DEF QueueInv, QueueOnce, QueueOnceFor
<1>3. Queue!SecondVideoNeedsLoss
  BY <1>1, <1>2 DEF Queue!SecondVideoNeedsLoss
<1> QED BY <1>3 DEF QueueInv, QueueShape

\* Content that was withdrawn stays so until another decision, whichever of the writes
\* that overtake each other a restart finds, and no video goes out twice without a call
\* that was lost or taken for a refusal.
THEOREM QueueStands ==
    ASSUME QueueParameters
    PROVE  Queue!Spec => [](/\ Queue!TypeOK
                           /\ Queue!WithdrawnStays
                           /\ Queue!SecondVideoNeedsLoss)
BY QueueInit, QueueStep, QueueImplies, PTL DEF Queue!Spec
=============================================================================
