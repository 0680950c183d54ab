---------------------------- MODULE ContentQueue ----------------------------
(***************************************************************************)
(* The queue of YouTube content: drafts, the owner's review decisions, the *)
(* one executor that uploads (executeYouTubePublish), and the timer that   *)
(* retries what waits for the daily quota.                                 *)
(*                                                                         *)
(* The queue is stored under the key of the watcher, the fingerprints of   *)
(* what was uploaded under the key of the workspace, the reservations in a *)
(* table of their own: a restart can find them at different ages.  The     *)
(* queue is written past the ordered queue of StatePersistence, on a pool  *)
(* of connections, so that writes fail, which the code swallows, or        *)
(* overtake each other: saved holds every snapshot of which it is not      *)
(* settled yet whether the store will keep it.  Of a reservation only what *)
(* decides the next reserve is kept: "failed" and "pending_quota" are      *)
(* reserved again like none at all.  A store of reservations that cannot   *)
(* be reached is left to ExternalOperation.                                *)
(***************************************************************************)
EXTENDS Naturals, FiniteSets

CONSTANTS
    Item,         \* ids of content items
    Slot,         \* requests of the owner in progress at once
    Timer,        \* the retry timer, one task beside the slots
    Timed,        \* values of "has a publishAt" that drafts use
    MaxVersion,   \* bound on the edits of an item
    SaveResults,  \* what a write may do: "landed", "late"
    MaxSnapshots, \* bound on the snapshots in question at once
    MaxRestarts   \* bound on the restarts of the run

Task    == Slot \union {Timer}
Version == 1 .. MaxVersion
\* TERMINAL_CONTENT_STATES; CANCELLED, which the code treats alike, is one with it.
Final   == {"REJECTED"}
Off     == Final \union {"REVIEW_REQUIRED"}
State   == Off \union {"none", "DRAFT", "APPROVED", "SCHEDULED", "PUBLISHED",
                       "VERIFIED", "FAILED", "PENDING_RETRY"}

\* version stands for title, description and media; date: retryAt is set.
Row   == [state : State, version : Version, timed : BOOLEAN, date : BOOLEAN]
NoRow == [state |-> "none", version |-> 1, timed |-> FALSE, date |-> FALSE]

\* A request in progress with the content it captured for the upload.
Stage   == {"idle", "drafted", "asking", "sent", "answered"}
Outcome == {"done", "free", "keep"}
Work    == [stage : Stage, item : SUBSET Item, version : Version,
            timed : BOOLEAN, outcome : Outcome, quota : BOOLEAN]
Rest    == [stage |-> "idle", item |-> {}, version |-> 1, timed |-> FALSE,
            outcome |-> "keep", quota |-> FALSE]

Key == Item \X Version \X BOOLEAN

VARIABLES
    queue,      \* contentQueue, in memory
    saved,      \* the snapshots of it that a restart may find
    task,       \* what each slot and the timer are doing
    due,        \* the items a retry pass has captured and not yet tried
    keys,       \* youtubeOperationKeys: fingerprints of uploaded content
    savedKeys,  \* the same under the key of the workspace
    res,        \* the durable reservation of each item
    videos,     \* videos of the item at the provider: none, one or more
    lost,       \* items with a call whose result the records lack or misjudge
    decided,    \* the version that stands decided for publication, or 0
    withdrawn,  \* items withdrawn, in every snapshot too, with nothing working on them
    restarts

vars == <<queue, saved, task, due, keys, savedKeys, res, videos, lost,
          decided, withdrawn, restarts>>

TypeOK ==
    /\ queue \in [Item -> Row] /\ saved \in SUBSET [Item -> Row]
    /\ task \in [Task -> Work]
    /\ due \in SUBSET Item
    /\ keys \in SUBSET Key /\ savedKeys \in SUBSET Key
    /\ res \in [Item -> {"free", "reserved", "done"}]
    /\ videos \in [Item -> 0 .. 2]
    /\ lost \in SUBSET Item
    /\ decided \in [Item -> 0 .. MaxVersion]
    /\ withdrawn \in SUBSET Item
    /\ restarts \in 0 .. MaxRestarts

Init ==
    /\ queue = [i \in Item |-> NoRow] /\ saved = {queue}
    /\ task = [t \in Task |-> Rest]
    /\ due = {} /\ keys = {} /\ savedKeys = {}
    /\ res = [i \in Item |-> "free"]
    /\ videos = [i \in Item |-> 0]
    /\ lost = {}
    /\ decided = [i \in Item |-> 0]
    /\ withdrawn = {}
    /\ restarts = 0

Provider == <<keys, savedKeys, res, videos, lost>>

Working(i) == \E t \in Task : i \in task[t].item
Untouched(i) == ~Working(i) /\ i \notin due

Standing(i) ==
    /\ Untouched(i)
    /\ \A table \in {queue} \union saved : table[i].state \in Off

\* persistWatcherState: the write lands behind all others before its caller goes on, or its
\* fate is open for now (Settle); one that fails is one of these.
Save ==
    \E result \in SaveResults :
       \/ result = "landed" /\ saved' = {queue'}
       \/ /\ result = "late"
          /\ saved' = saved \union {queue'} /\ Cardinality(saved') <= MaxSnapshots

\* A write fails, or lands under a later one: one snapshot less is in question.
Settle ==
    /\ \E table \in saved : saved # {table} /\ saved' = saved \ {table}
    /\ UNCHANGED <<queue, task, due, Provider, decided, restarts>>
    /\ withdrawn' = withdrawn \union {i \in Item : Standing(i)'}

-----------------------------------------------------------------------------
(* Drafts and the decisions of the owner.                                  *)

\* POST content/drafts: the classifier and the controls give the first state;
\* an approved draft is executed by the same request once it is saved.
CreateDraft(s, i, state, timed) ==
    /\ task[s] = Rest /\ queue[i].state = "none"
    /\ queue' = [queue EXCEPT ![i].state = state, ![i].timed = timed]
    /\ Save
    /\ IF state = "APPROVED"
       THEN /\ task' = [task EXCEPT ![s].stage = "drafted", ![s].item = {i}]
            /\ decided' = [decided EXCEPT ![i] = queue[i].version]
       ELSE UNCHANGED <<task, decided>>
    /\ UNCHANGED <<Provider, due, withdrawn, restarts>>

Captured(i, row) ==
    [stage |-> "asking", item |-> {i}, version |-> row.version,
     timed |-> row.timed, outcome |-> "keep", quota |-> FALSE]

\* autoExecuteContentItem: the gate is asked again, the state of the item is not.
AutoExecute(s, i) ==
    /\ task[s].stage = "drafted" /\ i \in task[s].item
    /\ \/ /\ task' = [task EXCEPT ![s] = Captured(i, queue[i])]
          /\ UNCHANGED <<queue, saved>>
       \/ /\ queue' = [queue EXCEPT ![i].state = "REVIEW_REQUIRED"]
          /\ Save
          /\ task' = [task EXCEPT ![s] = Rest]
    /\ UNCHANGED <<Provider, due, decided, withdrawn, restarts>>

Withdraw(i, row) ==
    /\ queue' = [queue EXCEPT ![i] = row]
    /\ decided' = [decided EXCEPT ![i] = 0]
    /\ Save
    /\ UNCHANGED <<Provider, task, due, restarts>>
    /\ withdrawn' = withdrawn \union {j \in {i} : Standing(j)'}

\* reject and cancel: final, from every state that is not final already.
Refuse(i) ==
    /\ queue[i].state \notin Final \union {"none"}
    /\ Withdraw(i, [queue[i] EXCEPT !.state = "REJECTED"])

\* edit: allowed in every state, with or without a new text; the item goes back
\* to review and no longer waits for the quota.
Edit(i, timed) ==
    /\ queue[i].state # "none"
    /\ \E version \in {queue[i].version, queue[i].version + 1} \intersect Version :
          Withdraw(i, [state |-> "REVIEW_REQUIRED", version |-> version,
                       timed |-> timed \/ queue[i].timed, date |-> FALSE])

Decide(i) ==
    /\ decided' = [decided EXCEPT ![i] = queue[i].version]
    /\ withdrawn' = withdrawn \ {i}

\* approve: the state alone; nothing is uploaded before another decision.
Approve(i) ==
    /\ queue[i].state \notin Final \union {"none"}
    /\ queue' = [queue EXCEPT ![i].state = "APPROVED"]
    /\ Save
    /\ Decide(i)
    /\ UNCHANGED <<Provider, task, due, restarts>>

\* publish_now forgets a date of publication.  The state is set in memory and
\* the executor called in the same turn, without a save.
PublishNow(s, i) ==
    /\ task[s] = Rest /\ queue[i].state \notin Final \union {"none"}
    /\ queue' = [queue EXCEPT ![i].state = "APPROVED", ![i].timed = FALSE]
    /\ task' = [task EXCEPT ![s] = Captured(i, queue'[i])]
    /\ Decide(i)
    /\ UNCHANGED <<Provider, saved, due, restarts>>

\* schedule needs a date; without one the item is approved and no more.
Schedule(s, i) ==
    /\ task[s] = Rest /\ queue[i].state \notin Final \union {"none"}
    /\ queue' = [queue EXCEPT ![i].state = "APPROVED"]
    /\ IF queue[i].timed
       THEN /\ task' = [task EXCEPT ![s] = Captured(i, queue'[i])]
            /\ UNCHANGED saved
       ELSE /\ UNCHANGED task
            /\ Save
    /\ Decide(i)
    /\ UNCHANGED <<Provider, due, restarts>>

\* The kill switch, or a missing medium, sends the decision back to review.
DecisionBlocked(i, timed) ==
    /\ queue[i].state \notin Final \union {"none"}
    /\ timed => queue[i].timed
    /\ queue' = [queue EXCEPT ![i].state = "REVIEW_REQUIRED", ![i].timed = timed]
    /\ Save
    /\ UNCHANGED <<Provider, task, due, decided, withdrawn, restarts>>

-----------------------------------------------------------------------------
(* retryPendingYouTubeContent, by the timer or, with force, by the owner.  *)

\* Mutants of Waiting: the state is not looked at; the date is compared the
\* wrong way round, so that it is never due.
WaitingAny(force) == {i \in Item : queue[i].date}
WaitingNever(force) == {i \in Item : queue[i].state = "PENDING_RETRY" /\ force}

Waiting(force) ==
    {i \in Item : queue[i].state = "PENDING_RETRY" /\ (force \/ queue[i].date)}

StartRetry(force) ==
    /\ task[Timer] = Rest /\ due = {} /\ Waiting(force) # {}
    /\ due' = Waiting(force)
    /\ UNCHANGED <<queue, saved, task, Provider, decided, withdrawn, restarts>>

\* The next captured item, with the content it has now: its state is not read.
RetryNext(i) ==
    /\ task[Timer] = Rest /\ i \in due
    /\ due' = due \ {i}
    /\ task' = [task EXCEPT ![Timer] = Captured(i, queue[i])]
    /\ UNCHANGED <<queue, saved, Provider, decided, withdrawn, restarts>>

-----------------------------------------------------------------------------
(* executeYouTubePublish.                                                  *)

KeyOf(t, i) == <<i, task[t].version, task[t].timed>>

\* A refusal (reserved or done, a known fingerprint, a gate, the rate limit, no
\* token) leaves the item as it is, and what it reserved itself is free again.
Blocked(t, i) ==
    /\ task[t].stage = "asking" /\ i \in task[t].item
    /\ task' = [task EXCEPT ![t] = Rest]
    /\ UNCHANGED <<queue, saved, due, Provider, decided, withdrawn, restarts>>

Send(t, i) ==
    /\ task[t].stage = "asking" /\ i \in task[t].item
    /\ res[i] = "free" /\ KeyOf(t, i) \notin keys
    /\ res' = [res EXCEPT ![i] = "reserved"]
    /\ task' = [task EXCEPT ![t].stage = "sent"]
    /\ UNCHANGED <<queue, saved, due, keys, savedKeys, videos, lost, decided,
                   withdrawn, restarts>>

OneMore(n) == IF n < 2 THEN n + 1 ELSE n

Answered(t, i, outcome, quota) ==
    /\ task[t].stage = "sent" /\ i \in task[t].item
    /\ task' = [task EXCEPT ![t].stage = "answered", ![t].outcome = outcome,
                            ![t].quota = quota]
    /\ UNCHANGED <<saved, due, savedKeys, res, decided, withdrawn, restarts>>

\* A video id, from the answer or found by its fingerprint after a lost one.
Uploaded(t, i) ==
    /\ Answered(t, i, "done", FALSE)
    /\ videos' = [videos EXCEPT ![i] = OneMore(@)]
    /\ keys' = keys \union {KeyOf(t, i)}
    /\ queue' = [queue EXCEPT
          ![i].state = IF task[t].timed THEN "SCHEDULED" ELSE "PUBLISHED"]
    /\ UNCHANGED lost

\* A lost answer and no video found, or no list to look in: the state stays.
Unknown(t, i) ==
    /\ Answered(t, i, "keep", FALSE)
    /\ \E made \in BOOLEAN :
          videos' = [videos EXCEPT ![i] = IF made THEN OneMore(@) ELSE @]
    /\ lost' = lost \union {i}
    /\ UNCHANGED <<keys, queue>>

\* The quota is used up: retried after the next reset, whatever the state is.
QuotaSpent(t, i) ==
    /\ Answered(t, i, "free", t = Timer)
    /\ queue' = [queue EXCEPT ![i].state = "PENDING_RETRY", ![i].date = TRUE]
    /\ UNCHANGED <<keys, videos, lost>>

Rejected(t, i) ==
    /\ Answered(t, i, "free", FALSE)
    /\ queue' = [queue EXCEPT ![i].state = "FAILED"]
    /\ UNCHANGED <<keys, videos, lost>>

\* The video is there, but the answer is an error of the server or has no id: it counts
\* as a refusal.
Misjudged(t, i) ==
    /\ Answered(t, i, "free", FALSE)
    /\ queue' = [queue EXCEPT ![i].state = "FAILED"]
    /\ videos' = [videos EXCEPT ![i] = OneMore(@)]
    /\ lost' = lost \union {i}
    /\ UNCHANGED keys

\* Mutants of Finished: the outcome null is written like the others; a success
\* ends like a failure, so that it may be repeated.
FinishedNull(i, outcome) == outcome
FinishedFailed(i, outcome) ==
    CASE outcome = "keep" -> res[i]
      [] OTHER            -> "free"

\* endExternalOperation.
Finished(i, outcome) == IF outcome = "keep" THEN res[i] ELSE outcome

\* persistStateDurable writes the workspace, which the queue is not part of;
\* endExternalOperation; then the answer to the owner or the rest of the pass: a
\* success clears the date, a pass that still waits for the quota sets it, and a
\* pass ends with a save.
End(t, i) ==
    /\ task[t].stage = "answered" /\ i \in task[t].item
    /\ savedKeys' \in {savedKeys, keys}
    /\ res' = [res EXCEPT ![i] = Finished(i, task[t].outcome)]
    /\ queue' = [queue EXCEPT ![i].date =
          (@ \/ task[t].quota) /\ task[t].outcome # "done"]
    /\ task' = [task EXCEPT ![t] = Rest]
    /\ IF t = Timer /\ due = {} THEN Save ELSE UNCHANGED saved
    /\ UNCHANGED <<due, keys, videos, lost, decided, withdrawn, restarts>>

-----------------------------------------------------------------------------
(* The rest of the process.                                                *)

\* verifyDueScheduledContent: only an item that is still scheduled is verified.
Verify(i) ==
    /\ queue[i].state = "SCHEDULED"
    /\ queue' = [queue EXCEPT ![i].state = "VERIFIED"]
    /\ Save
    /\ UNCHANGED <<task, due, Provider, decided, withdrawn, restarts>>

\* Every cycle of the watcher saves its state with the queue in it.
SaveQueue ==
    /\ UNCHANGED <<queue, task, due, Provider, decided, withdrawn, restarts>>
    /\ Save

\* A reservation lasts longer than the call that holds it.
Expire(i) ==
    /\ res[i] = "reserved" /\ ~Working(i)
    /\ res' = [res EXCEPT ![i] = "free"]
    /\ UNCHANGED <<queue, saved, task, due, keys, savedKeys, videos, lost,
                   decided, withdrawn, restarts>>

Cut == {i \in Item : \E t \in Task :
          i \in task[t].item /\ task[t].stage \in {"sent", "answered"}}

\* normalizeContentQueue keeps neither retryAt nor its reason.
Restored(row) == [row EXCEPT !.date = FALSE]

Restart ==
    /\ restarts < MaxRestarts
    /\ restarts' = restarts + 1
    /\ \E table \in saved : queue' = [i \in Item |-> Restored(table[i])]
    /\ task' = [t \in Task |-> Rest] /\ due' = {}
    /\ keys' = savedKeys
    /\ \E made \in SUBSET {i \in Item : \E t \in Task :
                             i \in task[t].item /\ task[t].stage = "sent"} :
          videos' = [i \in Item |-> IF i \in made THEN OneMore(videos[i]) ELSE videos[i]]
    /\ lost' = lost \union Cut
    /\ UNCHANGED <<saved, savedKeys, res, decided, withdrawn>>

Deciding ==
    \E i \in Item :
       \/ Refuse(i) \/ Approve(i)
       \/ \E timed \in Timed : Edit(i, timed)
       \/ \E timed \in BOOLEAN : DecisionBlocked(i, timed)
       \/ \E s \in Slot : PublishNow(s, i) \/ Schedule(s, i) \/ AutoExecute(s, i)
       \/ \E s \in Slot, timed \in Timed,
             state \in {"DRAFT", "REVIEW_REQUIRED", "APPROVED"} :
                CreateDraft(s, i, state, timed)

Executing(t) ==
    \E i \in Item :
          \/ Blocked(t, i) \/ Send(t, i)
          \/ Uploaded(t, i) \/ Unknown(t, i) \/ QuotaSpent(t, i) \/ Rejected(t, i)
          \/ Misjudged(t, i)
          \/ End(t, i)

Next ==
    \/ Deciding
    \/ \E t \in Task : Executing(t)
    \/ \E force \in BOOLEAN : StartRetry(force)
    \/ \E i \in Item : RetryNext(i) \/ Verify(i) \/ Expire(i)
    \/ SaveQueue \/ Settle
    \/ Restart

Spec == Init /\ [][Next]_vars

\* The timer fires again and again, the event loop serves every request, and a
\* call to the provider ends.
Fairness ==
    /\ WF_vars(StartRetry(FALSE))
    /\ WF_vars(\E i \in Item : RetryNext(i))
    /\ \A t \in Task : WF_vars(Executing(t))

FairSpec == Spec /\ Fairness

-----------------------------------------------------------------------------
(* Properties.                                                             *)

\* What the owner rejects, cancels or sends back to review stays withdrawn, once nothing
\* works on it and no older snapshot can land any more: through retries, calls for other
\* items, writes that overtake each other and restarts, until the owner decides again.
WithdrawnStays == \A i \in withdrawn : Standing(i)

\* A second video of an item needs a call whose result never reached the
\* records: edits, retries and repeated decisions alone never make one.
SecondVideoNeedsLoss == \A i \in Item : videos[i] > 1 => i \in lost

Dated(i)   == queue[i].state = "PENDING_RETRY" /\ queue[i].date
Retried(i) == Working(i) \/ ~Dated(i)

\* An item that waits for the quota with its date is tried again, or stops
\* waiting; a restart is what makes it lose the date.
DatedIsRetried == \A i \in Item : Dated(i) ~> Retried(i)

\* The claim of server.ts:3598-3601: what waits for the quota is sent again by
\* itself once the quota is renewed.
PendingIsRetried ==
    \A i \in Item :
       queue[i].state = "PENDING_RETRY"
          ~> (Working(i) \/ queue[i].state # "PENDING_RETRY")

\* The claim of server.ts:12971-12972: what the timer sends is content whose last
\* decision was for it, never what was rejected, cancelled or edited since.
RetryOnlyDecided ==
    [][\A i \in task'[Timer].item :
          task[Timer] = Rest => decided[i] = task'[Timer].version]_vars
=============================================================================
