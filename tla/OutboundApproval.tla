-------------------------- MODULE OutboundApproval --------------------------
(***************************************************************************)
(* Replies that wait for the owner's click: the rows the send gate records *)
(* while the send mode is "approval" (outboundApprovals), the drafts of    *)
(* the commercial brain for the same comments (commercialDrafts), and the  *)
(* decisions of the owner that send them through one executor.             *)
(*                                                                         *)
(* One platform and its comments are modelled.  A row is sent under a key  *)
(* of the comment alone, a draft under a key of its own ("reply:<id>"): the*)
(* lock, the reservation and the history of the two never meet.  The leads *)
(* (rows and drafts under one key) are written beside the ordered queue of *)
(* StatePersistence, on a pool of connections: a write fails, which the    *)
(* code swallows, or overtakes another, so that saved holds every snapshot *)
(* of which it is not settled yet whether the store will keep it.  The     *)
(* store of reservations always answers: its failures are the subject of   *)
(* ExternalOperation.  How much of the history a restart finds is left     *)
(* open.                                                                   *)
(***************************************************************************)
EXTENDS Naturals, FiniteSets

CONSTANTS
    Target,       \* comments of customers
    Text,         \* texts of replies
    Slot,         \* decisions of the owner in progress at once
    Capacity,     \* OUTBOUND_APPROVALS_MAX
    MaxDrafts,    \* COMMERCIAL_MAX_DRAFTS
    MaxRows,      \* bound on the rows ever created
    SaveResults,  \* what a write may do: "landed", "late"
    MaxSnapshots, \* bound on the snapshots in question at once
    MaxRestarts   \* bound on the restarts of the run

Id   == 1 .. MaxRows
Kind == {"row", "draft"}
Key  == Kind \X Target

Status == {"none", "pending", "sent", "rejected", "failed"}
Row    == [status : Status, target : SUBSET Target, text : SUBSET Text]
NoRow  == [status |-> "none", target |-> {}, text |-> {}]
Draft  == {"none", "pending", "approved", "rejected", "closed"}

\* A decision in progress: what it sends, and where it writes its result.
Work == [stage : {"idle", "asking", "sent", "answered"}, key : SUBSET Key,
         id : {0} \union Id, text : SUBSET Text, result : {"sent", "failed"},
         outcome : {"done", "free", "keep"}]
Rest == [stage |-> "idle", key |-> {}, id |-> 0, text |-> {},
         result |-> "failed", outcome |-> "free"]

VARIABLES
    rows,          \* outboundApprovals; a larger id is a newer row
    drafts,        \* commercialDrafts with the key "reply:<comment>"
    saved,         \* the snapshots of both that a restart may find
    task,          \* the decisions in progress
    preparing,     \* the comment the cycle is writing a draft for
    history,       \* keys with a record in socialReplies, in memory
    res,           \* durable reservation of each key
    replies,       \* replies the customer got under a key: none, one or more
    got,           \* what was delivered under which key
    lost,          \* keys with a call whose result was lost or misjudged
    asked,         \* comments with a reply recorded for the owner, in every snapshot
    refused,       \* comments whose rows are all decided, in every snapshot, at rest
    made,          \* rows created so far
    restarts

vars == <<rows, drafts, saved, task, preparing, history, res,
          replies, got, lost, asked, refused, made, restarts>>

TypeOK ==
    /\ rows \in [Id -> Row] /\ drafts \in [Target -> Draft]
    /\ saved \in SUBSET [rows : [Id -> Row], drafts : [Target -> Draft]]
    /\ task \in [Slot -> Work]
    /\ preparing \in SUBSET Target
    /\ history \in SUBSET Key
    /\ res \in [Key -> {"free", "reserved", "done"}]
    /\ replies \in [Key -> 0 .. 2]
    /\ got \in SUBSET (Key \X Text)
    /\ lost \in SUBSET Key
    /\ asked \in SUBSET Target /\ refused \in SUBSET Target
    /\ made \in 0 .. MaxRows /\ restarts \in 0 .. MaxRestarts

Init ==
    /\ rows = [i \in Id |-> NoRow] /\ drafts = [t \in Target |-> "none"]
    /\ saved = {[rows |-> rows, drafts |-> drafts]}
    /\ task = [s \in Slot |-> Rest]
    /\ preparing = {} /\ history = {}
    /\ res = [k \in Key |-> "free"] /\ replies = [k \in Key |-> 0]
    /\ got = {} /\ lost = {} /\ asked = {} /\ refused = {}
    /\ made = 0 /\ restarts = 0

Provider == <<history, res, replies, got, lost>>

Leads == [rows |-> rows, drafts |-> drafts]

\* persistCommercialLeads: the write lands behind all others before its caller goes on, or
\* its fate is open for now (Settle); one that fails is one of these.
SaveLeads ==
    \E result \in SaveResults :
       \/ result = "landed" /\ saved' = {Leads'}
       \/ /\ result = "late"
          /\ saved' = saved \union {Leads'} /\ Cardinality(saved') <= MaxSnapshots

RowsOf(table, t) == {i \in Id : t \in table[i].target}
Held(k)          == \E s \in Slot : k \in task[s].key /\ task[s].stage # "asking"
Working(t)       == \E s \in Slot, kind \in Kind : <<kind, t>> \in task[s].key

\* The owner finds the comment in a row or in a draft, or in rows decided for good,
\* whichever snapshot a restart finds.
Found    == {Leads} \union saved
Recorded(t) == \A leads \in Found : RowsOf(leads.rows, t) # {} \/ leads.drafts[t] # "none"
DecidedForGood(t) ==
    /\ ~\E s \in Slot : <<"row", t>> \in task[s].key
    /\ \A leads \in Found :
          /\ RowsOf(leads.rows, t) # {}
          /\ \A i \in RowsOf(leads.rows, t) : leads.rows[i].status \in {"sent", "rejected"}

\* A write fails, or lands under a later one: one snapshot less is in question.
Settle ==
    /\ \E leads \in saved : saved # {leads} /\ saved' = saved \ {leads}
    /\ UNCHANGED <<rows, drafts, task, preparing, Provider, made, restarts>>
    /\ asked' = asked \union {t \in Target : Recorded(t)'}
    /\ refused' = refused \union {t \in Target : DecidedForGood(t)'}

\* Mutant of Decided: a rejection does not count.
DecidedSent(t) == \E i \in RowsOf(rows, t) : rows[i].status = "sent"

\* findDecidedForTarget: sent or rejected; a failed row does not count.
Decided(t) == \E i \in RowsOf(rows, t) : rows[i].status \in {"sent", "rejected"}

-----------------------------------------------------------------------------
(* guardCustomerSend, called by the automatic senders.                     *)

Live(table) == {i \in Id : table[i].status # "none"}
Oldest(table) == CHOOSE i \in Live(table) : \A j \in Live(table) : i <= j

\* The list is cut behind its newest rows.
Cut(table) ==
    IF Cardinality(Live(table)) <= Capacity THEN table
    ELSE [table EXCEPT ![Oldest(table)] = NoRow]

\* A decided comment, or one with a draft that waits, is left alone; a row that
\* waits takes the newer text; any other comment gets a row.
Prepare(t, text) ==
    /\ ~Decided(t) /\ drafts[t] # "pending"
    /\ LET waiting == {i \in RowsOf(rows, t) : rows[i].status = "pending"}
       IN  IF waiting # {}
           THEN /\ \E i \in waiting :
                      /\ rows[i].text # {text}
                      /\ rows' = [rows EXCEPT ![i].text = {text}]
                /\ UNCHANGED made
           ELSE /\ made < MaxRows
                /\ made' = made + 1
                /\ rows' = Cut([rows EXCEPT ![made + 1] =
                      [status |-> "pending", target |-> {t}, text |-> {text}]])
    /\ UNCHANGED <<drafts, task, preparing, Provider, restarts>>
    /\ SaveLeads
    /\ asked' = {u \in asked : RowsOf(rows', u) # {} \/ drafts[u] # "none"}
                   \union {u \in {t} : Recorded(u)'}
    /\ refused' = {u \in refused : RowsOf(rows', u) # {}}

-----------------------------------------------------------------------------
(* createInstantReplyDraft, in the cycle of the commercial brain.          *)

\* Only a reply that was sent stands in the way, and one is written at a time.
StartDraft(t) ==
    /\ preparing = {} /\ drafts[t] = "none"
    /\ ~\E i \in RowsOf(rows, t) : rows[i].status = "sent"
    /\ preparing' = {t}
    /\ UNCHANGED <<rows, drafts, saved, task, Provider, asked, refused, made, restarts>>

NoDraft(t) ==
    /\ t \in preparing
    /\ preparing' = {}
    /\ UNCHANGED <<rows, drafts, saved, task, Provider, asked, refused, made, restarts>>

\* Mutant of Superseded: the rows of every comment give way.
SupersededAll(t) == {i \in Id : rows[i].status = "pending"}

\* The rows that wait, also those a decision is sending, give way to the draft.
Superseded(t) == {i \in RowsOf(rows, t) : rows[i].status = "pending"}

\* createCommercialDraft keeps MaxDrafts drafts.  Their order is not kept: any other goes,
\* but one that is being sent (MaxDrafts newer ones would have to come within one call).
Drafted(t) ==
    LET others == {u \in Target \ {t} : drafts[u] # "none"}
        one    == [drafts EXCEPT ![t] = "pending"]
    IN  IF Cardinality(others) < MaxDrafts THEN {one}
        ELSE {[one EXCEPT ![u] = "none"] : u \in {v \in others : ~Working(v)}}

\* The generator has answered; nothing is looked at again, nor saved here.
FinishDraft(t) ==
    /\ t \in preparing
    /\ preparing' = {}
    /\ rows' = [i \in Id |-> IF i \in Superseded(t) THEN NoRow ELSE rows[i]]
    /\ drafts' \in Drafted(t)
    /\ asked' = asked \ {u \in Target : drafts[u] # "none" /\ drafts'[u] = "none"}
    /\ UNCHANGED <<saved, task, Provider, refused, made, restarts>>

\* sweepExpiredCommercialDrafts, the qualification cleanup, and an approval that
\* comes after the message window: the draft is closed, whatever sends it now.
CloseDraft(t) ==
    /\ drafts[t] = "pending"
    /\ drafts' = [drafts EXCEPT ![t] = "closed"]
    /\ UNCHANGED rows
    /\ SaveLeads
    /\ UNCHANGED <<task, preparing, Provider, asked, refused, made, restarts>>

\* The end of the cycle, like every change of a lead, saves rows and drafts.
SaveCycle ==
    /\ UNCHANGED <<rows, drafts, task, preparing, Provider, asked, refused, made, restarts>>
    /\ SaveLeads

-----------------------------------------------------------------------------
(* The decisions of the owner.                                             *)

\* decideOutboundApproval, reject: also for a row that is being sent.
RejectRow(i) ==
    /\ rows[i].status \in {"pending", "failed"}
    /\ rows' = [rows EXCEPT ![i].status = "rejected"]
    /\ UNCHANGED <<drafts, task, preparing, Provider, asked, made, restarts>>
    /\ SaveLeads
    /\ refused' = refused \union {t \in rows[i].target : DecidedForGood(t)'}

Captured(key, i, text) ==
    [Rest EXCEPT !.stage = "asking", !.key = {key}, !.id = i, !.text = {text}]

\* approve sends the text the row has now, edit_approve another one.
ApproveRow(s, i, text) ==
    /\ task[s] = Rest /\ rows[i].status \in {"pending", "failed"}
    /\ \E t \in rows[i].target :
          task' = [task EXCEPT ![s] = Captured(<<"row", t>>, i, text)]
    /\ UNCHANGED <<rows, drafts, saved, preparing, Provider, asked, refused, made, restarts>>

RejectDraft(t) ==
    /\ drafts[t] = "pending"
    /\ drafts' = [drafts EXCEPT ![t] = "rejected"]
    /\ UNCHANGED rows
    /\ SaveLeads
    /\ UNCHANGED <<task, preparing, Provider, asked, refused, made, restarts>>

\* The draft stays pending in the list until its delivery is known.
ApproveDraft(s, t, text) ==
    /\ task[s] = Rest /\ drafts[t] = "pending"
    /\ task' = [task EXCEPT ![s] = Captured(<<"draft", t>>, 0, text)]
    /\ UNCHANGED <<rows, drafts, saved, preparing, Provider, asked, refused, made, restarts>>

-----------------------------------------------------------------------------
(* The executor, and what the decision writes when it returns.             *)

\* Mutant of Outcome: the row keeps the text it has now, not the one that was sent.
OutcomeText(s, result) ==
    [i \in Id |->
        IF i = task[s].id /\ rows[i].status # "none"
        THEN [rows[i] EXCEPT !.status = result]
        ELSE rows[i]]

\* applyApprovalOutcome on the row, if it is still there: whatever became of it.
Outcome(s, result) ==
    [i \in Id |->
        IF i = task[s].id /\ rows[i].status # "none"
        THEN [rows[i] EXCEPT !.status = result,
                !.text = IF result = "sent" THEN task[s].text ELSE @]
        ELSE rows[i]]

Write(s, result) ==
    /\ rows' = Outcome(s, result)
    /\ drafts' = [t \in Target |->
          IF <<"draft", t>> \in task[s].key THEN "approved" ELSE drafts[t]]
    /\ SaveLeads
    /\ task' = [task EXCEPT ![s] = Rest]
    /\ UNCHANGED <<preparing, asked, refused, made, restarts>>

\* The lock is held, a check fails, the key is reserved, done or in the history.
Refused(s) ==
    /\ task[s].stage = "asking"
    /\ Write(s, "failed")
    /\ UNCHANGED Provider

Clear(k) == ~Held(k) /\ res[k] = "free" /\ k \notin history

Send(s, k) ==
    /\ task[s].stage = "asking" /\ k \in task[s].key /\ Clear(k)
    /\ res' = [res EXCEPT ![k] = "reserved"]
    /\ task' = [task EXCEPT ![s].stage = "sent"]
    /\ UNCHANGED <<rows, drafts, saved, preparing, history, replies,
                   got, lost, asked, refused, made, restarts>>

OneMore(n) == IF n < 2 THEN n + 1 ELSE n

\* Every answer leaves a record of the reply, one of a failure too.
Answered(s, k, result, outcome) ==
    /\ task[s].stage = "sent" /\ k \in task[s].key
    /\ history' = history \union {k}
    /\ task' = [task EXCEPT ![s].stage = "answered", ![s].result = result,
                            ![s].outcome = outcome]
    /\ UNCHANGED <<rows, drafts, saved, preparing, res, asked, refused,
                   made, restarts>>

Arrived(s, k) ==
    /\ replies' = [replies EXCEPT ![k] = OneMore(@)]
    /\ got' = got \union {<<k, text>> : text \in task[s].text}

Delivered(s, k) ==
    /\ Answered(s, k, "sent", "done") /\ Arrived(s, k)
    /\ UNCHANGED lost

Declined(s, k) ==
    /\ Answered(s, k, "failed", "free")
    /\ UNCHANGED <<replies, got, lost>>

\* It was delivered, but the answer is an error of the server, cannot be read or has no
\* id: it counts as a refusal.
Misjudged(s, k) ==
    /\ Answered(s, k, "failed", "free") /\ Arrived(s, k)
    /\ lost' = lost \union {k}

AnswerLost(s, k) ==
    /\ Answered(s, k, "failed", "keep")
    /\ Arrived(s, k) \/ UNCHANGED <<replies, got>>
    /\ lost' = lost \union {k}

\* Mutant of Concluded: a success ends like a failure.
ConcludedFree(s, k) == IF task[s].outcome = "keep" THEN res[k] ELSE "free"

\* endExternalOperation.
Concluded(s, k) == IF task[s].outcome = "keep" THEN res[k] ELSE task[s].outcome

\* persistStateDurable, endExternalOperation, then the decision writes.
End(s, k) ==
    /\ task[s].stage = "answered" /\ k \in task[s].key
    /\ res' = [res EXCEPT ![k] = Concluded(s, k)]
    /\ Write(s, task[s].result)
    /\ UNCHANGED <<history, replies, got, lost>>

\* A reservation outlives the call that took it, then it is free again.
Expire(k) ==
    /\ res[k] = "reserved" /\ ~Held(k)
    /\ res' = [res EXCEPT ![k] = "free"]
    /\ UNCHANGED <<rows, drafts, saved, task, preparing, history, replies,
                   got, lost, asked, refused, made, restarts>>

-----------------------------------------------------------------------------
Sending == {s \in Slot : task[s].stage = "sent"}

Restart ==
    /\ restarts < MaxRestarts
    /\ restarts' = restarts + 1
    /\ \E leads \in saved : rows' = leads.rows /\ drafts' = leads.drafts
    /\ task' = [s \in Slot |-> Rest] /\ preparing' = {}
    /\ history' \in SUBSET history
    /\ \E arrived \in SUBSET Sending :
          /\ replies' = [k \in Key |->
                IF \E s \in arrived : k \in task[s].key THEN OneMore(replies[k])
                ELSE replies[k]]
          /\ got' = got \union
                UNION {task[s].key \X task[s].text : s \in arrived}
    /\ lost' = lost \union {k \in Key : Held(k)}
    /\ UNCHANGED <<saved, res, asked, refused, made>>

Preparing ==
    \E t \in Target :
       \/ \E text \in Text : Prepare(t, text)
       \/ StartDraft(t) \/ NoDraft(t) \/ FinishDraft(t) \/ CloseDraft(t)

Deciding ==
    \/ \E i \in Id :
          \/ RejectRow(i)
          \/ \E s \in Slot, text \in Text : ApproveRow(s, i, text)
    \/ \E t \in Target :
          \/ RejectDraft(t)
          \/ \E s \in Slot, text \in Text : ApproveDraft(s, t, text)

Executing(s) ==
    \/ Refused(s)
    \/ \E k \in Key :
          \/ Send(s, k)
          \/ Delivered(s, k) \/ Declined(s, k)
          \/ Misjudged(s, k) \/ AnswerLost(s, k)
          \/ End(s, k)

Next ==
    \/ Preparing
    \/ Deciding
    \/ \E s \in Slot : Executing(s)
    \/ \E k \in Key : Expire(k)
    \/ SaveCycle \/ Settle
    \/ Restart

Spec == Init /\ [][Next]_vars

-----------------------------------------------------------------------------
(* Properties.                                                             *)

\* A row that says "sent" tells the owner the words the customer has, through
\* edits of the text under way, retries, cuts of the list and restarts.
SentIsTrue ==
    \A i \in Id : rows[i].status = "sent" =>
       \A t \in rows[i].target, text \in rows[i].text : <<<<"row", t>>, text>> \in got

\* The same key never reaches the customer twice, unless a call under it has
\* lost its result: approvals of several rows, retries and bulk decisions alone
\* do not.
SecondReplyNeedsLoss == \A k \in Key : replies[k] > 1 => k \in lost

\* Once every row of a comment is decided, in every snapshot the store may end up with,
\* and nothing is under way, no row of the comment is offered or sent any more, through
\* cycles, writes that overtake each other and restarts, as long as the list holds it.
RejectionStands == \A t \in refused : DecidedForGood(t)

\* A reply the owner was asked about, and no older snapshot can undo, is always somewhere:
\* in a row or in the draft that took its place, whichever snapshot a restart finds, until
\* newer rows or drafts push it out of its list.
AskedIsKept == \A t \in asked : Recorded(t)

\* The claim of outboundApprovals.ts:11-12: a customer who was answered is not
\* sent another reply, here by calls whose results all arrived.
OneReplyPerCustomer ==
    \A t \in Target :
       replies[<<"row", t>>] > 0 /\ replies[<<"draft", t>>] > 0
          => <<"row", t>> \in lost \/ <<"draft", t>> \in lost

\* The claim of outboundApprovals.ts:100: a failed reply may be sent again once
\* the provider has declined it for certain.
FailedCanBeRetried ==
    \A i \in Id, t \in Target :
       (rows[i].status = "failed" /\ t \in rows[i].target /\ ~Working(t)
          /\ <<"row", t>> \notin lost /\ replies[<<"row", t>>] = 0)
          => <<"row", t>> \notin history
=============================================================================
