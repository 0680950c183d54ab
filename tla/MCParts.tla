------------------------------- MODULE MCParts -------------------------------
(***************************************************************************)
(* For TLC, and for the theorems of PartsProofs: the content queue, the    *)
(* replies that wait for approval, the automation jobs, the full backup    *)
(* with its retention, the mirror of the source, the backup schedule, the  *)
(* alerts to the owner, the access to an account, the requests to the AI   *)
(* provider, the tasks of the agent and the credentials of a platform.     *)
(* They share no state (each sends through reservations of its own key),   *)
(* so one run checks several of them side by side: part says which one a   *)
(* behaviour is about, and no step changes it.  Each part keeps its        *)
(* variables in v1, v2, ..., under the names that follow, and those it     *)
(* does not need stay 0.                                                   *)
(*                                                                         *)
(* The content queue is checked in two instances: with dates and a single  *)
(* snapshot in question; and with writes that overtake each other.  The    *)
(* approvals in four: two decisions at once; two rows and two texts; one   *)
(* row and writes that fail or overtake each other; and, with such writes  *)
(* too, two comments on lists that hold a single row and a single draft,   *)
(* none of them being sent.  The jobs: with and without a second           *)
(* reservation for the publication.                                        *)
(***************************************************************************)
EXTENDS Naturals, FiniteSets, SequencesExt

CONSTANTS Parts,
          Item, Slot, OneSlot, Timer, Timed, MaxVersion,
          Target, OneTarget, Text, OneText, Job,
          Source, Content, Keep, Protected, MaxRuns, BackupRestarts,
          Path, MaxMirror, MaxFaults, MaxChanges,
          Interval, RetryAfter, MaxDefer, Horizon,
          Event, Platform, Caller, MaxPending, MaxSent,
          LoginRequest, CacheKey, TaskKey,
          Account, Operation, Life, Lead, MaxWait

\* What the parts ask of their bounds.
ASSUME QueueAssumption ==
    MaxVersion \in Nat \ {0} /\ Timed \subseteq BOOLEAN
\* resolveKeep accepts no less than one point; any id may be protected or not.
ASSUME BackupAssumption ==
    MaxRuns \in Nat /\ BackupRestarts \in Nat /\ Keep \in Nat \ {0}
ASSUME MirrorAssumption ==
    /\ MaxMirror \in Nat /\ MaxFaults \in Nat /\ MaxChanges \in Nat
    /\ Path \subseteq Nat
\* The limit is positive and not shorter than the interval (24 h and 6 h in the code).
ASSUME ScheduleAssumption ==
    /\ Interval \in Nat /\ RetryAfter \in Nat /\ MaxDefer \in Nat \ {0} /\ Horizon \in Nat
    /\ Interval <= MaxDefer
ASSUME AlertsAssumption ==
    MaxPending \in Nat /\ MaxSent \in Nat /\ IsFiniteSet(Platform)
ASSUME AiAssumption == IsFiniteSet(Caller)
ASSUME TokenAssumption == Life \in Nat /\ Lead \in Nat /\ MaxWait \in Nat

VARIABLES part, v1, v2, v3, v4, v5, v6, v7, v8, v9, v10, v11, v12, v13, restarts

vars == <<part, v1, v2, v3, v4, v5, v6, v7, v8, v9, v10, v11, v12, v13, restarts>>

\* The names the parts give to them.
saved == v1
now == v1
link == v1
source == v1
up == v1
task == v2
mem == v2
call == v2
alerts == v2
order == v2
run == v2
runAge == v2
res == v3
stored == v3
cache == v3
cycle == v3
record == v3
track == v3
content == v3
known == v3
successAge == v3
lost == v4
request == v4
breaker == v4
broken == v4
leaving == v4
runs == v4
head == v4
result == v4
withdrawn == v5
rows == v5
issued == v5
used == v5
inFlight == v5
slot == v5
removed == v5
snapshot == v5
dirs == v5
due == v6
drafts == v6
status == v6
given == v6
writes == v6
excused == v6
stray == v6
folders == v6
file == v6
queue == v7
asked == v7
posts == v7
midnight == v7
mails == v7
effects == v7
point == v7
manifest == v7
keys == v8
preparing == v8
opened == v8
answered == v8
late == v8
current == v8
misread == v8
savedKeys == v9
history == v9
left == v9
uncounted == v9
cut == v9
doomed == v9
faults == v9
videos == v10
replies == v10
days == v10
success == v10
changes == v10
decided == v11
got == v11
outcome == v11
refused == v12
lease == v12
made == v13
savedLease == v13

\* Two trees: the second has another content at one path and nothing at the other.
Trees == {[p \in Path |-> p], [p \in Path |-> IF p = 1 THEN 3 ELSE 0]}

\* Content.
Queue == INSTANCE ContentQueue WITH
    Slot <- OneSlot, SaveResults <- {"landed"}, MaxSnapshots <- 1, MaxRestarts <- 1
Late == INSTANCE ContentQueue WITH
    Slot <- OneSlot, Timed <- {FALSE}, SaveResults <- {"late"}, MaxSnapshots <- 2,
    MaxRestarts <- 1

\* Approvals.
Pair == INSTANCE OutboundApproval WITH
    Target <- OneTarget, Text <- OneText, Capacity <- 1, MaxDrafts <- 1, MaxRows <- 1,
    SaveResults <- {"landed"}, MaxSnapshots <- 1, MaxRestarts <- 1
Edits == INSTANCE OutboundApproval WITH
    Target <- OneTarget, Slot <- OneSlot, Capacity <- 1, MaxDrafts <- 1, MaxRows <- 2,
    SaveResults <- {"landed"}, MaxSnapshots <- 1, MaxRestarts <- 1
Unsaved == INSTANCE OutboundApproval WITH
    Target <- OneTarget, Text <- OneText, Slot <- OneSlot, Capacity <- 1, MaxDrafts <- 1,
    MaxRows <- 1, SaveResults <- {"late"}, MaxSnapshots <- 2, MaxRestarts <- 1
Crowd == INSTANCE OutboundApproval WITH
    Text <- OneText, Slot <- {}, Capacity <- 1, MaxDrafts <- 1, MaxRows <- 2,
    SaveResults <- {"late"}, MaxSnapshots <- 2, MaxRestarts <- 1

\* Jobs.
Nested == INSTANCE PublishingJob WITH Direct <- {}, MaxRestarts <- 2
Messages == INSTANCE PublishingJob WITH Direct <- Job, MaxRestarts <- 2

Backup == INSTANCE BackupRun WITH MaxRestarts <- BackupRestarts
Mirror == INSTANCE CurrentMirror WITH Tree <- Trees, MaxVersion <- MaxMirror
Schedule == INSTANCE BackupSchedule WITH Retry <- RetryAfter
Alerts == INSTANCE OwnerAlerts WITH MaxRestarts <- 1
Login == INSTANCE AccessControl WITH
    Request <- LoginRequest, MaxWindow <- 2, MaxSession <- 2, MaxJobs <- 2, MaxRestarts <- 1
Ai == INSTANCE AiEngine WITH
    Key <- CacheKey, Limit <- 2, Threshold <- 2, Cooldown <- 2, MaxDays <- 1,
    MaxRestarts <- 1
Agent == INSTANCE AgentTask WITH
    Key <- TaskKey, Capacity <- 2, MaxTask <- 3, MaxRestarts <- 1
Token == INSTANCE TokenRenewal WITH Limit <- 2

\* A write that is not a request's own is of none of them.
ASSUME LoginAssumption == Login!Lazy \notin LoginRequest

\* What the smaller parts leave unused.
Last2 == <<v12, v13>>
Last3 == <<v11, Last2>>
Last4 == <<v10, Last3>>
Last6 == <<v8, v9, Last4>>
Last7 == <<v7, Last6>>
NoLast2 == v12 = 0 /\ v13 = 0
NoLast3 == v11 = 0 /\ NoLast2
NoLast4 == v10 = 0 /\ NoLast3
NoLast6 == v8 = 0 /\ v9 = 0 /\ NoLast4
NoLast7 == v7 = 0 /\ NoLast6

Init ==
    /\ part \in Parts
    /\ \/ part = "queue" /\ Queue!Init /\ NoLast2
       \/ part = "late" /\ Late!Init /\ NoLast2
       \/ part = "pair" /\ Pair!Init
       \/ part = "edits" /\ Edits!Init
       \/ part = "unsaved" /\ Unsaved!Init
       \/ part = "crowd" /\ Crowd!Init
       \/ part = "nested" /\ Nested!Init /\ NoLast6
       \/ part = "messages" /\ Messages!Init /\ NoLast6
       \/ part = "backup" /\ Backup!Init
       \/ part = "mirror" /\ Mirror!Init /\ restarts = 0 /\ NoLast3
       \/ part = "schedule" /\ Schedule!Init /\ restarts = 0 /\ NoLast6
       \/ part = "alerts" /\ Alerts!Init /\ NoLast4
       \/ part = "access" /\ Login!Init /\ NoLast4
       \/ part = "ai" /\ Ai!Init /\ NoLast3
       \/ part = "agent" /\ Agent!Init /\ NoLast6
       \/ part = "token" /\ Token!Init /\ restarts = 0 /\ NoLast7

Next ==
    /\ UNCHANGED part
    /\ \/ part = "queue" /\ Queue!Next /\ UNCHANGED Last2
       \/ part = "late" /\ Late!Next /\ UNCHANGED Last2
       \/ part = "pair" /\ Pair!Next
       \/ part = "edits" /\ Edits!Next
       \/ part = "unsaved" /\ Unsaved!Next
       \/ part = "crowd" /\ Crowd!Next
       \/ part = "nested" /\ Nested!Next /\ UNCHANGED Last6
       \/ part = "messages" /\ Messages!Next /\ UNCHANGED Last6
       \/ part = "backup" /\ Backup!Next
       \/ part = "mirror" /\ Mirror!Next /\ UNCHANGED <<Last3, restarts>>
       \/ part = "schedule" /\ Schedule!Next /\ UNCHANGED <<Last6, restarts>>
       \/ part = "alerts" /\ Alerts!Next /\ UNCHANGED Last4
       \/ part = "access" /\ Login!Next /\ UNCHANGED Last4
       \/ part = "ai" /\ Ai!Next /\ UNCHANGED Last3
       \/ part = "agent" /\ Agent!Next /\ UNCHANGED Last6
       \/ part = "token" /\ Token!Next /\ UNCHANGED <<Last7, restarts>>

Spec == Init /\ [][Next]_vars

\* The fairness of each part, as its module states it.
alertsVars == Alerts!vars
AlertsFair ==
    /\ WF_alertsVars(part = "alerts" /\ Alerts!WindowEnds)
    /\ \A c \in Caller :
          /\ WF_alertsVars(part = "alerts" /\ Alerts!Cycle(c))
          /\ WF_alertsVars(part = "alerts" /\ (Alerts!Sent(c) \/ Alerts!Failed(c)))
          /\ SF_alertsVars(part = "alerts" /\ Alerts!Sent(c))

contentVars == Queue!vars
QueueFair ==
    /\ WF_contentVars(part = "queue" /\ Queue!StartRetry(FALSE))
    /\ WF_contentVars(part = "queue" /\ \E i \in Item : Queue!RetryNext(i))
    /\ \A t \in OneSlot \union {Timer} : WF_contentVars(part = "queue" /\ Queue!Executing(t))

copyVars == Backup!vars
BackupFair ==
    /\ WF_copyVars(part = "backup" /\ Backup!Step)
    /\ WF_copyVars(part = "backup" /\ Backup!LeaseExpires)

treeVars == Mirror!vars
MirrorFair == WF_treeVars(part = "mirror" /\ Mirror!Step)

engineVars == Ai!vars
AiFair ==
    /\ WF_engineVars(part = "ai" /\ Ai!Tick)
    /\ \A c \in Caller : WF_engineVars(part = "ai" /\ Ai!Step(c))

linkVars == Token!vars
TokenFair ==
    /\ WF_linkVars(part = "token" /\ Token!Tick)
    /\ WF_linkVars(part = "token" /\ Token!KeeperLooks)
    /\ WF_linkVars(part = "token" /\ Token!Answer(Token!Keeper))
    /\ WF_linkVars(part = "token" /\ Token!EndRenewal(Token!Keeper))
    /\ SF_linkVars(part = "token" /\ Token!Renewed(Token!Keeper))

FairSpec == Spec /\ AlertsFair /\ QueueFair /\ BackupFair /\ MirrorFair /\ AiFair /\ TokenFair

\* No part tells two comments, texts, accounts, slots, requests, keys or callers apart, so
\* that all of them can be exchanged at once: one permutation halves every part, where
\* the group of all of them would cost TLC more than it saves.
Exchangeable == {Target, Text, Account, Slot, LoginRequest, TaskKey, Caller}
Other(x) ==
    CHOOSE y \in UNION {S \in Exchangeable : x \in S} :
       \A S \in Exchangeable : x \in S /\ Cardinality(S) = 2 => y # x
Symmetry ==
    {[x \in UNION Exchangeable |-> IF swap THEN Other(x) ELSE x] : swap \in BOOLEAN}

-----------------------------------------------------------------------------
(* The properties of the parts.                                            *)

\* Each part is type correct.
TypeOK ==
    /\ part = "queue" => Queue!TypeOK
    /\ part = "late" => Late!TypeOK
    /\ part = "pair" => Pair!TypeOK
    /\ part = "edits" => Edits!TypeOK
    /\ part = "unsaved" => Unsaved!TypeOK
    /\ part = "crowd" => Crowd!TypeOK
    /\ part = "nested" => Nested!TypeOK
    /\ part = "messages" => Messages!TypeOK
    /\ part = "backup" => Backup!TypeOK
    /\ part = "mirror" => Mirror!TypeOK
    /\ part = "schedule" => Schedule!TypeOK
    /\ part = "alerts" => Alerts!TypeOK
    /\ part = "access" => Login!TypeOK
    /\ part = "ai" => Ai!TypeOK
    /\ part = "agent" => Agent!TypeOK
    /\ part = "token" => Token!TypeOK

Contents(dated, overtaken) ==
    /\ part = "queue" => dated
    /\ part = "late" => overtaken

Approval(pair, edits, unsaved, crowd) ==
    /\ part = "pair" => pair
    /\ part = "edits" => edits
    /\ part = "unsaved" => unsaved
    /\ part = "crowd" => crowd

Jobs(nested, messages) ==
    /\ part = "nested" => nested
    /\ part = "messages" => messages

\* What the owner has withdrawn, rejected or cancelled, with nothing working on it and no
\* snapshot that says otherwise, stays so until another decision: content, replies and jobs.
WithdrawalStands ==
    /\ Contents(Queue!WithdrawnStays, Late!WithdrawnStays)
    /\ Approval(Pair!RejectionStands, Edits!RejectionStands, Unsaved!RejectionStands,
                Crowd!RejectionStands)
    /\ Jobs(Nested!CancelledStays, Messages!CancelledStays)

\* Whatever is retried, approved again or asked for twice, nothing goes out a second
\* time unless a call or the record of it was lost or misjudged: no video, no reply, no
\* publication of a job, no mail about an event and no effect of a task.
RepeatNeedsLoss ==
    /\ Contents(Queue!SecondVideoNeedsLoss, Late!SecondVideoNeedsLoss)
    /\ Approval(Pair!SecondReplyNeedsLoss, Edits!SecondReplyNeedsLoss,
                Unsaved!SecondReplyNeedsLoss, Crowd!SecondReplyNeedsLoss)
    /\ Jobs(Nested!SecondPostNeedsLoss, Messages!SecondPostNeedsLoss)
    /\ part = "alerts" => Alerts!SecondMailNeedsLoss
    /\ part = "agent" => Agent!SecondEffectNeedsLoss

\* A reply marked as sent shows the words the customer has.
SentIsTrue ==
    Approval(Pair!SentIsTrue, Edits!SentIsTrue, Unsaved!SentIsTrue, Crowd!SentIsTrue)

\* A reply the owner was asked about, and no older snapshot can undo, is always in a row or
\* in a draft.
AskedIsKept ==
    Approval(Pair!AskedIsKept, Edits!AskedIsKept, Unsaved!AskedIsKept, Crowd!AskedIsKept)

\* A job that was never published finds both of its reservations free.
RetryFindsFree == Jobs(Nested!RetryFindsFree, Messages!RetryFindsFree)

\* A recovery point that has its manifest has every file, all of one run; the one a run
\* reports is there; and one as late as the last successful backup is always there if two
\* points or more are kept and the first id is protected.
SuccessStaysRecoverable ==
    part = "backup" => /\ Backup!CompletePointsMatch
                       /\ Backup!ReportedIsThere
                       /\ Backup!SuccessStaysRecoverable

\* A code opens one session, and a logout that was confirmed holds.
AnswersHold == part = "access" => Login!AnswersHold

\* Credentials are held exactly while their account is linked, and they are given up only
\* when the provider has retired them, unless an answer came that was not about them.
LinkIsWhole == part = "token" => Token!LinkIsWhole

\* An event that counts as sent was mailed, or queued while a mail was in flight.
MarkedWasMailedOrLate == part = "alerts" => Alerts!MarkedWasMailedOrLate

\* An event leaves the queue only as sent, by overflow or by a restart.
LeavesMarked == [][part = "alerts" => Alerts!LeavesAsMarked]_vars

\* An event in the queue is sent in the end, unless alerts are turned off.
QueueIsSent ==
    \A k \in Event \union Platform :
       (part = "alerts" /\ Alerts!InQueue(k)) ~> (part = "alerts" /\ Alerts!Settled(k))

\* An item that waits for the quota with its date is tried again.
DatedIsRetried ==
    \A i \in Item :
       (part = "queue" /\ Queue!Dated(i)) ~> (part = "queue" /\ Queue!Retried(i))

\* The lease of a backup always comes back.
LeaseComesBack ==
    (part = "backup" /\ Backup!Leased) ~> (part = "backup" /\ ~Backup!Leased)

\* The version that HEAD names can be restored, unless HEAD was misread.
IntactUnlessMisread == part = "mirror" => Mirror!IntactUnlessMisread

\* The mirror catches up with the source.
CatchesUp == <>[](part = "mirror" => Mirror!CaughtUp)

\* A backup older than the limit is never an effect of waiting alone.
StaleOnlyAfterFailure == part = "schedule" => Schedule!StaleOnlyAfterFailure

\* The provider answers no more than the day's limit, but for charges the count lost.
BudgetHeld == part = "ai" => Ai!BudgetHeld

\* An open breaker lets requests through again.
BreakerComesBack == (part = "ai" /\ Ai!Refuses) ~> (part = "ai" /\ ~Ai!Refuses)

\* A connection that asks for the owner though the provider would renew it comes back by
\* itself, or is changed by someone.
ComesBack ==
    (part = "token" /\ Token!Abandoned) ~> (part = "token" /\ ~Token!Abandoned)
=============================================================================
