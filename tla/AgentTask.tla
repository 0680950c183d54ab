------------------------------ MODULE AgentTask ------------------------------
(***************************************************************************)
(* Tasks of the central agent: a request creates a task, runs its plan and *)
(* answers with the finished task (POST /api/agent/tasks, AgentOrchestra-  *)
(* tor.run).  A request whose idempotency key a task on the list has is    *)
(* answered with that task, finished or not.                               *)
(*                                                                         *)
(* Of a plan one tool is modelled that has an effect (WRITE, SENSITIVE or  *)
(* EXTERNAL_ACTION), which is tried once.  A tool that takes too long is   *)
(* given up and goes on by itself.  Reading tools, gates and the texts of  *)
(* results are left out, and so is the age of 24 hours after which a key   *)
(* counts no more.  Tasks without a key are those of replay.               *)
(***************************************************************************)
EXTENDS Naturals, FiniteSets, Sequences, SequencesExt

CONSTANTS
    Key,          \* idempotency keys
    Slot,         \* requests in progress at once
    Capacity,     \* tasks on the list (500)
    MaxTask,      \* bound on the tasks created
    MaxRestarts   \* bound on the restarts

Task   == 1 .. MaxTask
Status == {"executing", "waiting", "completed", "failed"}

VARIABLES
    order,      \* the list of tasks, oldest first
    record,     \* the tasks ever created: key and status
    saved,      \* what the store has of both
    slot,       \* the task each request runs
    stray,      \* tasks whose tool goes on after it was given up
    effects,    \* how often the tool has done its work for a key
    lost,       \* keys whose task the list no longer has
    restarts

vars == <<order, record, saved, slot, stray, effects, lost, restarts>>

Record == [key : SUBSET Key, status : Status]
Lists  == UNION {[1 .. n -> Task] : n \in 0 .. Capacity}

TypeOK ==
    /\ order \in Lists
    /\ record \in Seq(Record) /\ Len(record) <= MaxTask
    /\ saved \in [order : Lists, record : Seq(Record)]
    /\ slot \in [Slot -> SUBSET Task] /\ stray \subseteq Task
    /\ effects \in [Key -> 0 .. MaxTask]
    /\ lost \subseteq Key /\ restarts \in 0 .. MaxRestarts

Init ==
    /\ order = << >> /\ record = << >>
    /\ saved = [order |-> << >>, record |-> << >>]
    /\ slot = [s \in Slot |-> {}] /\ stray = {}
    /\ effects = [k \in Key |-> 0]
    /\ lost = {} /\ restarts = 0

-----------------------------------------------------------------------------

\* The list keeps the newest tasks, whatever their state.
Listed(t) ==
    LET longer == Append(order, t)
    IN  IF Len(longer) <= Capacity THEN longer ELSE Tail(longer)

Dropped(list) == {t \in ToSet(order) : t \notin ToSet(list)}
KeysOf(tasks) == UNION {record[t].key : t \in tasks}

\* createTask, and run up to its first await.
Create(s, key) ==
    /\ slot[s] = {} /\ Len(record) < MaxTask
    /\ LET t == Len(record) + 1
       IN  /\ record' = Append(record, [key |-> key, status |-> "executing"])
           /\ order' = Listed(t)
           /\ slot' = [slot EXCEPT ![s] = {t}]
    /\ lost' = lost \union KeysOf(Dropped(order'))
    /\ UNCHANGED <<saved, stray, effects, restarts>>

\* findIdempotent finds finished tasks only.
FoundFinished(k) ==
    \E t \in ToSet(order) : k \in record[t].key /\ record[t].status # "executing"

\* findIdempotent.
Found(k) == \E t \in ToSet(order) : k \in record[t].key

Post(s, k) == ~Found(k) /\ Create(s, {k})

\* A replay is a new task, without a key, for a task on the list.
Replay(s) == order # << >> /\ Create(s, {})

Done(t) == effects' = [k \in Key |-> IF k \in record[t].key THEN effects[k] + 1 ELSE effects[k]]

Ends(s, status) ==
    /\ record' = [record EXCEPT ![CHOOSE t \in slot[s] : TRUE].status = status]
    /\ slot' = [slot EXCEPT ![s] = {}]
    /\ UNCHANGED <<order, saved, lost, restarts>>

\* The tool returns, or throws, perhaps after its work; a plan that needs approval
\* then waits.
ToolReturns(s) ==
    \E t \in slot[s] :
        \/ Ends(s, "completed") /\ Done(t) /\ UNCHANGED stray
        \/ Ends(s, "waiting") /\ Done(t) /\ UNCHANGED stray
        \/ Ends(s, "failed") /\ (Done(t) \/ UNCHANGED effects) /\ UNCHANGED stray

\* withTimeout gives the tool up, and the task has failed; the tool does not know.
ToolTimesOut(s) ==
    \E t \in slot[s] : Ends(s, "failed") /\ stray' = stray \union {t} /\ UNCHANGED effects

StrayEnds(t) ==
    /\ t \in stray /\ stray' = stray \ {t}
    /\ Done(t) \/ UNCHANGED effects
    /\ UNCHANGED <<order, record, saved, slot, lost, restarts>>

SaveTasks ==
    /\ saved' = [order |-> order, record |-> record]
    /\ UNCHANGED <<order, record, slot, stray, effects, lost, restarts>>

\* restore.  What a tool had begun may have been done; a task keeps the status it was
\* saved with.
Restart ==
    /\ restarts < MaxRestarts /\ restarts' = restarts + 1
    /\ \E done \in SUBSET ((UNION {slot[s] : s \in Slot}) \union stray) :
          effects' = [k \in Key |->
                        effects[k] + Cardinality({t \in done : k \in record[t].key})]
    /\ order' = saved.order
    /\ record' = [t \in DOMAIN record |->
                    IF t \in DOMAIN saved.record THEN saved.record[t] ELSE record[t]]
    /\ lost' = lost \union KeysOf({t \in DOMAIN record : t \notin ToSet(saved.order)})
    /\ slot' = [s \in Slot |-> {}] /\ stray' = {}
    /\ UNCHANGED saved

Next ==
    \/ \E s \in Slot :
          \/ \E k \in Key : Post(s, k)
          \/ Replay(s) \/ ToolReturns(s) \/ ToolTimesOut(s)
    \/ \E t \in Task : StrayEnds(t)
    \/ SaveTasks \/ Restart

Spec == Init /\ [][Next]_vars

-----------------------------------------------------------------------------
(* Properties.                                                             *)

\* The work of a key is done a second time only if its task had left the list: pushed
\* off by newer ones, or not stored before a restart.  A request that comes while the
\* first one runs, after it was given up, or after it failed, does nothing again
\* (findIdempotent, run).
SecondEffectNeedsLoss == \A k \in Key : effects[k] > 1 => k \in lost

\* A task that ends as failed has had no effect, as a reader of its record would think.
\* It does not hold: the tool of a task that timed out goes on (withTimeout).
FailedIsUndone ==
    \A t \in DOMAIN record :
        record[t].status = "failed" => \A k \in record[t].key \ lost : effects[k] = 0

\* A task comes to an end (run: every failure is recorded as failed or blocked).  It
\* does not hold: a task that was saved while it ran is executing for ever after a
\* restart, and its key is answered with it.
TaskEnds ==
    \A t \in Task :
        (t \in ToSet(order) /\ record[t].status = "executing")
            ~> (t \notin ToSet(order) \/ record[t].status # "executing")

\* Requests go on: a tool returns or is given up.
Fairness == \A s \in Slot : WF_vars(ToolReturns(s) \/ ToolTimesOut(s))
FairSpec == Spec /\ Fairness
=============================================================================
