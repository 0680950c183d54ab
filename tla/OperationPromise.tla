-------------------------- MODULE OperationPromise --------------------------
(***************************************************************************)
(* What the operations of ExternalOperation promise, without rows, locks,  *)
(* processes or clocks: an operation has one executor at a time, is        *)
(* carried out only while it has one, not again while that is recent, and  *)
(* never again once it is settled; it is settled only after it was carried *)
(* out.  The promise has one gap: an executor may take what it carried out *)
(* for refused, and then the operation can be carried out again at once.   *)
(***************************************************************************)
CONSTANTS Operation, Executor

VARIABLES
    executing,  \* who executes each operation
    carried,    \* operations carried out at least once
    settled,    \* operations known to be carried out
    recent      \* operations carried out a short time ago, and not disowned

vars == <<executing, carried, settled, recent>>

Init ==
    /\ executing = [o \in Operation |-> {}]
    /\ carried = {} /\ settled = {} /\ recent = {}

\* An operation gets its only executor.
Claim(o, e) ==
    /\ executing[o] = {}
    /\ o \notin settled \union recent
    /\ executing' = [executing EXCEPT ![o] = {e}]
    /\ UNCHANGED <<carried, settled, recent>>

\* It is carried out.
Carry(o) ==
    /\ executing[o] # {}
    /\ o \notin settled \union recent
    /\ carried' = carried \union {o}
    /\ recent' = recent \union {o}
    /\ UNCHANGED <<executing, settled>>

\* Its executor ends and knows that it was carried out.
Settle(o) ==
    /\ executing[o] # {}
    /\ o \in carried
    /\ executing' = [executing EXCEPT ![o] = {}]
    /\ settled' = settled \union {o}
    /\ UNCHANGED <<carried, recent>>

\* Its executor is told that it was refused, although it was carried out.
Disown(o) ==
    /\ executing[o] # {}
    /\ o \in carried
    /\ recent' = recent \ {o}
    /\ UNCHANGED <<executing, carried, settled>>

\* Executors end without knowing it, each at its own or all with a process.
Release(E) ==
    /\ executing' = [o \in Operation |-> executing[o] \ E]
    /\ UNCHANGED <<carried, settled, recent>>

\* Time passes.
Forget ==
    /\ recent' \subseteq recent
    /\ UNCHANGED <<executing, carried, settled>>

Next ==
    \/ \E o \in Operation : Carry(o) \/ Settle(o) \/ Disown(o)
                              \/ \E e \in Executor : Claim(o, e)
    \/ \E E \in SUBSET Executor : Release(E)
    \/ Forget

Spec == Init /\ [][Next]_vars
=============================================================================
