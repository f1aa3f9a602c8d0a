----------------------------- MODULE OnceByKey ------------------------------
(* What an idempotency key promises: the work of a key is done by one call   *)
(* at a time, is not done again once it has a final outcome, and everybody   *)
(* who is told an outcome is told the one the work has.  A kind of work that *)
(* may be given up without an outcome (Retries) can be begun again.          *)
EXTENDS Naturals

CONSTANTS
    Keys,      \* idempotency keys
    Callers,   \* whoever may be told the outcome
    KeyOf,     \* the key of each caller
    Outcomes,  \* final outcomes
    Retries    \* whether the work can be given up

VARIABLES
    work,      \* "idle", "running", or the outcome
    told       \* what each caller was told, or "nothing"

vars == <<work, told>>

Init ==
    /\ work = [k \in Keys |-> "idle"]
    /\ told = [c \in Callers |-> "nothing"]

Begin(k) ==
    /\ work[k] = "idle"
    /\ work' = [work EXCEPT ![k] = "running"]
    /\ UNCHANGED told

GiveUp(k) ==
    /\ Retries /\ work[k] = "running"
    /\ work' = [work EXCEPT ![k] = "idle"]
    /\ UNCHANGED told

End(k, o) ==
    /\ work[k] = "running"
    /\ work' = [work EXCEPT ![k] = o]
    /\ UNCHANGED told

Tell(c) ==
    /\ told[c] = "nothing" /\ work[KeyOf[c]] \in Outcomes
    /\ told' = [told EXCEPT ![c] = work[KeyOf[c]]]
    /\ UNCHANGED work

Next ==
    \/ \E k \in Keys : Begin(k) \/ GiveUp(k) \/ \E o \in Outcomes : End(k, o)
    \/ \E c \in Callers : Tell(c)

Spec == Init /\ [][Next]_vars

\* Work that has begun comes to an end.
Ends == \A k \in Keys : work[k] = "running" ~> work[k] # "running"

LiveSpec == Spec /\ Ends
=============================================================================
