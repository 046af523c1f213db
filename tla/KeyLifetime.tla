---------------------------- MODULE KeyLifetime ----------------------------
(***************************************************************************)
(* What the OSK deadman promises the sink (spec 4.6): while the process    *)
(* runs, a key installed as Fresh is never left in the sink for more than  *)
(* EraseAfter time units; it is then replaced (a new Fresh key) or erased  *)
(* (overwritten by a random Stale key).  Once the process is gone nothing  *)
(* more is promised.  Time is discrete: `age` counts the ticks since the   *)
(* sink was last written, saturating at EraseAfter + 1.                    *)
(***************************************************************************)
EXTENDS Naturals

CONSTANT EraseAfter

VARIABLES
    reason,     \* SetOskReason of the key the sink holds
    age,        \* ticks since the sink was last written
    running     \* the process that owns the sink is still running

vars == <<reason, age, running>>

Reason == {"Fresh", "Stale"}

Init ==
    /\ reason \in Reason
    /\ age = 0
    /\ running = TRUE

Install ==
    /\ running
    /\ reason' = "Fresh"
    /\ age' = 0
    /\ UNCHANGED running

Erase ==
    /\ running
    /\ reason' = "Stale"
    /\ age' = 0
    /\ UNCHANGED running

\* Time may pass only as long as a running process's Fresh key is in date.
Tick ==
    /\ running /\ reason = "Fresh" => age < EraseAfter
    /\ age' = IF age > EraseAfter THEN age ELSE age + 1
    /\ UNCHANGED <<reason, running>>

Halt ==
    /\ running
    /\ running' = FALSE
    /\ UNCHANGED <<reason, age>>

Next == Install \/ Erase \/ Tick \/ Halt

Spec == Init /\ [][Next]_vars

=============================================================================
