----------------------------- MODULE AtMostOnce -----------------------------
(***************************************************************************)
(* What addonDeliveries.js promises an addon of the requests it accepts: a *)
(* reward reaches the player at most once, an outcome once told is final,  *)
(* and "delivered" is told of rewards that have arrived only.              *)
(***************************************************************************)
EXTENDS Naturals

CONSTANT Requests

VARIABLES
    told,   \* request -> what its addon can learn of it
    grants  \* request -> how often its reward has reached the player

Init ==
    /\ told = [r \in Requests |-> "none"]
    /\ grants = [r \in Requests |-> 0]

Accept(r) ==
    /\ told[r] = "none"
    /\ told' = [told EXCEPT ![r] = "open"]
    /\ grants' = [grants EXCEPT ![r] = 0]

Grant(r) ==
    /\ told[r] = "open" /\ grants[r] = 0
    /\ grants' = [grants EXCEPT ![r] = 1]
    /\ UNCHANGED told

Conclude(r, outcome) ==
    /\ told[r] = "open"
    /\ outcome = "delivered" => grants[r] = 1
    /\ told' = [told EXCEPT ![r] = outcome]
    /\ UNCHANGED grants

\* The addon is uninstalled, its requests with it; a set concluded together is
\* the first tick after a restart, which settles all that was interrupted.
Forget(R) ==
    /\ told' = [r \in Requests |-> IF r \in R THEN "none" ELSE told[r]]
    /\ UNCHANGED grants

GiveUp(R) ==
    /\ \A r \in R : told[r] = "open"
    /\ told' = [r \in Requests |-> IF r \in R THEN "uncertain" ELSE told[r]]
    /\ UNCHANGED grants

Next ==
    \/ \E r \in Requests : \/ Accept(r) \/ Grant(r)
                           \/ \E o \in {"delivered", "failed"} : Conclude(r, o)
    \/ \E R \in SUBSET Requests : Forget(R) \/ GiveUp(R)

Spec == Init /\ [][Next]_<<told, grants>>
=============================================================================
