----------------------------- MODULE MCAutoscaler -----------------------------
(* Instances of Autoscaler: players on their own, and faults for a map that requires a   *)
(* fresh process only (the others are checked for liveness, and are many more states).   *)
EXTENDS Autoscaler

Solo == [p \in Parties |-> 1]
FreshFaults == [f \in BOOLEAN |-> IF f THEN 2 ELSE 0]
StandardFaults == [f \in BOOLEAN |-> 1]
=============================================================================
