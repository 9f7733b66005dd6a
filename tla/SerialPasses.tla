---------------------------- MODULE SerialPasses ----------------------------
(***************************************************************************)
(* What createSingleFlight promises of the passes it makes: they run one   *)
(* at a time, each at most once, in the order they were asked for.         *)
(***************************************************************************)
EXTENDS Naturals

CONSTANT Passes  \* numbered in the order they are asked for

VARIABLES
    running,  \* the passes under way
    ended     \* the passes that are over

Init == running = {} /\ ended = {}

Begin(p) ==
    /\ running = {} /\ p \notin ended
    /\ \A q \in Passes : q < p => q \in ended
    /\ running' = {p} /\ UNCHANGED ended

End(p) ==
    /\ p \in running
    /\ running' = {} /\ ended' = ended \cup {p}

Next == \E p \in Passes : Begin(p) \/ End(p)

Spec == Init /\ [][Next]_<<running, ended>>
=============================================================================
