----------------------------- MODULE WriteWindow -----------------------------
(***************************************************************************)
(* When a write to the rows of a map is safe.  A running map server saves  *)
(* its own copy of its partition over whatever the console wrote, so the   *)
(* console writes only to a partition that no server simulates.  What it   *)
(* can see is whether the partition's server is connected to PostgreSQL    *)
(* and whether it still has a server assigned; a disconnection is trusted  *)
(* when it has lasted the dwell.                                           *)
(*                                                                         *)
(* One unit of the clock is at least the longest time a running server     *)
(* takes to reconnect.                                                     *)
(***************************************************************************)
EXTENDS Naturals

CONSTANTS
    Partitions,  \* the rows of world_partition
    Nowhere,     \* partition id 0: not resolved, or on no map
    Dwell,       \* refillDownDwellMs
    MaxClock,    \* bound: how far the clock runs
    MaxOutages   \* bound: stops of servers, and connections dropped

ASSUME NowhereAssumption == Nowhere \notin Partitions
ASSUME DwellAssumption == Dwell \in Nat \ {0}
ASSUME WindowBoundAssumption == MaxClock \in Nat /\ MaxOutages \in Nat

VARIABLES
    clock,     \* Date.now()
    server,    \* of a partition: live (connected), gap (running, its connection
               \* lost), down, booting (nothing loaded yet, not connected)
    assigned,  \* the partitions with a server_id
    since,     \* partitionDisconnectedSince, in the console's memory
    outages

window == <<clock, server, assigned, since, outages>>

Connected(p) == server[p] = "live"
Loaded(p) == server[p] \in {"live", "gap"}

WindowInit ==
    /\ clock = 0 /\ outages = 0
    /\ server = [p \in Partitions |-> "live"]
    /\ assigned = Partitions
    /\ since = [p \in {} |-> 0]

-----------------------------------------------------------------------------
(* observeRefillPartitions and partitionWriteSafe *)

SinceAfter ==
    [p \in {q \in assigned : ~Connected(q)} |->
        IF p \in DOMAIN since THEN since[p] ELSE clock]

\* Every observation moves the dwell timers.
Observe == since' = SinceAfter

\* Disconnected for the dwell, as far as the timers know.
Dwelt(p) == /\ p \in assigned /\ ~Connected(p)
            /\ clock - SinceAfter[p] >= Dwell

Released(p) == p \notin assigned /\ ~Connected(p)

\* trusted: partitions a restart task has just positively stopped.
WriteSafe(p, trusted) ==
    p # Nowhere => \/ Released(p)
                   \/ Dwelt(p)
                   \/ ~Connected(p) /\ p \in trusted

-----------------------------------------------------------------------------
(* The map servers (external) *)

Stopped(S) ==
    server' = [p \in Partitions |-> IF p \in S THEN "down" ELSE server[p]]

\* The scheduler, the autoscaler or an operator's shell stops a server; a despawn
\* releases its server_id, a container restart does not.
ServerStops(p) ==
    /\ outages < MaxOutages /\ outages' = outages + 1
    /\ server[p] # "down" /\ Stopped({p})
    /\ assigned' \in {assigned, assigned \ {p}}
    /\ UNCHANGED <<clock, since>>

ServerBoots(p) ==
    /\ server[p] = "down"
    /\ server' = [server EXCEPT ![p] = "booting"]
    /\ assigned' = assigned \cup {p}
    /\ UNCHANGED <<clock, since, outages>>

ServerConnects(p) ==
    /\ server[p] \in {"booting", "gap"}
    /\ server' = [server EXCEPT ![p] = "live"]
    /\ UNCHANGED <<clock, assigned, since, outages>>

\* A PostgreSQL restart, or a network fault, drops the connection.
ConnectionDrops(p) ==
    /\ outages < MaxOutages /\ outages' = outages + 1
    /\ Connected(p)
    /\ server' = [server EXCEPT ![p] = "gap"]
    /\ UNCHANGED <<clock, assigned, since>>

\* A gap is over within a unit of the clock.
TimePasses ==
    /\ clock < MaxClock /\ \A p \in Partitions : server[p] # "gap"
    /\ clock' = clock + 1
    /\ UNCHANGED <<server, assigned, since, outages>>

World ==
    \/ \E p \in Partitions : \/ ServerStops(p) \/ ServerBoots(p)
                             \/ ServerConnects(p) \/ ConnectionDrops(p)
    \/ TimePasses

=============================================================================
