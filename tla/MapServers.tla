------------------------------ MODULE MapServers ------------------------------
(***************************************************************************)
(* spawn-server.sh and despawn-server.sh for the partitions of one map,    *)
(* run side by side by the autoscaler's loops, the reconciler's jobs and   *)
(* the console.  A spawn holds the lock of its partition, a port is picked *)
(* and reserved under a lock of all scripts, and the server that reports   *)
(* from that port is bound to the partition; a despawn takes neither the   *)
(* partition's lock nor a second look.  The two ports of a server are one. *)
(***************************************************************************)
EXTENDS Naturals, FiniteSetsExt, TLC

CONSTANTS
    Parts,      \* partitions of the map
    NoPart,     \* no partition
    Jobs,       \* scripts that can be running at once
    Ports,      \* the range the ports are picked from
    MaxServers, \* bound: containers that are started
    MaxMishaps  \* bound: scripts that fail or are killed

ASSUME PartAssumption == NoPart \notin Parts
ASSUME PortAssumption == Ports \subseteq Nat \ {0}
ASSUME BoundAssumption == MaxServers \in Nat /\ MaxMishaps \in Nat

VARIABLES
    box,      \* docker: partition -> the server its container runs, or NoServer
    origin,   \* docker: server -> the partition and the port it was started with
    alive,    \* farm_state: servers that are alive
    bound,    \* world_partition: partition -> server_id, or NoServer
    reserved, \* spawn-port-reservations.tsv: partition -> port, or NoPort
    held,     \* partitions whose lock a publisher has inherited from its spawn
    job,      \* script -> where it is, and what it remembers
    lost,     \* history: servers whose reservation was given up while they ran
    dropped,  \* history: spawns whose reservation was given up since they made it
    astray,   \* history: partitions that may have come to a wrong binding
    budget    \* [servers, mishaps] so far

database == <<alive, bound>>
ghosts == <<lost, dropped, astray>>
vars == <<box, origin, database, reserved, held, job, ghosts, budget>>

NoServer == 0
NoPort == 0
Servers == 1..MaxServers
Idle == [pc |-> "idle", part |-> NoPart, seen |-> NoServer, port |-> NoPort, copy |-> {}]

Init ==
    /\ box = [p \in Parts |-> NoServer]
    /\ origin = [n \in Servers |-> [part |-> NoPart, port |-> NoPort]]
    /\ alive = {}
    /\ bound = [p \in Parts |-> NoServer]
    /\ reserved = [p \in Parts |-> NoPort]
    /\ held = {}
    /\ job = [j \in Jobs |-> Idle]
    /\ lost = {} /\ dropped = {} /\ astray = {}
    /\ budget = [servers |-> 0, mishaps |-> 0]

Spend(what, bnd) ==
    /\ budget[what] < bnd
    /\ budget' = [budget EXCEPT ![what] = budget[what] + 1]

Goes(j, pc) == job' = [job EXCEPT ![j] = [job[j] EXCEPT !.pc = pc]]
Exits(j) == job' = [job EXCEPT ![j] = Idle]

At(pcs) == {j \in Jobs : job[j].pc \in pcs}
\* Faulty: the lock is given up when the port file is done with.
LockedUntilReserved(p) == p \in held \/ \E j \in At({"reserve"}) : job[j].part = p

\* flock 7: a spawn's own, and then that of the publisher it leaves behind.
Locked(p) == p \in held \/ \E j \in At({"reserve", "run", "bind", "fail"}) : job[j].part = p
\* A despawn keeps the lock of the port file until it exits.
PortFileFree == At({"clean"}) = {}

Running(n) == \E p \in Parts : box[p] = n

\* The server of p, if it runs, and the spawns of p that have made a reservation: what a
\* reservation of p is for.
ServerOf(p) == {box[p]} \ {NoServer}
SpawnsOf(p) == {j \in At({"run", "bind"}) : job[j].part = p}

PartsOf(n) == {p \in Parts : n # NoServer /\ bound[p] = n}

-----------------------------------------------------------------------------
(* spawn-server.sh *)

\* The row of the partition, asked for by its number or as the first of its map.
SpawnStarts(j, p) ==
    /\ job[j].pc = "idle"
    /\ job' = [job EXCEPT ![j] = [Idle EXCEPT !.pc = "lock", !.part = p, !.seen = bound[p]]]
    /\ UNCHANGED <<box, origin, database, reserved, held, ghosts, budget>>

\* "Spawn already in progress", "already assigned"; or the row of a server that is not
\* alive is cleared (clear_dead_partition_assignment).
SpawnLocks(j) ==
    LET p == job[j].part
        n == job[j].seen
    IN
    /\ job[j].pc = "lock"
    /\ IF Locked(p) \/ n \in alive
       THEN Exits(j) /\ UNCHANGED <<database, astray>>
       ELSE /\ Goes(j, "reserve")
            /\ bound' = [bound EXCEPT ![p] = IF bound[p] = n THEN NoServer ELSE bound[p]]
            /\ astray' = IF bound'[p] = NoServer THEN astray \ {p} ELSE astray \cup {p}
            /\ UNCHANGED alive
    /\ UNCHANGED <<box, origin, reserved, held, lost, dropped, budget>>

\* Faulty: what does not report is dropped.
KeptReported == [p \in Parts |-> IF box[p] \in alive THEN reserved[p] ELSE NoPort]

\* cleanup_port_reservations: what has no container is dropped.
Kept == [p \in Parts |-> IF box[p] = NoServer THEN NoPort ELSE reserved[p]]

\* port_is_free: no live row, no reservation and no socket has it.
Free(file, open) ==
    {q \in Ports : (\A p \in Parts : file[p] # q) /\ \A n \in alive \cup open : origin[n].port # q}

\* One section under the lock of the port file: clean up, pick, reserve.  A server that
\* has not reported yet may have its socket open.
SpawnReserves(j) ==
    LET p == job[j].part
        file == [Kept EXCEPT ![p] = NoPort]
    IN
    /\ job[j].pc = "reserve" /\ PortFileFree
    /\ \E open \in SUBSET {n \in Servers : Running(n) /\ n \notin alive} :
        IF Free(file, open) = {}
        THEN reserved' = file /\ Exits(j)
        ELSE /\ reserved' = [file EXCEPT ![p] = Min(Free(file, open))]
             /\ job' = [job EXCEPT ![j] = [job[j] EXCEPT !.pc = "run", !.port = reserved'[p]]]
    /\ lost' = lost \cup ServerOf(p)
    /\ dropped' = (dropped \ {j}) \cup UNION {SpawnsOf(r) : r \in {q \in Parts : box[q] = NoServer}}
    /\ UNCHANGED <<box, origin, database, held, astray, budget>>

\* remove_existing_game_container and docker run.
SpawnRuns(j) ==
    LET p == job[j].part
        n == budget.servers + 1
    IN
    /\ job[j].pc = "run"
    /\ Spend("servers", MaxServers)
    /\ box' = [box EXCEPT ![p] = n]
    /\ origin' = [origin EXCEPT ![n] = [part |-> p, port |-> job[j].port]]
    /\ Goes(j, "bind")
    /\ lost' = IF j \in dropped THEN lost \cup {n} ELSE lost
    /\ UNCHANGED <<database, reserved, held, dropped, astray>>

\* bind_partition_to_live_server: by port, unless the partition or the server is taken.
SpawnBinds(j) ==
    LET p == job[j].part IN
    /\ job[j].pc = "bind"
    /\ \E n \in alive :
        /\ origin[n].port = job[j].port
        /\ bound[p] \in {NoServer, n} /\ \A r \in Parts \ {p} : bound[r] # n
        /\ bound' = [bound EXCEPT ![p] = n]
        /\ astray' = IF n = box[p] \/ (Running(n) /\ n \notin lost /\ j \notin dropped)
                     THEN astray ELSE astray \cup {p}
    /\ Exits(j) /\ held' = held \cup {p}
    /\ UNCHANGED <<box, origin, alive, reserved, lost, dropped, budget>>

\* Thirty seconds later: the script ends well, bound or not, and leaves a publisher.
SpawnEnds(j) ==
    /\ job[j].pc = "bind"
    /\ Exits(j) /\ held' = held \cup {job[j].part}
    /\ UNCHANGED <<box, origin, database, reserved, ghosts, budget>>

\* The publisher has seen the map ready, or has tried often enough.
PublisherEnds(p) ==
    /\ p \in held /\ held' = held \ {p}
    /\ UNCHANGED <<box, origin, database, reserved, job, ghosts, budget>>

\* set -e, or the timeout of the reconciler: spawn_cleanup, not under the lock.
SpawnFails(j) ==
    /\ job[j].pc \in {"run", "bind"}
    /\ Spend("mishaps", MaxMishaps)
    /\ job' = [job EXCEPT ![j] = [job[j] EXCEPT !.pc = "fail",
                  !.copy = {<<p, reserved[p]>> : p \in Parts \ {job[j].part}}]]
    /\ UNCHANGED <<box, origin, database, reserved, held, ghosts>>

SpawnCleansUp(j) ==
    LET p == job[j].part
        Copied(r) == IF r = p THEN NoPort ELSE CHOOSE q \in Ports \cup {NoPort} : <<r, q>> \in job[j].copy
    IN
    /\ job[j].pc = "fail"
    /\ reserved' = [r \in Parts |-> Copied(r)]
    /\ LET undone == {r \in Parts : reserved[r] # Copied(r)} IN
       /\ lost' = lost \cup UNION {ServerOf(r) : r \in undone}
       /\ dropped' = dropped \cup UNION {SpawnsOf(r) : r \in undone}
    /\ Exits(j)
    /\ UNCHANGED <<box, origin, database, held, astray, budget>>

-----------------------------------------------------------------------------
(* despawn-server.sh *)

DespawnStarts(j, p) ==
    /\ job[j].pc = "idle"
    /\ job' = [job EXCEPT ![j] = [Idle EXCEPT !.pc = "remove", !.part = p, !.seen = bound[p]]]
    /\ UNCHANGED <<box, origin, database, reserved, held, ghosts, budget>>

DespawnRemoves(j) ==
    LET p == job[j].part IN
    /\ job[j].pc = "remove"
    /\ box' = [box EXCEPT ![p] = NoServer]
    /\ astray' = IF bound[p] \in {NoServer, job[j].seen} THEN astray ELSE astray \cup {p}
    /\ Goes(j, "release")
    /\ UNCHANGED <<origin, database, reserved, held, lost, dropped, budget>>

DespawnReleases(j) ==
    LET p == job[j].part IN
    /\ job[j].pc = "release" /\ PortFileFree
    /\ reserved' = [reserved EXCEPT ![p] = NoPort]
    /\ lost' = lost \cup ServerOf(p)
    /\ dropped' = dropped \cup SpawnsOf(p)
    /\ Goes(j, "clean")
    /\ UNCHANGED <<box, origin, database, held, astray, budget>>

\* The rows of the server it saw, and only those; what is known against a binding goes
\* with it.
DespawnCleans(j) ==
    LET n == job[j].seen IN
    /\ job[j].pc = "clean"
    /\ bound' = [p \in Parts |-> IF p \in PartsOf(n) THEN NoServer ELSE bound[p]]
    /\ astray' = astray \ PartsOf(n)
    /\ alive' = alive \ {n}
    /\ Exits(j)
    /\ UNCHANGED <<box, origin, reserved, held, lost, dropped, budget>>

-----------------------------------------------------------------------------
(* The reconciler, and the world *)

\* Faulty: a server that is bound already is not left out.
AdoptsBound(p) ==
    /\ box[p] # NoServer /\ bound[p] = NoServer
    /\ \E n \in alive :
        /\ alive = {n}
        /\ bound' = [bound EXCEPT ![p] = n]
        /\ astray' = IF box[p] = n /\ ~Locked(p) THEN astray ELSE astray \cup {p}
    /\ UNCHANGED <<box, origin, alive, reserved, held, job, lost, dropped, budget>>

\* adopt_live_unassigned_server: the only live server of the map that is not bound is
\* taken for that of a partition whose container runs.
Adopts(p) ==
    LET free == {n \in alive : PartsOf(n) = {}} IN
    /\ box[p] # NoServer /\ bound[p] = NoServer
    /\ \E n \in free :
        /\ free = {n}
        /\ bound' = [bound EXCEPT ![p] = n]
        /\ astray' = IF box[p] = n /\ ~Locked(p) THEN astray ELSE astray \cup {p}
    /\ UNCHANGED <<box, origin, alive, reserved, held, job, lost, dropped, budget>>

\* A script dies with the container it runs in.
Killed(j) ==
    /\ job[j].pc # "idle"
    /\ Spend("mishaps", MaxMishaps)
    /\ astray' = astray \cup (IF job[j].pc \in {"release", "clean"} THEN PartsOf(job[j].seen) ELSE {})
    /\ Exits(j)
    /\ UNCHANGED <<box, origin, database, reserved, held, lost, dropped>>

\* A game server reports to the database, and one that is gone is marked in time.
Reports(n) ==
    /\ Running(n) /\ n \notin alive
    /\ alive' = alive \cup {n}
    /\ UNCHANGED <<box, origin, bound, reserved, held, job, ghosts, budget>>

Expires(n) ==
    /\ ~Running(n) /\ n \in alive
    /\ alive' = alive \ {n}
    /\ UNCHANGED <<box, origin, bound, reserved, held, job, ghosts, budget>>

SpawnGoesOn(j) ==
    \/ SpawnLocks(j) \/ SpawnReserves(j) \/ SpawnRuns(j) \/ SpawnBinds(j) \/ SpawnEnds(j)
    \/ SpawnFails(j) \/ SpawnCleansUp(j)

DespawnGoesOn(j) == DespawnRemoves(j) \/ DespawnReleases(j) \/ DespawnCleans(j)

Next ==
    \/ \E j \in Jobs : \/ \E p \in Parts : SpawnStarts(j, p) \/ DespawnStarts(j, p)
                        \/ SpawnGoesOn(j) \/ DespawnGoesOn(j) \/ Killed(j)
    \/ \E p \in Parts : PublisherEnds(p) \/ Adopts(p)
    \/ \E n \in Servers : Reports(n) \/ Expires(n)

Spec == Init /\ [][Next]_vars

Alike == Permutations(Jobs) \cup Permutations(Parts)

-----------------------------------------------------------------------------
(* Properties *)

TypeOK ==
    /\ box \in [Parts -> Servers \cup {NoServer}] /\ bound \in [Parts -> Servers \cup {NoServer}]
    /\ alive \subseteq Servers
    /\ reserved \in [Parts -> Ports \cup {NoPort}] /\ held \subseteq Parts
    /\ \A j \in Jobs : job[j].pc \in {"idle", "lock", "reserve", "run", "bind", "fail",
                                       "remove", "release", "clean"}
    /\ lost \subseteq Servers /\ dropped \subseteq Jobs /\ \A p \in astray : bound[p] # NoServer
    /\ \A p \in Parts : box[p] # NoServer => origin[box[p]].part = p /\ origin[box[p]].port \in Ports

\* Two servers have the same port only if the reservation of one was given up: by another
\* spawn's clean-up before its container existed, by the clean-up of a spawn that failed (its
\* own reservation, or one made since that script read the file), by a despawn, or by a new
\* spawn of its partition while its container still ran.
PortsDistinct ==
    \A p, r \in Parts :
        p # r /\ box[p] # NoServer /\ box[r] # NoServer /\ origin[box[p]].port = origin[box[r]].port
            => box[p] \in lost \/ box[r] \in lost

\* The server a partition is bound to runs in its container, or is being despawned.  The
\* exceptions: a despawn overlapped the spawn that bound it, or was killed; a spawn had
\* read the row before the binding; the reconciler adopted another partition's server, or
\* one whose container a spawn was about to replace; a port had been given twice.
BindingsLive ==
    \A p \in Parts :
        bound[p] # NoServer /\ box[p] # bound[p]
            => \/ p \in astray
               \/ \E j \in At({"release", "clean"}) : job[j].seen = bound[p]

\* A server is bound to one partition.
BoundOnce == \A p, r \in Parts : p # r /\ bound[p] # NoServer => bound[p] # bound[r]
=============================================================================
