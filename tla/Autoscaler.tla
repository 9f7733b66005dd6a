------------------------------ MODULE Autoscaler ------------------------------
(***************************************************************************)
(* autoscaler.sh for one map that admits one party per dimension and is in *)
(* Dynamic mode: the follower that spawns for what the Director's log asks *)
(* for and the scan that despawns what is idle, two processes that share   *)
(* the demand file and the containers.  The map either requires a fresh    *)
(* process (no idle timer, only the request of a party counts) or not (the *)
(* Director's summaries of its queue count too).  Spawn and despawn are    *)
(* taken for what MapServers shows of them.                                *)
(***************************************************************************)
EXTENDS Naturals, Sequences, FiniteSetsExt

CONSTANTS
    Parties,
    Size,      \* party -> its players
    Dims,      \* dimensions the map may have
    MaxFaults  \* bound, per value of fresh: crashes, spawns that fail, despawns
               \* cut short, files written back

ASSUME SizeAssumption == Size \in [Parties -> Nat \ {0}]
ASSUME DimsAssumption == Dims \subseteq Nat \ {0} /\ IsFiniteSet(Dims)
ASSUME FaultAssumption == MaxFaults \in [BOOLEAN -> Nat]

VARIABLES
    fresh,    \* map_requires_fresh_process
    dim,      \* dimension -> none, warming (a container), up (assigned, too), dying (assigned
              \* to a server that is gone) or stale (and known to be gone)
    held,     \* dimensions whose spawn lock somebody has
    party,    \* party -> where it is, and the dimension it goes to or is in
    log,      \* Director: requests in the window that were not answered yet
    summary,  \* Director: players waiting, by the last summary in the window (0: none)
    recent,   \* the map's row of DEMAND_FILE is there and young
    follower, \* follow_director_travel_demand
    scanner,  \* scan_idle_servers
    other,    \* forget_map_demand for another map
    idle,     \* STATE_FILE: dimensions that were seen empty
    cover,    \* history: party -> what keeps the dimension it goes to, or is in, from being
              \* despawned: nothing ("none"), its demand, remembered before the scan decided
              \* ("kept") or only after that ("late"), or that a scan has "seen" it connected
    faults    \* so far

director == <<party, log, summary>>
vars == <<fresh, dim, held, director, recent, follower, scanner, other, idle, cover, faults>>

NoDim == 0
Resting == [pc |-> "idle", todo |-> <<>>, num |-> 0, dim |-> NoDim]
Asleep == [pc |-> "idle", rows |-> {}, dim |-> NoDim]

Init ==
    /\ fresh \in BOOLEAN
    /\ dim = [d \in Dims |-> "none"] /\ held = {}
    /\ party = [p \in Parties |-> [at |-> "home", dim |-> NoDim]]
    /\ log = <<>> /\ summary = 0 /\ recent = FALSE
    /\ follower = Resting /\ scanner = Asleep /\ other = "idle"
    /\ idle = {} /\ cover = [p \in Parties |-> "none"] /\ faults = 0

Fault == faults < MaxFaults[fresh] /\ faults' = faults + 1

In(states) == {p \in Parties : party[p].at \in states}
PartiesOf(d) == {p \in In({"going", "in"}) : party[p].dim = d}
Is(states) == {d \in Dims : dim[d] \in states}
Asking == In({"asked"})
Lines(rows) == {rows[i] : i \in DOMAIN rows}
Players(who) == FoldSet(LAMBDA p, sum : sum + Size[p], 0, who)

Assigned == Is({"up", "dying", "stale"})

\* The demand of the map is not remembered any more.
Forgotten == [p \in Parties |-> IF cover[p] \in {"kept", "late"} THEN "none" ELSE cover[p]]
\* The scan decides afresh: all demand that is remembered counts.
Afresh == [p \in Parties |-> IF cover[p] = "late" THEN "kept" ELSE cover[p]]

-----------------------------------------------------------------------------
(* handle_demand *)

\* Faulty: summaries are left aside for every map.
ScansRequests ==
    /\ follower.pc = "idle" /\ log # <<>>
    /\ follower' = [Resting EXCEPT !.pc = "lines", !.todo = log]
    /\ summary' = 0
    /\ UNCHANGED <<fresh, dim, held, party, log, recent, scanner, other, idle, cover, faults>>

\* scan_travel_demand: a summary is no demand for a map that requires a fresh process.
Scans ==
    /\ follower.pc = "idle"
    /\ log # <<>> \/ (summary # 0 /\ ~fresh)
    /\ follower' = [Resting EXCEPT !.pc = "lines", !.todo = log, !.num = IF fresh THEN 0 ELSE summary]
    /\ summary' = 0
    /\ UNCHANGED <<fresh, dim, held, party, log, recent, scanner, other, idle, cover, faults>>

Occupied == {d \in Is({"up"}) : \E p \in PartiesOf(d) : party[p].at = "in"}

\* Faulty: a container counts only when it is assigned.
EnoughAssigned(num) == Cardinality(Assigned) >= Min({Cardinality(Occupied) + num, Cardinality(Dims)})

\* capacity is the greater of the assigned dimensions and the containers.
Enough(num) ==
    Max({Cardinality(Assigned), Cardinality(Is({"warming", "up"}))})
        >= Min({Cardinality(Occupied) + num, Cardinality(Dims)})

Requesting == IF follower.todo = <<>> THEN {} ELSE {Head(follower.todo)}

\* The demand and the event are remembered; then there is capacity, or one server is spawned.
Answers ==
    LET num == IF Requesting = {} THEN follower.num ELSE Players(Requesting)
        left == IF Requesting = {} THEN [follower EXCEPT !.num = 0]
                                   ELSE [follower EXCEPT !.todo = Tail(follower.todo)]
    IN
    /\ follower.pc = "lines" /\ num > 0
    /\ recent' = TRUE
    /\ cover' = [p \in Parties |->
                    IF p \in Requesting \cap In({"asked", "going", "in"}) /\ cover[p] # "seen"
                    THEN IF scanner.pc = "despawn" THEN "late" ELSE "kept"
                    ELSE cover[p]]
    /\ log' = SelectSeq(log, LAMBDA p : p \notin Requesting)
    /\ follower' = IF Enough(num) THEN left ELSE [left EXCEPT !.pc = "spawn"]
    /\ UNCHANGED <<fresh, dim, held, party, summary, scanner, other, idle, faults>>

Rests ==
    /\ follower.pc = "lines" /\ follower.todo = <<>> /\ follower.num = 0
    /\ follower' = Resting
    /\ UNCHANGED <<fresh, dim, held, director, recent, scanner, other, idle, cover, faults>>

-----------------------------------------------------------------------------
(* spawn-server.sh with the name of the map, awaited *)

\* The first dimension that is not assigned, warming or not; or else the first.
Target == IF Assigned = Dims THEN Min(Dims) ELSE Min(Dims \ Assigned)

Concludes ==
    /\ follower' = [follower EXCEPT !.pc = "lines", !.dim = NoDim]
    /\ UNCHANGED <<fresh, dim, held, director, recent, scanner, other, idle, cover>>

SpawnStarts ==
    /\ follower.pc = "spawn" /\ Target \notin held /\ dim[Target] \in {"none", "warming", "stale"}
    /\ dim' = [dim EXCEPT ![Target] = "warming"]
    /\ held' = held \cup {Target}
    /\ follower' = [follower EXCEPT !.pc = "booting", !.dim = Target]
    /\ UNCHANGED <<fresh, director, recent, scanner, other, idle, cover, faults>>

\* "Spawn already in progress", "already assigned", or something fails.
SpawnFails ==
    /\ follower.pc = "spawn"
    /\ \/ (Target \in held \/ dim[Target] \in {"up", "dying"}) /\ faults' = faults
       \/ Fault
    /\ Concludes

\* Bound, or not within half a minute; the lock may be kept by the publisher.
SpawnEnds ==
    /\ follower.pc = "booting" /\ faults' = faults
    /\ Concludes

LockEnds(d) ==
    /\ d \in held /\ follower.dim # d
    /\ held' = held \ {d}
    /\ UNCHANGED <<fresh, dim, director, recent, follower, scanner, other, idle, cover, faults>>

\* The server has started: it is assigned, and ready.  Idle times are kept by server.
Reports(d) ==
    /\ dim[d] = "warming" /\ dim' = [dim EXCEPT ![d] = "up"]
    /\ idle' = idle \ {d}
    /\ UNCHANGED <<fresh, held, director, recent, follower, scanner, other, cover, faults>>

-----------------------------------------------------------------------------
(* The demand file *)

\* TRAVEL_GRACE_SECONDS have passed.
Expires ==
    /\ recent /\ recent' = FALSE /\ cover' = Forgotten
    /\ UNCHANGED <<fresh, dim, held, director, follower, scanner, other, idle, faults>>

\* forget_map_demand takes no lock: for another map it writes back the file it has read,
\* without a row of this map that was made since.  The scan of the maps that require a
\* fresh process does it.
OtherReads ==
    /\ other = "idle" /\ ~recent /\ (fresh => scanner.pc = "rows") /\ Fault
    /\ other' = "forgetting"
    /\ UNCHANGED <<fresh, dim, held, director, recent, follower, scanner, idle, cover>>

OtherWrites ==
    /\ other = "forgetting" /\ other' = "idle"
    /\ recent' = FALSE /\ cover' = Forgotten
    /\ UNCHANGED <<fresh, dim, held, director, follower, scanner, idle, faults>>

-----------------------------------------------------------------------------
(* scan_idle_servers and handle_idle_row *)

ReadsRows ==
    /\ scanner.pc = "idle" /\ Is({"up", "dying"}) # {}
    /\ scanner' = [Asleep EXCEPT !.pc = "rows",
                       !.rows = {[dim |-> d, busy |-> d \in Occupied] : d \in Is({"up", "dying"})}]
    /\ cover' = [p \in Parties |-> IF party[p].at = "in" THEN "seen" ELSE cover[p]]
    /\ UNCHANGED <<fresh, dim, held, director, recent, follower, other, idle, faults>>

Past(row) == [scanner EXCEPT !.rows = scanner.rows \ {row},
                             !.pc = IF scanner.rows = {row} THEN "idle" ELSE "rows"]

AtRow(row) == scanner.pc = "rows" /\ row \in scanner.rows /\ (fresh => other = "idle")

\* Faulty: the demand of every map is forgotten, not only of those that require a fresh
\* process.
RowBusyForgets(row) ==
    /\ AtRow(row) /\ row.busy
    /\ recent' = FALSE
    /\ cover' = IF fresh THEN Forgotten ELSE cover
    /\ idle' = idle \ {row.dim}
    /\ scanner' = Past(row)
    /\ UNCHANGED <<fresh, dim, held, director, follower, other, faults>>

\* A player is there: the demand has served its purpose where no idle time is granted.
RowBusy(row) ==
    /\ AtRow(row) /\ row.busy
    /\ recent' = (recent /\ ~fresh)
    /\ cover' = IF fresh THEN Forgotten ELSE cover
    /\ idle' = idle \ {row.dim}
    /\ scanner' = Past(row)
    /\ UNCHANGED <<fresh, dim, held, director, follower, other, faults>>

\* Recent demand; or the idle time of a map without fresh processes begins, or goes on.
RowKept(row) ==
    /\ AtRow(row) /\ ~row.busy
    /\ \/ recent /\ idle' = idle \ {row.dim}
       \/ ~recent /\ ~fresh /\ idle' = idle \cup {row.dim}
    /\ scanner' = Past(row)
    /\ UNCHANGED <<fresh, dim, held, director, recent, follower, other, cover, faults>>

\* Empty for long enough, and despawned.
RowIdle(row) ==
    /\ AtRow(row) /\ ~row.busy /\ ~recent /\ (fresh \/ row.dim \in idle)
    /\ scanner' = [Past(row) EXCEPT !.pc = "despawn", !.dim = row.dim]
    /\ UNCHANGED <<fresh, dim, held, director, recent, follower, other, idle, cover, faults>>

\* docker rm: whoever is in, or on the way, is out.
Despawns ==
    LET d == scanner.dim IN
    /\ scanner.pc = "despawn" /\ scanner' = [scanner EXCEPT !.pc = "clean"]
    /\ dim' = [dim EXCEPT ![d] = IF dim[d] = "up" THEN "dying" ELSE dim[d]]
    /\ party' = [p \in Parties |-> IF p \in PartiesOf(d) THEN [at |-> "left", dim |-> NoDim] ELSE party[p]]
    /\ cover' = [p \in Parties |-> IF p \in PartiesOf(d) THEN "none" ELSE Afresh[p]]
    /\ UNCHANGED <<fresh, held, log, summary, recent, follower, other, idle, faults>>

\* The assignment is cleaned, unless the database cannot be reached, and the idle time
\* forgotten.
Despawned ==
    LET d == scanner.dim IN
    /\ scanner.pc = "clean"
    /\ \/ dim' = [dim EXCEPT ![d] = "none"] /\ faults' = faults
       \/ dim' = dim /\ Fault
    /\ idle' = idle \ {d}
    /\ scanner' = [scanner EXCEPT !.pc = IF scanner.rows = {} THEN "idle" ELSE "rows", !.dim = NoDim]
    /\ UNCHANGED <<fresh, held, director, recent, follower, other, cover>>

-----------------------------------------------------------------------------
(* The Director, the parties and time *)

Asks(p) ==
    /\ party[p].at = "home"
    /\ party' = [party EXCEPT ![p].at = "asked"]
    /\ log' = Append(log, p)
    /\ UNCHANGED <<fresh, dim, held, summary, recent, follower, scanner, other, idle, cover, faults>>

\* "Processing travel queue", again and again.
Summarises ==
    /\ ~fresh /\ Asking # {} /\ summary # Players(Asking)
    /\ summary' = Players(Asking)
    /\ UNCHANGED <<fresh, dim, held, party, log, recent, follower, scanner, other, idle, cover, faults>>

\* A party is admitted by an empty dimension.
Allocates(p) ==
    /\ party[p].at = "asked"
    /\ \E d \in Is({"up"}) :
        /\ PartiesOf(d) = {}
        /\ party' = [party EXCEPT ![p] = [at |-> "going", dim |-> d]]
    /\ UNCHANGED <<fresh, dim, held, log, summary, recent, follower, scanner, other, idle, cover, faults>>

Connects(p) ==
    /\ party[p].at = "going" /\ party' = [party EXCEPT ![p].at = "in"]
    /\ UNCHANGED <<fresh, dim, held, log, summary, recent, follower, scanner, other, idle, cover, faults>>

Leaves(p) ==
    /\ party[p].at = "in" /\ party' = [party EXCEPT ![p] = [at |-> "left", dim |-> NoDim]]
    /\ cover' = [cover EXCEPT ![p] = "none"]
    /\ UNCHANGED <<fresh, dim, held, log, summary, recent, follower, scanner, other, idle, faults>>

\* A server that is gone has not reported for some time.
Lapses(d) ==
    /\ dim[d] = "dying" /\ dim' = [dim EXCEPT ![d] = "stale"]
    /\ UNCHANGED <<fresh, held, director, recent, follower, scanner, other, idle, cover, faults>>

\* A spawn has outlasted the window of the log: what was logged after the scan is not
\* looked at any more.
WindowPasses ==
    LET missed == Lines(log) \ Lines(follower.todo) IN
    /\ follower.pc = "booting"
    /\ missed # {} \/ summary # 0
    /\ log' = SelectSeq(log, LAMBDA p : p \notin missed) /\ summary' = 0
    /\ UNCHANGED <<fresh, dim, held, party, recent, follower, scanner, other, idle, cover, faults>>

\* The autoscaler's container stops, with all its processes; its files stay.
Crash ==
    /\ follower # Resting \/ scanner # Asleep \/ other # "idle" \/ held # {}
    /\ Fault
    /\ follower' = Resting /\ scanner' = Asleep /\ other' = "idle" /\ held' = {}
    /\ cover' = Afresh
    /\ UNCHANGED <<fresh, dim, director, recent, idle>>

Follower == Scans \/ Answers \/ Rests \/ SpawnStarts \/ SpawnFails \/ SpawnEnds
Scanner ==
    \/ ReadsRows \/ Despawns \/ Despawned
    \/ \E row \in [dim : Dims, busy : BOOLEAN] : RowBusy(row) \/ RowKept(row) \/ RowIdle(row)

Next ==
    \/ Follower \/ Scanner
    \/ Expires \/ OtherReads \/ OtherWrites \/ WindowPasses \/ Crash \/ Summarises
    \/ \E d \in Dims : LockEnds(d) \/ Reports(d) \/ Lapses(d)
    \/ \E p \in Parties : Asks(p) \/ Allocates(p) \/ Connects(p) \/ Leaves(p)

Spec == Init /\ [][Next]_vars

Fairness ==
    /\ WF_vars(Follower) /\ WF_vars(Scanner) /\ WF_vars(OtherWrites) /\ WF_vars(Summarises)
    /\ WF_vars(\E d \in Dims : LockEnds(d)) /\ WF_vars(\E d \in Dims : Reports(d) \/ Lapses(d))
    /\ WF_vars(\E p \in Parties : Connects(p))
    /\ \A p \in Parties : SF_vars(Allocates(p))

FairSpec == Spec /\ Fairness

-----------------------------------------------------------------------------
(* Properties *)

TypeOK ==
    /\ fresh \in BOOLEAN /\ dim \in [Dims -> {"none", "warming", "up", "dying", "stale"}]
    /\ held \subseteq Dims /\ idle \subseteq Dims
    /\ party \in [Parties -> [at : {"home", "asked", "going", "in", "left"}, dim : Dims \cup {NoDim}]]
    /\ Lines(log) \subseteq Parties /\ summary \in Nat
    /\ recent \in BOOLEAN /\ cover \in [Parties -> {"none", "kept", "late", "seen"}]
    /\ follower.pc \in {"idle", "lines", "spawn", "booting"}
    /\ follower.dim \in held \cup {NoDim} /\ (follower.dim # NoDim <=> follower.pc = "booting")
    /\ scanner.pc \in {"idle", "rows", "despawn", "clean"} /\ other \in {"idle", "forgetting"}

\* When the container of a dimension is removed, no party is in it, or on its way there,
\* whose demand was remembered before the scan decided to remove it or whom a scan has seen
\* connected.  The exceptions: a request that was not answered yet; a demand remembered
\* between the decision and `docker rm', which nobody looks at again; one that was given up
\* since, because the grace of two minutes ended, because another party was seen to be
\* connected (which forgets the demand of the whole map, fresh ones only), or because the
\* file was written back by somebody who had read it before.
NoneStranded ==
    [][scanner.pc = "despawn" /\ scanner'.pc = "clean" =>
         \A p \in PartiesOf(scanner.dim) : cover[p] \notin {"kept", "seen"}]_vars

\* A party that asks is admitted, or the map is full: where summaries count, that is, and
\* unless a despawn was cut short, whose server stays assigned and counts as capacity.
Served ==
    \A p \in Parties :
        party[p].at = "asked"
            ~> \/ party[p].at # "asked"
               \/ fresh
               \/ (\A d \in Dims : PartiesOf(d) # {})
               \/ Is({"stale"}) # {}

\* A server is started only if there are fewer than players who need one: those who wait,
\* are on their way or inside, and he whose request comes to be read when it is satisfied.
\* (Or the summary that was read is out of date.)
NoExcess ==
    [][follower.pc = "lines" /\ follower'.pc = "spawn" =>
         \/ Cardinality(Is({"warming", "up"})) < Players(In({"asked", "going", "in"})) + Players(Requesting \ Asking)
         \/ follower.num > Players(Asking)]_vars
=============================================================================
