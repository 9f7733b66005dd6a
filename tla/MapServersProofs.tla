--------------------------- MODULE MapServersProofs ---------------------------
(***************************************************************************)
(* Theorems about MapServers, for any number of partitions, scripts, ports *)
(* and servers: its types, that a server is bound to one partition, that   *)
(* two servers share a port only when a reservation was lost, and that a   *)
(* partition is bound to a server that is gone only in the ways listed.    *)
(***************************************************************************)
EXTENDS MapServers, WellFoundedInduction, TLAPS

-----------------------------------------------------------------------------
(* Types *)

\* The port picked is one of those that are free.
LEMMA LeastPort ==
    ASSUME NEW S \in SUBSET Nat, S # {}
    PROVE  Min(S) \in S
<1>1. \E x \in S : \A y \in S : ~(<<y, x>> \in OpToRel(<, Nat))
    BY NatLessThanWellFounded, WFMin
<1>2. PICK x \in S : \A y \in S : ~(<<y, x>> \in OpToRel(<, Nat))
    BY <1>1
<1>3. ASSUME NEW y \in S PROVE x <= y
    <2>. SUFFICES ASSUME y < x PROVE FALSE
        OBVIOUS
    <2>1. <<y, x>> \in OpToRel(<, Nat)
        BY DEF OpToRel
    <2>. QED  BY <1>2, <2>1
<1>. QED  BY <1>3 DEF Min

PickedPorts == Ports \cup {NoPort}
AnyServer == Servers \cup {NoServer}
JobRecord ==
    [pc: {"idle", "lock", "reserve", "run", "bind", "fail", "remove", "release", "clean"},
     part: Parts \cup {NoPart}, seen: AnyServer, port: PickedPorts,
     copy: SUBSET (Parts \X PickedPorts)]
Origin == [part: Parts \cup {NoPart}, port: PickedPorts]

\* A script that runs has its partition, one that starts a server its port, and one that
\* cleans up a copy of the reservations of the other partitions.
JobOK(k) ==
    /\ k.pc # "idle" => k.part \in Parts
    /\ k.pc \in {"run", "bind"} => k.port \in Ports
    /\ k.pc = "fail" => \A r \in Parts \ {k.part} : \E q \in PickedPorts : <<r, q>> \in k.copy
BoxesOK ==
    /\ box \in [Parts -> AnyServer] /\ origin \in [Servers -> Origin]
    /\ budget \in [servers: 0..MaxServers, mishaps: 0..MaxMishaps]
    /\ \A p \in Parts : /\ box[p] <= budget.servers
                        /\ box[p] # NoServer => /\ origin[box[p]].part = p
                                                /\ origin[box[p]].port \in Ports
TablesOK ==
    /\ bound \in [Parts -> AnyServer] /\ alive \subseteq Servers
    /\ astray \subseteq Parts /\ \A p \in astray : bound[p] # NoServer
FilesOK ==
    /\ reserved \in [Parts -> PickedPorts] /\ held \subseteq Parts
    /\ lost \subseteq Servers /\ dropped \subseteq Jobs
JobsOK == job \in [Jobs -> JobRecord] /\ \A j \in Jobs : JobOK(job[j])
Types == BoxesOK /\ TablesOK /\ FilesOK /\ JobsOK

LEMMA InitTypes == Init => Types
<1>. SUFFICES ASSUME Init PROVE Types
    OBVIOUS
<1>1. BoxesOK
    BY BoundAssumption DEF Init, BoxesOK, AnyServer, Origin, PickedPorts, NoServer
<1>2. TablesOK /\ FilesOK
    BY DEF Init, TablesOK, FilesOK, AnyServer, PickedPorts
<1>3. JobsOK
    BY DEF Init, JobsOK, JobRecord, JobOK, Idle, AnyServer, PickedPorts
<1>. QED  BY <1>1, <1>2, <1>3 DEF Types

\* The ways a step changes the scripts: one of them is now at k, the others are where they were.
LEMMA JobMoves ==
    ASSUME JobsOK, NEW j \in Jobs, NEW k \in JobRecord, JobOK(k), job' = [job EXCEPT ![j] = k]
    PROVE  JobsOK'
BY DEF JobsOK

LEMMA ExitOK == ASSUME JobsOK, NEW j \in Jobs, Exits(j) PROVE JobsOK'
<1>1. Idle \in JobRecord /\ JobOK(Idle)
    BY DEF Idle, JobRecord, JobOK, AnyServer, PickedPorts
<1>. QED  BY <1>1, JobMoves DEF Exits

LEMMA GoOK ==
    ASSUME JobsOK, NEW j \in Jobs, job[j].pc # "idle",
           NEW pc \in {"reserve", "release", "clean"}, Goes(j, pc)
    PROVE  JobsOK'
<1>. DEFINE k == [job[j] EXCEPT !.pc = pc]
<1>1. job[j] \in JobRecord /\ JobOK(job[j])
    BY DEF JobsOK
<1>2. k \in JobRecord /\ k.pc = pc /\ k.part = job[j].part
    BY <1>1 DEF JobRecord
<1>3. JobOK(k)
    BY <1>1, <1>2 DEF JobOK
<1>. QED  BY <1>2, <1>3, JobMoves DEF Goes

LEMMA BindOK ==
    ASSUME JobsOK, NEW j \in Jobs, job[j].pc = "run", Goes(j, "bind")
    PROVE  JobsOK'
<1>. DEFINE k == [job[j] EXCEPT !.pc = "bind"]
<1>1. job[j] \in JobRecord /\ JobOK(job[j])
    BY DEF JobsOK
<1>2. k \in JobRecord /\ k.pc = "bind" /\ k.part = job[j].part /\ k.port = job[j].port
    BY <1>1 DEF JobRecord
<1>3. JobOK(k)
    BY <1>1, <1>2 DEF JobOK
<1>. QED  BY <1>2, <1>3, JobMoves DEF Goes

LEMMA StartOK ==
    ASSUME JobsOK, TablesOK, NEW j \in Jobs, NEW p \in Parts, NEW pc \in {"lock", "remove"},
           job' = [job EXCEPT ![j] = [Idle EXCEPT !.pc = pc, !.part = p, !.seen = bound[p]]]
    PROVE  JobsOK'
<1>. DEFINE k == [Idle EXCEPT !.pc = pc, !.part = p, !.seen = bound[p]]
<1>1. k \in JobRecord /\ JobOK(k)
    BY DEF TablesOK, Idle, JobRecord, JobOK, AnyServer, PickedPorts
<1>. QED  BY <1>1, JobMoves

LEMMA PortOK ==
    ASSUME JobsOK, NEW j \in Jobs, job[j].pc = "reserve", NEW q \in Ports,
           job' = [job EXCEPT ![j] = [job[j] EXCEPT !.pc = "run", !.port = q]]
    PROVE  JobsOK'
<1>. DEFINE k == [job[j] EXCEPT !.pc = "run", !.port = q]
<1>1. job[j] \in JobRecord /\ JobOK(job[j])
    BY DEF JobsOK
<1>2. k \in JobRecord /\ k.pc = "run" /\ k.part = job[j].part /\ k.port = q
    BY <1>1 DEF JobRecord, PickedPorts
<1>3. JobOK(k)
    BY <1>1, <1>2 DEF JobOK
<1>. QED  BY <1>2, <1>3, JobMoves

LEMMA CopyOK ==
    ASSUME JobsOK, NEW j \in Jobs, NEW copy \in SUBSET (Parts \X PickedPorts), job[j].pc # "idle",
           \A r \in Parts \ {job[j].part} : \E q \in PickedPorts : <<r, q>> \in copy,
           job' = [job EXCEPT ![j] = [job[j] EXCEPT !.pc = "fail", !.copy = copy]]
    PROVE  JobsOK'
<1>1. /\ job'[j] \in JobRecord /\ job'[j].pc = "fail" /\ job'[j].part = job[j].part
      /\ job'[j].copy = copy
    BY DEF JobsOK, JobRecord
<1>2. JobOK(job'[j])
    BY <1>1 DEF JobsOK, JobOK
<1>3. \A k \in Jobs : k # j => job'[k] = job[k]
    BY DEF JobsOK
<1>4. job' \in [Jobs -> JobRecord]
    BY <1>1 DEF JobsOK
<1>. QED  BY <1>2, <1>3, <1>4 DEF JobsOK

LEMMA FailOK ==
    ASSUME JobsOK, FilesOK, NEW j \in Jobs, job[j].pc \in {"run", "bind"},
           job' = [job EXCEPT ![j] = [job[j] EXCEPT !.pc = "fail",
                      !.copy = {<<p, reserved[p]>> : p \in Parts \ {job[j].part}}]]
    PROVE  JobsOK'
<1>. DEFINE copy == {<<p, reserved[p]>> : p \in Parts \ {job[j].part}}
<1>1. copy \in SUBSET (Parts \X PickedPorts)
    BY DEF FilesOK
<1>2. \A r \in Parts \ {job[j].part} : reserved[r] \in PickedPorts /\ <<r, reserved[r]>> \in copy
    BY DEF FilesOK
<1>. QED  BY <1>1, <1>2, CopyOK

\* A mishap leaves the containers alone.
LEMMA MishapOK ==
    ASSUME BoxesOK, Spend("mishaps", MaxMishaps), UNCHANGED <<box, origin>>
    PROVE  BoxesOK'
<1>1. budget \in [servers: 0..MaxServers, mishaps: 0..MaxMishaps]
    BY DEF BoxesOK
<1>2. budget' = [budget EXCEPT !["mishaps"] = budget["mishaps"] + 1] /\ budget["mishaps"] < MaxMishaps
    BY DEF Spend
<1>3. /\ budget' \in [servers: 0..MaxServers, mishaps: 0..MaxMishaps]
      /\ budget'.servers = budget.servers
    BY <1>1, <1>2, BoundAssumption
<1>. QED  BY <1>3 DEF BoxesOK

\* Reservations are those of servers and of scripts.
LEMMA GhostsOK == BoxesOK => \A p \in Parts : ServerOf(p) \subseteq Servers /\ SpawnsOf(p) \subseteq Jobs
BY DEF BoxesOK, AnyServer, ServerOf, SpawnsOf, At

LEMMA SpawnTypes == ASSUME Types, NEW j \in Jobs, SpawnGoesOn(j) PROVE Types'
<1>. USE DEF Types
<1>1. job[j].pc # "idle" /\ job[j].part \in Parts /\ job[j].seen \in AnyServer
    BY DEF SpawnGoesOn, SpawnLocks, SpawnReserves, SpawnRuns, SpawnBinds, SpawnEnds, SpawnFails,
           SpawnCleansUp, JobsOK, JobOK, JobRecord
<1>. DEFINE p == job[j].part
<1>2. CASE SpawnLocks(j)
    <2>1. BoxesOK' /\ FilesOK'
        BY <1>2 DEF SpawnLocks, BoxesOK, FilesOK
    <2>2. CASE Exits(j) /\ UNCHANGED <<database, astray>>
        BY <2>1, <2>2, ExitOK DEF TablesOK, database
    <2>3. CASE /\ Goes(j, "reserve") /\ UNCHANGED alive
               /\ bound' = [bound EXCEPT ![p] = IF bound[p] = job[j].seen THEN NoServer ELSE bound[p]]
               /\ astray' = IF bound'[p] = NoServer THEN astray \ {p} ELSE astray \cup {p}
        <3>1. JobsOK'
            BY <1>1, <2>3, GoOK
        <3>2. bound' \in [Parts -> AnyServer]
            BY <1>1, <2>3 DEF TablesOK, AnyServer
        <3>3. \A q \in Parts : q # p => bound'[q] = bound[q]
            BY <2>3 DEF TablesOK
        <3>4. astray' \subseteq Parts /\ \A q \in astray' : bound'[q] # NoServer
            BY <1>1, <2>3, <3>3 DEF TablesOK
        <3>. QED  BY <2>1, <2>3, <3>1, <3>2, <3>4 DEF TablesOK
    <2>. QED  BY <1>2, <2>2, <2>3 DEF SpawnLocks
<1>3. CASE SpawnReserves(j)
    <2>. DEFINE file == [Kept EXCEPT ![p] = NoPort]
    <2>1. file \in [Parts -> PickedPorts]
        BY DEF Kept, FilesOK, PickedPorts
    <2>2. PICK open \in SUBSET Servers :
             IF Free(file, open) = {}
             THEN reserved' = file /\ Exits(j)
             ELSE /\ reserved' = [file EXCEPT ![p] = Min(Free(file, open))]
                  /\ job' = [job EXCEPT ![j] = [job[j] EXCEPT !.pc = "run", !.port = reserved'[p]]]
        BY <1>3 DEF SpawnReserves
    <2>3. lost' \subseteq Servers /\ dropped' \subseteq Jobs /\ held' \subseteq Parts
        BY <1>1, <1>3, GhostsOK DEF SpawnReserves, FilesOK
    <2>. HIDE DEF file
    <2>4. CASE Free(file, open) = {}
        BY <2>1, <2>2, <2>3, <2>4, <1>3, ExitOK DEF SpawnReserves, BoxesOK, TablesOK, FilesOK, database
    <2>5. CASE Free(file, open) # {}
        <3>1. Free(file, open) \in SUBSET Nat /\ Free(file, open) \subseteq Ports
            BY PortAssumption DEF Free
        <3>2. Min(Free(file, open)) \in Ports
            BY <2>5, <3>1, LeastPort
        <3>3. reserved' \in [Parts -> PickedPorts] /\ reserved'[p] \in Ports
            BY <1>1, <2>1, <2>2, <2>5, <3>2 DEF PickedPorts
        <3>4. JobsOK'
            BY <1>3, <2>2, <2>5, <3>3, PortOK DEF SpawnReserves
        <3>. QED  BY <1>3, <2>3, <3>3, <3>4 DEF SpawnReserves, BoxesOK, TablesOK, FilesOK, database
    <2>. QED  BY <2>4, <2>5
<1>4. CASE SpawnRuns(j)
    <2>. DEFINE n == budget.servers + 1
    <2>1. /\ budget.servers \in Nat /\ budget.servers < MaxServers /\ n \in Servers
          /\ budget' \in [servers: 0..MaxServers, mishaps: 0..MaxMishaps]
          /\ budget'.servers = n
        BY <1>4, BoundAssumption DEF SpawnRuns, Spend, BoxesOK, Servers
    <2>2. job[j].port \in Ports /\ job[j].pc = "run"
        BY <1>4 DEF SpawnRuns, JobsOK, JobOK
    <2>3. /\ box' = [box EXCEPT ![p] = n]
          /\ origin' = [origin EXCEPT ![n] = [part |-> p, port |-> job[j].port]]
          /\ lost' \subseteq lost \cup {n}
        BY <1>4 DEF SpawnRuns
    <2>. HIDE DEF n, p
    <2>4. p \in Parts
        BY <1>1 DEF p
    <2>5. n \in AnyServer /\ n # NoServer /\ [part |-> p, port |-> job[j].port] \in Origin
        BY <2>1, <2>2, <2>4 DEF AnyServer, Origin, PickedPorts, Servers, NoServer
    <2>6. box' \in [Parts -> AnyServer] /\ origin' \in [Servers -> Origin]
        BY <2>3, <2>5 DEF BoxesOK
    <2>7. ASSUME NEW r \in Parts
          PROVE  /\ box'[r] <= n
                 /\ box'[r] # NoServer => /\ origin'[box'[r]].part = r
                                          /\ origin'[box'[r]].port \in Ports
        <3>1. CASE r = p
            BY <2>1, <2>2, <2>3, <2>4, <3>1 DEF BoxesOK
        <3>2. CASE r # p
            <4>1. box'[r] = box[r] /\ box[r] \in AnyServer /\ box[r] <= budget.servers
                BY <2>3, <3>2 DEF BoxesOK
            <4>2. box[r] # n /\ box[r] <= n
                BY <2>1, <4>1 DEF n, AnyServer, Servers, NoServer
            <4>. QED  BY <2>3, <4>1, <4>2 DEF BoxesOK, AnyServer
        <3>. QED  BY <3>1, <3>2
    <2>8. BoxesOK'
        BY <2>1, <2>6, <2>7 DEF BoxesOK
    <2>9. JobsOK'
        BY <1>4, BindOK DEF SpawnRuns
    <2>10. lost' \subseteq Servers
        BY <2>1, <2>3 DEF FilesOK
    <2>11. UNCHANGED <<alive, bound, reserved, held, dropped, astray>>
        BY <1>4 DEF SpawnRuns, database
    <2>. QED  BY <2>8, <2>9, <2>10, <2>11 DEF TablesOK, FilesOK
<1>5. CASE SpawnBinds(j)
    <2>1. PICK n \in alive : bound' = [bound EXCEPT ![p] = n] /\ astray' \in {astray, astray \cup {p}}
        BY <1>5 DEF SpawnBinds
    <2>2. n \in AnyServer /\ n # NoServer
        BY DEF TablesOK, AnyServer, Servers, NoServer
    <2>3. TablesOK'
        BY <1>1, <1>5, <2>1, <2>2 DEF SpawnBinds, TablesOK
    <2>4. JobsOK'
        BY <1>5, ExitOK DEF SpawnBinds
    <2>. QED  BY <1>1, <1>5, <2>3, <2>4 DEF SpawnBinds, BoxesOK, FilesOK
<1>6. CASE SpawnEnds(j)
    BY <1>1, <1>6, ExitOK DEF SpawnEnds, BoxesOK, TablesOK, FilesOK, database, ghosts
<1>7. CASE SpawnFails(j)
    <2>1. JobsOK'
        BY <1>7, FailOK DEF SpawnFails
    <2>2. BoxesOK'
        BY <1>7, MishapOK DEF SpawnFails
    <2>. QED  BY <1>7, <2>1, <2>2 DEF SpawnFails, TablesOK, FilesOK, database, ghosts
<1>8. CASE SpawnCleansUp(j)
    <2>. DEFINE Copied(r) == IF r = p THEN NoPort
                             ELSE CHOOSE q \in Ports \cup {NoPort} : <<r, q>> \in job[j].copy
    <2>1. \A r \in Parts : Copied(r) \in PickedPorts
        <3>1. \A r \in Parts \ {p} : \E q \in PickedPorts : <<r, q>> \in job[j].copy
            BY <1>8 DEF SpawnCleansUp, JobsOK, JobOK
        <3>. QED  BY <3>1 DEF PickedPorts
    <2>2. reserved' = [r \in Parts |-> Copied(r)] /\ held' = held
        BY <1>8 DEF SpawnCleansUp
    <2>3. lost' \subseteq Servers /\ dropped' \subseteq Jobs
        BY <1>8, GhostsOK DEF SpawnCleansUp, FilesOK
    <2>. HIDE DEF Copied
    <2>4. reserved' \in [Parts -> PickedPorts]
        BY <2>1, <2>2
    <2>5. FilesOK'
        BY <2>2, <2>3, <2>4 DEF FilesOK
    <2>. QED  BY <1>8, <2>5, ExitOK DEF SpawnCleansUp, BoxesOK, TablesOK, database
<1>. QED  BY <1>2, <1>3, <1>4, <1>5, <1>6, <1>7, <1>8 DEF SpawnGoesOn

LEMMA DespawnTypes == ASSUME Types, NEW j \in Jobs, DespawnGoesOn(j) PROVE Types'
<1>. USE DEF Types
<1>1. job[j].pc # "idle" /\ job[j].part \in Parts /\ job[j].seen \in AnyServer
    BY DEF DespawnGoesOn, DespawnRemoves, DespawnReleases, DespawnCleans, JobsOK, JobOK, JobRecord
<1>. DEFINE p == job[j].part
<1>2. CASE DespawnRemoves(j)
    <2>1. JobsOK'
        BY <1>1, <1>2, GoOK DEF DespawnRemoves
    <2>2. BoxesOK'
        <3>1. box' = [box EXCEPT ![p] = NoServer] /\ origin' = origin /\ budget' = budget
            BY <1>2 DEF DespawnRemoves
        <3>2. box' \in [Parts -> AnyServer]
            BY <3>1 DEF BoxesOK, AnyServer
        <3>3. 0 <= budget.servers
            BY BoundAssumption DEF BoxesOK
        <3>4. \A r \in Parts : box'[r] = box[r] \/ box'[r] = NoServer
            BY <3>1 DEF BoxesOK
        <3>. QED  BY <3>1, <3>2, <3>3, <3>4 DEF BoxesOK, NoServer
    <2>3. astray' \subseteq Parts /\ \A q \in astray' : bound[q] # NoServer
        BY <1>1, <1>2 DEF DespawnRemoves, TablesOK
    <2>. QED  BY <1>2, <2>1, <2>2, <2>3 DEF DespawnRemoves, TablesOK, FilesOK, database
<1>3. CASE DespawnReleases(j)
    <2>1. JobsOK'
        BY <1>1, <1>3, GoOK DEF DespawnReleases
    <2>2. FilesOK'
        BY <1>1, <1>3, GhostsOK DEF DespawnReleases, FilesOK, PickedPorts
    <2>. QED  BY <1>3, <2>1, <2>2 DEF DespawnReleases, BoxesOK, TablesOK, database
<1>4. CASE DespawnCleans(j)
    <2>1. TablesOK'
        BY <1>4 DEF DespawnCleans, TablesOK, PartsOf, AnyServer
    <2>. QED  BY <1>4, <2>1, ExitOK DEF DespawnCleans, BoxesOK, FilesOK
<1>. QED  BY <1>2, <1>3, <1>4 DEF DespawnGoesOn

LEMMA NextTypes == Types /\ [Next]_vars => Types'
<1>. SUFFICES ASSUME Types, [Next]_vars PROVE Types'
    OBVIOUS
<1>. USE DEF Types
<1>1. CASE UNCHANGED vars
    BY <1>1 DEF vars, database, ghosts, BoxesOK, TablesOK, FilesOK, JobsOK
<1>2. ASSUME NEW j \in Jobs, NEW p \in Parts, SpawnStarts(j, p) \/ DespawnStarts(j, p) PROVE Types'
    <2>1. JobsOK'
        BY <1>2, StartOK DEF SpawnStarts, DespawnStarts
    <2>. QED  BY <1>2, <2>1 DEF SpawnStarts, DespawnStarts, database, ghosts, BoxesOK, TablesOK, FilesOK
<1>3. ASSUME NEW j \in Jobs, Killed(j) PROVE Types'
    <2>1. JobsOK'
        BY <1>3, ExitOK DEF Killed
    <2>2. BoxesOK'
        BY <1>3, MishapOK DEF Killed
    <2>3. TablesOK'
        BY <1>3 DEF Killed, TablesOK, PartsOf, database, NoServer
    <2>. QED  BY <1>3, <2>1, <2>2, <2>3 DEF Killed, FilesOK
<1>4. ASSUME NEW p \in Parts, PublisherEnds(p) PROVE Types'
    BY <1>4 DEF PublisherEnds, BoxesOK, TablesOK, FilesOK, JobsOK, database, ghosts
<1>5. ASSUME NEW p \in Parts, Adopts(p) PROVE Types'
    <2>1. PICK n \in alive : bound' = [bound EXCEPT ![p] = n] /\ astray' \in {astray, astray \cup {p}}
        BY <1>5 DEF Adopts
    <2>2. n \in AnyServer /\ n # NoServer
        BY DEF TablesOK, AnyServer, Servers, NoServer
    <2>3. TablesOK'
        BY <1>5, <2>1, <2>2 DEF Adopts, TablesOK
    <2>. QED  BY <1>5, <2>3 DEF Adopts, BoxesOK, FilesOK, JobsOK
<1>6. ASSUME NEW n \in Servers, Reports(n) \/ Expires(n) PROVE Types'
    BY <1>6 DEF Reports, Expires, BoxesOK, TablesOK, FilesOK, JobsOK, ghosts
<1>. QED  BY <1>1, <1>2, <1>3, <1>4, <1>5, <1>6, SpawnTypes, DespawnTypes DEF Next

LEMMA TypesAlways == Spec => []Types
BY InitTypes, NextTypes, PTL DEF Spec

\* The tables of docker, of the database and of the port file keep their types, and a
\* container runs a server that was started for its partition on a port of the range.
THEOREM ServerTypes == Spec => []TypeOK
<1>1. Types => TypeOK
    BY DEF Types, TypeOK, BoxesOK, TablesOK, FilesOK, JobsOK, JobRecord, AnyServer, PickedPorts
<1>. QED  BY <1>1, TypesAlways, PTL

-----------------------------------------------------------------------------
(* A server is bound to one partition *)

\* A step unbinds partitions, or binds one to a server that no other is bound to.
Unbinds == \A p \in Parts : bound'[p] \in {bound[p], NoServer}
Binds(p, n) == bound' = [bound EXCEPT ![p] = n] /\ \A r \in Parts \ {p} : bound[r] # n

LEMMA BindingSteps ==
    ASSUME Types, [Next]_vars
    PROVE  Unbinds \/ \E p \in Parts, n \in Servers : Binds(p, n)
<1>1. CASE UNCHANGED vars
    BY <1>1 DEF vars, database, Unbinds
<1>2. ASSUME NEW j \in Jobs, NEW p \in Parts, SpawnStarts(j, p) \/ DespawnStarts(j, p) PROVE Unbinds
    BY <1>2 DEF SpawnStarts, DespawnStarts, database, Unbinds
<1>3. ASSUME NEW j \in Jobs, SpawnGoesOn(j) PROVE Unbinds \/ \E p \in Parts, n \in Servers : Binds(p, n)
    <2>1. CASE SpawnLocks(j)
        BY <2>1 DEF SpawnLocks, database, Unbinds, Types, TablesOK
    <2>2. CASE SpawnBinds(j)
        <3>1. job[j].part \in Parts
            BY <2>2 DEF SpawnBinds, Types, JobsOK, JobOK
        <3>2. \E n \in Servers : Binds(job[j].part, n)
            BY <2>2 DEF SpawnBinds, Binds, Types, TablesOK
        <3>. QED  BY <3>1, <3>2
    <2>3. CASE SpawnReserves(j) \/ SpawnRuns(j) \/ SpawnEnds(j) \/ SpawnFails(j) \/ SpawnCleansUp(j)
        BY <2>3 DEF SpawnReserves, SpawnRuns, SpawnEnds, SpawnFails, SpawnCleansUp, database, Unbinds
    <2>. QED  BY <1>3, <2>1, <2>2, <2>3 DEF SpawnGoesOn
<1>4. ASSUME NEW j \in Jobs, DespawnGoesOn(j) \/ Killed(j) PROVE Unbinds
    <2>1. CASE DespawnRemoves(j) \/ DespawnReleases(j) \/ Killed(j)
        BY <2>1 DEF DespawnRemoves, DespawnReleases, Killed, database, Unbinds
    <2>2. CASE DespawnCleans(j)
        BY <2>2 DEF DespawnCleans, Unbinds
    <2>. QED  BY <1>4, <2>1, <2>2 DEF DespawnGoesOn
<1>5. ASSUME NEW p \in Parts, PublisherEnds(p) PROVE Unbinds
    BY <1>5 DEF PublisherEnds, database, Unbinds
<1>6. ASSUME NEW p \in Parts, Adopts(p) PROVE \E n \in Servers : Binds(p, n)
    <2>1. PICK n \in alive : PartsOf(n) = {} /\ bound' = [bound EXCEPT ![p] = n]
        BY <1>6 DEF Adopts
    <2>2. n \in Servers /\ n # NoServer
        BY DEF Types, TablesOK, Servers, NoServer
    <2>. QED  BY <2>1, <2>2 DEF PartsOf, Binds
<1>7. ASSUME NEW n \in Servers, Reports(n) \/ Expires(n) PROVE Unbinds
    BY <1>7 DEF Reports, Expires, Unbinds
<1>. QED  BY <1>1, <1>2, <1>3, <1>4, <1>5, <1>6, <1>7 DEF Next

\* A server is bound to one partition, whoever binds it: the script that started it, one
\* that finds it by a port that was given twice, or the reconciler.
THEOREM ServerBoundOnce == Spec => []BoundOnce
<1>1. Init => BoundOnce
    BY DEF Init, BoundOnce
<1>2. Types /\ BoundOnce /\ [Next]_vars => BoundOnce'
    <2>. SUFFICES ASSUME Types, BoundOnce, [Next]_vars PROVE BoundOnce'
        OBVIOUS
    <2>1. CASE Unbinds
        BY <2>1 DEF Unbinds, BoundOnce
    <2>2. ASSUME NEW p \in Parts, NEW n \in Servers, Binds(p, n) PROVE BoundOnce'
        <3>1. bound'[p] = n /\ \A r \in Parts \ {p} : bound'[r] = bound[r] /\ bound[r] # n
            BY <2>2 DEF Binds, Types, TablesOK
        <3>. QED  BY <3>1 DEF BoundOnce
    <2>. QED  BY <2>1, <2>2, BindingSteps
<1>. QED  BY <1>1, <1>2, TypesAlways, PTL DEF Spec

-----------------------------------------------------------------------------
(* The lock of a partition *)

Holding == {"reserve", "run", "bind", "fail"}

\* The lock: one spawn of a partition at a time.
Mutex == \A j, k \in At(Holding) : job[j].part = job[k].part => j = k

\* A partition that is bound while its spawn has no container yet is known for it.
AstrayKnown == \A j \in At({"reserve", "run"}) : bound[job[j].part] # NoServer => job[j].part \in astray

SpawnInv == Mutex /\ AstrayKnown

\* The scripts that hold a lock: none is new, or one has just taken it.
Settles ==
    \A k \in At(Holding)' : /\ k \in At(Holding) /\ job'[k].part = job[k].part
                            /\ job'[k].pc = "reserve" => job[k].pc = "reserve"
                            /\ job'[k].pc = "run" => job[k].pc \in {"run", "reserve"}
                            /\ job'[k].pc = "bind" => job[k].pc \in {"run", "bind"}

\* What a step does to the lock, when it is not SpawnLocks.
LEMMA LockSteps ==
    ASSUME Types, [Next]_vars, \A j \in Jobs : ~SpawnLocks(j)
    PROVE  Settles
<1>. USE DEF Settles, At, Holding
<1>1. job \in [Jobs -> JobRecord]
    BY DEF Types, JobsOK
<1>2. CASE UNCHANGED job
    BY <1>2
<1>3. ASSUME NEW j \in Jobs, Exits(j) PROVE Settles
    BY <1>1, <1>3 DEF Exits, Idle
<1>4. ASSUME NEW j \in Jobs, NEW p \in Parts, SpawnStarts(j, p) \/ DespawnStarts(j, p) PROVE Settles
    <2>1. job'[j].pc \in {"lock", "remove"}
        BY <1>1, <1>4 DEF SpawnStarts, DespawnStarts, Idle
    <2>2. \A k \in Jobs : k # j => job'[k] = job[k]
        BY <1>1, <1>4 DEF SpawnStarts, DespawnStarts, Idle
    <2>. QED  BY <1>1, <2>1, <2>2
<1>5. ASSUME NEW j \in Jobs, SpawnReserves(j) PROVE Settles
    <2>1. CASE Exits(j)
        BY <2>1, <1>3
    <2>2. CASE \E q : job' = [job EXCEPT ![j] = [job[j] EXCEPT !.pc = "run", !.port = q]]
        BY <1>1, <1>5, <2>2 DEF SpawnReserves, JobRecord
    <2>. QED  BY <1>5, <2>1, <2>2 DEF SpawnReserves
<1>6. ASSUME NEW j \in Jobs, SpawnRuns(j) PROVE Settles
    BY <1>1, <1>6 DEF SpawnRuns, Goes, JobRecord
<1>7. ASSUME NEW j \in Jobs, SpawnFails(j) PROVE Settles
    <2>1. job[j].pc \in {"run", "bind"} /\ \E c : job' = [job EXCEPT ![j] = [job[j] EXCEPT !.pc = "fail", !.copy = c]]
        BY <1>7 DEF SpawnFails
    <2>. QED  BY <1>1, <2>1 DEF JobRecord
<1>8. ASSUME NEW j \in Jobs, DespawnRemoves(j) \/ DespawnReleases(j) PROVE Settles
    BY <1>1, <1>8 DEF DespawnRemoves, DespawnReleases, Goes, JobRecord
<1>9. ASSUME NEW j \in Jobs, SpawnGoesOn(j) \/ DespawnGoesOn(j) \/ Killed(j) PROVE Settles
    BY <1>3, <1>5, <1>6, <1>7, <1>8, <1>9
       DEF SpawnGoesOn, SpawnBinds, SpawnEnds, SpawnCleansUp, DespawnGoesOn, DespawnCleans, Killed
<1>10. ASSUME NEW p \in Parts, PublisherEnds(p) \/ Adopts(p) PROVE Settles
    BY <1>2, <1>10 DEF PublisherEnds, Adopts
<1>11. ASSUME NEW n \in Servers, Reports(n) \/ Expires(n) PROVE Settles
    BY <1>2, <1>11 DEF Reports, Expires
<1>. QED  BY <1>2, <1>4, <1>9, <1>10, <1>11 DEF Next, vars

\* The spawn that takes the lock, and what it does to the row.
LEMMA TakesLock ==
    ASSUME Types, SpawnInv, NEW j \in Jobs, SpawnLocks(j)
    PROVE  SpawnInv'
<1>. DEFINE p == job[j].part
<1>1. p \in Parts /\ job[j].pc = "lock" /\ job \in [Jobs -> JobRecord] /\ bound \in [Parts -> AnyServer]
    BY DEF SpawnLocks, Types, JobsOK, JobOK, TablesOK
<1>2. CASE Exits(j) /\ UNCHANGED <<database, astray>>
    <2>1. \A k \in Jobs : job'[k].pc # "idle" => job'[k] = job[k]
        BY <1>1, <1>2 DEF Exits, Idle
    <2>. QED  BY <1>2, <2>1 DEF SpawnInv, Mutex, AstrayKnown, At, Holding, database
<1>3. CASE /\ ~Locked(p) /\ Goes(j, "reserve")
           /\ bound' = [bound EXCEPT ![p] = IF bound[p] = job[j].seen THEN NoServer ELSE bound[p]]
           /\ astray' = IF bound'[p] = NoServer THEN astray \ {p} ELSE astray \cup {p}
    <2>1. job'[j].pc = "reserve" /\ job'[j].part = p /\ \A k \in Jobs \ {j} : job'[k] = job[k]
        BY <1>1, <1>3 DEF Goes, JobRecord
    <2>2. \A k \in At(Holding) : job[k].part # p
        BY <1>3 DEF Locked, At, Holding
    <2>3. \A q \in Parts \ {p} : bound'[q] = bound[q] /\ (q \in astray' <=> q \in astray)
        BY <1>1, <1>3
    <2>. HIDE DEF p
    <2>4. Mutex'
        BY <2>1, <2>2 DEF SpawnInv, Mutex, At, Holding
    <2>5. \A k \in At(Holding) : job[k].part \in Parts
        BY DEF Types, JobsOK, JobOK, At, Holding
    <2>6. ASSUME NEW k \in Jobs, job'[k].pc \in {"reserve", "run"}, bound'[job'[k].part] # NoServer
          PROVE  job'[k].part \in astray'
        <3>1. CASE k = j
            BY <1>3, <2>1, <2>6, <3>1
        <3>2. CASE k # j
            BY <2>1, <2>2, <2>3, <2>5, <2>6, <3>2 DEF SpawnInv, AstrayKnown, At, Holding
        <3>. QED  BY <3>1, <3>2
    <2>7. AstrayKnown'
        BY <2>6 DEF AstrayKnown, At
    <2>. QED  BY <2>4, <2>7 DEF SpawnInv
<1>. QED  BY <1>2, <1>3 DEF SpawnLocks, ghosts

LEMMA MutexSteps == ASSUME Mutex, Settles PROVE Mutex'
BY DEF Mutex, Settles

\* What else a step does to the bindings, and what is known of them then.
Quiet == UNCHANGED bound /\ astray \subseteq astray'

LEMMA ScriptsKnowAstray ==
    ASSUME Types, [Next]_vars, SpawnInv, \A j \in Jobs : ~SpawnLocks(j)
    PROVE  AstrayKnown'
<1>1. /\ Settles /\ bound \in [Parts -> AnyServer] /\ job \in [Jobs -> JobRecord]
      /\ \A k \in At(Holding) : job[k].part \in Parts
    BY LockSteps DEF Types, TablesOK, JobsOK, JobOK, At, Holding
<1>2. \A k \in At({"reserve", "run"})' : /\ k \in At({"reserve", "run"}) /\ k \in At(Holding)
                                         /\ job'[k].part = job[k].part
    BY <1>1 DEF Settles, At, Holding
<1>. DEFINE p(k) == job[k].part
<1>3. ASSUME \A k \in At({"reserve", "run"})' :
                bound'[p(k)] # NoServer => \/ p(k) \in astray'
                                           \/ bound[p(k)] # NoServer /\ (p(k) \in astray => p(k) \in astray')
      PROVE  AstrayKnown'
    BY <1>2, <1>3 DEF SpawnInv, AstrayKnown
<1>4. CASE Quiet
    BY <1>3, <1>4 DEF Quiet
<1>5. ASSUME NEW j \in Jobs, NEW q \in Parts, SpawnStarts(j, q) \/ DespawnStarts(j, q) PROVE Quiet
    BY <1>5 DEF SpawnStarts, DespawnStarts, database, ghosts, Quiet
<1>6. ASSUME NEW j \in Jobs, SpawnGoesOn(j), ~SpawnBinds(j), ~SpawnLocks(j) PROVE Quiet
    BY <1>6 DEF SpawnGoesOn, SpawnReserves, SpawnRuns, SpawnEnds, SpawnFails, SpawnCleansUp, database, ghosts, Quiet
<1>7. ASSUME NEW j \in Jobs, DespawnRemoves(j) \/ DespawnReleases(j) \/ Killed(j) PROVE Quiet
    BY <1>7 DEF DespawnRemoves, DespawnReleases, Killed, database, Quiet
<1>8. ASSUME NEW j \in Jobs, SpawnBinds(j) PROVE AstrayKnown'
    <2>1. /\ j \in At(Holding) /\ astray \subseteq astray' /\ job[j].pc = "bind"
          /\ \A q \in Parts \ {p(j)} : bound'[q] = bound[q]
        BY <1>1, <1>8 DEF SpawnBinds, At, Holding
    <2>2. \A k \in At({"reserve", "run"})' : p(k) # p(j)
        BY <1>2, <2>1 DEF SpawnInv, Mutex, At
    <2>. QED  BY <1>1, <1>2, <1>3, <2>1, <2>2
<1>9. ASSUME NEW j \in Jobs, DespawnCleans(j) PROVE AstrayKnown'
    <2>1. \A q \in Parts : bound'[q] # NoServer => bound'[q] = bound[q] /\ (q \in astray => q \in astray')
        BY <1>9 DEF DespawnCleans
    <2>. QED  BY <1>1, <1>2, <1>3, <2>1
<1>10. ASSUME NEW q \in Parts, Adopts(q) PROVE AstrayKnown'
    <2>1. /\ \A r \in Parts \ {q} : bound'[r] = bound[r]
          /\ astray \subseteq astray' /\ (Locked(q) => q \in astray')
        BY <1>1, <1>10 DEF Adopts
    <2>2. \A k \in At(Holding) : Locked(p(k))
        BY DEF Locked, At, Holding
    <2>. QED  BY <1>1, <1>2, <1>3, <2>1, <2>2
<1>11. ASSUME NEW q \in Parts, PublisherEnds(q) PROVE Quiet
    BY <1>11 DEF PublisherEnds, database, ghosts, Quiet
<1>12. ASSUME NEW n \in Servers, Reports(n) \/ Expires(n) PROVE Quiet
    BY <1>12 DEF Reports, Expires, ghosts, Quiet
<1>13. UNCHANGED vars => Quiet
    BY DEF vars, database, ghosts, Quiet
<1>. QED  BY <1>4, <1>5, <1>6, <1>7, <1>8, <1>9, <1>10, <1>11, <1>12, <1>13
          DEF Next, DespawnGoesOn

LEMMA SpawnSteps == Types /\ SpawnInv /\ [Next]_vars => SpawnInv'
<1>. SUFFICES ASSUME Types, SpawnInv, [Next]_vars PROVE SpawnInv'
    OBVIOUS
<1>1. ASSUME NEW j \in Jobs, SpawnLocks(j) PROVE SpawnInv'
    BY <1>1, TakesLock
<1>2. CASE \A j \in Jobs : ~SpawnLocks(j)
    BY <1>2, LockSteps, MutexSteps, ScriptsKnowAstray DEF SpawnInv
<1>. QED  BY <1>1, <1>2

LEMMA SpawnAlways == Spec => []SpawnInv
<1>1. Init => SpawnInv
    BY DEF Init, SpawnInv, Mutex, AstrayKnown, At, Holding, Idle
<1>. QED  BY <1>1, SpawnSteps, TypesAlways, PTL DEF Spec

-----------------------------------------------------------------------------
(* Ports are given once while reservations stand *)

\* The reservation of p stands: its server, or a spawn of it, has not lost it.
Stands(p) ==
    \/ box[p] # NoServer /\ box[p] \notin lost
    \/ \E j \in At({"run", "bind"}) \ dropped : job[j].part = p

\* Who has not lost his reservation has the port that is reserved; and of the reservations
\* that stand no two are of one port.
BoxKept == \A p \in Parts : box[p] # NoServer /\ box[p] \notin lost => reserved[p] = origin[box[p]].port
PortKept == \A j \in At({"run", "bind"}) \ dropped : reserved[job[j].part] = job[j].port
ReservedOnce == \A p, r \in Parts : p # r /\ Stands(p) /\ Stands(r) => reserved[p] # reserved[r]
PortInv == BoxKept /\ PortKept /\ ReservedOnce

\* No reservation is new, and those that stand after a step stood before it, unchanged.
NoneNew ==
    /\ lost \subseteq lost' /\ dropped \subseteq dropped'
    /\ \A p \in Parts : box'[p] # NoServer => box'[p] = box[p] /\ origin'[box[p]] = origin[box[p]]
    /\ \A k \in Jobs : job'[k].pc \in {"run", "bind"} =>
           /\ job[k].pc \in {"run", "bind"}
           /\ job'[k].part = job[k].part /\ job'[k].port = job[k].port
Keeps == \A p \in Parts : Stands(p)' => reserved'[p] = reserved[p]

LEMMA KeptPorts ==
    ASSUME Types, PortInv, NoneNew, Keeps
    PROVE  PortInv'
<1>1. \A p \in Parts : Stands(p)' => Stands(p) /\ reserved'[p] = reserved[p]
    BY DEF NoneNew, Keeps, Stands, At
<1>2. ReservedOnce'
    BY <1>1 DEF PortInv, ReservedOnce
<1>3. BoxKept'
    <2>. SUFFICES ASSUME NEW p \in Parts, box'[p] # NoServer, box'[p] \notin lost'
                  PROVE  reserved'[p] = origin'[box'[p]].port
        BY DEF BoxKept
    <2>1. box'[p] = box[p] /\ origin'[box[p]] = origin[box[p]] /\ box[p] \notin lost
        BY DEF NoneNew
    <2>2. Stands(p)'
        BY DEF Stands
    <2>. QED  BY <1>1, <2>1, <2>2 DEF PortInv, BoxKept
<1>4. PortKept'
    <2>. SUFFICES ASSUME NEW k \in Jobs, job'[k].pc \in {"run", "bind"}, k \notin dropped'
                  PROVE  reserved'[job'[k].part] = job'[k].port
        BY DEF PortKept, At
    <2>1. /\ k \in At({"run", "bind"}) \ dropped
          /\ job'[k].part = job[k].part /\ job'[k].port = job[k].port
        BY DEF NoneNew, At
    <2>2. job[k].part \in Parts
        BY <2>1 DEF Types, JobsOK, JobOK, At
    <2>3. Stands(job[k].part)'
        BY <2>1 DEF Stands, At
    <2>. QED  BY <1>1, <2>1, <2>2, <2>3 DEF PortInv, PortKept
<1>. QED  BY <1>2, <1>3, <1>4 DEF PortInv

\* A spawn reserves a port: the reservations of the others that stand are those it has
\* found in the file, and it has picked none of them.
LEMMA ReservesOne ==
    ASSUME Types, SpawnInv, PortInv, NEW j \in Jobs, SpawnReserves(j)
    PROVE  PortInv'
<1>0. PICK p \in Parts : p = job[j].part
    BY DEF SpawnReserves, Types, JobsOK, JobOK
<1>. DEFINE file == [Kept EXCEPT ![p] = NoPort]
<1>1. job[j].pc = "reserve" /\ job \in [Jobs -> JobRecord]
    BY DEF SpawnReserves, Types, JobsOK
<1>2. /\ box' = box /\ origin' = origin /\ lost' = lost \cup ServerOf(p)
      /\ dropped' = (dropped \ {j}) \cup UNION {SpawnsOf(r) : r \in {q \in Parts : box[q] = NoServer}}
    BY <1>0 DEF SpawnReserves
<1>3. /\ file \in [Parts -> PickedPorts] /\ file[p] = NoPort
      /\ \A r \in Parts \ {p} : box[r] # NoServer => file[r] = reserved[r]
    BY DEF Kept, Types, FilesOK, PickedPorts
<1>4. PICK open \in SUBSET Servers :
         IF Free(file, open) = {}
         THEN reserved' = file /\ Exits(j)
         ELSE /\ reserved' = [file EXCEPT ![p] = Min(Free(file, open))]
              /\ job' = [job EXCEPT ![j] = [job[j] EXCEPT !.pc = "run", !.port = reserved'[p]]]
    BY <1>0 DEF SpawnReserves
<1>. HIDE DEF file
<1>5. \A r \in Parts \ {p} : reserved'[r] = file[r] /\ (reserved'[p] # NoPort => reserved'[p] # file[r])
    <2>1. CASE Free(file, open) = {}
        BY <1>3, <1>4, <2>1
    <2>2. CASE Free(file, open) # {}
        <3>1. Free(file, open) \in SUBSET Nat
            BY PortAssumption DEF Free
        <3>2. PICK q \in Free(file, open) : reserved' = [file EXCEPT ![p] = q]
            BY <1>4, <2>2, <3>1, LeastPort
        <3>3. \A r \in Parts : file[r] # q
            BY DEF Free
        <3>. QED  BY <1>3, <3>2, <3>3
    <2>. QED  BY <2>1, <2>2
<1>6. /\ \A k \in Jobs \ {j} : job'[k] = job[k]
      /\ \/ job'[j].pc = "idle"
         \/ job'[j].part = p /\ job'[j].port = reserved'[p] /\ reserved'[p] # NoPort
    <2>1. CASE Free(file, open) = {}
        BY <1>1, <1>4, <2>1 DEF Exits, Idle
    <2>2. CASE Free(file, open) # {}
        <3>1. Free(file, open) \in SUBSET Nat /\ Free(file, open) \subseteq Ports
            BY PortAssumption DEF Free
        <3>2. PICK q \in Ports : reserved' = [file EXCEPT ![p] = q]
            BY <1>4, <2>2, <3>1, LeastPort
        <3>3. reserved'[p] = q /\ q # NoPort
            BY <1>3, <3>2, PortAssumption DEF NoPort
        <3>4. job' = [job EXCEPT ![j] = [job[j] EXCEPT !.pc = "run", !.port = q]]
            BY <1>4, <2>2, <3>3
        <3>5. /\ \A k \in Jobs \ {j} : job'[k] = job[k]
              /\ job'[j].part = p /\ job'[j].port = q
            BY <1>0, <1>1, <3>4 DEF JobRecord
        <3>. QED  BY <3>3, <3>5
    <2>. QED  BY <2>1, <2>2
\* The spawns of other partitions: those of a partition without a container lose theirs.
<1>7. ASSUME NEW k \in Jobs \ {j}, job[k].pc \in {"run", "bind"}, k \notin dropped'
      PROVE  /\ k \in At({"run", "bind"}) \ dropped /\ job[k].part \in Parts \ {p}
             /\ box[job[k].part] # NoServer
    <2>1. job[k].part \in Parts
        BY <1>7 DEF Types, JobsOK, JobOK
    <2>2. job[k].part # p
        BY <1>0, <1>1, <1>7 DEF SpawnInv, Mutex, At, Holding
    <2>3. k \in SpawnsOf(job[k].part)
        BY <1>7 DEF SpawnsOf, At
    <2>. QED  BY <1>2, <1>7, <2>1, <2>2, <2>3 DEF At
<1>8. ASSUME NEW r \in Parts \ {p}, Stands(r)'
      PROVE  Stands(r) /\ reserved'[r] = reserved[r] /\ reserved'[r] = file[r]
    <2>1. CASE box[r] # NoServer /\ box[r] \notin lost'
        BY <1>2, <1>3, <1>5, <2>1 DEF Stands
    <2>2. ASSUME NEW k \in Jobs, job'[k].pc \in {"run", "bind"}, k \notin dropped', job'[k].part = r
          PROVE  Stands(r) /\ reserved'[r] = reserved[r] /\ reserved'[r] = file[r]
        <3>1. k # j
            BY <1>6, <1>8, <2>2
        <3>. QED  BY <1>3, <1>5, <1>6, <1>7, <2>2, <3>1 DEF Stands
    <2>. QED  BY <1>2, <1>8, <2>1, <2>2 DEF Stands, At
<1>9. Stands(p)' => reserved'[p] # NoPort
    <2>1. ~(box[p] # NoServer /\ box[p] \notin lost')
        BY <1>2 DEF ServerOf
    <2>2. ASSUME NEW k \in Jobs, job'[k].pc \in {"run", "bind"}, k \notin dropped', job'[k].part = p
          PROVE  reserved'[p] # NoPort
        BY <1>6, <1>7, <2>2
    <2>. QED  BY <1>2, <2>1, <2>2 DEF Stands, At
<1>10. ReservedOnce'
    <2>. SUFFICES ASSUME NEW r \in Parts, NEW t \in Parts, r # t, Stands(r)', Stands(t)'
                  PROVE  reserved'[r] # reserved'[t]
        BY DEF ReservedOnce
    <2>1. CASE r # p /\ t # p
        BY <1>8, <2>1 DEF PortInv, ReservedOnce
    <2>2. CASE r = p \/ t = p
        BY <1>5, <1>8, <1>9, <2>2
    <2>. QED  BY <2>1, <2>2
<1>11. BoxKept'
    <2>. SUFFICES ASSUME NEW r \in Parts, box[r] # NoServer, box[r] \notin lost'
                  PROVE  reserved'[r] = origin[box[r]].port
        BY <1>2 DEF BoxKept
    <2>1. r # p /\ box[r] \notin lost
        BY <1>2 DEF ServerOf
    <2>2. Stands(r)'
        BY <1>2 DEF Stands
    <2>. QED  BY <1>8, <2>1, <2>2 DEF PortInv, BoxKept
<1>12. PortKept'
    <2>. SUFFICES ASSUME NEW k \in Jobs, job'[k].pc \in {"run", "bind"}, k \notin dropped'
                  PROVE  reserved'[job'[k].part] = job'[k].port
        BY DEF PortKept, At
    <2>1. CASE k = j
        BY <1>6, <2>1
    <2>2. CASE k # j
        <3>1. Stands(job[k].part)'
            BY <1>6, <2>2 DEF Stands, At
        <3>. QED  BY <1>6, <1>7, <1>8, <2>2, <3>1 DEF PortInv, PortKept
    <2>. QED  BY <2>1, <2>2
<1>. QED  BY <1>10, <1>11, <1>12 DEF PortInv

\* A container takes over the reservation of the spawn that runs it.
LEMMA RunsOne ==
    ASSUME Types, PortInv, NEW j \in Jobs, SpawnRuns(j)
    PROVE  PortInv'
<1>. DEFINE p == job[j].part
<1>. DEFINE n == budget.servers + 1
<1>1. /\ p \in Parts /\ job[j].pc = "run" /\ job \in [Jobs -> JobRecord]
      /\ budget.servers \in Nat /\ n \in Servers
    BY BoundAssumption DEF SpawnRuns, Spend, Types, JobsOK, JobOK, BoxesOK, Servers
<1>2. /\ box' = [box EXCEPT ![p] = n] /\ reserved' = reserved /\ dropped' = dropped
      /\ origin' = [origin EXCEPT ![n] = [part |-> p, port |-> job[j].port]]
      /\ lost' = IF j \in dropped THEN lost \cup {n} ELSE lost
    BY DEF SpawnRuns
<1>3. \A k \in Jobs : job'[k].pc \in {"run", "bind"} =>
          /\ job[k].pc \in {"run", "bind"} /\ job'[k].part = job[k].part /\ job'[k].port = job[k].port
    BY <1>1 DEF SpawnRuns, Goes, JobRecord
<1>4. \A r \in Parts \ {p} : box'[r] = box[r] /\ (box[r] # NoServer => box[r] \in Servers /\ box[r] # n)
    BY <1>1, <1>2 DEF Types, BoxesOK, AnyServer, Servers
<1>. HIDE DEF n, p
<1>5. box'[p] = n /\ origin'[n].port = job[j].port
    BY <1>1, <1>2 DEF Types, BoxesOK
<1>6. box'[p] \notin lost' => j \in At({"run", "bind"}) \ dropped
    BY <1>1, <1>2, <1>5 DEF At
<1>7. ASSUME NEW r \in Parts, Stands(r)' PROVE Stands(r)
    <2>1. CASE r = p /\ box'[r] \notin lost'
        BY <1>6, <2>1 DEF Stands, p
    <2>2. CASE r # p /\ box'[r] # NoServer /\ box'[r] \notin lost'
        BY <1>2, <1>4, <2>2 DEF Stands
    <2>3. CASE \E k \in Jobs : job'[k].pc \in {"run", "bind"} /\ k \notin dropped' /\ job'[k].part = r
        BY <1>2, <1>3, <2>3 DEF Stands, At
    <2>. QED  BY <1>7, <2>1, <2>2, <2>3 DEF Stands, At
<1>8. ReservedOnce'
    BY <1>2, <1>7 DEF PortInv, ReservedOnce
<1>9. PortKept'
    BY <1>2, <1>3 DEF PortInv, PortKept, At
<1>10. BoxKept'
    <2>. SUFFICES ASSUME NEW r \in Parts, box'[r] # NoServer, box'[r] \notin lost'
                  PROVE  reserved[r] = origin'[box'[r]].port
        BY <1>2 DEF BoxKept
    <2>1. CASE r = p
        BY <1>5, <1>6, <2>1 DEF PortInv, PortKept, p
    <2>2. CASE r # p
        <3>1. box'[r] = box[r] /\ box[r] \in Servers /\ box[r] # n /\ box[r] \notin lost
            BY <1>2, <1>4, <2>2
        <3>2. origin'[box[r]] = origin[box[r]]
            BY <1>2, <3>1 DEF Types, BoxesOK
        <3>. QED  BY <3>1, <3>2 DEF PortInv, BoxKept
    <2>. QED  BY <2>1, <2>2
<1>. QED  BY <1>8, <1>9, <1>10 DEF PortInv

LEMMA PortSteps ==
    ASSUME Types, SpawnInv, PortInv, [Next]_vars
    PROVE  PortInv'
<1>0. job \in [Jobs -> JobRecord] /\ box \in [Parts -> AnyServer]
    BY DEF Types, JobsOK, BoxesOK
<1>. DEFINE SameFiles == UNCHANGED <<box, origin, reserved, lost, dropped>>
<1>1. ASSUME NEW j \in Jobs, \A k \in Jobs \ {j} : job'[k] = job[k], job'[j].pc \notin {"run", "bind"}
      PROVE  \A k \in Jobs : job'[k].pc \in {"run", "bind"} => job'[k] = job[k] /\ k # j
    BY <1>1
<1>2. ASSUME SameFiles, \A k \in Jobs : job'[k].pc \in {"run", "bind"} => job'[k] = job[k]
      PROVE  PortInv'
    BY <1>2, KeptPorts DEF NoneNew, Keeps
<1>3. ASSUME NEW j \in Jobs, Exits(j) PROVE \A k \in Jobs : job'[k].pc \in {"run", "bind"} => job'[k] = job[k] /\ k # j
    BY <1>0, <1>3 DEF Exits, Idle
<1>4. ASSUME NEW j \in Jobs, NEW p \in Parts, SpawnStarts(j, p) \/ DespawnStarts(j, p) PROVE PortInv'
    <2>1. \A k \in Jobs : job'[k].pc \in {"run", "bind"} => job'[k] = job[k]
        BY <1>0, <1>4 DEF SpawnStarts, DespawnStarts, Idle
    <2>. QED  BY <1>2, <1>4, <2>1 DEF SpawnStarts, DespawnStarts, ghosts
<1>5. ASSUME NEW j \in Jobs, SpawnLocks(j) PROVE PortInv'
    <2>1. \A k \in Jobs : job'[k].pc \in {"run", "bind"} => job'[k] = job[k]
        BY <1>0, <1>3, <1>5 DEF SpawnLocks, Goes, JobRecord
    <2>. QED  BY <1>2, <1>5, <2>1 DEF SpawnLocks
<1>6. ASSUME NEW j \in Jobs, SpawnBinds(j) \/ SpawnEnds(j) \/ DespawnCleans(j) \/ Killed(j) PROVE PortInv'
    <2>1. Exits(j) /\ SameFiles
        BY <1>6 DEF SpawnBinds, SpawnEnds, DespawnCleans, Killed, ghosts
    <2>. QED  BY <1>2, <1>3, <2>1
<1>7. ASSUME NEW j \in Jobs, SpawnFails(j) PROVE PortInv'
    <2>1. \E c : job' = [job EXCEPT ![j] = [job[j] EXCEPT !.pc = "fail", !.copy = c]]
        BY <1>7 DEF SpawnFails
    <2>2. \A k \in Jobs : job'[k].pc \in {"run", "bind"} => job'[k] = job[k]
        BY <1>0, <2>1 DEF JobRecord
    <2>. QED  BY <1>2, <1>7, <2>2 DEF SpawnFails, ghosts
\* A script that has failed writes back what it read; what it undoes is lost.
<1>8. ASSUME NEW j \in Jobs, SpawnCleansUp(j) PROVE PortInv'
    <2>1. PICK undone \in SUBSET Parts :
             /\ \A r \in Parts : r \in undone <=> reserved'[r] # reserved[r]
             /\ lost' = lost \cup UNION {ServerOf(r) : r \in undone}
             /\ dropped' = dropped \cup UNION {SpawnsOf(r) : r \in undone}
        <3>. DEFINE Copied(r) == IF r = job[j].part THEN NoPort
                                 ELSE CHOOSE q \in Ports \cup {NoPort} : <<r, q>> \in job[j].copy
        <3>. DEFINE undone == {r \in Parts : reserved[r] # Copied(r)}
        <3>1. /\ reserved' = [r \in Parts |-> Copied(r)]
              /\ lost' = lost \cup UNION {ServerOf(r) : r \in undone}
              /\ dropped' = dropped \cup UNION {SpawnsOf(r) : r \in undone}
            BY <1>8 DEF SpawnCleansUp
        <3>2. \A r \in Parts : r \in undone <=> reserved'[r] # reserved[r]
            BY <3>1
        <3>. QED  BY <3>1, <3>2
    <2>2. /\ UNCHANGED <<box, origin>>
          /\ \A k \in Jobs : job'[k].pc \in {"run", "bind"} => job'[k] = job[k]
        BY <1>3, <1>8 DEF SpawnCleansUp
    <2>3. ASSUME NEW r \in Parts, Stands(r)' PROVE r \notin undone
        BY <2>1, <2>2, <2>3 DEF Stands, At, ServerOf, SpawnsOf
    <2>. QED  BY <2>1, <2>2, <2>3, KeptPorts DEF NoneNew, Keeps
<1>9. ASSUME NEW j \in Jobs, DespawnRemoves(j) PROVE PortInv'
    <2>1. \A k \in Jobs : job'[k].pc \in {"run", "bind"} => job'[k] = job[k]
        BY <1>0, <1>9 DEF DespawnRemoves, Goes, JobRecord
    <2>2. UNCHANGED <<origin, reserved, lost, dropped>> /\ \A p \in Parts : box'[p] \in {box[p], NoServer}
        BY <1>0, <1>9 DEF DespawnRemoves
    <2>. QED  BY <2>1, <2>2, KeptPorts DEF NoneNew, Keeps
<1>10. ASSUME NEW j \in Jobs, DespawnReleases(j) PROVE PortInv'
    <2>0. PICK p \in Parts : p = job[j].part
        BY <1>10 DEF DespawnReleases, Types, JobsOK, JobOK
    <2>1. \A k \in Jobs : job'[k].pc \in {"run", "bind"} => job'[k] = job[k]
        BY <1>0, <1>10 DEF DespawnReleases, Goes, JobRecord
    <2>2. /\ UNCHANGED <<box, origin>>
          /\ lost' = lost \cup ServerOf(p) /\ dropped' = dropped \cup SpawnsOf(p)
          /\ \A r \in Parts \ {p} : reserved'[r] = reserved[r]
        BY <1>10, <2>0 DEF DespawnReleases, Types, FilesOK
    <2>3. ~Stands(p)'
        BY <2>1, <2>2 DEF Stands, At, ServerOf, SpawnsOf
    <2>. QED  BY <2>1, <2>2, <2>3, KeptPorts DEF NoneNew, Keeps
<1>11. ASSUME NEW p \in Parts, PublisherEnds(p) \/ Adopts(p) PROVE PortInv'
    BY <1>2, <1>11 DEF PublisherEnds, Adopts, ghosts
<1>12. ASSUME NEW n \in Servers, Reports(n) \/ Expires(n) PROVE PortInv'
    BY <1>2, <1>12 DEF Reports, Expires, ghosts
<1>13. CASE UNCHANGED vars
    BY <1>2, <1>13 DEF vars, ghosts
<1>. QED  BY <1>4, <1>5, <1>6, <1>7, <1>8, <1>9, <1>10, <1>11, <1>12, <1>13, ReservesOne, RunsOne
          DEF Next, SpawnGoesOn, DespawnGoesOn

LEMMA PortsAlways == Spec => []PortInv
<1>1. Init => PortInv
    BY DEF Init, PortInv, BoxKept, PortKept, ReservedOnce, Stands, At, Idle
<1>. QED  BY <1>1, PortSteps, TypesAlways, SpawnAlways, PTL DEF Spec

\* Two servers have the same port only if one of them lost its reservation, in one of the
\* steps that give a reservation up.
THEOREM PortsGivenOnce == Spec => []PortsDistinct
<1>1. PortInv => PortsDistinct
    BY DEF PortInv, PortsDistinct, BoxKept, ReservedOnce, Stands
<1>. QED  BY <1>1, PortsAlways, PTL

-----------------------------------------------------------------------------
(* Bindings *)

\* p is not known for a wrong binding, nor is its server being despawned.
Wrong(p) == bound[p] # NoServer /\ box[p] # bound[p]
Leaving(p) == \E j \in At({"release", "clean"}) : job[j].seen = bound[p]

LEMMA LivelySteps ==
    ASSUME Types, SpawnInv, PortInv, BindingsLive, [Next]_vars
    PROVE  BindingsLive'
<1>0. /\ bound \in [Parts -> AnyServer] /\ box \in [Parts -> AnyServer] /\ job \in [Jobs -> JobRecord]
      /\ \A k \in Jobs : job[k].pc # "idle" => job[k].part \in Parts
    BY DEF Types, TablesOK, BoxesOK, JobsOK, JobOK
<1>1. \A q \in Parts : Wrong(q) => q \in astray \/ Leaving(q)
    BY DEF BindingsLive, Wrong, Leaving
<1>2. ASSUME \A q \in Parts : Wrong(q)' => q \in astray' \/ Leaving(q)' PROVE BindingsLive'
    BY <1>2 DEF BindingsLive, Wrong, Leaving
\* A script that is not despawning moves on.
<1>3. ASSUME NEW j \in Jobs, job[j].pc \notin {"release", "clean"}, \A k \in Jobs \ {j} : job'[k] = job[k],
             NEW q \in Parts, bound'[q] = bound[q], Leaving(q)
      PROVE  Leaving(q)'
    BY <1>3 DEF Leaving, At
<1>4. CASE UNCHANGED <<box, bound, astray, job>>
    BY <1>1, <1>2, <1>4 DEF Wrong, Leaving, At
<1>5. ASSUME NEW j \in Jobs, job[j].pc \notin {"release", "clean"}, \A k \in Jobs \ {j} : job'[k] = job[k],
             UNCHANGED <<box, bound, astray>>
      PROVE  BindingsLive'
    BY <1>1, <1>2, <1>3, <1>5 DEF Wrong
<1>6. ASSUME NEW j \in Jobs, NEW p \in Parts, SpawnStarts(j, p) \/ DespawnStarts(j, p) PROVE BindingsLive'
    BY <1>0, <1>5, <1>6 DEF SpawnStarts, DespawnStarts, database, ghosts
<1>7. ASSUME NEW j \in Jobs, SpawnReserves(j) \/ SpawnEnds(j) \/ SpawnFails(j) \/ SpawnCleansUp(j)
      PROVE  BindingsLive'
    <2>1. job[j].pc \notin {"release", "clean"} /\ UNCHANGED <<box, bound, astray>>
        BY <1>7 DEF SpawnReserves, SpawnEnds, SpawnFails, SpawnCleansUp, database, ghosts
    <2>2. \A k \in Jobs \ {j} : job'[k] = job[k]
        BY <1>0, <1>7 DEF SpawnReserves, SpawnEnds, SpawnFails, SpawnCleansUp, Exits
    <2>. QED  BY <1>5, <2>1, <2>2
<1>8. ASSUME NEW j \in Jobs, SpawnLocks(j) PROVE BindingsLive'
    <2>. DEFINE p == job[j].part
    <2>1. p \in Parts /\ job[j].pc = "lock" /\ box' = box /\ \A k \in Jobs \ {j} : job'[k] = job[k]
        BY <1>0, <1>8 DEF SpawnLocks, Exits, Goes
    <2>2. CASE UNCHANGED <<bound, astray>>
        BY <1>5, <2>1, <2>2
    <2>3. CASE /\ bound' = [bound EXCEPT ![p] = IF bound[p] = job[j].seen THEN NoServer ELSE bound[p]]
               /\ astray' = IF bound'[p] = NoServer THEN astray \ {p} ELSE astray \cup {p}
        <3>1. \A q \in Parts \ {p} : bound'[q] = bound[q] /\ (q \in astray => q \in astray')
            BY <1>0, <2>3
        <3>2. bound'[p] # NoServer => p \in astray'
            BY <2>3
        <3>. HIDE DEF p
        <3>3. ASSUME NEW q \in Parts, Wrong(q)' PROVE q \in astray' \/ Leaving(q)'
            <4>1. CASE q = p
                BY <3>2, <3>3, <4>1 DEF Wrong
            <4>2. CASE q # p
                BY <1>1, <1>3, <2>1, <3>1, <3>3, <4>2 DEF Wrong
            <4>. QED  BY <4>1, <4>2
        <3>. QED  BY <1>2, <3>3
    <2>. QED  BY <1>8, <2>2, <2>3 DEF SpawnLocks, database
<1>9. ASSUME NEW j \in Jobs, SpawnRuns(j) PROVE BindingsLive'
    <2>. DEFINE p == job[j].part
    <2>1. p \in Parts /\ job[j].pc = "run" /\ \A k \in Jobs \ {j} : job'[k] = job[k]
        BY <1>0, <1>9 DEF SpawnRuns, Goes
    <2>2. bound' = bound /\ astray' = astray /\ \A q \in Parts \ {p} : box'[q] = box[q]
        BY <1>0, <1>9 DEF SpawnRuns, database, ghosts
    <2>3. bound[p] # NoServer => p \in astray
        BY <2>1 DEF SpawnInv, AstrayKnown, At
    <2>. HIDE DEF p
    <2>4. ASSUME NEW q \in Parts, Wrong(q)' PROVE q \in astray' \/ Leaving(q)'
        BY <1>1, <1>3, <2>1, <2>2, <2>3, <2>4 DEF Wrong
    <2>. QED  BY <1>2, <2>4
<1>10. ASSUME NEW j \in Jobs, SpawnBinds(j) PROVE BindingsLive'
    <2>. DEFINE p == job[j].part
    <2>1. /\ p \in Parts /\ job[j].pc = "bind" /\ \A k \in Jobs \ {j} : job'[k] = job[k]
          /\ box' = box
        BY <1>0, <1>10 DEF SpawnBinds, Exits
    <2>2. PICK n \in alive :
             /\ origin[n].port = job[j].port
             /\ bound' = [bound EXCEPT ![p] = n]
             /\ astray' = IF n = box[p] \/ (Running(n) /\ n \notin lost /\ j \notin dropped)
                          THEN astray ELSE astray \cup {p}
        BY <1>10 DEF SpawnBinds
    <2>3. /\ \A q \in Parts \ {p} : bound'[q] = bound[q] /\ (q \in astray => q \in astray')
          /\ bound'[p] = n
        BY <1>0, <2>1, <2>2
    \* A server of another partition reports from the port of p only if a reservation was lost.
    <2>4. box[p] = n \/ p \in astray'
        <3>. SUFFICES ASSUME box[p] # n, p \notin astray' PROVE FALSE
            OBVIOUS
        <3>1. Running(n) /\ n \notin lost /\ j \in At({"run", "bind"}) \ dropped
            BY <2>1, <2>2 DEF At
        <3>2. PICK r \in Parts : box[r] = n
            BY <3>1 DEF Running
        <3>3. n # NoServer /\ r # p
            BY <3>2 DEF Types, TablesOK, Servers, NoServer
        <3>4. reserved[p] = job[j].port /\ reserved[r] = origin[n].port
            BY <3>1, <3>2, <3>3 DEF PortInv, PortKept, BoxKept
        <3>5. Stands(p) /\ Stands(r)
            BY <3>1, <3>2, <3>3 DEF Stands
        <3>. QED  BY <2>1, <2>2, <3>3, <3>4, <3>5 DEF PortInv, ReservedOnce
    <2>. HIDE DEF p
    <2>5. ASSUME NEW q \in Parts, Wrong(q)' PROVE q \in astray' \/ Leaving(q)'
        <3>1. CASE q = p
            BY <2>1, <2>3, <2>4, <2>5, <3>1 DEF Wrong
        <3>2. CASE q # p
            BY <1>1, <1>3, <2>1, <2>3, <2>5, <3>2 DEF Wrong
        <3>. QED  BY <3>1, <3>2
    <2>. QED  BY <1>2, <2>5
<1>11. ASSUME NEW j \in Jobs, DespawnRemoves(j) PROVE BindingsLive'
    <2>. DEFINE p == job[j].part
    <2>1. /\ p \in Parts /\ job[j].pc = "remove" /\ bound' = bound
          /\ \A k \in Jobs \ {j} : job'[k] = job[k]
          /\ job'[j].pc = "release" /\ job'[j].seen = job[j].seen
          /\ \A q \in Parts \ {p} : box'[q] = box[q]
        BY <1>0, <1>11 DEF DespawnRemoves, Goes, JobRecord, database
    <2>2. astray \subseteq astray' /\ (bound[p] \in {NoServer, job[j].seen} \/ p \in astray')
        BY <1>11 DEF DespawnRemoves
    <2>. HIDE DEF p
    <2>3. ASSUME NEW q \in Parts, Wrong(q)' PROVE q \in astray' \/ Leaving(q)'
        <3>1. CASE q = p
            BY <2>1, <2>2, <2>3, <3>1 DEF Wrong, Leaving, At
        <3>2. CASE q # p
            BY <1>1, <1>3, <2>1, <2>2, <2>3, <3>2 DEF Wrong
        <3>. QED  BY <3>1, <3>2
    <2>. QED  BY <1>2, <2>3
<1>12. ASSUME NEW j \in Jobs, DespawnReleases(j) PROVE BindingsLive'
    <2>1. /\ UNCHANGED <<box, bound, astray>> /\ \A k \in Jobs \ {j} : job'[k] = job[k]
          /\ job'[j].pc = "clean" /\ job'[j].seen = job[j].seen
        BY <1>0, <1>12 DEF DespawnReleases, Goes, JobRecord, database
    <2>2. \A q \in Parts : Leaving(q) => Leaving(q)'
        BY <2>1 DEF Leaving, At
    <2>. QED  BY <1>1, <1>2, <2>1, <2>2 DEF Wrong
<1>13. ASSUME NEW j \in Jobs, DespawnCleans(j) PROVE BindingsLive'
    <2>1. /\ box' = box /\ \A k \in Jobs \ {j} : job'[k] = job[k]
          /\ \A q \in Parts : bound'[q] # NoServer => /\ bound'[q] = bound[q] /\ bound[q] # job[j].seen
                                                      /\ q \in astray => q \in astray'
        BY <1>0, <1>13 DEF DespawnCleans, Exits, PartsOf
    <2>2. \A q \in Parts : bound'[q] # NoServer /\ Leaving(q) => Leaving(q)'
        BY <2>1 DEF Leaving, At
    <2>. QED  BY <1>1, <1>2, <2>1, <2>2 DEF Wrong
<1>14. ASSUME NEW j \in Jobs, Killed(j) PROVE BindingsLive'
    <2>1. /\ UNCHANGED <<box, bound>> /\ \A k \in Jobs \ {j} : job'[k] = job[k]
          /\ astray \subseteq astray'
          /\ job[j].pc \in {"release", "clean"} => PartsOf(job[j].seen) \subseteq astray'
        BY <1>0, <1>14 DEF Killed, Exits, database
    <2>2. \A q \in Parts : Wrong(q) /\ Leaving(q) => Leaving(q)' \/ q \in astray'
        BY <2>1 DEF Leaving, At, PartsOf, Wrong
    <2>. QED  BY <1>1, <1>2, <2>1, <2>2 DEF Wrong
<1>15. ASSUME NEW p \in Parts, Adopts(p) PROVE BindingsLive'
    <2>1. PICK n \in alive : /\ bound' = [bound EXCEPT ![p] = n]
                             /\ astray' = IF box[p] = n /\ ~Locked(p) THEN astray ELSE astray \cup {p}
        BY <1>15 DEF Adopts
    <2>2. job' = job /\ box' = box
        BY <1>15 DEF Adopts
    <2>3. ASSUME NEW q \in Parts, Wrong(q)' PROVE q \in astray' \/ Leaving(q)'
        <3>1. CASE q = p
            BY <1>0, <2>1, <2>2, <2>3, <3>1 DEF Wrong
        <3>2. CASE q # p
            BY <1>0, <1>1, <2>1, <2>2, <2>3, <3>2 DEF Wrong, Leaving, At
        <3>. QED  BY <3>1, <3>2
    <2>. QED  BY <1>2, <2>3
<1>16. ASSUME NEW p \in Parts, PublisherEnds(p) PROVE BindingsLive'
    BY <1>4, <1>16 DEF PublisherEnds, database, ghosts
<1>17. ASSUME NEW n \in Servers, Reports(n) \/ Expires(n) PROVE BindingsLive'
    BY <1>4, <1>17 DEF Reports, Expires, ghosts
<1>18. CASE UNCHANGED vars
    BY <1>4, <1>18 DEF vars, database, ghosts
<1>. QED  BY <1>6, <1>7, <1>8, <1>9, <1>10, <1>11, <1>12, <1>13, <1>14, <1>15, <1>16, <1>17, <1>18
          DEF Next, SpawnGoesOn, DespawnGoesOn

\* The server a partition is bound to runs in its container or is being despawned, except
\* where a script overlapped the one that bound it, was killed, or lost a reservation.
THEOREM BindingsKnown == Spec => []BindingsLive
<1>1. Init => BindingsLive
    BY DEF Init, BindingsLive
<1>2. Types /\ SpawnInv /\ PortInv /\ BindingsLive /\ [Next]_vars => BindingsLive'
    BY LivelySteps
<1>. QED  BY <1>1, <1>2, TypesAlways, SpawnAlways, PortsAlways, PTL DEF Spec
=============================================================================
