-------------------------- MODULE BaseDeletesProofs --------------------------
(***************************************************************************)
(* Theorems about BaseDeletes, for any bases, partitions, requests and     *)
(* settings: its types, that no request is lost, that none is given up     *)
(* without its failures, and that a pass deletes on a partition only after *)
(* a disconnection that it could see.                                      *)
(***************************************************************************)
EXTENDS BaseDeletes, TLAPS

-----------------------------------------------------------------------------
(* The operators on the queue *)

Queues == UNION {[D -> Entry] : D \in SUBSET Bases}
Decision == {d \in [stamp: Stamps, keep: BOOLEAN, attempts: Nat, retryAt: Nat] :
                d.keep => d.attempts < MaxAttempts}
Decisions == UNION {[D -> Decision] : D \in SUBSET Bases}

LEMMA QueueType == ASSUME NEW q PROVE q \in Queues <=> IsQueue(q)
BY DEF Queues, IsQueue

LEMMA DecisionType ==
    ASSUME NEW d
    PROVE  d \in Decisions <=> DOMAIN d \subseteq Bases /\ d \in [DOMAIN d -> Decision]
BY DEF Decisions

LEMMA NothingType == Nothing \in Queues /\ Nothing \in Decisions /\ DOMAIN Nothing = {}
<1>1. DOMAIN Nothing = {}
    BY DEF Nothing
<1>2. Nothing \in [{} -> Entry] /\ Nothing \in [{} -> Decision]
    BY DEF Nothing
<1>. QED  BY <1>1, <1>2 DEF Queues, Decisions

\* What Put and Without do to a queue, and to the decisions of a pass.
LEMMA PutQueue ==
    ASSUME NEW q \in Queues, NEW b \in Bases, NEW e \in Entry
    PROVE  /\ Put(q, b, e) \in Queues
           /\ DOMAIN Put(q, b, e) = DOMAIN q \cup {b}
           /\ Put(q, b, e)[b] = e
           /\ \A x \in DOMAIN q : x # b => Put(q, b, e)[x] = q[x]
<1>1. IsQueue(q)
    BY QueueType
<1>2. IsQueue(Put(q, b, e))
    BY <1>1 DEF IsQueue, Put
<1>. QED  BY <1>1, <1>2, QueueType DEF Put

LEMMA PutDecision ==
    ASSUME NEW d \in Decisions, NEW b \in Bases, NEW o \in Decision
    PROVE  /\ Put(d, b, o) \in Decisions
           /\ DOMAIN Put(d, b, o) = DOMAIN d \cup {b}
           /\ Put(d, b, o)[b] = o
           /\ \A x \in DOMAIN d : x # b => Put(d, b, o)[x] = d[x]
<1>1. DOMAIN d \subseteq Bases /\ d \in [DOMAIN d -> Decision]
    BY DecisionType
<1>2. /\ DOMAIN Put(d, b, o) \subseteq Bases
      /\ Put(d, b, o) \in [DOMAIN Put(d, b, o) -> Decision]
    BY <1>1 DEF Put
<1>. QED  BY <1>1, <1>2, DecisionType DEF Put

LEMMA WithoutQueue ==
    ASSUME NEW q \in Queues, NEW b
    PROVE  /\ Without(q, b) \in Queues
           /\ DOMAIN Without(q, b) = DOMAIN q \ {b}
           /\ \A x \in DOMAIN q \ {b} : Without(q, b)[x] = q[x]
<1>1. IsQueue(q)
    BY QueueType
<1>2. IsQueue(Without(q, b))
    BY <1>1 DEF IsQueue, Without
<1>. QED  BY <1>1, <1>2, QueueType DEF Without

\* A pass that ends removes only what it processed and does not keep, and changes only
\* the attempts of what it processed and keeps.
LEMMA ReconciledQueue ==
    ASSUME NEW q \in Queues, NEW d \in Decisions
    PROVE  /\ Reconciled(q, d) \in Queues
           /\ DOMAIN Reconciled(q, d) = {b \in DOMAIN q : Processed(q, d, b) => d[b].keep}
           /\ \A b \in DOMAIN Reconciled(q, d) :
                 /\ Reconciled(q, d)[b].stamp = q[b].stamp
                 /\ Reconciled(q, d)[b].attempts =
                        IF Processed(q, d, b) THEN d[b].attempts ELSE q[b].attempts
<1>. DEFINE r == Reconciled(q, d)
<1>1. IsQueue(q) /\ DOMAIN d \subseteq Bases /\ d \in [DOMAIN d -> Decision]
    BY QueueType, DecisionType
<1>2. DOMAIN r = {b \in DOMAIN q : Processed(q, d, b) => d[b].keep}
    BY DEF Reconciled
<1>3. ASSUME NEW b \in DOMAIN r
      PROVE  /\ r[b] \in Entry /\ r[b].stamp = q[b].stamp
             /\ r[b].attempts = IF Processed(q, d, b) THEN d[b].attempts ELSE q[b].attempts
    <2>1. q[b] \in Entry /\ (Processed(q, d, b) => d[b].keep)
        BY <1>1, <1>2 DEF IsQueue
    <2>2. CASE Processed(q, d, b)
        <3>1. d[b] \in Decision /\ d[b].attempts < MaxAttempts
            BY <1>1, <2>1, <2>2 DEF Processed, Decision
        <3>2. r[b] = [q[b] EXCEPT !.attempts = d[b].attempts, !.retryAt = d[b].retryAt]
            BY <1>2, <2>2 DEF Reconciled
        <3>3. d[b].attempts \in 0..MaxAttempts /\ d[b].retryAt \in Nat
            BY <3>1, LimitAssumption DEF Decision
        <3>. QED  BY <2>1, <2>2, <3>2, <3>3 DEF Entry
    <2>3. CASE ~Processed(q, d, b)
        <3>1. r[b] = q[b]
            BY <1>2, <2>3 DEF Reconciled
        <3>. QED  BY <2>1, <2>3, <3>1
    <2>. QED  BY <2>2, <2>3
<1>4. r \in [DOMAIN r -> Entry]
    BY <1>3 DEF Reconciled
<1>5. IsQueue(r)
    BY <1>1, <1>2, <1>4 DEF IsQueue
<1>. QED  BY <1>2, <1>3, <1>5, QueueType

-----------------------------------------------------------------------------
(* Types *)

NoBase == CHOOSE b \in Bases : TRUE
RouteRecord == [pc: {"idle", "target", "backup", "apply"}, base: Bases \cup {NoBase}]
PassRecord ==
    [pc: {"idle", "next", "observe", "probe", "backup", "apply", "hung"},
     by: {"nobody", "poll", "hook", "late"}, now: Nat, todo: Queues, done: Decisions,
     cur: Bases \cup {NoBase}, trusted: SUBSET Partitions, backed: BOOLEAN,
     seen: SUBSET Partitions]
RestartRecord ==
    [pc: {"idle", "waiting", "flushing", "starting"}, of: SUBSET Partitions,
     trusted: SUBSET Partitions]

\* At an entry of its copy.
AtEntry == pass.pc \in {"observe", "probe", "backup", "apply"}

WindowOK ==
    /\ clock \in 0..MaxClock /\ outages \in 0..MaxOutages
    /\ server \in [Partitions -> {"live", "gap", "down", "booting"}]
    /\ assigned \subseteq Partitions
    /\ DOMAIN since \subseteq Partitions /\ \A p \in DOMAIN since : since[p] \in 0..clock
FilesOK ==
    /\ base \in [Bases -> Partitions \cup {"backedUp", "gone"}]
    /\ queue \in Queues /\ nextStamp \in 1..(MaxStamps + 1)
RouteOK ==
    /\ route \in [Clients -> RouteRecord]
    /\ \A c \in Clients : route[c].pc # "idle" => route[c].base \in Bases
PassOK ==
    /\ pass \in PassRecord /\ pass.now <= clock
    /\ DOMAIN pass.done \cap DOMAIN pass.todo = {}
    /\ AtEntry => pass.cur \in DOMAIN pass.todo
    /\ pass.pc = "idle" => pass.by = "nobody"
RestartOK ==
    /\ restart \in RestartRecord /\ restart.trusted \subseteq restart.of
    /\ pass.by = "hook" <=> restart.pc = "flushing"
GhostsOK ==
    /\ faults \in 0..MaxFaults
    /\ fate \in [Stamps -> SUBSET Endings] /\ fails \in [Stamps -> 0..faults]
Types == WindowOK /\ FilesOK /\ RouteOK /\ PassOK /\ RestartOK /\ GhostsOK

LEMMA InitTypes == Init => Types
<1>. SUFFICES ASSUME Init PROVE Types
    OBVIOUS
<1>1. WindowOK
    BY WindowBoundAssumption DEF Init, WindowInit, WindowOK
<1>2. FilesOK
    <2>1. \A b \in DOMAIN Backlog : /\ Backlog[b] \in Stamps
                                     /\ Home[b] \in Partitions
        BY BacklogAssumption, SiteAssumption, LimitAssumption DEF Stamps
    <2>2. IsQueue(queue)
        BY <2>1, BacklogAssumption, LimitAssumption DEF Init, IsQueue, Entry
    <2>3. nextStamp \in 1..(MaxStamps + 1)
        BY BacklogAssumption, LimitAssumption DEF Init
    <2>. QED  BY <2>2, <2>3, QueueType, SiteAssumption DEF Init, FilesOK
<1>3. RouteOK
    BY DEF Init, RouteOK, IdleRoute, RouteRecord, NoBase
<1>4. PassOK
    BY <1>1, NothingType DEF Init, PassOK, AtEntry, IdlePass, PassRecord, NoBase, WindowOK
<1>5. RestartOK
    BY DEF Init, RestartOK, IdleRestart, IdlePass, RestartRecord
<1>6. GhostsOK
    BY LimitAssumption DEF Init, GhostsOK
<1>. QED  BY <1>1, <1>2, <1>3, <1>4, <1>5, <1>6 DEF Types

LEMMA TypesSuffice == Types => TypeOK
<1>. SUFFICES ASSUME Types PROVE TypeOK
    OBVIOUS
<1>1. IsQueue(queue) /\ IsQueue(pass.todo)
    BY QueueType DEF Types, FilesOK, PassOK, PassRecord
<1>2. DOMAIN pass.done \subseteq Bases
    BY DecisionType DEF Types, PassOK, PassRecord
<1>3. pass.now \in 0..clock
    BY DEF Types, PassOK, PassRecord, WindowOK
<1>4. fails \in [Stamps -> 0..MaxFaults]
    BY LimitAssumption DEF Types, GhostsOK
<1>5. \A c \in Clients : /\ route[c].pc \in {"idle", "target", "backup", "apply"}
                         /\ route[c].pc # "idle" => route[c].base \in Bases
    BY DEF Types, RouteOK, RouteRecord
<1>6. /\ pass.pc \in {"idle", "next", "observe", "probe", "backup", "apply", "hung"}
      /\ pass.by \in {"nobody", "poll", "hook", "late"}
      /\ pass.pc \notin {"idle", "next", "hung"} => pass.cur \in DOMAIN pass.todo
      /\ DOMAIN pass.done \cap DOMAIN pass.todo = {}
    BY DEF Types, PassOK, PassRecord, AtEntry
<1>7. /\ pass.by = "hook" <=> restart.pc = "flushing"
      /\ restart.pc \in {"idle", "waiting", "flushing", "starting"}
      /\ restart.of \subseteq Partitions /\ restart.trusted \subseteq restart.of
    BY DEF Types, RestartOK, RestartRecord
<1>8. /\ clock \in 0..MaxClock /\ outages \in 0..MaxOutages /\ faults \in 0..MaxFaults
      /\ server \in [Partitions -> {"live", "gap", "down", "booting"}]
      /\ assigned \subseteq Partitions
      /\ DOMAIN since \subseteq Partitions /\ \A p \in DOMAIN since : since[p] \in 0..clock
      /\ fate \in [Stamps -> SUBSET Endings]
    BY DEF Types, WindowOK, GhostsOK
<1>9. base \in [Bases -> Partitions \cup {"backedUp", "gone"}] /\ nextStamp \in 1..(MaxStamps + 1)
    BY DEF Types, FilesOK
<1>. QED  BY <1>1, <1>2, <1>3, <1>4, <1>5, <1>6, <1>7, <1>8, <1>9 DEF TypeOK

\* What a pass turns to, and away from.
LEMMA CurrentEntry ==
    ASSUME Types, AtEntry
    PROVE  pass.cur \in DOMAIN pass.todo /\ pass.cur \in Bases /\ Current \in Entry
<1>1. pass.cur \in DOMAIN pass.todo
    BY DEF Types, PassOK
<1>2. IsQueue(pass.todo)
    BY QueueType DEF Types, PassOK, PassRecord
<1>. QED  BY <1>1, <1>2 DEF IsQueue, Current

\* What a step does to the map servers and to the dwell timers.
WindowStep ==
    \/ UNCHANGED window
    \/ since' \in {since, SinceAfter, [p \in {} |-> 0]} /\ UNCHANGED <<clock, server, assigned, outages>>
    \/ World
    \/ \E S \in SUBSET Partitions, d \in BOOLEAN : RestartStops(S, d)
    \/ RestartStarts

LEMMA StepMovesWindow == [Next]_vars => WindowStep
<1>. SUFFICES ASSUME [Next]_vars PROVE WindowStep
    OBVIOUS
<1>1. ASSUME NEW c \in Clients, Route(c) PROVE WindowStep
    BY <1>1 DEF Route, WindowStep, RouteReserves, RouteQueues, RouteIsImmediate, RouteBacksUp,
                RouteDeletes, RouteFails, Observe, window
<1>2. ASSUME NEW b \in Bases, Cancel(b) \/ PlayerMoves(b) PROVE WindowStep
    BY <1>2 DEF Cancel, PlayerMoves, WindowStep
<1>3. CASE PollBegins \/ HookBegins
    BY <1>3 DEF PollBegins, HookBegins, Begin, Observe, WindowStep
<1>4. CASE Pass \/ PassHangs
    BY <1>4 DEF Pass, PassTurns, PassObserves, PassProbes, PassBacksUp, PassDeletes, PassIsRefused,
                PassEnds, PassAborts, PassDeleteThrows, PassHangs, Observe, WindowStep
<1>5. ASSUME NEW S \in {{p} : p \in Partitions} \cup {Partitions}, NEW d \in BOOLEAN, RestartStops(S, d)
      PROVE  WindowStep
    <2>1. S \in SUBSET Partitions
        OBVIOUS
    <2>. QED  BY <1>5, <2>1 DEF WindowStep
<1>6. CASE HookReturns \/ RestartTimesOut \/ RestartStarts
    BY <1>6 DEF HookReturns, RestartTimesOut, WindowStep
<1>7. CASE WorldMoves \/ Crash
    BY <1>7 DEF WorldMoves, Crash, WindowStep
<1>8. CASE UNCHANGED vars
    BY <1>8 DEF vars, WindowStep
<1>. QED  BY <1>1, <1>2, <1>3, <1>4, <1>5, <1>6, <1>7, <1>8 DEF Next, Restart

LEMMA WindowNext == ASSUME WindowOK, RestartOK, WindowStep PROVE WindowOK' /\ clock <= clock'
<1>. USE WindowBoundAssumption DEF WindowOK
<1>1. CASE UNCHANGED window
    BY <1>1 DEF window
<1>2. CASE since' \in {since, SinceAfter, [p \in {} |-> 0]} /\ UNCHANGED <<clock, server, assigned, outages>>
    BY <1>2 DEF SinceAfter
<1>3. ASSUME NEW p \in Partitions, ServerStops(p) \/ ServerBoots(p) \/ ServerConnects(p) \/ ConnectionDrops(p)
      PROVE  WindowOK' /\ clock <= clock'
    BY <1>3 DEF ServerStops, ServerBoots, ServerConnects, ConnectionDrops, Stopped
<1>4. CASE TimePasses
    BY <1>4 DEF TimePasses
<1>5. ASSUME NEW S \in SUBSET Partitions, NEW d \in BOOLEAN, RestartStops(S, d)
      PROVE  WindowOK' /\ clock <= clock'
    BY <1>5 DEF RestartStops, Stopped
<1>6. CASE RestartStarts
    <2>1. restart.of \subseteq Partitions
        BY DEF RestartOK, RestartRecord
    <2>. QED  BY <1>6, <2>1 DEF RestartStarts
<1>. QED  BY <1>1, <1>2, <1>3, <1>4, <1>5, <1>6 DEF WindowStep, World

LEMMA EndsType ==
    ASSUME GhostsOK, NEW s \in Stamps, NEW how \in Endings, Ends(s, how)
    PROVE  fate' \in [Stamps -> SUBSET Endings]
BY DEF GhostsOK, Ends

LEMMA QueuedEntry == ASSUME FilesOK, NEW b \in DOMAIN queue PROVE b \in Bases /\ queue[b] \in Entry
BY QueueType DEF FilesOK, IsQueue

LEMMA EnqueueTypes ==
    ASSUME Types, NEW b \in Bases, NEW part \in Partitions \cup {Nowhere}, Enqueue(b, part)
    PROVE  /\ queue' \in Queues /\ nextStamp' \in 1..(MaxStamps + 1)
           /\ fate' \in [Stamps -> SUBSET Endings]
           /\ nextStamp \in Stamps /\ NewEntry(part) \in Entry
<1>. USE LimitAssumption
<1>1. nextStamp \in Stamps /\ nextStamp' \in 1..(MaxStamps + 1)
    BY DEF Enqueue, Types, FilesOK, Stamps
<1>2. NewEntry(part) \in Entry
    BY <1>1 DEF NewEntry, Entry, Types, WindowOK
<1>3. queue' \in Queues
    BY <1>2, PutQueue DEF Enqueue, Types, FilesOK
<1>4. fate' \in [Stamps -> SUBSET Endings]
    <2>1. CASE b \in DOMAIN queue
        <3>1. queue[b].stamp \in Stamps
            BY <2>1, QueuedEntry DEF Types, Entry
        <3>2. Ends(queue[b].stamp, "replaced")
            BY <2>1 DEF Enqueue
        <3>. QED  BY <3>1, <3>2, EndsType DEF Types, Endings
    <2>2. CASE b \notin DOMAIN queue
        BY <2>2 DEF Enqueue, Types, GhostsOK
    <2>. QED  BY <2>1, <2>2
<1>. QED  BY <1>1, <1>2, <1>3, <1>4

LEMMA DequeueTypes ==
    ASSUME Types, NEW b, NEW how \in Endings, Dequeue(b, how)
    PROVE  queue' \in Queues /\ fate' \in [Stamps -> SUBSET Endings]
<1>1. queue' \in Queues
    BY WithoutQueue DEF Dequeue, Types, FilesOK
<1>2. CASE b \in DOMAIN queue
    <2>1. queue[b].stamp \in Stamps
        BY <1>2, QueuedEntry DEF Types, Entry
    <2>2. Ends(queue[b].stamp, how)
        BY <1>2 DEF Dequeue
    <2>. QED  BY <1>1, <2>1, <2>2, EndsType DEF Types
<1>3. CASE b \notin DOMAIN queue
    BY <1>1, <1>3 DEF Dequeue, Types, GhostsOK
<1>. QED  BY <1>2, <1>3

\* The parts of Types that are not the window's.
Rest == FilesOK /\ RouteOK /\ PassOK /\ RestartOK /\ GhostsOK

\* A pass that is as it was, while time passes.
LEMMA PassStays ==
    ASSUME PassOK, WindowOK, WindowOK', clock <= clock', pass' = pass
    PROVE  PassOK'
BY DEF PassOK, AtEntry, PassRecord, WindowOK

LEMMA IdlePassOK == ASSUME WindowOK', pass' = IdlePass PROVE PassOK' /\ pass'.by = "nobody"
BY NothingType DEF PassOK, AtEntry, IdlePass, PassRecord, NoBase, WindowOK

LEMMA IdleRouteOK ==
    ASSUME RouteOK, NEW c \in Clients, route' = [route EXCEPT ![c] = IdleRoute]
    PROVE  RouteOK'
BY DEF RouteOK, RouteRecord, IdleRoute, NoBase

LEMMA RouteTypes ==
    ASSUME Types, WindowOK', clock <= clock', NEW c \in Clients, Route(c)
    PROVE  Rest'
<1>1. PassOK' /\ RestartOK'
    <2>1. pass' = pass /\ restart' = restart
        BY DEF Route, RouteReserves, RouteQueues, RouteIsImmediate, RouteBacksUp, RouteDeletes, RouteFails
    <2>. QED  BY <2>1, PassStays DEF Types, RestartOK
<1>2. UNCHANGED <<faults, fails>>
    BY DEF Route, RouteReserves, RouteQueues, RouteIsImmediate, RouteBacksUp, RouteDeletes, RouteFails
<1>3. route \in [Clients -> RouteRecord]
    BY DEF Types, RouteOK
<1>4. ASSUME NEW b \in Bases, RouteReserves(c, b) PROVE Rest'
    <2>1. Enqueue(b, Nowhere) /\ UNCHANGED base
        BY <1>4 DEF RouteReserves
    <2>2. RouteOK'
        BY <1>4 DEF RouteReserves, Types, RouteOK, RouteRecord
    <2>. QED  BY <1>1, <1>2, <2>1, <2>2, EnqueueTypes DEF Rest, Types, FilesOK, GhostsOK
<1>5. CASE RouteQueues(c)
    <2>1. route[c].base \in Bases
        BY <1>5 DEF RouteQueues, Types, RouteOK
    <2>2. Location(route[c].base) \in Partitions \cup {Nowhere}
        BY DEF Location
    <2>3. Enqueue(route[c].base, Location(route[c].base)) /\ UNCHANGED base
        BY <1>5 DEF RouteQueues
    <2>4. RouteOK'
        BY <1>5, IdleRouteOK DEF RouteQueues, Types
    <2>. QED  BY <1>1, <1>2, <2>1, <2>2, <2>3, <2>4, EnqueueTypes DEF Rest, Types, FilesOK, GhostsOK
<1>6. CASE RouteIsImmediate(c) \/ RouteBacksUp(c)
    <2>1. UNCHANGED <<base, queue, nextStamp, fate>>
        BY <1>6 DEF RouteIsImmediate, RouteBacksUp
    <2>2. PICK pc \in {"backup", "apply"} : route' = [route EXCEPT ![c].pc = pc]
        BY <1>6 DEF RouteIsImmediate, RouteBacksUp
    <2>3. route[c].base \in Bases
        BY <1>6 DEF RouteIsImmediate, RouteBacksUp, Types, RouteOK
    <2>4. RouteOK'
        BY <2>2, <2>3 DEF Types, RouteOK, RouteRecord
    <2>. QED  BY <1>1, <1>2, <2>1, <2>4 DEF Rest, Types, FilesOK, GhostsOK
<1>7. CASE RouteDeletes(c) \/ RouteFails(c)
    <2>1. /\ Dequeue(route[c].base, "withdrawn")
          /\ route' = [route EXCEPT ![c] = IdleRoute] /\ UNCHANGED nextStamp
          /\ base' = base \/ base' = [base EXCEPT ![route[c].base] = "gone"]
        BY <1>7 DEF RouteDeletes, RouteFails
    <2>2. RouteOK'
        BY <2>1, IdleRouteOK DEF Types
    <2>3. FilesOK'
        BY <2>1, DequeueTypes DEF Types, FilesOK, Endings
    <2>4. fate' \in [Stamps -> SUBSET Endings]
        BY <2>1, DequeueTypes DEF Endings
    <2>. QED  BY <1>1, <1>2, <2>2, <2>3, <2>4 DEF Rest, Types, GhostsOK
<1>. QED  BY <1>4, <1>5, <1>6, <1>7 DEF Route

\* Steps of a pass: what it turns to, decides and drops.
LEMMA TurnedType ==
    ASSUME PassOK, NEW b
    PROVE  /\ Turned(pass, b) \in PassRecord
           /\ Turned(pass, b).pc = "next" /\ Turned(pass, b).by = pass.by
           /\ Turned(pass, b).now = pass.now /\ Turned(pass, b).done = pass.done
           /\ Turned(pass, b).todo = Without(pass.todo, b)
           /\ Turned(pass, b).trusted = pass.trusted /\ Turned(pass, b).seen = {}
<1>1. Without(pass.todo, b) \in Queues
    BY WithoutQueue DEF PassOK, PassRecord
<1>. QED  BY <1>1 DEF Turned, PassOK, PassRecord

LEMMA DecidedType ==
    ASSUME PassOK, NEW b \in Bases, NEW o \in Decision
    PROVE  /\ Decided(pass, b, o) \in PassRecord
           /\ Decided(pass, b, o).pc = "next" /\ Decided(pass, b, o).by = pass.by
           /\ Decided(pass, b, o).now = pass.now /\ Decided(pass, b, o).seen = {}
           /\ Decided(pass, b, o).todo = Without(pass.todo, b)
           /\ Decided(pass, b, o).done = Put(pass.done, b, o)
<1>1. Put(pass.done, b, o) \in Decisions
    BY PutDecision DEF PassOK, PassRecord
<1>. QED  BY <1>1, TurnedType DEF Decided, PassRecord

\* A step that decides, or turns away from, an entry leaves a sound pass.
LEMMA DecidedOK ==
    ASSUME PassOK, WindowOK, WindowOK', clock <= clock', NEW b \in Bases, NEW o \in Decision,
           pass' = Decided(pass, b, o)
    PROVE  PassOK' /\ pass'.by = pass.by
<1>1. /\ DOMAIN pass'.todo = DOMAIN pass.todo \ {b}
      /\ DOMAIN pass'.done = DOMAIN pass.done \cup {b}
    <2>1. pass.todo \in Queues /\ pass.done \in Decisions
        BY DEF PassOK, PassRecord
    <2>2. pass'.todo = Without(pass.todo, b) /\ pass'.done = Put(pass.done, b, o)
        BY DecidedType
    <2>3. DOMAIN Without(pass.todo, b) = DOMAIN pass.todo \ {b}
        BY <2>1, WithoutQueue
    <2>4. DOMAIN Put(pass.done, b, o) = DOMAIN pass.done \cup {b}
        BY <2>1, PutDecision
    <2>. QED  BY <2>2, <2>3, <2>4
<1>2. pass'.now <= clock'
    BY DecidedType DEF PassOK, PassRecord, WindowOK
<1>. QED  BY <1>1, <1>2, DecidedType DEF PassOK, AtEntry

LEMMA TurnedOK ==
    ASSUME PassOK, WindowOK, WindowOK', clock <= clock', NEW b, pass' = Turned(pass, b)
    PROVE  PassOK' /\ pass'.by = pass.by
<1>1. DOMAIN pass'.todo = DOMAIN pass.todo \ {b} /\ pass'.done = pass.done
    <2>1. pass.todo \in Queues
        BY DEF PassOK, PassRecord
    <2>2. pass'.todo = Without(pass.todo, b) /\ pass'.done = pass.done
        BY TurnedType
    <2>. QED  BY <2>1, <2>2, WithoutQueue
<1>2. pass'.now <= clock'
    BY TurnedType DEF PassOK, PassRecord, WindowOK
<1>. QED  BY <1>1, <1>2, TurnedType DEF PassOK, AtEntry

\* The outcomes of an entry are decisions.
LEMMA OutcomeType ==
    ASSUME PassOK, NEW e \in Entry
    PROVE  /\ Drop(e) \in Decision /\ ~Drop(e).keep
           /\ Drop(e).stamp = e.stamp /\ Drop(e).attempts = e.attempts
           /\ \A n \in Nat : /\ Postpone(e, n) \in Decision
                             /\ Postpone(e, n).stamp = e.stamp /\ Postpone(e, n).attempts = n
                             /\ Postpone(e, n).keep <=> n < MaxAttempts
<1>1. e.attempts \in Nat /\ e.retryAt \in Nat /\ e.stamp \in Stamps
    BY LimitAssumption DEF Entry
<1>2. pass.now + RetryDelay \in Nat
    BY LimitAssumption DEF PassOK, PassRecord
<1>3. Drop(e) \in Decision /\ ~Drop(e).keep /\ Drop(e).stamp = e.stamp /\ Drop(e).attempts = e.attempts
    BY <1>1 DEF Drop, Outcome, Decision
<1>4. ASSUME NEW n \in Nat
      PROVE  /\ Postpone(e, n) \in Decision
             /\ Postpone(e, n).stamp = e.stamp /\ Postpone(e, n).attempts = n
             /\ Postpone(e, n).keep <=> n < MaxAttempts
    <2>. DEFINE keep == n < MaxAttempts
    <2>1. keep \in BOOLEAN
        OBVIOUS
    <2>. HIDE DEF keep
    <2>2. Postpone(e, n) = [stamp |-> e.stamp, keep |-> keep, attempts |-> n,
                            retryAt |-> pass.now + RetryDelay]
        BY DEF Postpone, Outcome, keep
    <2>3. Postpone(e, n) \in [stamp: Stamps, keep: BOOLEAN, attempts: Nat, retryAt: Nat]
        BY <1>1, <1>2, <2>1, <2>2
    <2>4. Postpone(e, n).stamp = e.stamp /\ Postpone(e, n).attempts = n
        BY <2>2
    <2>5. Postpone(e, n).keep <=> n < MaxAttempts
        <3>1. Postpone(e, n).keep = keep
            BY <2>2
        <3>2. keep <=> n < MaxAttempts
            BY DEF keep
        <3>. QED  BY <3>1, <3>2, Zenon
    <2>. QED  BY <2>3, <2>4, <2>5 DEF Decision
<1>. QED  BY <1>3, <1>4

LEMMA RestartAsWas ==
    ASSUME RestartOK, restart' = restart, pass'.by = pass.by
    PROVE  RestartOK'
BY DEF RestartOK

\* A decision that ends a request, or keeps it.
LEMMA DecisionTypes ==
    ASSUME Types, WindowOK', clock <= clock', NEW b \in DOMAIN pass.todo, NEW o \in Decision,
           pass' = Decided(pass, b, o), restart' = restart,
           UNCHANGED fate \/ \E how \in Endings : Ends(pass.todo[b].stamp, how)
    PROVE  /\ PassOK' /\ RestartOK' /\ fate' \in [Stamps -> SUBSET Endings]
<1>1. IsQueue(pass.todo)
    BY QueueType DEF Types, PassOK, PassRecord
<1>2. b \in Bases /\ pass.todo[b].stamp \in Stamps
    BY <1>1 DEF IsQueue, Entry
<1>3. PassOK' /\ pass'.by = pass.by
    BY <1>2, DecidedOK DEF Types
<1>4. fate' \in [Stamps -> SUBSET Endings]
    BY <1>2, EndsType DEF Types, GhostsOK
<1>. QED  BY <1>3, <1>4, RestartAsWas DEF Types

LEMMA PassTypes ==
    ASSUME Types, WindowOK', clock <= clock', Pass \/ PassHangs
    PROVE  Rest'
<1>1. UNCHANGED <<route, nextStamp>>
    BY DEF Pass, PassTurns, PassObserves, PassProbes, PassBacksUp, PassDeletes, PassIsRefused,
           PassEnds, PassAborts, PassDeleteThrows, PassHangs
<1>2. RouteOK'
    BY <1>1 DEF Types, RouteOK
<1>3. IsQueue(pass.todo)
    BY QueueType DEF Types, PassOK, PassRecord
<1>4. CASE PassTurns
    <2>1. PICK b \in DOMAIN pass.todo :
             \/ pass' = Decided(pass, b, Drop(pass.todo[b])) /\ Ends(pass.todo[b].stamp, "expired")
             \/ /\ pass.pc = "next" /\ UNCHANGED fate
                /\ pass' = [pass EXCEPT !.pc = "observe", !.cur = b,
                                        !.seen = {p \in Partitions : ~Connected(p)}]
        BY <1>4 DEF PassTurns
    <2>2. UNCHANGED <<base, queue, restart, faults, fails>>
        BY <1>4 DEF PassTurns
    <2>3. FilesOK'
        BY <1>1, <2>2 DEF Types, FilesOK
    <2>4. b \in Bases /\ pass.todo[b] \in Entry
        BY <1>3 DEF IsQueue
    <2>5. PassOK' /\ RestartOK' /\ fate' \in [Stamps -> SUBSET Endings]
        <3>1. CASE pass' = Decided(pass, b, Drop(pass.todo[b])) /\ Ends(pass.todo[b].stamp, "expired")
            <4>1. Drop(pass.todo[b]) \in Decision
                BY <2>4, OutcomeType DEF Types
            <4>. QED  BY <2>2, <3>1, <4>1, DecisionTypes DEF Endings
        <3>2. CASE /\ pass.pc = "next" /\ UNCHANGED fate
                   /\ pass' = [pass EXCEPT !.pc = "observe", !.cur = b,
                                           !.seen = {p \in Partitions : ~Connected(p)}]
            <4>1. pass' \in PassRecord
                BY <2>4, <3>2 DEF Types, PassOK, PassRecord
            <4>2. /\ pass'.pc = "observe" /\ pass'.cur = b /\ pass'.by = pass.by
                  /\ pass'.todo = pass.todo /\ pass'.done = pass.done /\ pass'.now = pass.now
                BY <3>2 DEF Types, PassOK, PassRecord
            <4>3. PassOK'
                BY <4>1, <4>2 DEF Types, PassOK, PassRecord, AtEntry, WindowOK
            <4>. QED  BY <2>2, <3>2, <4>2, <4>3, RestartAsWas DEF Types, GhostsOK
        <3>. QED  BY <2>1, <3>1, <3>2
    <2>. QED  BY <1>2, <2>2, <2>3, <2>5 DEF Rest, Types, GhostsOK
<1>5. CASE PassObserves
    <2>1. UNCHANGED <<base, queue, restart, faults, fate, fails>>
        BY <1>5 DEF PassObserves
    <2>2. PassOK' /\ pass'.by = pass.by
        <3>1. CASE pass' = [pass EXCEPT !.pc = "probe"]
            BY <1>5, <3>1 DEF PassObserves, Types, PassOK, PassRecord, AtEntry, WindowOK
        <3>2. CASE pass' = Turned(pass, pass.cur)
            BY <3>2, TurnedOK DEF Types
        <3>. QED  BY <1>5, <3>1, <3>2 DEF PassObserves
    <2>. QED  BY <1>1, <1>2, <2>1, <2>2, RestartAsWas DEF Rest, Types, FilesOK, GhostsOK
<1>6. CASE PassBacksUp
    <2>1. pass' \in PassRecord
        BY <1>6 DEF PassBacksUp, Types, PassOK, PassRecord
    <2>2. /\ pass'.pc = "apply" /\ pass'.cur = pass.cur /\ pass'.by = pass.by
          /\ pass'.todo = pass.todo /\ pass'.done = pass.done /\ pass'.now = pass.now
        BY <1>6 DEF PassBacksUp, Types, PassOK, PassRecord
    <2>3. AtEntry
        BY <1>6 DEF PassBacksUp, AtEntry
    <2>4. PassOK' /\ pass'.by = pass.by
        BY <2>1, <2>2, <2>3 DEF Types, PassOK, PassRecord, AtEntry, WindowOK
    <2>. QED  BY <1>2, <1>6, <2>4, RestartAsWas DEF PassBacksUp, Rest, Types, FilesOK, GhostsOK
<1>7. CASE PassProbes
    <2>1. AtEntry
        BY <1>7 DEF PassProbes, AtEntry
    <2>2. UNCHANGED <<base, queue, nextStamp, restart, faults, fails>>
        BY <1>7 DEF PassProbes
    <2>3. pass.cur \in DOMAIN pass.todo /\ pass.cur \in Bases /\ Current \in Entry
        BY <2>1, CurrentEntry
    <2>4. PassOK' /\ RestartOK' /\ fate' \in [Stamps -> SUBSET Endings]
        <3>1. CASE pass' = Decided(pass, pass.cur, Postpone(Current, Current.attempts)) /\ UNCHANGED fate
            <4>1. Postpone(Current, Current.attempts) \in Decision
                BY <2>3, OutcomeType, LimitAssumption DEF Types, Entry
            <4>. QED  BY <2>2, <2>3, <3>1, <4>1, DecisionTypes
        <3>2. CASE pass' = Decided(pass, pass.cur, Drop(Current)) /\ Ends(Current.stamp, "cleared")
            <4>1. Drop(Current) \in Decision
                BY <2>3, OutcomeType DEF Types
            <4>. QED  BY <2>2, <2>3, <3>2, <4>1, DecisionTypes DEF Endings, Current
        <3>3. CASE pass' = [pass EXCEPT !.pc = IF pass.backed THEN "apply" ELSE "backup"] /\ UNCHANGED fate
            <4>1. PassOK' /\ pass'.by = pass.by
                BY <2>3, <3>3 DEF Types, PassOK, PassRecord, AtEntry, WindowOK
            <4>. QED  BY <2>2, <3>3, <4>1, RestartAsWas DEF Types, GhostsOK
        <3>. QED  BY <1>7, <3>1, <3>2, <3>3 DEF PassProbes
    <2>. QED  BY <1>2, <2>2, <2>4 DEF Rest, Types, FilesOK, GhostsOK
<1>8. CASE PassDeletes \/ PassIsRefused \/ \E permanent \in BOOLEAN : PassDeleteThrows(permanent)
    <2>1. AtEntry
        BY <1>8 DEF PassDeletes, PassIsRefused, PassDeleteThrows, AtEntry
    <2>2. UNCHANGED <<queue, nextStamp, restart>>
        BY <1>8 DEF PassDeletes, PassIsRefused, PassDeleteThrows
    <2>3. pass.cur \in DOMAIN pass.todo /\ pass.cur \in Bases /\ Current \in Entry
        BY <2>1, CurrentEntry
    <2>4. base' = base \/ base' = [base EXCEPT ![pass.cur] = "gone"]
        BY <1>8 DEF PassDeletes, PassIsRefused, PassDeleteThrows
    <2>5. Current.attempts \in Nat /\ Current.attempts + 1 \in Nat /\ Current.stamp \in Stamps
        BY <2>3, LimitAssumption DEF Entry
    <2>6. \E o \in Decision : pass' = Decided(pass, pass.cur, o)
        <3>1. Drop(Current) \in Decision /\ \A n \in Nat : Postpone(Current, n) \in Decision
            BY <2>3, OutcomeType DEF Types
        <3>. QED  BY <1>8, <2>5, <3>1 DEF PassDeletes, PassIsRefused, PassDeleteThrows, Attempts
    <2>7. UNCHANGED fate \/ \E how \in Endings : Ends(pass.todo[pass.cur].stamp, how)
        BY <1>8 DEF PassDeletes, PassIsRefused, PassDeleteThrows, Endings, Current
    <2>8. PassOK' /\ RestartOK' /\ fate' \in [Stamps -> SUBSET Endings]
        BY <2>2, <2>3, <2>6, <2>7, DecisionTypes
    <2>9. faults' \in 0..MaxFaults /\ fails' \in [Stamps -> 0..faults']
        <3>1. CASE UNCHANGED <<faults, fails>>
            BY <3>1 DEF Types, GhostsOK
        <3>2. CASE /\ faults < MaxFaults /\ faults' = faults + 1
                   /\ fails' = fails \/ fails' = [fails EXCEPT ![Current.stamp] = @ + 1]
            BY <2>5, <3>2, LimitAssumption DEF Types, GhostsOK
        <3>. QED  BY <1>8, <3>1, <3>2 DEF PassDeletes, PassIsRefused, PassDeleteThrows
    <2>. QED  BY <1>2, <2>2, <2>3, <2>4, <2>8, <2>9 DEF Rest, Types, FilesOK, GhostsOK
<1>9. CASE PassEnds \/ PassAborts
    <2>1. pass' = IdlePass /\ Answered /\ UNCHANGED <<base, faults, fate, fails>>
        BY <1>9 DEF PassEnds, PassAborts
    <2>2. PassOK' /\ pass'.by = "nobody"
        BY <2>1, IdlePassOK
    <2>3. RestartOK'
        BY <2>1, <2>2 DEF Answered, Types, RestartOK, RestartRecord
    <2>4. queue' \in Queues
        <3>1. queue \in Queues /\ pass.done \in Decisions
            BY DEF Types, FilesOK, PassOK, PassRecord
        <3>2. CASE PassEnds
            BY <3>1, <3>2, ReconciledQueue DEF PassEnds
        <3>3. CASE PassAborts
            BY <3>1, <3>3 DEF PassAborts
        <3>. QED  BY <1>9, <3>2, <3>3
    <2>. QED  BY <1>1, <1>2, <2>1, <2>2, <2>3, <2>4 DEF Rest, Types, FilesOK, GhostsOK
<1>10. CASE PassHangs
    <2>1. pass' = [IdlePass EXCEPT !.pc = "hung", !.by = pass.by]
        BY <1>10 DEF PassHangs
    <2>2. PassOK' /\ pass'.by = pass.by
        <3>1. pass' \in PassRecord
            BY <2>1, NothingType DEF IdlePass, PassRecord, NoBase, Types, PassOK
        <3>2. /\ pass'.pc = "hung" /\ pass'.by = pass.by /\ pass'.now = 0
              /\ pass'.todo = Nothing /\ pass'.done = Nothing
            BY <2>1 DEF IdlePass
        <3>. QED  BY <3>1, <3>2, NothingType DEF PassOK, AtEntry, WindowOK
    <2>3. faults' \in 0..MaxFaults /\ fails' \in [Stamps -> 0..faults']
        BY <1>10, LimitAssumption DEF PassHangs, Types, GhostsOK
    <2>. QED  BY <1>1, <1>2, <1>10, <2>2, <2>3, RestartAsWas DEF PassHangs, Rest, Types, FilesOK, GhostsOK
<1>. QED  BY <1>4, <1>5, <1>6, <1>7, <1>8, <1>9, <1>10 DEF Pass

\* A pass that begins, and one that is watched.
LEMMA BeginOK ==
    ASSUME Types, WindowOK', clock' = clock, NEW by \in {"poll", "hook"},
           NEW trusted \in SUBSET Partitions, Begin(by, trusted)
    PROVE  /\ PassOK'
           /\ pass'.by = by /\ pass'.pc = "next" /\ pass'.todo = queue /\ pass'.done = Nothing
           /\ pass'.now = clock
<1>1. pass' = [IdlePass EXCEPT !.pc = "next", !.by = by, !.now = clock, !.todo = queue,
                               !.trusted = trusted]
    BY DEF Begin
<1>2. clock \in Nat /\ queue \in Queues
    BY DEF Types, WindowOK, FilesOK
<1>3. pass' \in PassRecord
    BY <1>1, <1>2, NothingType DEF IdlePass, PassRecord, NoBase
<1>4. /\ pass'.by = by /\ pass'.pc = "next" /\ pass'.todo = queue /\ pass'.done = Nothing
      /\ pass'.now = clock
    BY <1>1 DEF IdlePass
<1>5. PassOK'
    BY <1>2, <1>3, <1>4, NothingType DEF PassOK, AtEntry
<1>. QED  BY <1>4, <1>5

LEMMA WatchOK ==
    ASSUME PassOK, WindowOK, WindowOK', clock <= clock', Watch
    PROVE  /\ PassOK'
           /\ pass'.pc = pass.pc /\ pass'.by = pass.by /\ pass'.todo = pass.todo
           /\ pass'.done = pass.done /\ pass'.cur = pass.cur /\ pass'.now = pass.now
<1>1. pass' \in PassRecord
    BY DEF PassOK, PassRecord, Watch
<1>2. /\ pass'.pc = pass.pc /\ pass'.by = pass.by /\ pass'.todo = pass.todo
      /\ pass'.done = pass.done /\ pass'.cur = pass.cur /\ pass'.now = pass.now
    BY DEF PassOK, PassRecord, Watch
<1>. QED  BY <1>1, <1>2 DEF PassOK, PassRecord, AtEntry, WindowOK

LEMMA RestartTypes ==
    ASSUME Types, WindowOK', clock <= clock', Restart
    PROVE  Rest'
<1>1. UNCHANGED <<base, queue, nextStamp, route, faults, fate, fails>>
    BY DEF Restart, RestartStops, HookBegins, HookReturns, RestartTimesOut, RestartStarts
<1>2. FilesOK' /\ RouteOK' /\ GhostsOK'
    BY <1>1 DEF Types, FilesOK, RouteOK, GhostsOK
<1>3. ASSUME NEW S \in {{p} : p \in Partitions} \cup {Partitions}, NEW d \in BOOLEAN,
             RestartStops(S, d)
      PROVE  PassOK' /\ RestartOK'
    <2>1. S \subseteq Partitions
        OBVIOUS
    <2>2. /\ restart.pc = "idle" /\ Watch
          /\ restart' = [pc |-> "waiting", of |-> S, trusted |-> IF d THEN {} ELSE S]
        BY <1>3 DEF RestartStops
    <2>3. PassOK' /\ pass'.by = pass.by
        BY <2>2, WatchOK DEF Types
    <2>. QED  BY <2>1, <2>2, <2>3 DEF Types, RestartOK, RestartRecord
<1>4. CASE HookBegins
    <2>1. /\ restart.pc = "waiting" /\ restart' = [restart EXCEPT !.pc = "flushing"]
          /\ Begin("hook", restart.trusted) /\ UNCHANGED clock
        BY <1>4 DEF HookBegins
    <2>2. restart.trusted \in SUBSET Partitions
        BY DEF Types, RestartOK, RestartRecord
    <2>3. PassOK' /\ pass'.by = "hook"
        BY <2>1, <2>2, BeginOK
    <2>. QED  BY <1>2, <2>1, <2>3 DEF Rest, Types, RestartOK, RestartRecord
<1>5. CASE HookReturns
    <2>1. PassOK'
        BY <1>5, PassStays DEF HookReturns, Types
    <2>. QED  BY <1>2, <1>5, <2>1 DEF HookReturns, Rest, Types, RestartOK, RestartRecord
<1>6. CASE RestartTimesOut
    <2>1. /\ restart.pc \in {"waiting", "flushing"} /\ restart' = [restart EXCEPT !.pc = "starting"]
          /\ pass' = IF pass.by = "hook" THEN [pass EXCEPT !.by = "late"] ELSE pass
        BY <1>6 DEF RestartTimesOut
    <2>2. pass' \in PassRecord /\ pass'.by # "hook" /\ (pass.pc = "idle" => pass'.by = "nobody")
        BY <2>1 DEF Types, PassOK, PassRecord
    <2>3. /\ pass'.pc = pass.pc /\ pass'.todo = pass.todo /\ pass'.done = pass.done
          /\ pass'.cur = pass.cur /\ pass'.now = pass.now
        BY <2>1 DEF Types, PassOK, PassRecord
    <2>4. PassOK'
        BY <2>2, <2>3 DEF Types, PassOK, PassRecord, AtEntry, WindowOK
    <2>. QED  BY <1>2, <2>1, <2>2, <2>4 DEF Rest, Types, RestartOK, RestartRecord
<1>7. CASE RestartStarts
    <2>1. PassOK'
        BY <1>7, PassStays DEF RestartStarts, Types
    <2>. QED  BY <1>2, <1>7, <2>1 DEF RestartStarts, Rest, Types, RestartOK, RestartRecord, IdleRestart
<1>. QED  BY <1>2, <1>3, <1>4, <1>5, <1>6, <1>7 DEF Restart, Rest

LEMMA OtherTypes ==
    ASSUME Types, WindowOK', clock <= clock',
           \/ \E b \in Bases : Cancel(b) \/ PlayerMoves(b)
           \/ PollBegins \/ WorldMoves \/ Crash \/ UNCHANGED vars
    PROVE  Rest'
<1>1. ASSUME NEW b \in Bases, Cancel(b) PROVE Rest'
    <2>1. Dequeue(b, "cancelled") /\ "cancelled" \in Endings
        BY <1>1 DEF Cancel, Endings
    <2>2. queue' \in Queues /\ fate' \in [Stamps -> SUBSET Endings]
        BY <2>1, DequeueTypes
    <2>3. PassOK'
        BY <1>1, PassStays DEF Cancel, Types
    <2>. QED  BY <1>1, <2>2, <2>3 DEF Cancel, Rest, Types, FilesOK, RouteOK, RestartOK, GhostsOK
<1>2. ASSUME NEW b \in Bases, PlayerMoves(b) PROVE Rest'
    <2>1. PICK p \in Sites[b] : \E new \in {p, "backedUp", "gone"} \ {base[b]} :
                                    base' = [base EXCEPT ![b] = new]
        BY <1>2 DEF PlayerMoves
    <2>2. p \in Partitions
        BY SiteAssumption
    <2>3. base' \in [Bases -> Partitions \cup {"backedUp", "gone"}]
        BY <2>1, <2>2 DEF Types, FilesOK
    <2>4. PassOK'
        BY <1>2, PassStays DEF PlayerMoves, Types
    <2>. QED  BY <1>2, <2>3, <2>4 DEF PlayerMoves, Rest, Types, FilesOK, RouteOK, RestartOK, GhostsOK
<1>3. CASE PollBegins
    <2>1. pass.pc = "idle" /\ Begin("poll", {}) /\ UNCHANGED <<clock, base, queue, nextStamp, route, restart, faults, fate, fails>>
        BY <1>3 DEF PollBegins
    <2>2. PassOK' /\ pass'.by = "poll"
        BY <2>1, BeginOK
    <2>. QED  BY <2>1, <2>2 DEF Rest, Types, FilesOK, RouteOK, PassOK, RestartOK, GhostsOK
<1>4. CASE WorldMoves
    <2>1. PassOK' /\ pass'.by = pass.by
        BY <1>4, WatchOK DEF WorldMoves, Types
    <2>. QED  BY <1>4, <2>1 DEF WorldMoves, Rest, Types, FilesOK, RouteOK, RestartOK, GhostsOK
<1>5. CASE Crash
    <2>1. /\ pass' = IdlePass /\ restart' = IdleRestart /\ route' = [c \in Clients |-> IdleRoute]
          /\ faults < MaxFaults /\ faults' = faults + 1
          /\ UNCHANGED <<base, queue, nextStamp, fate, fails>>
        BY <1>5 DEF Crash
    <2>2. PassOK' /\ pass'.by = "nobody"
        BY <2>1, IdlePassOK
    <2>3. RestartOK'
        BY <2>1, <2>2 DEF RestartOK, IdleRestart, RestartRecord
    <2>4. RouteOK'
        BY <2>1 DEF RouteOK, IdleRoute, RouteRecord, NoBase
    <2>5. GhostsOK'
        BY <2>1, LimitAssumption DEF Types, GhostsOK
    <2>. QED  BY <2>1, <2>2, <2>3, <2>4, <2>5 DEF Rest, Types, FilesOK
<1>6. CASE UNCHANGED vars
    <2>1. PassOK'
        BY <1>6, PassStays DEF vars, Types
    <2>. QED  BY <1>6, <2>1 DEF vars, Rest, Types, FilesOK, RouteOK, RestartOK, GhostsOK
<1>. QED  BY <1>1, <1>2, <1>3, <1>4, <1>5, <1>6

LEMMA NextTypes == Types /\ [Next]_vars => Types'
<1>. SUFFICES ASSUME Types, [Next]_vars PROVE Types'
    OBVIOUS
<1>1. WindowOK' /\ clock <= clock'
    BY StepMovesWindow, WindowNext DEF Types
<1>2. Rest'
    BY <1>1, RouteTypes, PassTypes, RestartTypes, OtherTypes DEF Next
<1>. QED  BY <1>1, <1>2 DEF Types, Rest

LEMMA TypesAlways == Spec => []Types
BY InitTypes, NextTypes, PTL DEF Spec

\* Types, which also say that a pass is at an entry of its own copy and that a task
\* waits for its pass exactly while that pass is in flight.
THEOREM DeleteTypes == Spec => []TypeOK
BY TypesAlways, TypesSuffice, PTL

-----------------------------------------------------------------------------
(* What becomes of an entry *)

Sound(e) == e.attempts < MaxAttempts /\ e.attempts <= fails[e.stamp]

\* The queue, and a pass's copy of it, hold entries that have attempts left, each of
\* them a failure that was counted; a decision to remove an entry has its reason.
Entries ==
    /\ \A b \in DOMAIN queue : Sound(queue[b])
    /\ \A b \in DOMAIN pass.todo : Sound(pass.todo[b])
    /\ \A b \in DOMAIN pass.done :
          /\ pass.done[b].attempts <= fails[pass.done[b].stamp]
          /\ ~pass.done[b].keep => fate[pass.done[b].stamp] # {}
DeleteInv == Types /\ Entries /\ NoRequestLost /\ GivesUpHonestly

\* What a decision of the pass records of the entry it is about.
Decides(e, o) ==
    /\ o.stamp = e.stamp
    /\ \/ o.attempts = e.attempts /\ UNCHANGED fails
       \/ o.attempts = e.attempts + 1 /\ fails' = [fails EXCEPT ![e.stamp] = @ + 1]
    /\ \/ o.keep /\ UNCHANGED fate
       \/ ~o.keep /\ \E how \in Endings \ {"gaveUp"} : Ends(e.stamp, how)
       \/ ~o.keep /\ o.attempts >= MaxAttempts /\ Ends(e.stamp, "gaveUp")

\* The ways a step can move the entries.
RequestStep ==
    /\ \/ \E b \in Bases, part \in Partitions \cup {Nowhere} : Enqueue(b, part)
       \/ \E b \in Bases, how \in Endings \ {"gaveUp"} : Dequeue(b, how) /\ UNCHANGED nextStamp
    /\ pass' = pass /\ UNCHANGED fails
CopyStep ==
    /\ UNCHANGED <<queue, nextStamp, fate, fails>>
    /\ \/ pass'.todo = pass.todo /\ pass'.done = pass.done
       \/ pass'.todo = Nothing /\ pass'.done = Nothing
       \/ pass'.todo = queue /\ pass'.done = Nothing
       \/ \E b : pass'.todo = Without(pass.todo, b) /\ pass'.done = pass.done
EndStep ==
    /\ queue' = Reconciled(queue, pass.done)
    /\ pass'.todo = Nothing /\ pass'.done = Nothing
    /\ UNCHANGED <<nextStamp, fate, fails>>
DecideStep ==
    /\ UNCHANGED <<queue, nextStamp>>
    /\ \E b \in DOMAIN pass.todo, o \in Decision :
          /\ pass'.todo = Without(pass.todo, b) /\ pass'.done = Put(pass.done, b, o)
          /\ Decides(pass.todo[b], o)

LEMMA CurrentSound == ASSUME Types, Entries, AtEntry PROVE Sound(Current)
BY CurrentEntry DEF Entries, Current

LEMMA OutcomeStep ==
    ASSUME Types, NEW b \in DOMAIN pass.todo, NEW o \in Decision, pass' = Decided(pass, b, o),
           Decides(pass.todo[b], o), UNCHANGED <<queue, nextStamp>>
    PROVE  DecideStep
<1>1. b \in Bases
    BY QueueType DEF Types, PassOK, PassRecord, IsQueue
<1>. QED  BY <1>1, DecidedType DEF DecideStep, Types

LEMMA PassDecides ==
    ASSUME Types, Entries,
           \/ PassTurns \/ PassProbes \/ PassDeletes \/ PassIsRefused
           \/ \E permanent \in BOOLEAN : PassDeleteThrows(permanent)
    PROVE  CopyStep \/ DecideStep
<1>1. CASE PassTurns
    <2>1. PICK b \in DOMAIN pass.todo :
             \/ pass' = Decided(pass, b, Drop(pass.todo[b])) /\ Ends(pass.todo[b].stamp, "expired")
             \/ /\ UNCHANGED fate
                /\ pass' = [pass EXCEPT !.pc = "observe", !.cur = b,
                                        !.seen = {p \in Partitions : ~Connected(p)}]
        BY <1>1 DEF PassTurns
    <2>2. UNCHANGED <<queue, nextStamp, fails>>
        BY <1>1 DEF PassTurns
    <2>3. CASE /\ pass' = Decided(pass, b, Drop(pass.todo[b]))
               /\ Ends(pass.todo[b].stamp, "expired")
        <3>1. pass.todo[b] \in Entry
            BY QueueType DEF Types, PassOK, PassRecord, IsQueue
        <3>2. /\ Drop(pass.todo[b]) \in Decision /\ ~Drop(pass.todo[b]).keep
              /\ Drop(pass.todo[b]).stamp = pass.todo[b].stamp
              /\ Drop(pass.todo[b]).attempts = pass.todo[b].attempts
            BY <3>1, OutcomeType DEF Types
        <3>3. Decides(pass.todo[b], Drop(pass.todo[b]))
            BY <2>2, <2>3, <3>2 DEF Decides, Endings
        <3>. QED  BY <2>2, <2>3, <3>2, <3>3, OutcomeStep
    <2>4. CASE /\ UNCHANGED fate
               /\ pass' = [pass EXCEPT !.pc = "observe", !.cur = b,
                                       !.seen = {p \in Partitions : ~Connected(p)}]
        <3>1. pass'.todo = pass.todo /\ pass'.done = pass.done
            BY <2>4 DEF Types, PassOK, PassRecord
        <3>. QED  BY <2>2, <2>4, <3>1 DEF CopyStep
    <2>. QED  BY <2>1, <2>3, <2>4
<1>2. CASE \/ PassProbes \/ PassDeletes \/ PassIsRefused
           \/ \E permanent \in BOOLEAN : PassDeleteThrows(permanent)
    <2>1. AtEntry /\ UNCHANGED <<queue, nextStamp>>
        BY <1>2 DEF PassProbes, PassDeletes, PassIsRefused, PassDeleteThrows, AtEntry
    <2>2. /\ pass.cur \in DOMAIN pass.todo /\ Current \in Entry /\ Sound(Current)
          /\ Current = pass.todo[pass.cur]
        BY <2>1, CurrentEntry, CurrentSound DEF Current
    <2>3. /\ Current.attempts \in Nat /\ Current.attempts + 1 \in Nat
          /\ Current.attempts < MaxAttempts /\ MaxAttempts \in Nat
        BY <2>2, LimitAssumption DEF Entry, Sound
    <2>4. /\ Drop(Current) \in Decision /\ ~Drop(Current).keep
          /\ Drop(Current).stamp = Current.stamp /\ Drop(Current).attempts = Current.attempts
          /\ \A n \in Nat : /\ Postpone(Current, n) \in Decision
                            /\ Postpone(Current, n).stamp = Current.stamp
                            /\ Postpone(Current, n).attempts = n
                            /\ Postpone(Current, n).keep <=> n < MaxAttempts
        BY <2>2, OutcomeType DEF Types
    <2>5. ASSUME pass' = Decided(pass, pass.cur, Drop(Current)), UNCHANGED fails,
                 NEW how \in {"cleared", "applied"}, Ends(Current.stamp, how)
          PROVE  DecideStep
        <3>1. Decides(Current, Drop(Current))
            BY <2>4, <2>5 DEF Decides, Endings
        <3>. QED  BY <2>1, <2>2, <2>4, <2>5, <3>1, OutcomeStep
    <2>6. ASSUME NEW n \in Nat, pass' = Decided(pass, pass.cur, Postpone(Current, n)),
                 \/ n = Current.attempts /\ UNCHANGED fails
                 \/ /\ n = Current.attempts + 1
                    /\ fails' = [fails EXCEPT ![Current.stamp] = @ + 1],
                 IF n < MaxAttempts THEN UNCHANGED fate ELSE Ends(Current.stamp, "gaveUp")
          PROVE  DecideStep
        <3>. DEFINE o == Postpone(Current, n)
        <3>1. o \in Decision /\ o.stamp = Current.stamp /\ o.attempts = n /\ (o.keep <=> n < MaxAttempts)
            BY <2>4
        <3>. HIDE DEF o
        <3>2. \/ o.keep /\ UNCHANGED fate
              \/ ~o.keep /\ o.attempts >= MaxAttempts /\ Ends(Current.stamp, "gaveUp")
            BY <2>3, <2>6, <3>1
        <3>3. Decides(Current, o)
            BY <2>6, <3>1, <3>2 DEF Decides
        <3>4. pass' = Decided(pass, pass.cur, o)
            BY <2>6 DEF o
        <3>. QED  BY <2>1, <2>2, <3>1, <3>3, <3>4, OutcomeStep
    <2>7. CASE PassProbes
        <3>1. \/ /\ pass' = Decided(pass, pass.cur, Postpone(Current, Current.attempts))
                 /\ UNCHANGED fate
              \/ pass' = Decided(pass, pass.cur, Drop(Current)) /\ Ends(Current.stamp, "cleared")
              \/ /\ pass' = [pass EXCEPT !.pc = IF pass.backed THEN "apply" ELSE "backup"]
                 /\ UNCHANGED fate
            BY <2>7 DEF PassProbes
        <3>2. UNCHANGED fails
            BY <2>7 DEF PassProbes
        <3>3. CASE /\ pass' = [pass EXCEPT !.pc = IF pass.backed THEN "apply" ELSE "backup"]
                   /\ UNCHANGED fate
            <4>1. pass'.todo = pass.todo /\ pass'.done = pass.done
                BY <3>3 DEF Types, PassOK, PassRecord
            <4>. QED  BY <2>1, <3>2, <3>3, <4>1 DEF CopyStep
        <3>. QED  BY <2>3, <2>5, <2>6, <3>1, <3>2, <3>3
    <2>8. CASE PassDeletes
        BY <2>5, <2>8 DEF PassDeletes
    <2>9. CASE PassIsRefused
        <3>1. UNCHANGED fails
            BY <2>9 DEF PassIsRefused
        <3>2. \/ pass' = Decided(pass, pass.cur, Drop(Current)) /\ Ends(Current.stamp, "cleared")
              \/ /\ pass' = Decided(pass, pass.cur, Postpone(Current, Current.attempts))
                 /\ UNCHANGED fate
            BY <2>9 DEF PassIsRefused
        <3>. QED  BY <2>3, <2>5, <2>6, <3>1, <3>2
    <2>10. ASSUME NEW permanent \in BOOLEAN, PassDeleteThrows(permanent) PROVE DecideStep
        <3>. DEFINE n == Attempts(Current, permanent)
        <3>1. /\ pass' = Decided(pass, pass.cur, Postpone(Current, n))
              /\ fails' = IF permanent THEN [fails EXCEPT ![Current.stamp] = @ + 1] ELSE fails
              /\ IF n < MaxAttempts THEN UNCHANGED fate ELSE Ends(Current.stamp, "gaveUp")
            BY <2>10 DEF PassDeleteThrows
        <3>2. n = IF permanent THEN Current.attempts + 1 ELSE Current.attempts
            BY DEF Attempts
        <3>3. n \in Nat
            BY <2>3, <3>2
        <3>. HIDE DEF n
        <3>. QED  BY <2>6, <3>1, <3>2, <3>3
    <2>. QED  BY <1>2, <2>7, <2>8, <2>9, <2>10
<1>. QED  BY <1>1, <1>2

\* Every step moves the entries in one of these ways.
LEMMA EntriesMove ==
    ASSUME Types, Entries, [Next]_vars
    PROVE  RequestStep \/ CopyStep \/ EndStep \/ DecideStep
<1>1. ASSUME NEW c \in Clients, Route(c) PROVE RequestStep \/ CopyStep
    <2>1. ASSUME NEW b \in Bases, RouteReserves(c, b) PROVE RequestStep
        BY <2>1 DEF RouteReserves, RequestStep
    <2>2. CASE RouteQueues(c)
        <3>1. route[c].base \in Bases
            BY <2>2 DEF RouteQueues, Types, RouteOK
        <3>2. Location(route[c].base) \in Partitions \cup {Nowhere}
            BY DEF Location
        <3>. QED  BY <2>2, <3>1, <3>2 DEF RouteQueues, RequestStep
    <2>3. CASE RouteIsImmediate(c) \/ RouteBacksUp(c)
        BY <2>3 DEF RouteIsImmediate, RouteBacksUp, CopyStep
    <2>4. CASE RouteDeletes(c) \/ RouteFails(c)
        <3>1. route[c].base \in Bases
            BY <2>4 DEF RouteDeletes, RouteFails, Types, RouteOK
        <3>2. /\ Dequeue(route[c].base, "withdrawn") /\ UNCHANGED <<nextStamp, fails>>
              /\ pass' = pass
            BY <2>4 DEF RouteDeletes, RouteFails
        <3>3. "withdrawn" \in Endings \ {"gaveUp"}
            BY DEF Endings
        <3>. QED  BY <3>1, <3>2, <3>3 DEF RequestStep
    <2>. QED  BY <1>1, <2>1, <2>2, <2>3, <2>4 DEF Route
<1>2. ASSUME NEW b \in Bases, Cancel(b) PROVE RequestStep
    <2>1. "cancelled" \in Endings \ {"gaveUp"}
        BY DEF Endings
    <2>. QED  BY <1>2, <2>1 DEF Cancel, RequestStep
<1>3. ASSUME NEW b \in Bases, PlayerMoves(b) PROVE CopyStep
    BY <1>3 DEF PlayerMoves, CopyStep
<1>4. CASE PollBegins \/ HookBegins
    <2>1. pass'.todo = queue /\ pass'.done = Nothing
        BY <1>4 DEF PollBegins, HookBegins, Begin, IdlePass
    <2>. QED  BY <1>4, <2>1 DEF PollBegins, HookBegins, CopyStep
<1>5. CASE Pass
    <2>1. CASE PassObserves
        <3>1. CASE pass' = [pass EXCEPT !.pc = "probe"]
            <4>1. pass'.todo = pass.todo /\ pass'.done = pass.done
                BY <3>1 DEF Types, PassOK, PassRecord
            <4>. QED  BY <2>1, <4>1 DEF PassObserves, CopyStep
        <3>2. CASE pass' = Turned(pass, pass.cur)
            <4>1. pass'.todo = Without(pass.todo, pass.cur) /\ pass'.done = pass.done
                BY <3>2, TurnedType DEF Types
            <4>. QED  BY <2>1, <4>1 DEF PassObserves, CopyStep
        <3>. QED  BY <2>1, <3>1, <3>2 DEF PassObserves
    <2>2. CASE PassBacksUp
        <3>1. pass'.todo = pass.todo /\ pass'.done = pass.done
            BY <2>2 DEF PassBacksUp, Types, PassOK, PassRecord
        <3>. QED  BY <2>2, <3>1 DEF PassBacksUp, CopyStep
    <2>3. CASE PassEnds
        BY <2>3 DEF PassEnds, EndStep, IdlePass
    <2>4. CASE PassAborts
        BY <2>4 DEF PassAborts, CopyStep, IdlePass
    <2>. QED  BY <1>5, <2>1, <2>2, <2>3, <2>4, PassDecides DEF Pass
<1>6. CASE PassHangs
    <2>1. pass'.todo = Nothing /\ pass'.done = Nothing
        BY <1>6 DEF PassHangs, IdlePass
    <2>. QED  BY <1>6, <2>1 DEF PassHangs, CopyStep
<1>7. ASSUME NEW S \in {{p} : p \in Partitions} \cup {Partitions}, NEW d \in BOOLEAN, RestartStops(S, d)
      PROVE  CopyStep
    <2>1. pass'.todo = pass.todo /\ pass'.done = pass.done
        BY <1>7 DEF RestartStops, Watch, Types, PassOK, PassRecord
    <2>. QED  BY <1>7, <2>1 DEF RestartStops, CopyStep
<1>8. CASE HookReturns \/ RestartStarts \/ UNCHANGED vars
    BY <1>8 DEF HookReturns, RestartStarts, vars, CopyStep
<1>9. CASE RestartTimesOut
    <2>1. pass'.todo = pass.todo /\ pass'.done = pass.done
        BY <1>9 DEF RestartTimesOut, Types, PassOK, PassRecord
    <2>. QED  BY <1>9, <2>1 DEF RestartTimesOut, CopyStep
<1>10. CASE WorldMoves
    <2>1. pass'.todo = pass.todo /\ pass'.done = pass.done
        BY <1>10 DEF WorldMoves, Watch, Types, PassOK, PassRecord
    <2>. QED  BY <1>10, <2>1 DEF WorldMoves, CopyStep
<1>11. CASE Crash
    BY <1>11 DEF Crash, CopyStep, IdlePass
<1>. QED  BY <1>1, <1>2, <1>3, <1>4, <1>5, <1>6, <1>7, <1>8, <1>9, <1>10, <1>11 DEF Next, Restart

LEMMA InitDelete == Init => DeleteInv
<1>. SUFFICES ASSUME Init PROVE DeleteInv
    OBVIOUS
<1>1. Types
    BY InitTypes
<1>2. /\ DOMAIN queue = DOMAIN Backlog
      /\ \A b \in DOMAIN Backlog : queue[b].stamp = Backlog[b] /\ queue[b].attempts = 0
    BY DEF Init
<1>3. /\ DOMAIN pass.todo = {} /\ DOMAIN pass.done = {}
      /\ nextStamp - 1 = Cardinality(DOMAIN Backlog)
    BY NothingType, BacklogAssumption DEF Init, IdlePass
<1>4. \A b \in DOMAIN queue : Sound(queue[b])
    <2>1. ASSUME NEW b \in DOMAIN Backlog PROVE Backlog[b] \in Stamps
        BY BacklogAssumption, LimitAssumption DEF Stamps
    <2>2. \A s \in Stamps : fails[s] = 0
        BY DEF Init
    <2>. QED  BY <1>2, <2>1, <2>2, LimitAssumption DEF Sound
<1>5. Entries
    BY <1>3, <1>4 DEF Entries
<1>6. NoRequestLost
    BY <1>2, <1>3, BacklogAssumption DEF NoRequestLost
<1>7. GivesUpHonestly
    BY DEF Init, GivesUpHonestly
<1>. QED  BY <1>1, <1>5, <1>6, <1>7 DEF DeleteInv

\* The stamps and attempts of what is recorded.
LEMMA EntryTypes ==
    ASSUME Types
    PROVE  /\ \A b \in DOMAIN queue : queue[b] \in Entry
           /\ \A b \in DOMAIN pass.todo : pass.todo[b] \in Entry
           /\ \A b \in DOMAIN pass.done : pass.done[b] \in Decision
           /\ queue \in Queues /\ pass.todo \in Queues /\ pass.done \in Decisions
           /\ nextStamp \in Nat
           /\ fate \in [Stamps -> SUBSET Endings] /\ fails \in [Stamps -> Nat]
<1>1. queue \in Queues /\ pass.todo \in Queues /\ pass.done \in Decisions
    BY DEF Types, FilesOK, PassOK, PassRecord
<1>2. IsQueue(queue) /\ IsQueue(pass.todo)
    BY <1>1, QueueType
<1>3. pass.done \in [DOMAIN pass.done -> Decision]
    BY <1>1, DecisionType
<1>. QED  BY <1>1, <1>2, <1>3, LimitAssumption DEF IsQueue, Types, GhostsOK, FilesOK

LEMMA RequestKeeps ==
    ASSUME DeleteInv, Types', RequestStep
    PROVE  Entries' /\ NoRequestLost' /\ GivesUpHonestly'
<1>. USE EntryTypes DEF DeleteInv
<1>1. ASSUME NEW b \in Bases, NEW part \in Partitions \cup {Nowhere}, Enqueue(b, part)
      PROVE  /\ (\A x \in DOMAIN queue : Sound(queue[x]))'
             /\ NoRequestLost'
             /\ \A s \in Stamps : fate'[s] = fate[s] \/ \E how \in Endings \ {"gaveUp"} :
                                                            fate'[s] = fate[s] \cup {how}
    <2>1. nextStamp \in Stamps /\ NewEntry(part) \in Entry
        BY <1>1, EnqueueTypes
    <2>2. queue' = Put(queue, b, NewEntry(part)) /\ nextStamp' = nextStamp + 1
        BY <1>1 DEF Enqueue
    <2>3. /\ DOMAIN queue' = DOMAIN queue \cup {b} /\ queue'[b] = NewEntry(part)
          /\ \A x \in DOMAIN queue : x # b => queue'[x] = queue[x]
        BY <2>1, <2>2, PutQueue
    <2>4. queue'[b].stamp = nextStamp /\ queue'[b].attempts = 0
        BY <2>3 DEF NewEntry
    <2>5. (\A x \in DOMAIN queue : Sound(queue[x]))'
        BY <2>1, <2>3, <2>4, LimitAssumption DEF RequestStep, Entries, Sound
    <2>6. \/ b \notin DOMAIN queue /\ fate' = fate
          \/ b \in DOMAIN queue /\ Ends(queue[b].stamp, "replaced")
        BY <1>1 DEF Enqueue
    <2>7. /\ \A s \in Stamps : fate[s] \subseteq fate'[s]
          /\ b \in DOMAIN queue => fate'[queue[b].stamp] # {}
        <3>1. fate \in [Stamps -> SUBSET Endings] /\ (b \in DOMAIN queue => queue[b].stamp \in Stamps)
            BY DEF Entry
        <3>2. CASE b \notin DOMAIN queue /\ fate' = fate
            BY <3>2
        <3>3. CASE b \in DOMAIN queue /\ Ends(queue[b].stamp, "replaced")
            BY <3>1, <3>3 DEF Ends
        <3>. QED  BY <2>6, <3>2, <3>3
    <2>8. NoRequestLost'
        <3>. SUFFICES ASSUME NEW s \in 1..(nextStamp' - 1), fate'[s] = {}
                      PROVE  \E x \in DOMAIN queue' : queue'[x].stamp = s
            BY DEF NoRequestLost
        <3>1. CASE s = nextStamp
            BY <2>3, <2>4, <3>1
        <3>2. CASE s # nextStamp
            <4>1. s \in 1..(nextStamp - 1) /\ s \in Stamps
                BY <2>1, <2>2, <3>2, LimitAssumption DEF Stamps
            <4>2. PICK x \in DOMAIN queue : queue[x].stamp = s
                BY <2>7, <4>1 DEF NoRequestLost
            <4>. QED  BY <2>3, <2>7, <4>2
        <3>. QED  BY <3>1, <3>2
    <2>9. \A s \in Stamps : fate'[s] = fate[s] \/ fate'[s] = fate[s] \cup {"replaced"}
        BY <2>6 DEF Ends
    <2>. QED  BY <2>5, <2>8, <2>9 DEF Endings
<1>2. ASSUME NEW b \in Bases, NEW how \in Endings \ {"gaveUp"}, Dequeue(b, how), UNCHANGED nextStamp
      PROVE  /\ (\A x \in DOMAIN queue : Sound(queue[x]))'
             /\ NoRequestLost'
             /\ \A s \in Stamps : fate'[s] = fate[s] \/ \E h \in Endings \ {"gaveUp"} :
                                                            fate'[s] = fate[s] \cup {h}
    <2>1. /\ DOMAIN queue' = DOMAIN queue \ {b}
          /\ \A x \in DOMAIN queue' : queue'[x] = queue[x]
        BY <1>2, WithoutQueue DEF Dequeue
    <2>2. (\A x \in DOMAIN queue : Sound(queue[x]))'
        BY <2>1 DEF RequestStep, Entries, Sound
    <2>3. \/ b \notin DOMAIN queue /\ fate' = fate
          \/ b \in DOMAIN queue /\ Ends(queue[b].stamp, how)
        BY <1>2 DEF Dequeue
    <2>4. /\ \A s \in Stamps : fate[s] \subseteq fate'[s]
          /\ b \in DOMAIN queue => fate'[queue[b].stamp] # {}
        BY <2>3 DEF Ends, Entry
    <2>5. NoRequestLost'
        <3>. SUFFICES ASSUME NEW s \in 1..(nextStamp - 1), fate'[s] = {}
                      PROVE  \E x \in DOMAIN queue' : queue'[x].stamp = s
            BY <1>2 DEF NoRequestLost
        <3>1. s \in Stamps
            BY LimitAssumption DEF Types, FilesOK, Stamps
        <3>2. PICK x \in DOMAIN queue : queue[x].stamp = s
            BY <2>4, <3>1 DEF NoRequestLost
        <3>. QED  BY <2>1, <2>4, <3>2
    <2>6. \A s \in Stamps : fate'[s] = fate[s] \/ fate'[s] = fate[s] \cup {how}
        BY <2>3 DEF Ends
    <2>. QED  BY <2>2, <2>5, <2>6
<1>3. /\ (\A x \in DOMAIN queue : Sound(queue[x]))'
      /\ NoRequestLost'
      /\ \A s \in Stamps : fate'[s] = fate[s] \/ \E h \in Endings \ {"gaveUp"} :
                                                     fate'[s] = fate[s] \cup {h}
    BY <1>1, <1>2 DEF RequestStep
<1>4. pass' = pass /\ fails' = fails
    BY DEF RequestStep
<1>5. GivesUpHonestly'
    BY <1>3, <1>4 DEF GivesUpHonestly
<1>6. \A b \in DOMAIN pass.todo : Sound(pass.todo[b])'
    BY <1>4 DEF Entries, Sound
<1>7. \A b \in DOMAIN pass.done : ~pass.done[b].keep => fate'[pass.done[b].stamp] # {}
    <2>1. \A b \in DOMAIN pass.done : pass.done[b].stamp \in Stamps
        BY DEF Decision
    <2>. QED  BY <1>3, <2>1 DEF Entries
<1>8. Entries'
    BY <1>3, <1>4, <1>6, <1>7 DEF Entries
<1>. QED  BY <1>3, <1>5, <1>8

LEMMA CopyKeeps ==
    ASSUME DeleteInv, CopyStep
    PROVE  Entries' /\ NoRequestLost' /\ GivesUpHonestly'
<1>. USE DEF DeleteInv
<1>1. NoRequestLost' /\ GivesUpHonestly'
    BY DEF CopyStep, NoRequestLost, GivesUpHonestly
<1>2. UNCHANGED <<queue, fate, fails>>
    BY DEF CopyStep
<1>3. CASE pass'.todo = pass.todo /\ pass'.done = pass.done
    BY <1>1, <1>2, <1>3 DEF Entries, Sound
<1>4. CASE pass'.todo = Nothing /\ pass'.done = Nothing
    BY <1>1, <1>2, <1>4, NothingType DEF Entries, Sound
<1>5. CASE pass'.todo = queue /\ pass'.done = Nothing
    BY <1>1, <1>2, <1>5, NothingType DEF Entries, Sound
<1>6. ASSUME NEW b, pass'.todo = Without(pass.todo, b), pass'.done = pass.done
      PROVE  Entries'
    <2>1. pass.todo \in Queues
        BY EntryTypes
    <2>2. /\ DOMAIN pass'.todo = DOMAIN pass.todo \ {b}
          /\ \A x \in DOMAIN pass'.todo : pass'.todo[x] = pass.todo[x]
        <3>1. /\ DOMAIN Without(pass.todo, b) = DOMAIN pass.todo \ {b}
              /\ \A x \in DOMAIN pass.todo \ {b} : Without(pass.todo, b)[x] = pass.todo[x]
            BY <2>1, WithoutQueue
        <3>. QED  BY <1>6, <3>1
    <2>. QED  BY <1>2, <1>6, <2>2 DEF Entries, Sound
<1>. QED  BY <1>1, <1>3, <1>4, <1>5, <1>6 DEF CopyStep

LEMMA EndKeeps ==
    ASSUME DeleteInv, EndStep
    PROVE  Entries' /\ NoRequestLost' /\ GivesUpHonestly'
<1>. USE DEF DeleteInv
<1>. DEFINE d == pass.done
<1>1. /\ DOMAIN queue' = {b \in DOMAIN queue : Processed(queue, d, b) => d[b].keep}
      /\ \A b \in DOMAIN queue' :
            /\ queue'[b].stamp = queue[b].stamp
            /\ queue'[b].attempts = IF Processed(queue, d, b) THEN d[b].attempts ELSE queue[b].attempts
    BY ReconciledQueue, EntryTypes DEF EndStep
<1>2. UNCHANGED <<nextStamp, fate, fails>> /\ pass'.todo = Nothing /\ pass'.done = Nothing
    BY DEF EndStep
<1>3. ASSUME NEW b \in DOMAIN queue' PROVE Sound(queue[b])'
    <2>1. b \in DOMAIN queue /\ Sound(queue[b])
        BY <1>1 DEF Entries
    <2>2. CASE Processed(queue, d, b)
        <3>1. /\ d[b].stamp = queue[b].stamp /\ d[b].keep /\ b \in DOMAIN d
              /\ d[b].attempts <= fails[d[b].stamp]
            BY <1>1, <2>2 DEF Processed, Entries
        <3>2. d[b].attempts < MaxAttempts
            BY <3>1, EntryTypes DEF Decision
        <3>. QED  BY <1>1, <1>2, <2>2, <3>1, <3>2 DEF Sound
    <2>3. CASE ~Processed(queue, d, b)
        BY <1>1, <1>2, <2>1, <2>3 DEF Sound
    <2>. QED  BY <2>2, <2>3
<1>4. Entries'
    BY <1>2, <1>3, NothingType DEF Entries
<1>5. NoRequestLost'
    <2>. SUFFICES ASSUME NEW s \in 1..(nextStamp - 1), fate[s] = {}
                  PROVE  \E b \in DOMAIN queue' : queue'[b].stamp = s
        BY <1>2 DEF NoRequestLost
    <2>1. PICK b \in DOMAIN queue : queue[b].stamp = s
        BY DEF NoRequestLost
    <2>2. Processed(queue, d, b) => d[b].keep
        BY <2>1 DEF Processed, Entries
    <2>. QED  BY <1>1, <2>1, <2>2
<1>6. GivesUpHonestly'
    BY <1>2 DEF GivesUpHonestly
<1>. QED  BY <1>4, <1>5, <1>6

\* A decision counts a failure before it is given as a reason, and gives a reason
\* before it removes.
LEMMA DecideKeeps ==
    ASSUME DeleteInv, DecideStep
    PROVE  Entries' /\ NoRequestLost' /\ GivesUpHonestly'
<1>. USE DEF DeleteInv
<1>0. /\ queue \in Queues /\ pass.todo \in Queues /\ pass.done \in Decisions
      /\ \A b \in DOMAIN queue : queue[b] \in Entry
      /\ \A b \in DOMAIN pass.todo : pass.todo[b] \in Entry
      /\ \A b \in DOMAIN pass.done : pass.done[b] \in Decision
      /\ nextStamp \in Nat
      /\ fate \in [Stamps -> SUBSET Endings] /\ fails \in [Stamps -> Nat]
    BY EntryTypes
<1>1. PICK b \in DOMAIN pass.todo, o \in Decision :
         /\ pass'.todo = Without(pass.todo, b) /\ pass'.done = Put(pass.done, b, o)
         /\ Decides(pass.todo[b], o)
    BY DEF DecideStep
<1>. DEFINE e == pass.todo[b]
<1>2. /\ b \in Bases /\ e \in Entry /\ e.stamp \in Stamps /\ e.attempts \in Nat
      /\ e.attempts <= fails[e.stamp] /\ o.attempts \in Nat
    BY <1>0, QueueType, LimitAssumption DEF IsQueue, Entry, Entries, Sound, Decision
<1>3. UNCHANGED <<queue, nextStamp>>
    BY DEF DecideStep
<1>. HIDE DEF e
<1>4. /\ o.stamp = e.stamp
      /\ \/ o.attempts = e.attempts /\ fails' = fails
         \/ o.attempts = e.attempts + 1 /\ fails' = [fails EXCEPT ![e.stamp] = @ + 1]
      /\ \/ o.keep /\ fate' = fate
         \/ ~o.keep /\ \E how \in Endings \ {"gaveUp"} : Ends(e.stamp, how)
         \/ ~o.keep /\ o.attempts >= MaxAttempts /\ Ends(e.stamp, "gaveUp")
    BY <1>1 DEF Decides, e
<1>5. /\ \A s \in Stamps : fails[s] <= fails'[s]
      /\ o.attempts <= fails'[e.stamp]
    <2>1. CASE o.attempts = e.attempts /\ fails' = fails
        BY <1>0, <1>2, <2>1
    <2>2. CASE o.attempts = e.attempts + 1 /\ fails' = [fails EXCEPT ![e.stamp] = @ + 1]
        BY <1>0, <1>2, <2>2
    <2>. QED  BY <1>4, <2>1, <2>2
<1>6. /\ \A s \in Stamps : fate[s] \subseteq fate'[s]
      /\ ~o.keep => fate'[e.stamp] # {}
    <2>1. CASE o.keep /\ fate' = fate
        BY <2>1
    <2>2. ASSUME NEW how, Ends(e.stamp, how)
          PROVE  (\A s \in Stamps : fate[s] \subseteq fate'[s]) /\ fate'[e.stamp] # {}
        BY <1>0, <1>2, <2>2 DEF Ends
    <2>. QED  BY <1>4, <2>1, <2>2
<1>7. \A s \in Stamps : "gaveUp" \in fate'[s] =>
         "gaveUp" \in fate[s] \/ (s = e.stamp /\ o.attempts >= MaxAttempts)
    <2>. SUFFICES ASSUME NEW s \in Stamps, "gaveUp" \in fate'[s], "gaveUp" \notin fate[s]
                  PROVE  s = e.stamp /\ o.attempts >= MaxAttempts
        OBVIOUS
    <2>1. PICK how : /\ Ends(e.stamp, how)
                     /\ how \in Endings \ {"gaveUp"} \/ o.attempts >= MaxAttempts
        BY <1>4
    <2>2. fate' = [fate EXCEPT ![e.stamp] = @ \cup {how}]
        BY <2>1 DEF Ends
    <2>3. s = e.stamp /\ how = "gaveUp"
        BY <1>0, <1>2, <2>2
    <2>. QED  BY <2>1, <2>3
<1>8. /\ DOMAIN pass'.todo = DOMAIN pass.todo \ {b}
      /\ \A x \in DOMAIN pass'.todo : pass'.todo[x] = pass.todo[x]
    <2>1. /\ DOMAIN Without(pass.todo, b) = DOMAIN pass.todo \ {b}
          /\ \A x \in DOMAIN pass.todo \ {b} : Without(pass.todo, b)[x] = pass.todo[x]
        BY <1>0, WithoutQueue
    <2>. QED  BY <1>1, <2>1
<1>9. /\ DOMAIN pass'.done = DOMAIN pass.done \cup {b} /\ pass'.done[b] = o
      /\ \A x \in DOMAIN pass.done : x # b => pass'.done[x] = pass.done[x]
    <2>1. /\ DOMAIN Put(pass.done, b, o) = DOMAIN pass.done \cup {b} /\ Put(pass.done, b, o)[b] = o
          /\ \A x \in DOMAIN pass.done : x # b => Put(pass.done, b, o)[x] = pass.done[x]
        BY <1>0, <1>2, PutDecision
    <2>. QED  BY <1>1, <2>1
<1>10. ASSUME NEW x \in Entry, Sound(x) PROVE Sound(x)'
    <2>1. x.stamp \in Stamps /\ x.attempts \in Nat
        BY LimitAssumption DEF Entry
    <2>2. fails'[x.stamp] \in Nat /\ fails[x.stamp] <= fails'[x.stamp] /\ fails[x.stamp] \in Nat
        BY <1>0, <1>2, <1>4, <1>5, <2>1
    <2>. QED  BY <1>10, <2>1, <2>2 DEF Sound
<1>11. Entries'
    <2>1. (\A x \in DOMAIN queue : Sound(queue[x]))'
        BY <1>0, <1>3, <1>10 DEF Entries
    <2>2. (\A x \in DOMAIN pass.todo : Sound(pass.todo[x]))'
        BY <1>0, <1>8, <1>10 DEF Entries
    <2>3. ASSUME NEW x \in DOMAIN pass'.done
          PROVE  /\ pass'.done[x].attempts <= fails'[pass'.done[x].stamp]
                 /\ ~pass'.done[x].keep => fate'[pass'.done[x].stamp] # {}
        <3>1. CASE x = b
            BY <1>4, <1>5, <1>6, <1>9, <3>1
        <3>2. CASE x # b
            <4>1. /\ x \in DOMAIN pass.done /\ pass'.done[x] = pass.done[x]
                  /\ pass.done[x].stamp \in Stamps /\ pass.done[x].attempts \in Nat
                BY <1>0, <1>9, <3>2 DEF Decision
            <4>2. /\ pass.done[x].attempts <= fails[pass.done[x].stamp]
                  /\ ~pass.done[x].keep => fate[pass.done[x].stamp] # {}
                BY <4>1 DEF Entries
            <4>3. /\ fails[pass.done[x].stamp] \in Nat /\ fails'[pass.done[x].stamp] \in Nat
                  /\ fails[pass.done[x].stamp] <= fails'[pass.done[x].stamp]
                BY <1>0, <1>2, <1>4, <1>5, <4>1
            <4>. QED  BY <1>6, <4>1, <4>2, <4>3
        <3>. QED  BY <3>1, <3>2
    <2>. QED  BY <2>1, <2>2, <2>3 DEF Entries
<1>12. NoRequestLost'
    <2>1. \A s \in 1..(nextStamp - 1) : s \in Stamps
        BY LimitAssumption DEF Types, FilesOK, Stamps
    <2>. QED  BY <1>3, <1>6, <2>1 DEF NoRequestLost
<1>13. GivesUpHonestly'
    <2>. SUFFICES ASSUME NEW s \in Stamps, "gaveUp" \in fate'[s] PROVE fails'[s] >= MaxAttempts
        BY DEF GivesUpHonestly
    <2>1. fails[s] \in Nat /\ fails'[s] \in Nat /\ fails[s] <= fails'[s] /\ MaxAttempts \in Nat
        BY <1>0, <1>2, <1>4, <1>5, LimitAssumption
    <2>2. CASE "gaveUp" \in fate[s]
        BY <2>1, <2>2 DEF GivesUpHonestly
    <2>3. CASE s = e.stamp /\ o.attempts >= MaxAttempts
        BY <1>2, <1>5, <2>1, <2>3
    <2>. QED  BY <1>7, <2>2, <2>3
<1>. QED  BY <1>11, <1>12, <1>13

LEMMA NextDelete == DeleteInv /\ [Next]_vars => DeleteInv'
<1>. SUFFICES ASSUME DeleteInv, [Next]_vars PROVE DeleteInv'
    OBVIOUS
<1>1. Types'
    BY NextTypes DEF DeleteInv
<1>2. Entries' /\ NoRequestLost' /\ GivesUpHonestly'
    BY <1>1, EntriesMove, RequestKeeps, CopyKeeps, EndKeeps, DecideKeeps DEF DeleteInv
<1>. QED  BY <1>1, <1>2 DEF DeleteInv

LEMMA DeleteInvAlways == Spec => []DeleteInv
BY InitDelete, NextDelete, PTL DEF Spec

\* A pass that works on a copy of the queue, while entries are queued, replaced and
\* withdrawn, never takes along one that nothing has become of.
THEOREM DeleteNoRequestLost == Spec => []NoRequestLost
BY DeleteInvAlways, PTL DEF DeleteInv

\* An entry is given up only after that many counted failures of its own.
THEOREM DeleteGivesUpHonestly == Spec => []GivesUpHonestly
BY DeleteInvAlways, PTL DEF DeleteInv

-----------------------------------------------------------------------------
(* A pass deletes where it could see a disconnection *)

\* What was disconnected since the pass turned to its entry is in its notes, and once
\* it has observed the entry's partition as safe, that partition is.
SeenOK ==
    /\ pass.pc = "observe" => \A p \in Partitions : ~Connected(p) => p \in pass.seen
    /\ pass.pc \in {"probe", "backup", "apply"} => Current.part \in pass.seen \cup {Nowhere}

\* What a step away from every other one does to a pass that is at an entry.
StaysSeen ==
    /\ pass'.pc = pass.pc /\ pass'.todo = pass.todo /\ pass'.cur = pass.cur
    /\ pass.seen \subseteq pass'.seen
    /\ pass.pc = "observe" => \A p \in Partitions : ~Connected(p)' => ~Connected(p) \/ p \in pass'.seen

LEMMA SeenStays == ASSUME Types, SeenOK, StaysSeen PROVE SeenOK'
<1>1. pass.pc = "observe" => SeenOK'
    BY DEF StaysSeen, SeenOK
<1>2. pass.pc \in {"probe", "backup", "apply"} => SeenOK'
    BY DEF StaysSeen, SeenOK, Current
<1>. QED  BY <1>1, <1>2 DEF StaysSeen, SeenOK

LEMMA WatchSeen == ASSUME Types, Watch PROVE StaysSeen
<1>1. CASE pass.pc \in {"idle", "next", "hung"}
    BY <1>1 DEF Watch, StaysSeen
<1>2. CASE pass.pc \notin {"idle", "next", "hung"}
    BY <1>2 DEF Watch, StaysSeen, Types, PassOK, PassRecord, Connected
<1>. QED  BY <1>1, <1>2

LEMMA SeenSame == ASSUME Types, pass' = pass, server' = server PROVE StaysSeen
BY DEF StaysSeen, Connected

LEMMA SeenNext == Types /\ SeenOK /\ [Next]_vars => SeenOK'
<1>. SUFFICES ASSUME Types, SeenOK, [Next]_vars PROVE SeenOK'
    OBVIOUS
<1>1. ASSUME pass'.pc \in {"idle", "next", "hung"} PROVE SeenOK'
    BY <1>1 DEF SeenOK
<1>2. ASSUME NEW c \in Clients, Route(c) PROVE StaysSeen
    <2>1. pass' = pass /\ server' = server
        BY <1>2 DEF Route, RouteReserves, RouteQueues, RouteIsImmediate, RouteBacksUp, RouteDeletes,
                    RouteFails, window
    <2>. QED  BY <2>1, SeenSame
<1>3. ASSUME NEW b \in Bases, Cancel(b) \/ PlayerMoves(b) PROVE StaysSeen
    BY <1>3, SeenSame DEF Cancel, PlayerMoves, window
<1>4. CASE HookReturns \/ UNCHANGED vars
    BY <1>4, SeenSame, SeenStays DEF HookReturns, vars, window
<1>5. CASE WorldMoves
    BY <1>5, WatchSeen, SeenStays DEF WorldMoves
<1>6. ASSUME NEW S, NEW d, RestartStops(S, d) PROVE SeenOK'
    BY <1>6, WatchSeen, SeenStays DEF RestartStops
<1>7. CASE RestartTimesOut
    <2>1. pass'.pc = pass.pc /\ pass'.todo = pass.todo /\ pass'.cur = pass.cur /\ pass'.seen = pass.seen
        BY <1>7 DEF RestartTimesOut, Types, PassOK, PassRecord
    <2>2. server' = server
        BY <1>7 DEF RestartTimesOut, window
    <2>. QED  BY <2>1, <2>2, SeenStays DEF StaysSeen, Connected
<1>8. CASE RestartStarts
    <2>1. pass' = pass /\ \A p \in Partitions : ~Connected(p)' => ~Connected(p)
        BY <1>8 DEF RestartStarts, Connected
    <2>. QED  BY <2>1, SeenStays DEF StaysSeen
<1>9. CASE PollBegins \/ HookBegins \/ PassEnds \/ PassAborts \/ PassHangs \/ Crash
    <2>1. pass'.pc \in {"idle", "next", "hung"}
        <3>1. CASE PollBegins \/ HookBegins
            BY <3>1 DEF PollBegins, HookBegins, Begin, IdlePass
        <3>2. CASE PassEnds \/ PassAborts \/ Crash
            BY <3>2 DEF PassEnds, PassAborts, Crash, IdlePass
        <3>3. CASE PassHangs
            BY <3>3 DEF PassHangs, IdlePass
        <3>. QED  BY <1>9, <3>1, <3>2, <3>3
    <2>. QED  BY <1>1, <2>1
<1>10. ASSUME NEW b \in Bases, NEW o \in Decision, pass' = Decided(pass, b, o) PROVE SeenOK'
    BY <1>1, <1>10, DecidedType DEF Types
<1>11. CASE PassTurns
    <2>1. PICK b \in DOMAIN pass.todo :
             \/ pass' = Decided(pass, b, Drop(pass.todo[b]))
             \/ pass' = [pass EXCEPT !.pc = "observe", !.cur = b,
                                     !.seen = {p \in Partitions : ~Connected(p)}]
        BY <1>11 DEF PassTurns
    <2>2. b \in Bases /\ pass.todo[b] \in Entry
        BY QueueType DEF Types, PassOK, PassRecord, IsQueue
    <2>3. Drop(pass.todo[b]) \in Decision
        BY <2>2, OutcomeType DEF Types
    <2>4. CASE pass' = [pass EXCEPT !.pc = "observe", !.cur = b,
                                    !.seen = {p \in Partitions : ~Connected(p)}]
        <3>1. pass'.pc = "observe" /\ pass'.seen = {p \in Partitions : ~Connected(p)}
            BY <2>4 DEF Types, PassOK, PassRecord
        <3>2. server' = server
            BY <1>11 DEF PassTurns, window
        <3>. QED  BY <3>1, <3>2 DEF SeenOK, Connected
    <2>. QED  BY <1>10, <2>1, <2>2, <2>3, <2>4
<1>12. CASE PassObserves
    <2>1. CASE EntryWriteSafe(Current) /\ pass' = [pass EXCEPT !.pc = "probe"]
        <3>1. /\ pass'.pc = "probe" /\ pass'.seen = pass.seen /\ pass'.todo = pass.todo
              /\ pass'.cur = pass.cur
            BY <2>1 DEF Types, PassOK, PassRecord
        <3>2. AtEntry /\ pass.pc = "observe"
            BY <1>12 DEF PassObserves, AtEntry
        <3>3. Current.part \in Partitions \cup {Nowhere}
            BY <3>2, CurrentEntry DEF Entry
        <3>4. Current.part # Nowhere => ~Connected(Current.part)
            BY <2>1 DEF EntryWriteSafe, WriteSafe, Released, Dwelt
        <3>5. Current.part \in pass.seen \cup {Nowhere}
            BY <3>2, <3>3, <3>4 DEF SeenOK
        <3>. QED  BY <3>1, <3>5 DEF SeenOK, Current
    <2>2. CASE pass' = Turned(pass, pass.cur)
        BY <1>1, <2>2, TurnedType DEF Types
    <2>. QED  BY <1>12, <2>1, <2>2 DEF PassObserves
<1>13. CASE PassBacksUp
    <2>1. /\ pass.pc = "backup" /\ pass'.pc = "apply" /\ pass'.seen = pass.seen
          /\ pass'.todo = pass.todo /\ pass'.cur = pass.cur
        BY <1>13 DEF PassBacksUp, Types, PassOK, PassRecord
    <2>. QED  BY <2>1 DEF SeenOK, Current
<1>14. CASE PassProbes \/ PassDeletes \/ PassIsRefused
             \/ \E permanent \in BOOLEAN : PassDeleteThrows(permanent)
    <2>1. AtEntry
        BY <1>14 DEF PassProbes, PassDeletes, PassIsRefused, PassDeleteThrows, AtEntry
    <2>2. pass.cur \in Bases /\ Current \in Entry /\ Current.attempts \in Nat
        BY <2>1, CurrentEntry, LimitAssumption DEF Entry
    <2>3. Drop(Current) \in Decision /\ \A n \in Nat : Postpone(Current, n) \in Decision
        BY <2>2, OutcomeType DEF Types
    <2>4. \/ \E o \in Decision : pass' = Decided(pass, pass.cur, o)
          \/ pass.pc = "probe" /\ pass' = [pass EXCEPT !.pc = IF pass.backed THEN "apply" ELSE "backup"]
        BY <1>14, <2>2, <2>3 DEF PassProbes, PassDeletes, PassIsRefused, PassDeleteThrows, Attempts
    <2>5. CASE pass.pc = "probe" /\ pass' = [pass EXCEPT !.pc = IF pass.backed THEN "apply" ELSE "backup"]
        <3>1. /\ pass'.pc \in {"backup", "apply"} /\ pass'.seen = pass.seen
              /\ pass'.todo = pass.todo /\ pass'.cur = pass.cur
            BY <2>5 DEF Types, PassOK, PassRecord
        <3>. QED  BY <2>5, <3>1 DEF SeenOK, Current
    <2>. QED  BY <1>10, <2>2, <2>4, <2>5
<1>. QED  BY <1>2, <1>3, <1>4, <1>5, <1>6, <1>7, <1>8, <1>9, <1>11, <1>12, <1>13, <1>14, SeenStays
          DEF Next, Pass, Restart

LEMMA SeenInit == Init => SeenOK
BY DEF Init, IdlePass, SeenOK

\* A pass deletes a base only when its partition was disconnected at some moment since
\* the pass turned to it: no observation made before that decides.
THEOREM DeletesAfterDisconnect == Spec => PassDeletesAfterDisconnect
<1>1. SeenOK => (PassDeletes => Current.part \in pass.seen \cup {Nowhere})
    BY DEF SeenOK, PassDeletes
<1>2. Spec => []SeenOK
    BY TypesAlways, SeenInit, SeenNext, PTL DEF Spec
<1>. QED  BY <1>1, <1>2, PTL DEF PassDeletesAfterDisconnect
=============================================================================
