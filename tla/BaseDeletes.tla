----------------------------- MODULE BaseDeletes -----------------------------
(***************************************************************************)
(* Deleting a base.  A delete aimed at a running map is put in a persisted *)
(* queue and applied in a window in which the map is down: by the pass a   *)
(* poller starts every 5 s, or by the one a restart task runs between its  *)
(* stop and start halves and waits for, for a bounded time.  A pass works  *)
(* on a copy of the queue and reconciles at its end; the delete, cancel    *)
(* and repeat requests change the queue meanwhile.                         *)
(*                                                                         *)
(* An action runs from one await to the next.  Passes do not overlap       *)
(* (module SingleFlight).  The file is an array in the order the entries   *)
(* were queued, which is the order of their queuedAt.                      *)
(***************************************************************************)
EXTENDS WriteWindow, FiniteSets

CONSTANTS
    Bases,
    Home,         \* the partition a base is on at first
    Sites,        \* the partitions of its map, where its owner can redeploy it
    Backlog,      \* the bases queued before the console started, numbered in order from 1
    Clients,      \* delete requests that can be in the route at once
    RetryDelay,   \* pendingBaseDeleteRetryDelayMs
    MaxAge,       \* pendingBaseDeleteMaxAgeMs
    MaxAttempts,  \* MAX_DELETE_FLUSH_ATTEMPTS
    MaxStamps,    \* bound: entries queued, reservations included
    LastRequest,  \* bound: when the last entry is queued
    MaxFaults     \* bound: crashes, passes that hang, failures of a delete statement

ASSUME SiteAssumption == /\ Home \in [Bases -> Partitions]
                         /\ Sites \in [Bases -> SUBSET Partitions]
ASSUME BacklogAssumption ==
    LET size == Cardinality(DOMAIN Backlog) IN
    /\ DOMAIN Backlog \subseteq Bases /\ IsFiniteSet(DOMAIN Backlog) /\ size \in 0..MaxStamps
    /\ Backlog \in [DOMAIN Backlog -> 1..size]
    /\ \A s \in 1..size : \E b \in DOMAIN Backlog : Backlog[b] = s
ASSUME LimitAssumption == /\ RetryDelay \in Nat /\ MaxAge \in Nat /\ MaxStamps \in Nat
                          /\ LastRequest \in Nat /\ MaxFaults \in Nat /\ MaxAttempts \in Nat \ {0}

VARIABLES
    base,       \* the partition it is on, or backedUp (picked up by its owner) or gone
    queue,      \* pending-base-deletes.json: base -> Entry
    nextStamp,  \* the next queuedAt
    route,      \* the delete requests in baseDeleteRoute
    pass,       \* the flush pass, if one runs
    restart,    \* the restart task, if one runs
    faults,
    fate,       \* for the properties: what became of an entry
    fails       \* for the properties: failed attempts that count against it

vars == <<window, base, queue, nextStamp, route, pass, restart, faults, fate, fails>>

Stamps == 1..MaxStamps
Endings == {"replaced", "withdrawn", "cancelled", "applied", "cleared", "expired", "gaveUp"}
Entry == [stamp: Stamps, part: Partitions \cup {Nowhere}, at: Nat,
          attempts: 0..MaxAttempts, retryAt: Nat]

Nothing == [b \in {} |-> 0]
IdleRoute == [pc |-> "idle", base |-> CHOOSE b \in Bases : TRUE]
IdlePass == [pc |-> "idle", by |-> "nobody", now |-> 0, todo |-> Nothing,
             done |-> Nothing, cur |-> CHOOSE b \in Bases : TRUE,
             trusted |-> {}, backed |-> FALSE, seen |-> {}]
IdleRestart == [pc |-> "idle", of |-> {}, trusted |-> {}]

Init ==
    /\ WindowInit
    /\ base = Home
    /\ queue = [b \in DOMAIN Backlog |-> [stamp |-> Backlog[b], part |-> Home[b], at |-> 0,
                                          attempts |-> 0, retryAt |-> 0]]
    /\ nextStamp = Cardinality(DOMAIN Backlog) + 1
    /\ route = [c \in Clients |-> IdleRoute]
    /\ pass = IdlePass /\ restart = IdleRestart /\ faults = 0
    /\ fate = [s \in Stamps |-> {}]
    /\ fails = [s \in Stamps |-> 0]

Ends(s, how) == fate' = [fate EXCEPT ![s] = @ \cup {how}]

-----------------------------------------------------------------------------
(* The queue *)

\* queueBaseDelete: one entry per base, the new one last.
Put(q, b, e) == [x \in DOMAIN q \cup {b} |-> IF x = b THEN e ELSE q[x]]
Without(q, b) == [x \in DOMAIN q \ {b} |-> q[x]]

NewEntry(part) == [stamp |-> nextStamp, part |-> part, at |-> clock,
                   attempts |-> 0, retryAt |-> 0]

Enqueue(b, part) ==
    /\ nextStamp <= MaxStamps /\ clock <= LastRequest
    /\ queue' = Put(queue, b, NewEntry(part))
    /\ nextStamp' = nextStamp + 1
    /\ IF b \in DOMAIN queue THEN Ends(queue[b].stamp, "replaced") ELSE UNCHANGED fate

\* cancelQueuedBaseDelete, by whoever; nothing when the base has no entry.
Dequeue(b, how) ==
    /\ queue' = Without(queue, b)
    /\ IF b \in DOMAIN queue THEN Ends(queue[b].stamp, how) ELSE UNCHANGED fate

\* Faulty: what was processed is told by the base alone.
ProcessedBase(q, done, b) == b \in DOMAIN done

\* What a pass does to the queue as it is at its end: an entry is touched only if
\* it is the one that was processed.
Processed(q, done, b) == b \in DOMAIN done /\ done[b].stamp = q[b].stamp
Reconciled(q, done) ==
    [b \in {x \in DOMAIN q : Processed(q, done, x) => done[x].keep} |->
        IF Processed(q, done, b)
        THEN [q[b] EXCEPT !.attempts = done[b].attempts, !.retryAt = done[b].retryAt]
        ELSE q[b]]

-----------------------------------------------------------------------------
(* baseDeleteRoute and baseCancelQueuedDeleteRoute *)

\* The reservation, before the first await.  The route's own check for a picked-up
\* base is an await earlier, so the base may be in any state by now.
RouteReserves(c, b) ==
    /\ route[c].pc = "idle"
    /\ route' = [route EXCEPT ![c] = [pc |-> "target", base |-> b]]
    /\ Enqueue(b, Nowhere)
    /\ UNCHANGED <<window, base, pass, restart, faults, fails>>

\* baseRefillTarget: a picked-up base is on no partition.
Location(b) == IF base[b] \in Partitions THEN base[b] ELSE Nowhere

RouteQueues(c) ==
    LET b == route[c].base IN
    /\ route[c].pc = "target" /\ base[b] # "gone" /\ ~WriteSafe(Location(b), {})
    /\ Observe
    /\ Enqueue(b, Location(b))
    /\ route' = [route EXCEPT ![c] = IdleRoute]
    /\ UNCHANGED <<clock, server, assigned, outages, base, pass, restart, faults, fails>>

RouteIsImmediate(c) ==
    LET b == route[c].base IN
    /\ route[c].pc = "target" /\ base[b] # "gone" /\ WriteSafe(Location(b), {})
    /\ Observe
    /\ route' = [route EXCEPT ![c].pc = "backup"]
    /\ UNCHANGED <<clock, server, assigned, outages, base, queue, nextStamp, pass,
                   restart, faults, fate, fails>>

RouteBacksUp(c) ==
    /\ route[c].pc = "backup"
    /\ route' = [route EXCEPT ![c].pc = "apply"]
    /\ UNCHANGED <<window, base, queue, nextStamp, pass, restart, faults, fate, fails>>

RouteDeletes(c) ==
    LET b == route[c].base IN
    /\ route[c].pc = "apply" /\ base[b] \in Partitions
    /\ base' = [base EXCEPT ![b] = "gone"]
    /\ Dequeue(b, "withdrawn")
    /\ route' = [route EXCEPT ![c] = IdleRoute]
    /\ UNCHANGED <<window, nextStamp, pass, restart, faults, fails>>

\* The target, the backup or the delete throws: the finally block.
RouteFails(c) ==
    /\ route[c].pc # "idle"
    /\ Dequeue(route[c].base, "withdrawn")
    /\ route' = [route EXCEPT ![c] = IdleRoute]
    /\ since' \in IF route[c].pc = "target" THEN {since, SinceAfter} ELSE {since}
    /\ UNCHANGED <<clock, server, assigned, outages, base, nextStamp, pass, restart,
                   faults, fails>>

Cancel(b) ==
    /\ b \in DOMAIN queue
    /\ Dequeue(b, "cancelled")
    /\ UNCHANGED <<window, base, nextStamp, route, pass, restart, faults, fails>>

-----------------------------------------------------------------------------
(* flushBaseDeletes *)

Begin(by, trusted) ==
    /\ Observe
    /\ pass' = [IdlePass EXCEPT !.pc = "next", !.by = by, !.now = clock, !.todo = queue,
                                !.trusted = trusted]

\* The poller starts a pass when the queue holds anything and none is in flight.
PollBegins ==
    /\ pass.pc = "idle" /\ DOMAIN queue # {}
    /\ Begin("poll", {})
    /\ UNCHANGED <<clock, server, assigned, outages, base, queue, nextStamp, route,
                   restart, faults, fate, fails>>

\* Faulty: the age is looked at only once the map is down.
ExpiredWhenSafe(e, now) == now - e.at >= MaxAge /\ WriteSafe(e.part, pass.trusted)

Expired(e, now) == now - e.at >= MaxAge
BacksOff(e) == pass.by = "poll" /\ pass.now < e.retryAt
Current == pass.todo[pass.cur]

Outcome(e, keep, attempts, retryAt) ==
    [stamp |-> e.stamp, keep |-> keep, attempts |-> attempts, retryAt |-> retryAt]
Drop(e) == Outcome(e, FALSE, e.attempts, e.retryAt)
Postpone(e, attempts) ==
    Outcome(e, attempts < MaxAttempts, attempts, pass.now + RetryDelay)

Turned(p, b) == [p EXCEPT !.pc = "next", !.todo = Without(@, b), !.seen = {}]
Decided(p, b, o) == [Turned(p, b) EXCEPT !.done = Put(@, b, o)]

\* The first entry left: an expired one is dropped whatever its map does.
PassTurns ==
    \E b \in DOMAIN pass.todo :
        LET e == pass.todo[b] IN
        /\ pass.pc = "next" /\ \A x \in DOMAIN pass.todo : e.stamp <= pass.todo[x].stamp
        /\ \/ /\ Expired(e, pass.now)
              /\ pass' = Decided(pass, b, Drop(e))
              /\ Ends(e.stamp, "expired")
           \/ /\ ~Expired(e, pass.now)
              /\ pass' = [pass EXCEPT !.pc = "observe", !.cur = b,
                                      !.seen = {p \in Partitions : ~Connected(p)}]
              /\ UNCHANGED fate
        /\ UNCHANGED <<window, base, queue, nextStamp, route, restart, faults, fails>>

\* Faulty: one observation a pass, made before its backup.
EntryOncePerPass(e) == pass.backed \/ WriteSafe(e.part, pass.trusted)

\* entryWriteSafe, with a fresh observation.
EntryWriteSafe(e) == WriteSafe(e.part, pass.trusted)

PassObserves ==
    /\ pass.pc = "observe"
    /\ Observe
    /\ pass' = IF EntryWriteSafe(Current) /\ ~BacksOff(Current)
               THEN [pass EXCEPT !.pc = "probe"] ELSE Turned(pass, pass.cur)
    /\ UNCHANGED <<clock, server, assigned, outages, base, queue, nextStamp, route,
                   restart, faults, fate, fails>>

\* The probes that spare a backup; one that fails finds nothing.
PassProbes ==
    /\ pass.pc = "probe"
    /\ \/ /\ base[pass.cur] = "backedUp"
          /\ pass' = Decided(pass, pass.cur, Postpone(Current, Current.attempts))
          /\ UNCHANGED fate
       \/ /\ base[pass.cur] = "gone"
          /\ pass' = Decided(pass, pass.cur, Drop(Current))
          /\ Ends(Current.stamp, "cleared")
       \/ /\ pass' = [pass EXCEPT !.pc = IF pass.backed THEN "apply" ELSE "backup"]
          /\ UNCHANGED fate
    /\ UNCHANGED <<window, base, queue, nextStamp, route, restart, faults, fails>>

PassBacksUp ==
    /\ pass.pc = "backup"
    /\ pass' = [pass EXCEPT !.pc = "apply", !.backed = TRUE]
    /\ UNCHANGED <<window, base, queue, nextStamp, route, restart, faults, fate, fails>>

\* deleteBaseCompletely decides in its transaction.
PassDeletes ==
    /\ pass.pc = "apply" /\ base[pass.cur] \in Partitions
    /\ base' = [base EXCEPT ![pass.cur] = "gone"]
    /\ pass' = Decided(pass, pass.cur, Drop(Current))
    /\ Ends(Current.stamp, "applied")
    /\ UNCHANGED <<window, queue, nextStamp, route, restart, faults, fails>>

PassIsRefused ==
    /\ pass.pc = "apply"
    /\ \/ /\ base[pass.cur] = "gone"
          /\ pass' = Decided(pass, pass.cur, Drop(Current))
          /\ Ends(Current.stamp, "cleared")
       \/ /\ base[pass.cur] = "backedUp"
          /\ pass' = Decided(pass, pass.cur, Postpone(Current, Current.attempts))
          /\ UNCHANGED fate
    /\ UNCHANGED <<window, base, queue, nextStamp, route, restart, faults, fails>>

\* Faulty: a transient error counts.
AttemptsAlways(e, permanent) == e.attempts + 1

\* Any other error counts an attempt, unless it is transient.
Attempts(e, permanent) == IF permanent THEN e.attempts + 1 ELSE e.attempts

PassDeleteThrows(permanent) ==
    LET attempts == Attempts(Current, permanent) IN
    /\ pass.pc = "apply" /\ faults < MaxFaults /\ faults' = faults + 1
    /\ pass' = Decided(pass, pass.cur, Postpone(Current, attempts))
    /\ fails' = IF permanent THEN [fails EXCEPT ![Current.stamp] = @ + 1] ELSE fails
    /\ IF attempts < MaxAttempts THEN UNCHANGED fate ELSE Ends(Current.stamp, "gaveUp")
    /\ UNCHANGED <<window, base, queue, nextStamp, route, restart>>

\* Faulty: a pass that aborts leaves its task waiting.
AnsweredOnSuccess == restart' = IF pass.by = "hook" /\ pass.pc = "next"
                                THEN [restart EXCEPT !.pc = "starting"] ELSE restart

\* The task that waits for the pass of its hook goes on.
Answered == restart' = IF pass.by = "hook" THEN [restart EXCEPT !.pc = "starting"]
                       ELSE restart

PassEnds ==
    /\ pass.pc = "next" /\ DOMAIN pass.todo = {}
    /\ queue' = Reconciled(queue, pass.done)
    /\ pass' = IdlePass
    /\ Answered
    /\ UNCHANGED <<window, base, nextStamp, route, faults, fate, fails>>

\* The observation throws, or the safety backup fails: what was decided is not kept.
PassAborts ==
    /\ pass.pc \in {"observe", "backup"}
    /\ pass' = IdlePass
    /\ Answered
    /\ UNCHANGED <<window, base, queue, nextStamp, route, faults, fate, fails>>

\* A connection that is stuck, or a backup process that never exits: the pass stays
\* in flight, and the single-flight guard keeps every other pass out.
PassHangs ==
    /\ pass.pc \in {"observe", "probe", "backup", "apply"}
    /\ faults < MaxFaults /\ faults' = faults + 1
    /\ pass' = [IdlePass EXCEPT !.pc = "hung", !.by = pass.by]
    /\ UNCHANGED <<window, base, queue, nextStamp, route, restart, fate, fails>>

-----------------------------------------------------------------------------
(* The restart task around the pass: TaskManager.run and flushPendingMapWrites *)

\* For the properties: what an observation of the pass could see.
Watch == pass' = IF pass.pc \in {"idle", "next", "hung"} THEN pass
                 ELSE [pass EXCEPT !.seen = @ \cup {p \in Partitions : server'[p] # "live"}]

\* Its stop half is done: a despawn, which releases the server_id, or the stop of a
\* service, of a Sietch or of everything, whose partitions the hook then trusts.
RestartStops(S, despawn) ==
    /\ restart.pc = "idle" /\ outages < MaxOutages /\ outages' = outages + 1
    /\ Stopped(S)
    /\ assigned' = IF despawn THEN assigned \ S ELSE assigned
    /\ restart' = [pc |-> "waiting", of |-> S, trusted |-> IF despawn THEN {} ELSE S]
    /\ Watch
    /\ UNCHANGED <<clock, since, base, queue, nextStamp, route, faults, fate, fails>>

\* The forceFresh call: once the pass in flight has ended, one of its own.
HookBegins ==
    /\ pass.pc = "idle" /\ restart.pc = "waiting" /\ DOMAIN queue # {}
    /\ Begin("hook", restart.trusted)
    /\ restart' = [restart EXCEPT !.pc = "flushing"]
    /\ UNCHANGED <<clock, server, assigned, outages, base, queue, nextStamp, route,
                   faults, fate, fails>>

\* Nothing is queued, or the hook's first query fails.
HookReturns ==
    /\ pass.pc = "idle" /\ restart.pc = "waiting"
    /\ restart' = [restart EXCEPT !.pc = "starting"]
    /\ UNCHANGED <<window, base, queue, nextStamp, route, pass, faults, fate, fails>>

\* Faulty: only the wait for somebody else's pass is bounded.
TimesOutWaiting ==
    /\ restart.pc = "waiting"
    /\ restart' = [restart EXCEPT !.pc = "starting"]
    /\ UNCHANGED <<window, base, queue, nextStamp, route, pass, faults, fate, fails>>

\* withTimeout stops waiting; the pass, if one runs, is not stopped.
RestartTimesOut ==
    /\ restart.pc \in {"waiting", "flushing"}
    /\ restart' = [restart EXCEPT !.pc = "starting"]
    /\ pass' = IF pass.by = "hook" THEN [pass EXCEPT !.by = "late"] ELSE pass
    /\ UNCHANGED <<window, base, queue, nextStamp, route, faults, fate, fails>>

RestartStarts ==
    /\ restart.pc = "starting"
    /\ restart' = IdleRestart
    /\ server' = [p \in Partitions |-> IF p \in restart.of /\ server[p] = "down"
                                       THEN "booting" ELSE server[p]]
    /\ assigned' = assigned \cup restart.of
    /\ UNCHANGED <<clock, since, outages, base, queue, nextStamp, route, pass, faults,
                   fate, fails>>

-----------------------------------------------------------------------------
(* The players, the map servers and the console's death *)

\* The owner, in the game, picks the base up or demolishes it, or redeploys or
\* recycles one that is picked up.
PlayerMoves(b) ==
    /\ \E p \in Sites[b] :
          /\ Connected(p) /\ base[b] \in {p, "backedUp"}
          /\ \E new \in {p, "backedUp", "gone"} \ {base[b]} :
                base' = [base EXCEPT ![b] = new]
    /\ UNCHANGED <<window, queue, nextStamp, route, pass, restart, faults, fate, fails>>

WorldMoves ==
    /\ World
    /\ Watch
    /\ UNCHANGED <<base, queue, nextStamp, route, restart, faults, fate, fails>>

\* The console dies and its container is started again; the queue is on disk.
Crash ==
    /\ faults < MaxFaults /\ faults' = faults + 1
    /\ route' = [c \in Clients |-> IdleRoute]
    /\ pass' = IdlePass /\ restart' = IdleRestart
    /\ since' = [p \in {} |-> 0]
    /\ UNCHANGED <<clock, server, assigned, outages, base, queue, nextStamp, fate, fails>>

Route(c) ==
    \/ \E b \in Bases : RouteReserves(c, b)
    \/ RouteQueues(c) \/ RouteIsImmediate(c) \/ RouteBacksUp(c) \/ RouteDeletes(c)
    \/ RouteFails(c)

Pass ==
    \/ PassTurns \/ PassObserves \/ PassProbes \/ PassBacksUp \/ PassDeletes
    \/ PassIsRefused \/ PassEnds \/ PassAborts
    \/ \E permanent \in BOOLEAN : PassDeleteThrows(permanent)

Restart ==
    \/ \E S \in {{p} : p \in Partitions} \cup {Partitions}, d \in BOOLEAN : RestartStops(S, d)
    \/ HookBegins \/ HookReturns \/ RestartTimesOut \/ RestartStarts

Next ==
    \/ \E c \in Clients : Route(c)
    \/ \E b \in Bases : Cancel(b) \/ PlayerMoves(b)
    \/ PollBegins \/ Pass \/ PassHangs \/ Restart
    \/ WorldMoves \/ Crash

Spec == Init /\ [][Next]_vars

\* The poller's interval, the awaits of a pass, which end, fail or hang, the timeout
\* of a restart task and its own steps, time, and the end of a lost connection.
FairSpec ==
    /\ Spec /\ WF_vars(PollBegins) /\ WF_vars(Pass)
    /\ WF_vars(RestartTimesOut) /\ WF_vars(RestartStarts)
    /\ WF_vars(WorldMoves /\ TimePasses)
    /\ \A p \in Partitions : WF_vars(WorldMoves /\ server[p] = "gap" /\ ServerConnects(p))

-----------------------------------------------------------------------------
(* Properties *)

IsQueue(q) == DOMAIN q \subseteq Bases /\ q \in [DOMAIN q -> Entry]

\* Types; a pass that is at an entry has it in its copy, and a waiting task's pass,
\* if it has begun, is in flight.
TypeOK ==
    /\ clock \in 0..MaxClock /\ outages \in 0..MaxOutages /\ faults \in 0..MaxFaults
    /\ server \in [Partitions -> {"live", "gap", "down", "booting"}]
    /\ assigned \subseteq Partitions
    /\ DOMAIN since \subseteq Partitions /\ \A p \in DOMAIN since : since[p] \in 0..clock
    /\ base \in [Bases -> Partitions \cup {"backedUp", "gone"}]
    /\ IsQueue(queue) /\ nextStamp \in 1..(MaxStamps + 1)
    /\ \A c \in Clients : /\ route[c].pc \in {"idle", "target", "backup", "apply"}
                          /\ route[c].pc # "idle" => route[c].base \in Bases
    /\ pass.pc \in {"idle", "next", "observe", "probe", "backup", "apply", "hung"}
    /\ pass.by \in {"nobody", "poll", "hook", "late"} /\ pass.now \in 0..clock
    /\ IsQueue(pass.todo) /\ DOMAIN pass.done \subseteq Bases \ DOMAIN pass.todo
    /\ pass.pc \notin {"idle", "next", "hung"} => pass.cur \in DOMAIN pass.todo
    /\ pass.by = "hook" <=> restart.pc = "flushing"
    /\ restart.pc \in {"idle", "waiting", "flushing", "starting"}
    /\ restart.of \subseteq Partitions /\ restart.trusted \subseteq restart.of
    /\ fate \in [Stamps -> SUBSET Endings] /\ fails \in [Stamps -> 0..MaxFaults]

\* An entry is in the queue until something is known to have become of it: a pass
\* that ends does not take along what was queued, requeued or cancelled meanwhile.
NoRequestLost ==
    \A s \in 1..(nextStamp - 1) :
        fate[s] = {} => \E b \in DOMAIN queue : queue[b].stamp = s

\* A pass gives an entry up only after that many permanent failures of that entry:
\* not for transient ones and not while the base is picked up.
GivesUpHonestly ==
    \A s \in Stamps : "gaveUp" \in fate[s] => fails[s] >= MaxAttempts

\* A base goes in a pass only if its partition was seen, or could have been seen,
\* disconnected since the pass turned to it: earlier observations do not count.
PassDeletesAfterDisconnect ==
    [][PassDeletes => Current.part \in pass.seen \cup {Nowhere}]_vars

\* Every entry leaves the queue, its map down or not, by its age at the latest; only
\* a pass that hangs keeps it there, for as long as the console lives.
EveryRequestEnds ==
    \A s \in Stamps : (\E b \in DOMAIN queue : queue[b].stamp = s)
                        ~> \/ ~\E b \in DOMAIN queue : queue[b].stamp = s
                           \/ pass.pc = "hung"

\* A restart is held up neither by its own pass, nor by the one it waits for, hanging.
RestartGoesOn == restart.pc \in {"waiting", "flushing"}
                    ~> restart.pc \notin {"waiting", "flushing"}
=============================================================================
