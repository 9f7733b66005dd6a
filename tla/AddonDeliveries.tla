-------------------------- MODULE AddonDeliveries --------------------------
(***************************************************************************)
(* createAddonDeliveryService: rewards and messages an addon asks for, one *)
(* record per request id on disk, delivered at once or by the tick of the  *)
(* 10 s interval.  An attempt writes "processing" before it hands the      *)
(* reward over and the outcome after; operations on one request wait for   *)
(* one another, so an operation that waits its turn is the action later.   *)
(* One addon with one permission; requests are numbered in the order the   *)
(* tick sorts their keys.                                                  *)
(***************************************************************************)
EXTENDS Naturals, FiniteSets

CONSTANTS
    Requests,       \* ids of requests, numbers
    Ticks,          \* ticks that can be in progress at once
    MaxPerTick,     \* MAX_TICK_DELIVERIES
    DeferIntervals, \* DEFERRED_RETRY_MS in intervals of the tick
    MaxMishaps      \* bound: crashes, failed writes and uninstalls

ASSUME RequestAssumption == Requests \subseteq Nat \ {0}
ASSUME DeferAssumption == DeferIntervals \in Nat \ {0} /\ MaxPerTick \in Nat \ {0}
ASSUME BoundAssumption == MaxMishaps \in Nat

VARIABLES
    status,    \* disk: request -> status of its record, or "none"
    due,       \* disk: request -> intervals until nextAttemptAt
    keys,      \* memory: pendingKeys
    loaded,    \* memory: pendingLoaded
    attempt,   \* memory: request -> how far the attempt under way has come
    waits,     \* memory: requests repeated during an attempt, behind it in the queue
    tick,      \* memory: the ticks in progress
    allowed,   \* the addon is installed, enabled and approved
    reachable, \* the requests whose player can be served now
    grants,    \* history: request -> times its reward has arrived since it was accepted
    revived,   \* history: requests whose record an attempt wrote after it was removed
    mishaps    \* crashes, failed writes and uninstalls so far

disk == <<status, due>>
memory == <<keys, loaded, attempt, waits, tick>>
world == <<allowed, reachable>>
vars == <<disk, memory, world, grants, revived, mishaps>>

NoKey == 0
NoTick == [active |-> FALSE, left |-> {}, count |-> 0, on |-> NoKey]

Init ==
    /\ status = [r \in Requests |-> "none"] /\ due = [r \in Requests |-> 0]
    /\ keys = {} /\ loaded = FALSE
    /\ attempt = [r \in Requests |-> "no"] /\ waits = {}
    /\ tick = [t \in Ticks |-> NoTick]
    /\ allowed = TRUE /\ reachable = Requests
    /\ grants = [r \in Requests |-> 0] /\ revived = {}
    /\ mishaps = 0

Busy(r) == attempt[r] # "no"
\* The queue of r is empty: what is called now runs now.
Free(r) == ~Busy(r) /\ r \notin waits

\* attempt() up to its await: only an addon that may still run gets "processing".
Begin(r, before) ==
    IF allowed THEN /\ status' = [status EXCEPT ![r] = "processing"]
                    /\ due' = [due EXCEPT ![r] = 0]
                    /\ attempt' = [attempt EXCEPT ![r] = "asked"]
               ELSE /\ status' = [status EXCEPT ![r] = before]
                    /\ UNCHANGED <<due, attempt>>

-----------------------------------------------------------------------------
(* Requests of the addon *)

\* The operation of request(): a new record and its first attempt, an attempt for
\* a pending record that is due, and the record as it stands for everything else.
Operate(r) ==
    \/ /\ status[r] = "none"
       /\ Begin(r, "pending")
       /\ keys' = keys \cup {r}
       /\ grants' = [grants EXCEPT ![r] = 0]
       /\ revived' = revived \ {r}
    \/ /\ status[r] = "pending" /\ due[r] = 0
       /\ Begin(r, "pending")
       /\ UNCHANGED <<keys, grants, revived>>
    \/ /\ status[r] # "none" /\ ~(status[r] = "pending" /\ due[r] = 0)
       /\ UNCHANGED <<disk, keys, attempt, grants, revived>>

\* The route checks the permission, and so does the attempt.
Request(r) ==
    /\ allowed /\ Free(r)
    /\ Operate(r)
    /\ UNCHANGED <<loaded, waits, tick, world, mishaps>>

RequestWaits(r) ==
    /\ allowed /\ Busy(r) /\ r \notin waits
    /\ waits' = waits \cup {r}
    /\ UNCHANGED <<disk, keys, loaded, attempt, tick, world, grants, revived, mishaps>>

WaiterRuns(r) ==
    /\ r \in waits /\ ~Busy(r)
    /\ Operate(r)
    /\ waits' = waits \ {r}
    /\ UNCHANGED <<loaded, tick, world, mishaps>>

-----------------------------------------------------------------------------
(* The end of an attempt *)

\* deliverAddonPayload hands the reward over.
Hand(r) ==
    /\ attempt[r] = "asked" /\ r \in reachable
    /\ attempt' = [attempt EXCEPT ![r] = "handed"]
    /\ grants' = [grants EXCEPT ![r] = grants[r] + 1]
    /\ UNCHANGED <<disk, keys, loaded, waits, tick, world, revived, mishaps>>

\* The write that ends an attempt; a tick that awaits it goes on.
Settle(r, outcome, wait) ==
    /\ status' = [status EXCEPT ![r] = outcome]
    /\ due' = [due EXCEPT ![r] = wait]
    /\ attempt' = [attempt EXCEPT ![r] = "no"]
    /\ tick' = [t \in Ticks |-> IF tick[t].on = r THEN [tick[t] EXCEPT !.on = NoKey] ELSE tick[t]]
    /\ revived' = IF status[r] = "none" THEN revived \cup {r} ELSE revived
    /\ UNCHANGED <<loaded, waits, world, grants, mishaps>>

Delivered(r) ==
    /\ attempt[r] = "handed"
    /\ Settle(r, "delivered", 0)
    /\ keys' = keys \ {r}

\* deliver() throws, before the reward arrives or after (an answer that was lost, a
\* grant the game did not verify, a record of the delivery that was not written).
Failed(r) ==
    /\ Busy(r)
    /\ Settle(r, "failed", 0)
    /\ keys' = keys \ {r}

\* Faulty: the record is due again at once.
DeferredAtOnce(r) ==
    /\ attempt[r] = "asked" /\ r \notin reachable
    /\ Settle(r, "pending", 0)
    /\ UNCHANGED keys

\* AddonDeliveryDeferredError: the player is away.
Deferred(r) ==
    /\ attempt[r] = "asked" /\ r \notin reachable
    /\ Settle(r, "pending", DeferIntervals)
    /\ UNCHANGED keys

\* The write in the catch block fails too; the tick that awaits it rejects.
Unwritten(r) ==
    /\ Busy(r)
    /\ mishaps < MaxMishaps /\ mishaps' = mishaps + 1
    /\ attempt' = [attempt EXCEPT ![r] = "no"]
    /\ tick' = [t \in Ticks |-> IF tick[t].on = r THEN NoTick ELSE tick[t]]
    /\ UNCHANGED <<disk, keys, loaded, waits, world, grants, revived>>

-----------------------------------------------------------------------------
(* The tick *)

Open(r) == status[r] \in {"pending", "processing"}
\* The event loop runs what is ready before the timer fires.
Idle == /\ \A t \in Ticks : tick[t].active => tick[t].on # NoKey
        /\ \A r \in waits : Busy(r)

\* Faulty: what was in flight is not looked for after a restart.
LoadedKeysPending == IF loaded THEN keys ELSE keys \cup {r \in Requests : status[r] = "pending"}

\* loadPendingKeys, once in the life of the console.
LoadedKeys == IF loaded THEN keys ELSE keys \cup {r \in Requests : Open(r)}

\* The interval fires: its time has passed, and a tick starts on a copy of the keys
\* (bound: no more of them than Ticks).
Interval ==
    /\ Idle
    /\ due' = [r \in Requests |-> IF due[r] = 0 THEN 0 ELSE due[r] - 1]
    /\ \/ \E t \in Ticks :
              /\ ~tick[t].active
              /\ tick' = [tick EXCEPT ![t] = [NoTick EXCEPT !.active = TRUE, !.left = LoadedKeys]]
              /\ keys' = LoadedKeys /\ loaded' = TRUE
       \/ /\ \A t \in Ticks : tick[t].active
          /\ UNCHANGED <<tick, keys, loaded>>
    /\ UNCHANGED <<status, attempt, waits, world, grants, revived, mishaps>>

\* Faulty: an interrupted delivery is tried again.
ReadyAgain(t) ==
    IF tick[t].count > 0 \/ allowed
    THEN {r \in tick[t].left : Open(r) /\ Free(r) /\ due[r] = 0}
    ELSE {}

\* The keys a tick may attempt: canRun is asked once per tick, when the first is due.
Ready(t) ==
    IF tick[t].count > 0 \/ allowed
    THEN {r \in tick[t].left : status[r] = "pending" /\ due[r] = 0}
    ELSE {}

\* What an attempt left behind when the console died or could not write.
Interrupted(R) == {r \in R : status[r] = "processing" /\ Free(r)}

\* The loop, from one attempt to the next: the keys before it are dropped, given up
\* or skipped, and the tick awaits the attempt unless it was refused.
SweepTo(t, r) ==
    LET passed == {k \in tick[t].left : k < r} IN
    /\ r \in Ready(t) /\ Free(r) /\ \A k \in Ready(t) : r <= k
    /\ status' = [k \in Requests |->
                     CASE k \in Interrupted(passed) -> "uncertain"
                       [] k = r /\ allowed -> "processing"
                       [] OTHER -> status[k]]
    /\ attempt' = IF allowed THEN [attempt EXCEPT ![r] = "asked"] ELSE attempt
    /\ keys' = keys \ ({k \in passed : ~Open(k)} \cup Interrupted(passed))
    /\ tick' = [tick EXCEPT ![t] = [active |-> TRUE, left |-> {k \in tick[t].left : k > r},
                                    count |-> tick[t].count + 1,
                                    on |-> IF allowed THEN r ELSE NoKey]]

SweepOut(t) ==
    /\ Ready(t) = {}
    /\ LET passed == tick[t].left IN
       /\ status' = [k \in Requests |-> IF k \in Interrupted(passed) THEN "uncertain" ELSE status[k]]
       /\ keys' = keys \ ({k \in passed : ~Open(k)} \cup Interrupted(passed))
    /\ tick' = [tick EXCEPT ![t] = NoTick]
    /\ UNCHANGED attempt

SweepFull(t) ==
    /\ tick' = [tick EXCEPT ![t] = NoTick]
    /\ UNCHANGED <<status, attempt, keys>>

\* Faulty: one attempt more than a tick is allowed.
SweepOneMore(t) ==
    /\ tick[t].active /\ tick[t].on = NoKey
    /\ IF tick[t].count > MaxPerTick
       THEN SweepFull(t)
       ELSE SweepOut(t) \/ \E r \in tick[t].left : SweepTo(t, r)
    /\ UNCHANGED <<due, loaded, waits, world, grants, revived, mishaps>>

Sweep(t) ==
    /\ tick[t].active /\ tick[t].on = NoKey
    /\ IF tick[t].count >= MaxPerTick
       THEN SweepFull(t)
       ELSE SweepOut(t) \/ \E r \in tick[t].left : SweepTo(t, r)
    /\ UNCHANGED <<due, loaded, waits, world, grants, revived, mishaps>>

-----------------------------------------------------------------------------
(* The world *)

Crash ==
    /\ mishaps < MaxMishaps /\ mishaps' = mishaps + 1
    /\ keys' = {} /\ loaded' = FALSE /\ waits' = {}
    /\ attempt' = [r \in Requests |-> "no"] /\ tick' = [t \in Ticks |-> NoTick]
    /\ UNCHANGED <<disk, world, grants, revived>>

\* removeInstalledAddon: disabled, and its deliveries removed.
Uninstall ==
    /\ mishaps < MaxMishaps /\ mishaps' = mishaps + 1
    /\ allowed' = FALSE
    /\ status' = [r \in Requests |-> "none"] /\ due' = [r \in Requests |-> 0]
    /\ revived' = {}
    /\ UNCHANGED <<memory, reachable, grants>>

\* Enabled or disabled by an admin, installed again.
SetAllowed ==
    /\ allowed' = ~allowed
    /\ UNCHANGED <<disk, memory, reachable, grants, revived, mishaps>>

PlayerMoves(r) ==
    /\ reachable' = IF r \in reachable THEN reachable \ {r} ELSE reachable \cup {r}
    /\ UNCHANGED <<disk, memory, allowed, grants, revived, mishaps>>

Ends(r) == Hand(r) \/ Delivered(r) \/ Failed(r) \/ Deferred(r)

Next ==
    \/ \E r \in Requests : \/ Request(r) \/ RequestWaits(r) \/ WaiterRuns(r)
                            \/ Ends(r) \/ Unwritten(r) \/ PlayerMoves(r)
    \/ Interval \/ \E t \in Ticks : Sweep(t)
    \/ Crash \/ Uninstall \/ SetAllowed

Spec == Init /\ [][Next]_vars

\* The interval fires, the event loop runs what is ready, and a delivery ends: the
\* database, docker and RabbitMQ answer or time out.
Fairness ==
    /\ WF_vars(Interval) /\ \A t \in Ticks : WF_vars(Sweep(t))
    /\ \A r \in Requests : WF_vars(WaiterRuns(r)) /\ WF_vars(Ends(r))

FairSpec == Spec /\ Fairness

-----------------------------------------------------------------------------
(* Properties *)

RecordsOK ==
    /\ status \in [Requests -> {"none", "pending", "processing", "delivered", "failed", "uncertain"}]
    /\ due \in [Requests -> 0..DeferIntervals]
    /\ attempt \in [Requests -> {"no", "asked", "handed"}]
    /\ grants \in [Requests -> Nat]

TicksOK ==
    tick \in [Ticks -> [active: BOOLEAN, left: SUBSET Requests, count: 0..MaxPerTick,
                       on: Requests \cup {NoKey}]]

SetsOK ==
    /\ keys \subseteq Requests /\ waits \subseteq Requests
    /\ reachable \subseteq Requests /\ revived \subseteq Requests

FlagsOK == loaded \in BOOLEAN /\ allowed \in BOOLEAN /\ mishaps \in 0..MaxMishaps

TypeOK == RecordsOK /\ TicksOK /\ SetsOK /\ FlagsOK

\* What an addon can be told of a request: while an attempt is under way nothing is
\* settled, whatever has become of its record.
Told == [r \in Requests |-> IF Busy(r) \/ Open(r) THEN "open" ELSE status[r]]

Promise == INSTANCE AtMostOnce WITH told <- Told

\* addon-runtime-api.md: a request "never repeats a completed delivery", and one
\* interrupted by a restart "is not automatically retried": with repeats, ticks that
\* overlap, crashes, lost writes and an uninstall in between, the reward of a request
\* arrives at most once and what is told of it is final and true.
KeepsPromise == Promise!Spec

\* "the Console retries them in the background": a tick finds every open record by
\* its key.  The one exception: an attempt that was under way when the addon was
\* uninstalled writes its record again, and nobody put its key back.
NobodyForgotten == loaded => \A r \in Requests \ revived : Open(r) => r \in keys

\* The records a tick comes to before that of r.
Ahead(r) == {k \in Requests : k < r /\ Open(k)}

\* The same, for as long as it takes: a delivery whose addon may run and whose player
\* stays reachable is settled, although ticks overlap, crash and await slow attempts and
\* others are due before it; and an interrupted one is given up.  This needs fewer open
\* deliveries before it than the ticks of one deferral can attempt (in the code 50 a tick,
\* three ticks in 30 s): behind so many whose players are away it may wait for ever.
EveryDeliverySettles ==
    \A r \in Requests :
        <>[](allowed /\ r \in reachable /\ Cardinality(Ahead(r)) < MaxPerTick * DeferIntervals) =>
            (Open(r) /\ r \notin revived ~> ~Open(r) \/ r \in revived)
=============================================================================
