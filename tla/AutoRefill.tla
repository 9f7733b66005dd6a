----------------------------- MODULE AutoRefill -----------------------------
(***************************************************************************)
(* The daily water refill of enrolled bases: a scan queues a refill for    *)
(* each that is low, and stops after so many that did not help; the flush  *)
(* applies the queue while the map is down, and gives an entry up after so *)
(* many failures.  Beside them operators switch bases on and off, refill,  *)
(* cancel and delete them, and players pick them up.  The generator twin   *)
(* of the scan is the same but for ScanNow.                                *)
(*                                                                         *)
(* Whether a write is safe is WriteWindow's matter: here the map of all    *)
(* bases is down, for the flush to see, or it is not.  An entry is the one *)
(* the flush copied (queuedAt is the same) as long as flush.same has it.   *)
(***************************************************************************)
EXTENDS Integers, Functions

CONSTANTS
    Bases,
    MaxQueues,    \* MAX_CONSECUTIVE_QUEUES
    MaxAttempts,  \* MAX_REFILL_FLUSH_ATTEMPTS
    MaxEvents     \* bound: what operators do, pick-ups, crashes and faults

ASSUME LimitAssumption == MaxQueues \in Nat \ {0} /\ MaxAttempts \in Nat \ {0} /\ MaxEvents \in Nat

VARIABLES
    place,     \* of a base: there, packed (picked up) or gone
    low,       \* the bases below the threshold
    down,      \* the map is down, as observeRefillPartitions has it
    refills,   \* pending-water-refills.json: base -> entry
    deletes,   \* pending-base-deletes.json: base -> none, reserved (by a route in
               \* progress), left (reserved before a restart) or queued
    enrolled,  \* auto-refill-water-bases.json: base -> [queues, stalled]
    armed,     \* nextRunAt there: unset, later or due
    booted,    \* armedForThisProcess
    scan,      \* the scan in progress
    waiting,   \* the bases whose toggle awaits scanNow
    flush,     \* the flush in progress
    route,     \* the manual refill in progress: base or None
    wanted,    \* history: the bases last switched on
    slipped,   \* history: bases with something under way as their delete was queued
    strikes,   \* history: recorded attempts at the scans' entries that did not help
    events

world == <<place, low, down>>
file == <<enrolled, armed>>
history == <<wanted, slipped, strikes>>
vars == <<world, refills, deletes, file, booted, scan, waiting, flush, route, history, events>>

None == "none"
ASSUME BaseAssumption == None \notin Bases

Empty == [b \in {} |-> 0]
Put(f, b, v) == [c \in DOMAIN f \cup {b} |-> IF c = b THEN v ELSE f[c]]
IdleScan == [pc |-> "idle", daily |-> FALSE, todo |-> {}, base |-> None, was |-> Empty,
             pending |-> {}, frozen |-> {}, outcomes |-> Empty, removed |-> {},
             queued |-> Empty, failed |-> FALSE]
IdleFlush == [on |-> FALSE, copy |-> Empty, todo |-> {}, same |-> {}, struck |-> {}, outcomes |-> Empty]

\* Of an enrolled base: the refills queued in vain, and stalledAt.
Healthy == [queues |-> 0, stalled |-> FALSE]

Init ==
    /\ place = [b \in Bases |-> "there"] /\ low \in SUBSET Bases /\ down = FALSE
    /\ refills = Empty /\ deletes = [b \in Bases |-> "none"]
    /\ wanted \in SUBSET Bases /\ enrolled = [b \in wanted |-> Healthy]
    /\ armed = IF wanted = {} THEN "unset" ELSE "later"
    /\ booted = FALSE /\ scan = IdleScan /\ waiting = {} /\ flush = IdleFlush /\ route = None
    /\ slipped = {} /\ strikes = [b \in Bases |-> 0]
    /\ events = 0

Happens == events < MaxEvents /\ events' = events + 1

-----------------------------------------------------------------------------
(* The queue of refills *)

\* queueWaterRefill: a new entry, whatever was there.  ours: a scan queued it.
Queue(b, ours) ==
    /\ refills' = Put(refills, b, [attempts |-> 0, retry |-> FALSE, old |-> FALSE,
                                   nowhere |-> place[b] = "packed", ours |-> ours])
    /\ flush' = [flush EXCEPT !.same = @ \ {b}]

\* cancelQueuedWaterRefill
Unqueue(b) ==
    /\ refills' = Restrict(refills, DOMAIN refills \ {b})
    /\ flush' = [flush EXCEPT !.same = @ \ {b}]

Cancels(b) ==
    /\ b \in DOMAIN refills /\ Happens
    /\ Unqueue(b)
    /\ UNCHANGED <<world, deletes, file, booted, scan, waiting, route, history>>

\* pendingRefillMaxAgeMs has passed.
Ages(b) ==
    /\ b \in DOMAIN refills /\ ~refills[b].old
    /\ refills' = [refills EXCEPT ![b].old = TRUE]
    /\ UNCHANGED <<world, deletes, file, booted, scan, waiting, flush, route, history, events>>

\* What is left of a base's past when the scans begin to count anew.
Discharged(f, B) == [b \in DOMAIN f |-> IF b \in B THEN [f[b] EXCEPT !.ours = FALSE] ELSE f[b]]
CountAnew(B) ==
    /\ refills' = Discharged(refills, B)
    /\ flush' = [flush EXCEPT !.copy = Discharged(@, B), !.struck = @ \ B]
    /\ strikes' = [b \in Bases |-> IF b \in B THEN 0 ELSE strikes[b]]

-----------------------------------------------------------------------------
(* Enrolment.  What a toggle has checked, it checked before its awaits. *)

TogglesOn(b) ==
    /\ b \notin DOMAIN enrolled /\ Happens
    /\ enrolled' = Put(enrolled, b, Healthy)
    /\ armed' = IF DOMAIN enrolled = {} \/ armed = "unset" THEN "later" ELSE armed
    /\ waiting' = waiting \cup {b} /\ wanted' = wanted \cup {b}
    /\ CountAnew({b})
    /\ scan' = [scan EXCEPT !.queued = Restrict(@, DOMAIN @ \ {b})]
    /\ UNCHANGED <<world, deletes, booted, route, slipped>>

TogglesOff(b) ==
    /\ b \in DOMAIN enrolled /\ Happens
    /\ enrolled' = Restrict(enrolled, DOMAIN enrolled \ {b})
    /\ armed' = IF DOMAIN enrolled = {b} THEN "unset" ELSE armed
    /\ wanted' = wanted \ {b}
    /\ UNCHANGED <<world, refills, deletes, booted, scan, waiting, flush, route, slipped, strikes>>

-----------------------------------------------------------------------------
(* The scan *)

\* Faulty: the deletes are not looked at.
StartsUnfrozen(bases, daily) ==
    scan' = [IdleScan EXCEPT !.pc = "observe", !.daily = daily, !.todo = bases, !.was = enrolled,
                             !.pending = DOMAIN refills]

\* run: the enrolment as the caller read it, and both queues, read once.
Starts(bases, daily) ==
    scan' = [IdleScan EXCEPT !.pc = "observe", !.daily = daily, !.todo = bases, !.was = enrolled,
                             !.pending = DOMAIN refills,
                             !.frozen = {b \in Bases : deletes[b] # "none"}]

\* nextRunAt comes.
Due ==
    /\ armed = "later" /\ armed' = "due"
    /\ UNCHANGED <<world, refills, deletes, enrolled, booted, scan, waiting, flush, route, history, events>>

\* A tick that only sees to the schedule: nobody enrolled, overdue at boot, or not armed.
TickArms ==
    /\ scan.pc = "idle"
    /\ booted' = (DOMAIN enrolled # {})
    /\ armed' = IF DOMAIN enrolled # {} /\ (armed = "unset" \/ (~booted /\ armed = "due"))
                THEN "later" ELSE armed
    /\ <<booted, armed>>' # <<booted, armed>>
    /\ UNCHANGED <<world, refills, deletes, enrolled, scan, waiting, flush, route, history, events>>

TickScans ==
    /\ scan.pc = "idle" /\ DOMAIN enrolled # {} /\ booted /\ armed = "due"
    /\ Starts(DOMAIN enrolled, TRUE)
    /\ UNCHANGED <<world, refills, deletes, file, booted, waiting, flush, route, history, events>>

\* scanNow, once no other scan runs.
ScanNow(b) ==
    /\ scan.pc = "idle" /\ b \in waiting
    /\ waiting' = waiting \ {b}
    /\ IF b \in DOMAIN enrolled THEN Starts({b}, FALSE) ELSE UNCHANGED scan
    /\ UNCHANGED <<world, refills, deletes, file, booted, flush, route, history, events>>

\* Faulty: on the enrolment the scan began with.
PersistOver(outcomes, removed, keepArmed) ==
    LET left == DOMAIN scan.was \ removed IN
    /\ enrolled' = [b \in left |-> IF b \in DOMAIN outcomes THEN outcomes[b] ELSE scan.was[b]]
    /\ armed' = IF left = {} THEN "unset"
                ELSE IF keepArmed /\ armed # "unset" THEN armed ELSE "later"

\* persistRunCompletion, on the enrolment as it is by now.
Persist(outcomes, removed, keepArmed) ==
    LET left == DOMAIN enrolled \ removed IN
    /\ enrolled' = [b \in left |-> IF b \in DOMAIN outcomes THEN outcomes[b] ELSE enrolled[b]]
    /\ armed' = IF left = {} THEN "unset"
                ELSE IF keepArmed /\ armed # "unset" THEN armed ELSE "later"

ScanObserves ==
    /\ scan.pc = "observe"
    /\ scan' = [scan EXCEPT !.pc = "next"]
    /\ UNCHANGED <<world, refills, deletes, file, booted, waiting, flush, route, history, events>>

ScanThrows ==
    /\ scan.pc = "observe" /\ Happens
    /\ Persist(Empty, {}, FALSE)
    /\ scan' = IdleScan
    /\ UNCHANGED <<world, refills, deletes, booted, waiting, flush, route, history>>

ScanTurnsTo(b) ==
    /\ scan.pc = "next" /\ b \in scan.todo
    /\ scan' = IF b \in scan.frozen THEN [scan EXCEPT !.todo = @ \ {b}]
               ELSE [scan EXCEPT !.todo = @ \ {b}, !.pc = "check", !.base = b]
    /\ UNCHANGED <<world, refills, deletes, file, booted, waiting, flush, route, history, events>>

Prior == scan.was[scan.base]
NextBase == [scan EXCEPT !.pc = "next", !.base = None]
With(outcome) == [NextBase EXCEPT !.outcomes = Put(@, scan.base, outcome)]
Without == [NextBase EXCEPT !.removed = @ \cup {scan.base}]

\* baseIsBackedUp
ScanChecks ==
    /\ scan.pc = "check"
    /\ scan' = IF place[scan.base] = "packed" THEN NextBase ELSE [scan EXCEPT !.pc = "levels"]
    /\ UNCHANGED <<world, refills, deletes, file, booted, waiting, flush, route, history, events>>

\* Faulty: the scan stops queueing and does not say so.
LevelsSilent ==
    IF place[scan.base] = "gone" THEN Without
    ELSE IF scan.base \notin low THEN With(Healthy)
    ELSE IF scan.base \in scan.pending \/ Prior.queues >= MaxQueues THEN With(Prior)
    ELSE [scan EXCEPT !.pc = "target"]

\* baseWaterFuelLevels, and what to do about them.
Levels ==
    IF place[scan.base] = "gone" THEN Without
    ELSE IF scan.base \notin low THEN With(Healthy)
    ELSE IF scan.base \in scan.pending THEN With(Prior)
    ELSE IF Prior.queues >= MaxQueues THEN With([Prior EXCEPT !.stalled = TRUE])
    ELSE [scan EXCEPT !.pc = "target"]

ScanReads ==
    /\ scan.pc = "levels"
    /\ scan' = Levels
    /\ UNCHANGED <<world, refills, deletes, file, booted, waiting, flush, route, history, events>>

\* baseRefillTarget and queueWaterRefill
ScanQueues ==
    /\ scan.pc = "target"
    /\ IF place[scan.base] = "gone" THEN scan' = Without /\ UNCHANGED <<refills, flush>>
       ELSE /\ Queue(scan.base, TRUE)
            /\ scan' = [With([Prior EXCEPT !.queues = @ + 1]) EXCEPT !.queued = Put(@, scan.base, strikes[scan.base])]
    /\ UNCHANGED <<world, deletes, file, booted, waiting, route, history, events>>

ScanFailsFor ==
    /\ scan.pc \in {"check", "levels", "target"} /\ Happens
    /\ scan' = [NextBase EXCEPT !.failed = TRUE]
    /\ UNCHANGED <<world, refills, deletes, file, booted, waiting, flush, route, history>>

ScanEnds ==
    LET healthy == {b \in DOMAIN scan.outcomes \cap DOMAIN enrolled : scan.outcomes[b].queues = 0} IN
    /\ scan.pc = "next" /\ scan.todo = {}
    /\ Persist(scan.outcomes, scan.removed, ~scan.daily /\ ~scan.failed)
    /\ CountAnew(healthy)
    /\ scan' = IdleScan
    /\ UNCHANGED <<world, deletes, booted, waiting, route, wanted, slipped, events>>

-----------------------------------------------------------------------------
(* The flush *)

FlushBegins ==
    /\ ~flush.on /\ DOMAIN refills # {}
    /\ flush' = [on |-> TRUE, copy |-> refills, todo |-> DOMAIN refills,
                 same |-> DOMAIN refills, struck |-> {}, outcomes |-> Empty]
    /\ UNCHANGED <<world, refills, deletes, file, booted, scan, waiting, route, history, events>>

EntrySafe(e) == down \/ e.nowhere
Done(b) == [flush EXCEPT !.todo = @ \ {b}]
Drops(b) == [Done(b) EXCEPT !.outcomes = Put(@, b, [keep |-> FALSE])]
Keeps(b, attempts) == [Done(b) EXCEPT !.outcomes = Put(@, b, [keep |-> TRUE, attempts |-> attempts])]

\* Faulty: it is kept, however often it has failed.
FailedFor(b) == Keeps(b, flush.copy[b].attempts)

Failed(b) ==
    LET attempts == flush.copy[b].attempts + 1 IN
    IF attempts >= MaxAttempts THEN Drops(b) ELSE Keeps(b, attempts)

\* Too old; or the map is up; or the delay after a failure is not over.
FlushPasses(b) ==
    /\ b \in flush.todo
    /\ LET e == flush.copy[b] IN
       \/ (e.old /\ flush' = Drops(b))
       \/ (~e.old /\ (~EntrySafe(e) \/ e.retry) /\ flush' = Done(b))
    /\ UNCHANGED <<world, refills, deletes, file, booted, scan, waiting, route, history, events>>

\* refillBaseWater: it may not bring the base above the threshold, or the game of a
\* map that runs after all writes over it.
Refill(b) == low' \in {low} \cup (IF down THEN {low \ {b}} ELSE {})
Struck(b, next) == flush' = IF flush.copy[b].ours THEN [next EXCEPT !.struck = @ \cup {b}] ELSE next

FlushApplies(b) ==
    /\ b \in flush.todo /\ ~flush.copy[b].old /\ EntrySafe(flush.copy[b])
    /\ \/ place[b] # "there" /\ flush' = Drops(b) /\ UNCHANGED low
       \/ place[b] = "there" /\ Struck(b, Failed(b)) /\ UNCHANGED low
       \/ /\ place[b] = "there" /\ Refill(b)
          /\ IF b \in low' THEN Struck(b, Drops(b)) ELSE flush' = Drops(b)
    /\ strikes' = [strikes EXCEPT ![b] = IF b \in flush'.struck THEN @ + 1 ELSE @]
    /\ UNCHANGED <<place, down, refills, deletes, file, booted, scan, waiting, route, wanted, slipped, events>>

\* A transient error burns no attempt.
FlushFails(b) ==
    /\ b \in flush.todo /\ ~flush.copy[b].old /\ EntrySafe(flush.copy[b]) /\ Happens
    /\ flush' = Keeps(b, flush.copy[b].attempts)
    /\ UNCHANGED <<world, refills, deletes, file, booted, scan, waiting, route, history>>

\* The attempts of a pass that does not end are on no record.
Unrecorded(b) == IF b \in flush.struck \cap flush.same THEN 1 ELSE 0

\* An observation between two entries throws: nothing is reconciled.
FlushAborts ==
    /\ flush.todo # {} /\ Happens
    /\ flush' = IdleFlush
    /\ strikes' = [b \in Bases |-> strikes[b] - Unrecorded(b)]
    /\ UNCHANGED <<world, refills, deletes, file, booted, scan, waiting, route, wanted, slipped>>

\* reconcileQueuedWaterRefills: to the entries that are still those it copied.
FlushEnds ==
    LET seen == DOMAIN flush.outcomes \cap flush.same
        dropped == {b \in seen : ~flush.outcomes[b].keep}
    IN
    /\ flush.on /\ flush.todo = {}
    /\ refills' = [b \in DOMAIN refills \ dropped |->
                      IF b \in seen THEN [refills[b] EXCEPT !.attempts = flush.outcomes[b].attempts, !.retry = TRUE]
                                    ELSE refills[b]]
    /\ flush' = IdleFlush
    /\ UNCHANGED <<world, deletes, file, booted, scan, waiting, route, history, events>>

-----------------------------------------------------------------------------
(* Other requests, the players, the map *)

\* baseDeletePending and baseBackedUp, then an await.
RouteAsks(b) ==
    /\ route = None /\ deletes[b] = "none" /\ place[b] = "there" /\ Happens
    /\ route' = b
    /\ UNCHANGED <<world, refills, deletes, file, booted, scan, waiting, flush, history>>

RouteRefills ==
    /\ route # None
    /\ IF place[route] = "there" /\ ~down THEN Queue(route, FALSE) /\ UNCHANGED low
       ELSE /\ UNCHANGED <<refills, flush>>
            /\ IF place[route] = "there" THEN Refill(route) ELSE UNCHANGED low
    /\ route' = None
    /\ UNCHANGED <<place, down, deletes, file, booted, scan, waiting, history, events>>

\* Something that has passed its checks of the base, or has its entry in hand.
UnderWay(b) ==
    \/ route = b
    \/ b \in flush.todo
    \/ scan.pc # "idle" /\ b \in (scan.todo \ scan.frozen) \cup {scan.base}

DeleteReserves(b) ==
    /\ deletes[b] = "none" /\ place[b] = "there" /\ Happens
    /\ deletes' = [deletes EXCEPT ![b] = "reserved"]
    /\ slipped' = IF UnderWay(b) THEN slipped \cup {b} ELSE slipped
    /\ UNCHANGED <<world, refills, file, booted, scan, waiting, flush, route, wanted, strikes>>

\* cancelPendingRefillsForBase, and the delete is queued.
DeleteQueues(b) ==
    /\ deletes[b] = "reserved" /\ place[b] = "there" /\ ~down
    /\ deletes' = [deletes EXCEPT ![b] = "queued"]
    /\ slipped' = IF UnderWay(b) THEN slipped \cup {b} ELSE slipped
    /\ Unqueue(b)
    /\ UNCHANGED <<world, file, booted, scan, waiting, route, wanted, strikes, events>>

\* The delete at once, which cancels the refill, or the flush of deletes, which takes a
\* reservation for an entry of no partition.
Deleted(b) ==
    /\ deletes[b] # "none" /\ place[b] = "there"
    /\ place' = [place EXCEPT ![b] = "gone"]
    /\ deletes' = [deletes EXCEPT ![b] = "none"]
    /\ slipped' = slipped \ {b}
    /\ \/ deletes[b] = "reserved" /\ down /\ Unqueue(b)
       \/ (deletes[b] = "queued" => down) /\ UNCHANGED <<refills, flush>>
    /\ UNCHANGED <<low, down, file, booted, scan, waiting, route, wanted, strikes, events>>

\* It fails, or is cancelled.
DeleteIsOff(b) ==
    /\ deletes[b] # "none"
    /\ deletes' = [deletes EXCEPT ![b] = "none"]
    /\ slipped' = slipped \ {b}
    /\ UNCHANGED <<world, refills, file, booted, scan, waiting, flush, route, wanted, strikes, events>>

PicksUp(b) ==
    /\ place[b] = "there" /\ Happens
    /\ place' = [place EXCEPT ![b] = "packed"]
    /\ UNCHANGED <<low, down, refills, deletes, file, booted, scan, waiting, flush, route, history>>

Redeploys(b) ==
    /\ place[b] = "packed"
    /\ place' = [place EXCEPT ![b] = "there"]
    /\ UNCHANGED <<low, down, refills, deletes, file, booted, scan, waiting, flush, route, history, events>>

\* Players drink, or fill up.
Changes(b) ==
    /\ place[b] = "there"
    /\ low' \in {low \cup {b}, low \ {b}}
    /\ UNCHANGED <<place, down, refills, deletes, file, booted, scan, waiting, flush, route, history, events>>

MapGoes(isDown) ==
    /\ down # isDown /\ down' = isDown
    /\ UNCHANGED <<place, low, refills, deletes, file, booted, scan, waiting, flush, route, history, events>>

\* The Console restarts.  What a scan had queued is on no record, a reservation stays on file.
Crash ==
    /\ Happens
    /\ booted' = FALSE /\ scan' = IdleScan /\ waiting' = {} /\ flush' = IdleFlush /\ route' = None
    /\ deletes' = [b \in Bases |-> IF deletes[b] = "reserved" THEN "left" ELSE deletes[b]]
    /\ refills' = Discharged(refills, DOMAIN scan.queued)
    /\ strikes' = [b \in Bases |-> IF b \in DOMAIN scan.queued THEN scan.queued[b]
                                   ELSE strikes[b] - Unrecorded(b)]
    /\ UNCHANGED <<world, file, wanted, slipped>>

Scanning == \/ ScanObserves \/ (\E b \in Bases : ScanTurnsTo(b)) \/ ScanChecks \/ ScanReads
            \/ ScanQueues \/ ScanEnds
Ticking == Due \/ TickArms \/ TickScans
Flushing == FlushBegins \/ (\E b \in Bases : FlushPasses(b) \/ FlushApplies(b)) \/ FlushEnds

Next ==
    \/ Ticking \/ Scanning \/ ScanThrows \/ ScanFailsFor
    \/ Flushing \/ FlushAborts
    \/ RouteRefills \/ Crash
    \/ \E b \in Bases :
          \/ TogglesOn(b) \/ TogglesOff(b) \/ ScanNow(b)
          \/ Cancels(b) \/ Ages(b) \/ FlushFails(b) \/ RouteAsks(b)
          \/ DeleteReserves(b) \/ DeleteQueues(b) \/ Deleted(b) \/ DeleteIsOff(b)
          \/ PicksUp(b) \/ Redeploys(b) \/ Changes(b)
    \/ \E d \in BOOLEAN : MapGoes(d)

Spec == Init /\ [][Next]_vars

\* Timers fire and the database answers.
Fairness ==
    /\ WF_vars(Ticking) /\ WF_vars(Scanning) /\ WF_vars(Flushing)
    /\ \A b \in Bases : WF_vars(ScanNow(b)) /\ SF_vars(FlushApplies(b))

\* A map that is restarted now and then is down for minutes, and a pass begins every 5 s:
\* again and again a pass with all there is queued meets it down.
Windows == []<>(refills = Empty \/ (down /\ flush.todo = DOMAIN refills))

FairSpec == Spec /\ Fairness /\ Windows

-----------------------------------------------------------------------------
(* Properties *)

TypeOK ==
    /\ place \in [Bases -> {"there", "packed", "gone"}] /\ low \subseteq Bases /\ down \in BOOLEAN
    /\ DOMAIN refills \subseteq Bases /\ \A b \in DOMAIN refills : refills[b].attempts < MaxAttempts
    /\ deletes \in [Bases -> {"none", "reserved", "left", "queued"}]
    /\ DOMAIN enrolled \subseteq Bases /\ \A b \in DOMAIN enrolled : enrolled[b].queues \in 0..MaxQueues
    /\ armed \in {"unset", "later", "due"} /\ (armed = "unset" <=> enrolled = Empty)
    /\ flush.todo \cup flush.same \subseteq DOMAIN flush.copy
    /\ flush.same \subseteq DOMAIN refills
    /\ scan.base = None <=> scan.pc \in {"idle", "observe", "next"}
    /\ strikes \in [Bases -> Nat]

\* The two backstops together: a base that refills do not help is written to a fixed
\* number of times since it was enrolled or last found healthy, whatever is cancelled,
\* requeued, switched or deleted meanwhile.  Not counted are attempts of a pass that
\* did not end and refills of a scan that did not, which nothing on disk tells of.
BackstopHolds == \A b \in Bases : strikes[b] <= MaxQueues * MaxAttempts

\* A base whose delete is queued has a refill queued or at hand only if that was under
\* way as the delete came.
FreezeHolds ==
    \A b \in Bases : deletes[b] = "queued" /\ b \in DOMAIN refills \cup flush.todo => b \in slipped

\* The operator's last word stands: a base switched off stays off through the scans
\* under way, and one switched on stays on for as long as it exists.
LastWordHolds ==
    /\ DOMAIN enrolled \subseteq wanted
    /\ \A b \in wanted \ DOMAIN enrolled : place[b] = "gone"

\* The scan settles every base it is given: one that is low does not stay so for ever
\* unless it is marked stalled, and one that no longer exists is forgotten.
EveryBaseSettles ==
    \A b \in Bases : b \in DOMAIN enrolled /\ (place[b] = "gone" \/ (place[b] = "there" /\ b \in low))
        ~> \/ b \notin DOMAIN enrolled \/ place[b] = "packed"
           \/ place[b] = "there" /\ (b \notin low \/ deletes[b] # "none" \/ enrolled[b].stalled)
=============================================================================
