--------------------------- MODULE MemoryBalancer ---------------------------
(***************************************************************************)
(* createMemoryBalancer: every 10 s a gigabyte is moved from a map server  *)
(* that does not need it to the one that is fullest, by two docker updates *)
(* of limits computed from one sample; switched off, it restores what is   *)
(* configured.  The tick, the two switches and the map page share a        *)
(* sampler whose reads take seconds.  Memory is counted in gigabytes.      *)
(***************************************************************************)
EXTENDS Integers, FiniteSetsExt, Functions

CONSTANTS
    Containers,  \* running map servers
    Configured,  \* container -> the limit configured for it
    MaxEvents    \* bound: switches on and off, failing calls, restarts and changes of use

ASSUME LimitAssumption == IsFiniteSet(Containers) /\ Configured \in [Containers -> Nat \ {0}]
ASSUME BoundAssumption == MaxEvents \in Nat

VARIABLES
    limit, used,  \* docker: container -> gigabytes
    flight,       \* sampler: inFlight, how far the read under way has come
    cached,       \* sampler: the rows of the last read, for as long as they count
    enabled,      \* state.enabled, on disk too
    tick,         \* the tick in progress, if any (state.running)
    switchOn,     \* the setEnabled(true) in progress, if any
    switchOff,    \* the setEnabled(false) in progress, if any
    baseline,     \* state.baselineLimits: container -> limit, or 0
    disturbed,    \* history: limits need not add up any more (see LimitsAddUp)
    events        \* how many of the bounded events there were

docker == <<limit, used>>
sampler == <<flight, cached>>
vars == <<docker, sampler, enabled, tick, switchOn, switchOff, baseline, disturbed, events>>

None == "none"
NoBaseline == [c \in Containers |-> 0]
NoRows == [limit |-> NoBaseline, used |-> NoBaseline]
NoCache == [rows |-> NoRows, fresh |-> FALSE]
NoFlight == [pc |-> "none", rows |-> NoRows]
NoTick == [pc |-> "idle", target |-> None, more |-> 0, donor |-> None, less |-> 0]
NoSwitchOff == [pc |-> "idle", left |-> NoBaseline]

Init ==
    /\ limit = Configured
    /\ used \in {f \in [Containers -> Range(Configured) \cup {1}] : \A c \in Containers : f[c] \in {1, Configured[c]}}
    /\ flight = NoFlight /\ cached = NoCache
    /\ enabled = TRUE
    /\ tick = NoTick /\ switchOn = "idle" /\ switchOff = NoSwitchOff
    /\ baseline = NoBaseline
    /\ disturbed = FALSE
    /\ events = 0

Happens == events < MaxEvents /\ events' = events + 1

-----------------------------------------------------------------------------
(* The sampler *)

\* read(): a read under way is shared, also by a caller that asks for a fresh one.
Join == flight' = IF flight.pc = "none" THEN [flight EXCEPT !.pc = "asked"] ELSE flight

Collect ==
    /\ flight.pc = "asked"
    /\ flight' = [pc |-> "taken", rows |-> [limit |-> limit, used |-> used]]
    /\ UNCHANGED <<docker, cached, enabled, tick, switchOn, switchOff, baseline, disturbed, events>>

\* Those who wait for the read get to their rows.
GiveRows(outcome) ==
    /\ tick' = IF tick.pc = "read" THEN [tick EXCEPT !.pc = outcome] ELSE tick
    /\ switchOn' = IF switchOn = "read" THEN outcome ELSE switchOn
    /\ switchOff' = IF switchOff.pc = "read" THEN [switchOff EXCEPT !.pc = outcome] ELSE switchOff

Settled == "rows" \notin {tick.pc, switchOn, switchOff.pc}

ReadEnds ==
    /\ flight.pc = "taken" /\ Settled
    /\ cached' = [rows |-> flight.rows, fresh |-> TRUE]
    /\ flight' = NoFlight
    /\ GiveRows("rows")
    /\ UNCHANGED <<docker, enabled, baseline, disturbed, events>>

ReadFails ==
    /\ flight.pc # "none" /\ Settled
    /\ Happens
    /\ flight' = NoFlight
    /\ GiveRows("failed")
    /\ UNCHANGED <<docker, cached, enabled, baseline, disturbed>>

\* LIVE_MEMORY_CACHE_MS passes.
CacheAges ==
    /\ cached.fresh /\ Settled
    /\ cached' = NoCache
    /\ UNCHANGED <<docker, flight, enabled, tick, switchOn, switchOff, baseline, disturbed, events>>

\* The maps page polls the live memory.
Poll ==
    /\ flight.pc = "none" /\ ~cached.fresh
    /\ Join
    /\ UNCHANGED <<docker, cached, enabled, tick, switchOn, switchOff, baseline, disturbed, events>>

-----------------------------------------------------------------------------
(* docker update *)

\* A limit below the use is reclaimed from the server, or it is killed.
Update(c, gigabytes) ==
    /\ limit' = [limit EXCEPT ![c] = gigabytes]
    /\ used' = [used EXCEPT ![c] = IF @ > gigabytes THEN gigabytes ELSE @]

\* It exits with an error, or it is given up after 15 s and may have worked.
UpdateFails(c, gigabytes) ==
    /\ Happens
    /\ disturbed' = TRUE
    /\ Update(c, gigabytes) \/ UNCHANGED docker

-----------------------------------------------------------------------------
(* The tick *)

\* Percentages and limits of a row, as the donor is chosen by them.
AtLeast(rows, c, percent) == 100 * rows.used[c] >= percent * rows.limit[c]
AtMost(rows, c, percent) == 100 * rows.used[c] <= percent * rows.limit[c]
Fuller(rows, c, d) == rows.used[c] * rows.limit[d] > rows.used[d] * rows.limit[c]

Hot(rows) == {c \in Containers : AtLeast(rows, c, 90)}
Fullest(rows) == {c \in Hot(rows) : \A d \in Hot(rows) : ~Fuller(rows, d, c)}

\* minimumBalancerLimit: a gigabyte of headroom, and a quarter of the use.
MinimumLimit(use) == Max({use + 1, (5 * use + 3) \div 4, 1})

\* Faulty: a server of more than a gigabyte gives one away.
CanDonateAny(rows, c) == rows.limit[c] > 1

CanDonate(rows, c) ==
    /\ rows.limit[c] - 1 >= MinimumLimit(rows.used[c])
    /\ 100 * rows.used[c] <= 80 * (rows.limit[c] - 1)

\* The emptiest of those at most 55% full, or else of those at most 70%; the larger
\* of two as empty.
Donors(rows, target) ==
    LET Upto(percent) == {c \in Containers \ {target} : CanDonate(rows, c) /\ AtMost(rows, c, percent)}
        pool == IF Upto(55) # {} THEN Upto(55) ELSE Upto(70)
    IN  {c \in pool : \A d \in pool : \/ Fuller(rows, d, c)
                                      \/ ~Fuller(rows, c, d) /\ rows.limit[c] >= rows.limit[d]}

TickStarts ==
    /\ tick.pc = "idle"
    /\ tick' = [NoTick EXCEPT !.pc = "read"]
    /\ Join
    /\ disturbed' = (disturbed \/ flight.pc = "taken" \/ switchOff.pc # "idle")

Interval ==
    /\ enabled
    /\ TickStarts
    /\ UNCHANGED <<docker, cached, enabled, switchOn, switchOff, baseline, events>>

\* Rows as they are: a baseline for who has none, and the move to make, if any.
Decide ==
    LET rows == cached.rows IN
    /\ tick.pc = "rows"
    /\ baseline' = [c \in Containers |-> IF baseline[c] = 0 THEN rows.limit[c] ELSE baseline[c]]
    /\ \/ /\ \A t \in Fullest(rows) : Donors(rows, t) = {}
          /\ tick' = NoTick
       \/ \E t \in Fullest(rows) : \E d \in Donors(rows, t) :
              tick' = [pc |-> "target", target |-> t, more |-> rows.limit[t] + 1,
                       donor |-> d, less |-> rows.limit[d] - 1]
    /\ UNCHANGED <<docker, sampler, enabled, switchOn, switchOff, disturbed, events>>

GiveFirst ==
    /\ tick.pc = "target"
    /\ Update(tick.target, tick.more)
    /\ tick' = [tick EXCEPT !.pc = "donor"]
    /\ UNCHANGED <<sampler, enabled, switchOn, switchOff, baseline, disturbed, events>>

TakeThen ==
    /\ tick.pc = "donor"
    /\ Update(tick.donor, tick.less)
    /\ tick' = NoTick
    /\ UNCHANGED <<sampler, enabled, switchOn, switchOff, baseline, disturbed, events>>

\* Faulty: running is cleared after the updates, not in a finally block.
TickFailsRunning ==
    /\ \/ tick.pc = "target" /\ UpdateFails(tick.target, tick.more)
       \/ tick.pc = "donor" /\ UpdateFails(tick.donor, tick.less)
       \/ tick.pc = "failed" /\ UNCHANGED <<docker, disturbed, events>>
    /\ tick' = [NoTick EXCEPT !.pc = "failed"]
    /\ UNCHANGED <<sampler, enabled, switchOn, switchOff, baseline>>

\* Whatever throws in a tick ends it; the finally block clears running.
TickFails ==
    /\ \/ tick.pc = "target" /\ UpdateFails(tick.target, tick.more)
       \/ tick.pc = "donor" /\ UpdateFails(tick.donor, tick.less)
       \/ tick.pc = "failed" /\ UNCHANGED <<docker, disturbed, events>>
    /\ tick' = NoTick
    /\ UNCHANGED <<sampler, enabled, switchOn, switchOff, baseline>>

-----------------------------------------------------------------------------
(* setEnabled, if that changes anything, and one of each at a time; a read that need *)
(* not be fresh is answered from the cache *)

Answered == IF cached.fresh THEN "rows" ELSE "read"
ReadCached == IF cached.fresh THEN UNCHANGED flight ELSE Join

SwitchesOn ==
    /\ ~enabled /\ switchOn = "idle"
    /\ Happens
    /\ enabled' = TRUE
    /\ baseline' = NoBaseline
    /\ switchOn' = Answered /\ ReadCached
    /\ UNCHANGED <<docker, cached, tick, switchOff, disturbed>>

\* captureBaseline, without rows if the read failed; then a tick, if none is running.
Captures ==
    /\ switchOn \in {"rows", "failed"}
    /\ baseline' = [c \in Containers |-> IF switchOn = "rows" /\ baseline[c] = 0
                                         THEN cached.rows.limit[c] ELSE baseline[c]]
    /\ switchOn' = "idle"
    /\ IF enabled /\ tick.pc = "idle" THEN TickStarts ELSE UNCHANGED <<tick, flight, disturbed>>
    /\ UNCHANGED <<docker, cached, enabled, switchOff, events>>

SwitchesOff ==
    /\ enabled /\ switchOff.pc = "idle"
    /\ Happens
    /\ enabled' = FALSE
    /\ switchOff' = [NoSwitchOff EXCEPT !.pc = Answered] /\ ReadCached
    /\ disturbed' = (tick.pc # "idle")
    /\ UNCHANGED <<docker, cached, tick, switchOn, baseline>>

\* restoreBaseline: the baseline, and over it what memoryStatus says of the rows.
PlansWith(goal) ==
    /\ switchOff' = [pc |-> "restore", left |-> goal]
    /\ UNCHANGED <<docker, sampler, enabled, tick, switchOn, baseline>>

\* Faulty: the baseline overrides what is configured.
PlansBaseline ==
    /\ switchOff.pc = "rows"
    /\ PlansWith([c \in Containers |-> IF baseline[c] > 0 THEN baseline[c] ELSE Configured[c]])
    /\ UNCHANGED <<disturbed, events>>

Plans ==
    /\ switchOff.pc = "rows"
    /\ PlansWith([c \in Containers |-> IF cached.rows.limit[c] > 0 THEN Configured[c] ELSE baseline[c]])
    /\ UNCHANGED <<disturbed, events>>

\* The read failed, or memoryStatus does: the baseline alone.
PlansBlind ==
    /\ \/ switchOff.pc = "failed" /\ UNCHANGED events
       \/ switchOff.pc = "rows" /\ Happens
    /\ PlansWith(baseline)
    /\ disturbed' = TRUE

RestoresOne(c) ==
    /\ switchOff.pc = "restore" /\ switchOff.left[c] > 0
    /\ \/ Update(c, switchOff.left[c]) /\ UNCHANGED <<disturbed, events>>
       \/ UpdateFails(c, switchOff.left[c])
    /\ switchOff' = [switchOff EXCEPT !.left[c] = 0]
    /\ UNCHANGED <<sampler, enabled, tick, switchOn, baseline>>

Restored ==
    /\ switchOff.pc = "restore" /\ switchOff.left = NoBaseline
    /\ switchOff' = NoSwitchOff
    /\ baseline' = NoBaseline
    /\ UNCHANGED <<docker, sampler, enabled, tick, switchOn, disturbed, events>>

-----------------------------------------------------------------------------

\* The Console restarts: state and sampler are new, enabled is read from disk, and
\* docker keeps the limits; an update it was asked for may still be made.
Restarts ==
    /\ Happens
    /\ flight' = NoFlight /\ cached' = NoCache
    /\ tick' = NoTick /\ switchOn' = "idle" /\ switchOff' = NoSwitchOff
    /\ baseline' = NoBaseline
    /\ \/ UNCHANGED docker
       \/ tick.pc = "target" /\ Update(tick.target, tick.more)
       \/ tick.pc = "donor" /\ Update(tick.donor, tick.less)
    /\ disturbed' = (disturbed \/ tick.pc \in {"target", "donor"} \/ switchOff.pc # "idle")
    /\ UNCHANGED enabled

\* Players come and go.
Stirs(c) ==
    /\ Happens
    /\ \E u \in {1, limit[c]} : u # used[c] /\ used' = [used EXCEPT ![c] = u]
    /\ UNCHANGED <<limit, sampler, enabled, tick, switchOn, switchOff, baseline, disturbed>>

Sampling == Collect \/ ReadEnds
TickGoesOn == Decide \/ GiveFirst \/ TakeThen \/ TickFails
OffGoesOn == Plans \/ PlansBlind \/ (\E c \in Containers : RestoresOne(c)) \/ Restored

Next ==
    \/ Sampling \/ ReadFails \/ CacheAges \/ Poll
    \/ Interval \/ TickGoesOn
    \/ SwitchesOn \/ Captures \/ SwitchesOff \/ OffGoesOn
    \/ Restarts
    \/ \E c \in Containers : Stirs(c)

Spec == Init /\ [][Next]_vars

\* The interval fires, docker answers or its timeout does, and callers go on.
Fairness ==
    /\ WF_vars(Sampling) /\ WF_vars(CacheAges) /\ WF_vars(Interval)
    /\ WF_vars(TickGoesOn) /\ WF_vars(Captures) /\ WF_vars(OffGoesOn)

FairSpec == Spec /\ Fairness

-----------------------------------------------------------------------------
(* Properties *)

\* One by one: the n-th gigabyte of a server is there if its limit has it.
Gigabytes(f) == UNION {{c} \X (1..f[c]) : c \in Containers}
Total(f) == Cardinality(Gigabytes(f))

TypeOK ==
    /\ limit \in [Containers -> Nat \ {0}] /\ used \in [Containers -> Nat]
    /\ flight.pc \in {"none", "asked", "taken"} /\ cached.fresh \in BOOLEAN
    /\ tick.pc \in {"idle", "read", "rows", "failed", "target", "donor"}
    /\ switchOn \in {"idle", "read", "rows", "failed"}
    /\ switchOff.pc \in {"idle", "read", "rows", "failed", "restore"}
    /\ baseline \in [Containers -> Nat]
    /\ disturbed \in BOOLEAN /\ events \in 0..MaxEvents
    /\ tick.pc \in {"target", "donor"} => tick.target # tick.donor

Quiet == tick.pc = "idle" /\ switchOn = "idle" /\ switchOff.pc = "idle"

\* What holds of it: once nobody is at work, the limits add up to what is configured,
\* and are what is configured when the balancer is off.  The exceptions, all of them,
\* since it was last switched off: an update or memoryStatus failed; a tick was at
\* work during the restore; a tick shared a read older than itself; the Console
\* stopped between two updates.
LimitsAddUp ==
    Quiet /\ ~disturbed =>
        /\ Total(limit) = Total(Configured)
        /\ ~enabled => limit = Configured

\* A server that is short of memory does not stay so next to one that could spare it.
Starved == LET rows == [limit |-> limit, used |-> used] IN
           enabled /\ \E t \in Fullest(rows) : Donors(rows, t) # {}
HotMapServed == []<>~Starved

\* A gigabyte is not sent back and forth: once use is steady the limits are, too.
BalancerSettles == <>[][limit' = limit]_limit
=============================================================================
