------------------------ MODULE MemoryBalancerProofs ------------------------
(***************************************************************************)
(* That a gigabyte the balancer moves is neither made nor lost, for any    *)
(* number of map servers and any configured limits: what a tick is about   *)
(* to set was computed from the limits as they are, and between its two    *)
(* updates there is one gigabyte too many; a restore that nothing disturbs *)
(* ends with every limit as configured.                                    *)
(***************************************************************************)
EXTENDS MemoryBalancer, FiniteSetTheorems, TLAPS

Limits == [Containers -> Nat \ {0}]
Rows == [limit : Limits, used : [Containers -> Nat]]

\* Rows are those of a read once they are looked at.
FlightOK ==
    /\ flight \in [pc : {"none", "asked", "taken"}, rows : Rows \cup {NoRows}]
    /\ flight.pc = "taken" => flight.rows \in Rows
CachedOK ==
    /\ cached \in [rows : Rows \cup {NoRows}, fresh : BOOLEAN]
    /\ cached.fresh => cached.rows \in Rows
    /\ "rows" \in {tick.pc, switchOn, switchOff.pc} => cached.fresh
TickOK ==
    /\ tick \in [pc : {"idle", "read", "rows", "failed", "target", "donor"},
                 target : Containers \cup {None}, more : Nat, donor : Containers \cup {None}, less : Nat]
    /\ tick.pc \in {"target", "donor"} =>
        /\ tick.target \in Containers /\ tick.donor \in Containers /\ tick.target # tick.donor
        /\ tick.more > 0 /\ tick.less > 0
SwitchesOK ==
    /\ switchOn \in {"idle", "read", "rows", "failed"}
    /\ switchOff \in [pc : {"idle", "read", "rows", "failed", "restore"}, left : [Containers -> Nat]]
DockerOK == limit \in Limits /\ used \in [Containers -> Nat]
RestOK ==
    /\ enabled \in BOOLEAN /\ baseline \in [Containers -> Nat]
    /\ disturbed \in BOOLEAN /\ events \in 0..MaxEvents

Types == FlightOK /\ CachedOK /\ TickOK /\ SwitchesOK /\ DockerOK /\ RestOK

\* A tick is at work only while the balancer is on and nothing is being restored.
TickAlone == tick.pc # "idle" => enabled /\ switchOff.pc = "idle"

\* The rows a tick goes by are the limits as they are.
RowsCurrent ==
    /\ tick.pc = "read" /\ flight.pc = "taken" => flight.rows.limit = limit
    /\ tick.pc = "rows" => cached.rows.limit = limit

\* So is what it computed from them: the donor still has the gigabyte.
MoveCurrent ==
    /\ tick.pc = "target" => tick.more = limit[tick.target] + 1
    /\ tick.pc \in {"target", "donor"} => tick.less = limit[tick.donor] - 1

AddsUp ==
    switchOff.pc = "idle" =>
        Total(limit) = IF tick.pc = "donor" THEN Total(Configured) + 1 ELSE Total(Configured)

\* What is left to restore goes to what is configured, and the rest is there.
RestoresConfigured ==
    switchOff.pc = "restore" =>
        \A c \in Containers : \/ switchOff.left[c] = Configured[c]
                              \/ switchOff.left[c] = 0 /\ limit[c] = Configured[c]
OffConfigured == ~enabled /\ switchOff.pc = "idle" => limit = Configured

Steady == TickAlone /\ RowsCurrent /\ MoveCurrent /\ AddsUp /\ RestoresConfigured /\ OffConfigured
Undisturbed == ~disturbed => Steady

-----------------------------------------------------------------------------
(* Adding up gigabytes *)

LEMMA GigabytesAre ==
    ASSUME NEW f
    PROVE  \A x : x \in Gigabytes(f) <=> \E c \in Containers : \E n \in 1..f[c] : x = <<c, n>>
    BY DEF Gigabytes

LEMMA GigabytesFinite ==
    ASSUME NEW f \in [Containers -> Nat]
    PROVE  IsFiniteSet(Gigabytes(f)) /\ Total(f) \in Nat
<1> DEFINE T == {{c} \X (1..f[c]) : c \in Containers}
           g == [c \in Containers |-> {c} \X (1..f[c])]
<1>1. g \in Surjection(Containers, T)
    BY DEF Surjection
<1>2. IsFiniteSet(T)
    BY <1>1, LimitAssumption, FS_Surjection
<1>3. ASSUME NEW c \in Containers PROVE IsFiniteSet({c} \X (1..f[c]))
    <2>1. IsFiniteSet({c}) /\ f[c] \in Nat
        BY FS_Singleton
    <2>2. IsFiniteSet(1..f[c])
        BY <2>1, FS_Interval
    <2> QED
        BY <2>1, <2>2, FS_Product
<1>4. IsFiniteSet(UNION T)
    BY <1>2, <1>3, FS_UNION
<1> QED
    BY <1>4, FS_CardinalityType DEF Gigabytes, Total

\* A server that gets a gigabyte adds one.
LEMMA OneMore ==
    ASSUME NEW f \in [Containers -> Nat], NEW t \in Containers
    PROVE  Total([f EXCEPT ![t] = f[t] + 1]) = Total(f) + 1
<1> DEFINE h == [f EXCEPT ![t] = f[t] + 1]
           x == <<t, f[t] + 1>>
<1>1. f[t] \in Nat /\ h \in [Containers -> Nat] /\ h[t] = f[t] + 1
    OBVIOUS
<1>2. \A c \in Containers : c # t => h[c] = f[c]
    OBVIOUS
<1> HIDE DEF h
<1>3. x \notin Gigabytes(f)
    BY <1>1, GigabytesAre
<1>4. ASSUME NEW y, y \in Gigabytes(h) PROVE y \in Gigabytes(f) \/ y = x
    <2>1. PICK c \in Containers : \E n \in 1..h[c] : y = <<c, n>>
        BY <1>4, GigabytesAre
    <2> PICK n \in 1..h[c] : y = <<c, n>>
        BY <2>1
    <2>2. CASE c = t
        <3>1. n \in 1..f[t] \/ n = f[t] + 1
            BY <1>1, <2>2
        <3> QED
            BY <2>1, <2>2, <3>1, GigabytesAre
    <2>3. CASE c # t
        BY <1>2, <2>1, <2>3, GigabytesAre
    <2> QED
        BY <2>2, <2>3
<1>5. ASSUME NEW y, y \in Gigabytes(f) \/ y = x PROVE y \in Gigabytes(h)
    <2>1. CASE y = x
        <3>1. f[t] + 1 \in 1..h[t]
            BY <1>1
        <3> QED
            BY <2>1, <3>1, GigabytesAre
    <2>2. CASE y \in Gigabytes(f)
        <3>1. PICK c \in Containers : \E n \in 1..f[c] : y = <<c, n>>
            BY <2>2, GigabytesAre
        <3> PICK n \in 1..f[c] : y = <<c, n>>
            BY <3>1
        <3>2. n \in 1..h[c]
            BY <1>1, <1>2
        <3> QED
            BY <3>1, <3>2, GigabytesAre
    <2> QED
        BY <1>5, <2>1, <2>2
<1>6. Gigabytes(h) = Gigabytes(f) \cup {x}
    BY <1>4, <1>5
<1> HIDE DEF x
<1>7. Cardinality(Gigabytes(h)) = Cardinality(Gigabytes(f)) + 1
    BY <1>3, <1>6, GigabytesFinite, FS_AddElement
<1> QED
    BY <1>7 DEF Total, h

\* And one that gives a gigabyte away takes one off.
LEMMA OneLess ==
    ASSUME NEW f \in [Containers -> Nat], NEW d \in Containers, f[d] > 0
    PROVE  Total([f EXCEPT ![d] = f[d] - 1]) = Total(f) - 1
<1> DEFINE h == [f EXCEPT ![d] = f[d] - 1]
<1>1. h \in [Containers -> Nat] /\ h[d] + 1 = f[d]
    OBVIOUS
<1>2. [h EXCEPT ![d] = h[d] + 1] = f
    BY <1>1
<1>3. Total(h) \in Nat
    BY <1>1, GigabytesFinite
<1> HIDE DEF h
<1>4. Total(f) = Total(h) + 1
    BY <1>1, <1>2, OneMore
<1>5. Total(h) = Total(f) - 1
    BY <1>3, <1>4
<1> QED
    BY <1>5 DEF h

-----------------------------------------------------------------------------
(* Types *)

LEMMA Zeros ==
    /\ NoBaseline \in [Containers -> Nat]
    /\ Configured \in Limits /\ Configured \in [Containers -> Nat]
    /\ \A f \in Limits : f \in [Containers -> Nat] /\ \A c \in Containers : f[c] \in Nat /\ f[c] > 0
    BY LimitAssumption DEF NoBaseline, Limits

LEMMA InitTypes == Init => Types
<1> SUFFICES ASSUME Init PROVE Types
    OBVIOUS
<1>1. DockerOK
    BY LimitAssumption DEF Init, DockerOK, Limits
<1>2. FlightOK /\ CachedOK
    BY DEF Init, FlightOK, CachedOK, NoFlight, NoCache, NoTick, NoSwitchOff
<1>3. TickOK /\ SwitchesOK
    BY Zeros DEF Init, TickOK, SwitchesOK, NoTick, NoSwitchOff
<1>4. RestOK
    <2>1. 0 \in 0..MaxEvents
        BY BoundAssumption
    <2> QED
        BY <2>1, Zeros DEF Init, RestOK
<1> QED
    BY <1>1, <1>2, <1>3, <1>4 DEF Types

LEMMA HappensOK == ASSUME events \in 0..MaxEvents, Happens PROVE events' \in 0..MaxEvents
    BY BoundAssumption DEF Happens

LEMMA Updated ==
    ASSUME DockerOK, NEW c \in Containers, NEW g \in Nat \ {0}, Update(c, g)
    PROVE  DockerOK' /\ limit' = [limit EXCEPT ![c] = g]
<1>1. limit' = [limit EXCEPT ![c] = g]
    BY DEF Update
<1>2. used[c] \in Nat
    BY DEF DockerOK
<1>3. (IF used[c] > g THEN g ELSE used[c]) \in Nat
    BY <1>2
<1>4. used' = [used EXCEPT ![c] = IF used[c] > g THEN g ELSE used[c]]
    BY <1>2 DEF Update, DockerOK
<1>5. limit' \in Limits
    BY <1>1 DEF DockerOK, Limits
<1>6. used' \in [Containers -> Nat]
    BY <1>3, <1>4 DEF DockerOK
<1> QED
    BY <1>1, <1>5, <1>6 DEF DockerOK

\* Joining a read leaves one that has begun as it is.
LEMMA Joined ==
    ASSUME FlightOK, Join
    PROVE  FlightOK' /\ (flight'.pc = "taken" => flight' = flight) /\ flight'.pc # "none"
    BY DEF FlightOK, Join

\* A read ends: who waits for it goes on, and nobody else.
LEMMA RowsGiven ==
    ASSUME TickOK, SwitchesOK, NEW outcome \in {"rows", "failed"}, GiveRows(outcome)
    PROVE  /\ TickOK' /\ SwitchesOK'
           /\ tick' = tick \/ (tick.pc = "read" /\ tick'.pc = outcome)
           /\ switchOn' = switchOn \/ switchOn' = outcome
           /\ switchOff' = switchOff \/ (switchOff.pc = "read" /\ switchOff'.pc = outcome)
<1>1. TickOK' /\ (tick' = tick \/ (tick.pc = "read" /\ tick'.pc = outcome))
    BY DEF TickOK, GiveRows
<1>2. SwitchesOK' /\ (switchOn' = switchOn \/ switchOn' = outcome)
    BY DEF SwitchesOK, GiveRows
<1>3. switchOff' = switchOff \/ (switchOff.pc = "read" /\ switchOff'.pc = outcome)
    BY DEF SwitchesOK, GiveRows
<1> QED
    BY <1>1, <1>2, <1>3

\* A donor keeps at least a gigabyte.
LEMMA DonorKeeps ==
    ASSUME NEW rows \in Rows, NEW t \in Containers, NEW d \in Donors(rows, t)
    PROVE  d \in Containers /\ d # t /\ rows.limit[d] - 1 > 0
<1>1. d \in Containers /\ d # t /\ CanDonate(rows, d)
    BY DEF Donors
<1>2. rows.used[d] \in Nat /\ rows.limit[d] \in Nat
    BY <1>1, Zeros DEF Rows
<1>3. rows.limit[d] - 1 >= MinimumLimit(rows.used[d])
    BY <1>1 DEF CanDonate
<1> DEFINE use == rows.used[d]
           a == use + 1
           b == (5 * use + 3) \div 4
<1>4. use \in Int /\ a \in Int /\ b \in Int
    BY <1>2
<1> HIDE DEF use, a, b
<1>5. \E x \in {a, b, 1} : \A y \in {a, b, 1} : x >= y
    BY <1>4
<1>6. Max({a, b, 1}) \in {a, b, 1} /\ Max({a, b, 1}) >= 1
    BY <1>5 DEF Max
<1>7. MinimumLimit(use) = Max({a, b, 1})
    BY DEF MinimumLimit, a, b
<1>8. Max({a, b, 1}) \in Int
    BY <1>4, <1>6
<1>9. rows.limit[d] - 1 >= Max({a, b, 1})
    BY <1>3, <1>7 DEF use
<1> QED
    BY <1>1, <1>2, <1>6, <1>8, <1>9

-----------------------------------------------------------------------------
(* The sampler *)

\* A step that changes no limit, and at most tells who waits for a read that it ended.
LEMMA Kept ==
    ASSUME Undisturbed, limit' = limit, enabled' = enabled, disturbed' = disturbed,
           tick' = tick \/ (tick.pc = "read" /\ tick'.pc \in {"rows", "failed"}),
           switchOff' = switchOff \/ (switchOff.pc = "read" /\ switchOff'.pc \in {"rows", "failed"}),
           Steady => RowsCurrent'
    PROVE  Undisturbed'
<1> SUFFICES ASSUME ~disturbed' PROVE Steady'
    BY DEF Undisturbed
<1>1. Steady
    BY DEF Undisturbed
<1>2. TickAlone'
    BY <1>1 DEF Steady, TickAlone
<1>3. RowsCurrent'
    BY <1>1
<1>4. MoveCurrent'
    BY <1>1 DEF Steady, MoveCurrent
<1>5. AddsUp'
    <2> SUFFICES ASSUME switchOff'.pc = "idle"
                 PROVE  Total(limit)' = IF tick'.pc = "donor" THEN Total(Configured) + 1 ELSE Total(Configured)
        BY DEF AddsUp
    <2>1. switchOff.pc = "idle" /\ (tick'.pc = "donor" <=> tick.pc = "donor")
        OBVIOUS
    <2>2. Total(limit)' = Total(limit)
        BY DEF Total, Gigabytes
    <2> QED
        BY <1>1, <2>1, <2>2 DEF Steady, AddsUp
<1>6. RestoresConfigured' /\ OffConfigured'
    BY <1>1 DEF Steady, RestoresConfigured, OffConfigured
<1> QED
    BY <1>2, <1>3, <1>4, <1>5, <1>6 DEF Steady

LEMMA SamplerStep ==
    ASSUME Types, Undisturbed, Collect \/ ReadEnds \/ ReadFails \/ CacheAges \/ Poll
    PROVE  Types' /\ Undisturbed'
<1>0. FlightOK /\ CachedOK /\ TickOK /\ SwitchesOK /\ DockerOK /\ RestOK
    BY DEF Types
<1>1. CASE Collect
    <2>1. /\ flight.pc = "asked" /\ flight' = [pc |-> "taken", rows |-> [limit |-> limit, used |-> used]]
          /\ UNCHANGED <<docker, cached, enabled, tick, switchOn, switchOff, baseline, disturbed, events>>
        BY <1>1 DEF Collect
    <2>2. [limit |-> limit, used |-> used] \in Rows
        BY <1>0 DEF DockerOK, Rows
    <2>3. Types'
        BY <1>0, <2>1, <2>2 DEF Types, FlightOK, CachedOK, TickOK, SwitchesOK, DockerOK, RestOK, docker
    <2>4. Steady => RowsCurrent'
        BY <2>1 DEF Steady, RowsCurrent, docker
    <2>5. Undisturbed'
        BY <2>1, <2>4, Kept DEF docker
    <2> QED
        BY <2>3, <2>5
<1>2. CASE ReadEnds
    <2>1. /\ flight.pc = "taken" /\ Settled /\ flight' = NoFlight /\ GiveRows("rows")
          /\ cached' = [rows |-> flight.rows, fresh |-> TRUE]
          /\ UNCHANGED <<docker, enabled, baseline, disturbed, events>>
        BY <1>2 DEF ReadEnds
    <2>2. /\ TickOK' /\ SwitchesOK'
          /\ tick' = tick \/ (tick.pc = "read" /\ tick'.pc = "rows")
          /\ switchOff' = switchOff \/ (switchOff.pc = "read" /\ switchOff'.pc = "rows")
        BY <1>0, <2>1, RowsGiven
    <2>3. FlightOK' /\ CachedOK'
        BY <1>0, <2>1 DEF FlightOK, CachedOK, NoFlight
    <2>4. Types'
        BY <1>0, <2>1, <2>2, <2>3 DEF Types, DockerOK, RestOK, docker
    <2>5. Steady => RowsCurrent'
        BY <2>1, <2>2 DEF Steady, RowsCurrent, docker, NoFlight, Settled
    <2>6. Undisturbed'
        BY <2>1, <2>2, <2>5, Kept DEF docker
    <2> QED
        BY <2>4, <2>6
<1>3. CASE ReadFails
    <2>1. /\ flight.pc # "none" /\ Settled /\ Happens /\ flight' = NoFlight /\ GiveRows("failed")
          /\ UNCHANGED <<docker, cached, enabled, baseline, disturbed>>
        BY <1>3 DEF ReadFails
    <2>2. /\ TickOK' /\ SwitchesOK'
          /\ tick' = tick \/ (tick.pc = "read" /\ tick'.pc = "failed")
          /\ switchOn' = switchOn \/ switchOn' = "failed"
          /\ switchOff' = switchOff \/ (switchOff.pc = "read" /\ switchOff'.pc = "failed")
        BY <1>0, <2>1, RowsGiven
    <2>3. FlightOK' /\ CachedOK'
        BY <1>0, <2>1, <2>2 DEF FlightOK, CachedOK, NoFlight, Settled
    <2>4. events' \in 0..MaxEvents
        BY <1>0, <2>1, HappensOK DEF RestOK
    <2>5. Types'
        BY <1>0, <2>1, <2>2, <2>3, <2>4 DEF Types, DockerOK, RestOK, docker
    <2>6. Steady => RowsCurrent'
        BY <2>1, <2>2 DEF Steady, RowsCurrent, docker, NoFlight
    <2>7. Undisturbed'
        BY <2>1, <2>2, <2>6, Kept DEF docker
    <2> QED
        BY <2>5, <2>7
<1>4. CASE CacheAges
    <2>1. /\ Settled /\ cached' = NoCache
          /\ UNCHANGED <<docker, flight, enabled, tick, switchOn, switchOff, baseline, disturbed, events>>
        BY <1>4 DEF CacheAges
    <2>2. CachedOK'
        BY <1>0, <2>1 DEF CachedOK, NoCache, Settled
    <2>3. Types'
        BY <1>0, <2>1, <2>2 DEF Types, FlightOK, TickOK, SwitchesOK, DockerOK, RestOK, docker
    <2>4. Steady => RowsCurrent'
        BY <2>1 DEF Steady, RowsCurrent, docker, Settled
    <2>5. Undisturbed'
        BY <2>1, <2>4, Kept DEF docker
    <2> QED
        BY <2>3, <2>5
<1>5. CASE Poll
    <2>1. /\ flight.pc = "none" /\ Join
          /\ UNCHANGED <<docker, cached, enabled, tick, switchOn, switchOff, baseline, disturbed, events>>
        BY <1>5 DEF Poll
    <2>2. FlightOK' /\ (flight'.pc = "taken" => flight' = flight)
        BY <1>0, <2>1, Joined
    <2>3. Types'
        BY <1>0, <2>1, <2>2 DEF Types, CachedOK, TickOK, SwitchesOK, DockerOK, RestOK, docker
    <2>4. Steady => RowsCurrent'
        BY <2>1, <2>2 DEF Steady, RowsCurrent, docker
    <2>5. Undisturbed'
        BY <2>1, <2>4, Kept DEF docker
    <2> QED
        BY <2>3, <2>5
<1> QED
    BY <1>1, <1>2, <1>3, <1>4, <1>5

-----------------------------------------------------------------------------
(* The tick *)

\* A tick starts: it reads what is read after it started, or limits are disturbed.
LEMMA Started ==
    ASSUME Types, Undisturbed, enabled, TickStarts,
           UNCHANGED <<docker, cached, enabled, switchOff>>
    PROVE  FlightOK' /\ TickOK' /\ disturbed' \in BOOLEAN /\ tick'.pc = "read" /\ Undisturbed'
<1>1. /\ tick.pc = "idle" /\ tick' = [NoTick EXCEPT !.pc = "read"] /\ Join
      /\ disturbed' = (disturbed \/ flight.pc = "taken" \/ switchOff.pc # "idle")
    BY DEF TickStarts
<1>2. TickOK' /\ tick'.pc = "read"
    BY <1>1 DEF TickOK, NoTick
<1>3. FlightOK' /\ (flight'.pc = "taken" => flight' = flight)
    BY <1>1, Joined DEF Types
<1>4. disturbed' \in BOOLEAN
    BY <1>1 DEF Types, RestOK
<1>5. Undisturbed'
    <2> SUFFICES ASSUME ~disturbed' PROVE Steady'
        BY DEF Undisturbed
    <2>1. Steady /\ flight.pc # "taken" /\ switchOff.pc = "idle"
        BY <1>1 DEF Undisturbed
    <2>2. TickAlone' /\ RowsCurrent' /\ MoveCurrent'
        BY <1>2, <1>3, <2>1 DEF TickAlone, RowsCurrent, MoveCurrent
    <2>3. AddsUp'
        <3>1. Total(limit)' = Total(limit)
            BY DEF Total, Gigabytes, docker
        <3> QED
            BY <1>1, <1>2, <2>1, <3>1 DEF Steady, AddsUp
    <2>4. RestoresConfigured' /\ OffConfigured'
        BY <2>1 DEF Steady, RestoresConfigured, OffConfigured, docker
    <2> QED
        BY <2>2, <2>3, <2>4 DEF Steady
<1> QED
    BY <1>2, <1>3, <1>4, <1>5

\* A tick that ends where it has moved nothing leaves the limits as they are.
LEMMA TickEnds ==
    ASSUME Undisturbed, tick' = NoTick, tick.pc # "donor", UNCHANGED <<docker, enabled, switchOff, disturbed>>
    PROVE  Undisturbed'
<1> SUFFICES ASSUME ~disturbed' PROVE Steady'
    BY DEF Undisturbed
<1>1. Steady
    BY DEF Undisturbed
<1>2. tick'.pc = "idle"
    BY DEF NoTick
<1>3. TickAlone' /\ RowsCurrent' /\ MoveCurrent'
    BY <1>2 DEF TickAlone, RowsCurrent, MoveCurrent
<1>4. AddsUp'
    <2>1. Total(limit)' = Total(limit)
        BY DEF Total, Gigabytes, docker
    <2> QED
        BY <1>1, <1>2, <2>1 DEF Steady, AddsUp
<1>5. RestoresConfigured' /\ OffConfigured'
    BY <1>1 DEF Steady, RestoresConfigured, OffConfigured, docker
<1> QED
    BY <1>3, <1>4, <1>5 DEF Steady

LEMMA UpdateFailed ==
    ASSUME DockerOK, RestOK, NEW c \in Containers, NEW g \in Nat \ {0}, UpdateFails(c, g)
    PROVE  DockerOK' /\ disturbed' = TRUE /\ events' \in 0..MaxEvents
<1>1. disturbed' = TRUE /\ events' \in 0..MaxEvents
    BY HappensOK DEF UpdateFails, RestOK
<1>2. CASE Update(c, g)
    BY <1>1, <1>2, Updated
<1>3. CASE UNCHANGED docker
    BY <1>1, <1>3 DEF docker, DockerOK
<1> QED
    BY <1>2, <1>3 DEF UpdateFails

LEMMA TickStep ==
    ASSUME Types, Undisturbed, Interval \/ TickGoesOn
    PROVE  Types' /\ Undisturbed'
<1>0. FlightOK /\ CachedOK /\ TickOK /\ SwitchesOK /\ DockerOK /\ RestOK
    BY DEF Types
<1>1. CASE Interval
    <2>1. enabled /\ TickStarts /\ UNCHANGED <<docker, cached, enabled, switchOn, switchOff, baseline, events>>
        BY <1>1 DEF Interval
    <2>2. FlightOK' /\ TickOK' /\ disturbed' \in BOOLEAN /\ tick'.pc = "read" /\ Undisturbed'
        BY <2>1, Started
    <2> QED
        BY <1>0, <2>1, <2>2 DEF Types, CachedOK, SwitchesOK, DockerOK, RestOK, docker
<1>2. CASE Decide
    <2> DEFINE rows == cached.rows
    <2>1. /\ tick.pc = "rows"
          /\ baseline' = [c \in Containers |-> IF baseline[c] = 0 THEN rows.limit[c] ELSE baseline[c]]
          /\ UNCHANGED <<docker, sampler, enabled, switchOn, switchOff, disturbed, events>>
        BY <1>2 DEF Decide
    <2>2. rows \in Rows /\ rows.limit \in Limits
        BY <1>0, <2>1 DEF CachedOK, Rows
    <2>3. RestOK'
        <3>1. \A c \in Containers : rows.limit[c] \in Nat /\ baseline[c] \in Nat
            BY <1>0, <2>2, Zeros DEF RestOK
        <3> QED
            BY <1>0, <2>1, <3>1 DEF RestOK
    <2>4. FlightOK' /\ SwitchesOK' /\ DockerOK'
        BY <1>0, <2>1 DEF FlightOK, SwitchesOK, DockerOK, sampler, docker
    <2>5. CASE tick' = NoTick
        <3>1. TickOK' /\ CachedOK'
            BY <1>0, <2>1, <2>5 DEF TickOK, CachedOK, NoTick, sampler
        <3>2. Undisturbed'
            BY <2>1, <2>5, TickEnds
        <3> QED
            BY <2>3, <2>4, <3>1, <3>2 DEF Types
    <2>6. CASE \E t \in Fullest(rows) : \E d \in Donors(rows, t) :
                  tick' = [pc |-> "target", target |-> t, more |-> rows.limit[t] + 1,
                           donor |-> d, less |-> rows.limit[d] - 1]
        <3>1. PICK t \in Fullest(rows) : \E d \in Donors(rows, t) :
                  tick' = [pc |-> "target", target |-> t, more |-> rows.limit[t] + 1,
                           donor |-> d, less |-> rows.limit[d] - 1]
            BY <2>6
        <3>2. PICK d \in Donors(rows, t) :
                  tick' = [pc |-> "target", target |-> t, more |-> rows.limit[t] + 1,
                           donor |-> d, less |-> rows.limit[d] - 1]
            BY <3>1
        <3>3. t \in Containers
            BY DEF Fullest, Hot
        <3>4. d \in Containers /\ d # t /\ rows.limit[d] - 1 > 0
            BY <2>2, <3>3, DonorKeeps
        <3>5. rows.limit[t] \in Nat /\ rows.limit[d] \in Nat
            BY <2>2, <3>3, <3>4, Zeros
        <3>6. TickOK' /\ CachedOK'
            BY <1>0, <2>1, <3>2, <3>3, <3>4, <3>5 DEF TickOK, CachedOK, sampler
        <3>7. ASSUME ~disturbed' PROVE Steady'
            <4>1. Steady /\ rows.limit = limit
                BY <2>1, <3>7 DEF Undisturbed, Steady, RowsCurrent
            <4>2. limit' = limit /\ tick'.pc = "target" /\ switchOff' = switchOff /\ enabled' = enabled
                BY <2>1, <3>2 DEF docker
            <4>3. TickAlone' /\ RowsCurrent'
                BY <2>1, <4>1, <4>2 DEF Steady, TickAlone, RowsCurrent
            <4>4. MoveCurrent'
                BY <3>2, <4>1, <4>2 DEF MoveCurrent
            <4>5. AddsUp'
                <5>1. Total(limit)' = Total(limit)
                    BY <4>2 DEF Total, Gigabytes
                <5> QED
                    BY <2>1, <4>1, <4>2, <5>1 DEF Steady, AddsUp
            <4>6. RestoresConfigured' /\ OffConfigured'
                BY <4>1, <4>2 DEF Steady, RestoresConfigured, OffConfigured
            <4> QED
                BY <4>3, <4>4, <4>5, <4>6 DEF Steady
        <3> QED
            BY <2>3, <2>4, <3>6, <3>7 DEF Types, Undisturbed
    <2> QED
        BY <1>2, <2>5, <2>6 DEF Decide
<1>3. CASE GiveFirst
    <2> DEFINE t == tick.target
               d == tick.donor
    <2>1. /\ tick.pc = "target" /\ Update(t, tick.more) /\ tick' = [tick EXCEPT !.pc = "donor"]
          /\ UNCHANGED <<sampler, enabled, switchOn, switchOff, baseline, disturbed, events>>
        BY <1>3 DEF GiveFirst
    <2>2. t \in Containers /\ d \in Containers /\ t # d /\ tick.more \in Nat \ {0}
        BY <1>0, <2>1 DEF TickOK
    <2>3. DockerOK' /\ limit' = [limit EXCEPT ![t] = tick.more]
        BY <1>0, <2>1, <2>2, Updated
    <2>4. TickOK' /\ tick'.pc = "donor" /\ tick'.target = t /\ tick'.donor = d /\ tick'.less = tick.less
        BY <1>0, <2>1 DEF TickOK
    <2>5. Types'
        BY <1>0, <2>1, <2>3, <2>4 DEF Types, FlightOK, CachedOK, SwitchesOK, RestOK, sampler
    <2>6. ASSUME ~disturbed' PROVE Steady'
        <3>1. /\ Steady /\ enabled /\ switchOff.pc = "idle"
              /\ tick.more = limit[t] + 1 /\ tick.less = limit[d] - 1
              /\ Total(limit) = Total(Configured)
            BY <2>1, <2>6 DEF Undisturbed, Steady, TickAlone, MoveCurrent, AddsUp
        <3>2. limit \in [Containers -> Nat] /\ limit'[d] = limit[d]
            BY <1>0, <2>2, <2>3, Zeros DEF DockerOK, Limits
        <3>3. limit' = [limit EXCEPT ![t] = limit[t] + 1]
            BY <2>3, <3>1
        <3>4. Total([limit EXCEPT ![t] = limit[t] + 1]) = Total(limit) + 1
            BY <2>2, <3>2, OneMore
        <3>5. Total(limit)' = Total(Configured) + 1
            BY <3>1, <3>3, <3>4 DEF Total, Gigabytes
        <3>6. TickAlone' /\ RowsCurrent' /\ RestoresConfigured' /\ OffConfigured'
            BY <2>1, <2>4, <3>1 DEF TickAlone, RowsCurrent, RestoresConfigured, OffConfigured
        <3>7. MoveCurrent'
            BY <2>4, <3>1, <3>2 DEF MoveCurrent
        <3>8. AddsUp'
            BY <2>4, <3>5 DEF AddsUp
        <3> QED
            BY <3>6, <3>7, <3>8 DEF Steady
    <2> QED
        BY <2>5, <2>6 DEF Undisturbed
<1>4. CASE TakeThen
    <2> DEFINE d == tick.donor
    <2>1. /\ tick.pc = "donor" /\ Update(d, tick.less) /\ tick' = NoTick
          /\ UNCHANGED <<sampler, enabled, switchOn, switchOff, baseline, disturbed, events>>
        BY <1>4 DEF TakeThen
    <2>2. d \in Containers /\ tick.less \in Nat \ {0}
        BY <1>0, <2>1 DEF TickOK
    <2>3. DockerOK' /\ limit' = [limit EXCEPT ![d] = tick.less]
        BY <1>0, <2>1, <2>2, Updated
    <2>4. TickOK' /\ tick'.pc = "idle"
        BY <2>1 DEF TickOK, NoTick
    <2>5. Types'
        BY <1>0, <2>1, <2>3, <2>4 DEF Types, FlightOK, CachedOK, SwitchesOK, RestOK, sampler
    <2>6. ASSUME ~disturbed' PROVE Steady'
        <3>1. /\ Steady /\ enabled /\ switchOff.pc = "idle"
              /\ tick.less = limit[d] - 1 /\ Total(limit) = Total(Configured) + 1
            BY <2>1, <2>6 DEF Undisturbed, Steady, TickAlone, MoveCurrent, AddsUp
        <3>2. limit \in [Containers -> Nat] /\ limit[d] > 0
            BY <1>0, <2>2, Zeros DEF DockerOK
        <3>3. limit' = [limit EXCEPT ![d] = limit[d] - 1]
            BY <2>3, <3>1
        <3>4. Total([limit EXCEPT ![d] = limit[d] - 1]) = Total(limit) - 1
            BY <2>2, <3>2, OneLess
        <3>5. Total(Configured) \in Nat
            BY Zeros, GigabytesFinite
        <3>6. Total(limit)' = Total(limit) - 1
            BY <3>3, <3>4 DEF Total, Gigabytes
        <3>7. Total(limit)' = Total(Configured)
            BY <3>1, <3>5, <3>6
        <3>8. TickAlone' /\ RowsCurrent' /\ MoveCurrent' /\ RestoresConfigured' /\ OffConfigured'
            BY <2>1, <2>4, <3>1 DEF TickAlone, RowsCurrent, MoveCurrent, RestoresConfigured, OffConfigured
        <3>9. AddsUp'
            BY <2>4, <3>7 DEF AddsUp
        <3> QED
            BY <3>8, <3>9 DEF Steady
    <2> QED
        BY <2>5, <2>6 DEF Undisturbed
<1>5. CASE TickFails
    <2>1. tick' = NoTick /\ UNCHANGED <<sampler, enabled, switchOn, switchOff, baseline>>
        BY <1>5 DEF TickFails
    <2>2. TickOK'
        BY <2>1 DEF TickOK, NoTick
    <2>3. FlightOK' /\ CachedOK' /\ SwitchesOK'
        BY <1>0, <2>1 DEF FlightOK, CachedOK, SwitchesOK, NoTick, sampler
    <2>4. CASE tick.pc = "failed" /\ UNCHANGED <<docker, disturbed, events>>
        <3>1. Undisturbed'
            BY <2>1, <2>4, TickEnds
        <3> QED
            BY <1>0, <2>1, <2>2, <2>3, <2>4, <3>1 DEF Types, DockerOK, RestOK, docker
    <2>5. CASE \/ tick.pc = "target" /\ UpdateFails(tick.target, tick.more)
               \/ tick.pc = "donor" /\ UpdateFails(tick.donor, tick.less)
        <3>0. \E c \in Containers, g \in Nat \ {0} : UpdateFails(c, g)
            <4>1. /\ tick.target \in Containers /\ tick.donor \in Containers
                  /\ tick.more \in Nat \ {0} /\ tick.less \in Nat \ {0}
                BY <1>0, <2>5 DEF TickOK
            <4> QED
                BY <2>5, <4>1
        <3>1. DockerOK' /\ disturbed' = TRUE /\ events' \in 0..MaxEvents
            BY <1>0, <3>0, UpdateFailed
        <3> QED
            BY <1>0, <2>1, <2>2, <2>3, <3>1 DEF Types, RestOK, Undisturbed
    <2> QED
        BY <1>5, <2>4, <2>5 DEF TickFails
<1> QED
    BY <1>1, <1>2, <1>3, <1>4, <1>5 DEF TickGoesOn

-----------------------------------------------------------------------------
(* The switches, the restore, and what happens to the Console *)

LEMMA ReadMaybe ==
    ASSUME FlightOK, CachedOK, ReadCached
    PROVE  /\ FlightOK' /\ (flight'.pc = "taken" => flight' = flight)
           /\ Answered \in {"rows", "read"} /\ (Answered = "rows" => cached.fresh)
<1>1. CASE cached.fresh
    BY <1>1 DEF ReadCached, FlightOK, Answered
<1>2. CASE ~cached.fresh
    BY <1>2, Joined DEF ReadCached, Answered
<1> QED
    BY <1>1, <1>2

LEMMA SwitchStep ==
    ASSUME Types, Undisturbed, SwitchesOn \/ Captures \/ SwitchesOff
    PROVE  Types' /\ Undisturbed'
<1>0. FlightOK /\ CachedOK /\ TickOK /\ SwitchesOK /\ DockerOK /\ RestOK
    BY DEF Types
<1>1. CASE SwitchesOn
    <2>1. /\ ~enabled /\ Happens /\ enabled' = TRUE /\ baseline' = NoBaseline
          /\ switchOn' = Answered /\ ReadCached
          /\ UNCHANGED <<docker, cached, tick, switchOff, disturbed>>
        BY <1>1 DEF SwitchesOn
    <2>2. /\ FlightOK' /\ (flight'.pc = "taken" => flight' = flight)
          /\ Answered \in {"rows", "read"} /\ (Answered = "rows" => cached.fresh)
        BY <1>0, <2>1, ReadMaybe
    <2>3. CachedOK' /\ TickOK' /\ SwitchesOK' /\ DockerOK'
        BY <1>0, <2>1, <2>2 DEF CachedOK, TickOK, SwitchesOK, DockerOK, docker
    <2>4. RestOK'
        BY <1>0, <2>1, HappensOK, Zeros DEF RestOK
    <2>5. ASSUME ~disturbed' PROVE Steady'
        <3>1. Steady /\ tick.pc = "idle"
            BY <2>1, <2>5 DEF Undisturbed, Steady, TickAlone
        <3>2. TickAlone' /\ RowsCurrent' /\ MoveCurrent'
            BY <2>1, <3>1 DEF TickAlone, RowsCurrent, MoveCurrent
        <3>3. AddsUp'
            <4>1. Total(limit)' = Total(limit)
                BY <2>1 DEF Total, Gigabytes, docker
            <4> QED
                BY <2>1, <3>1, <4>1 DEF Steady, AddsUp
        <3>4. RestoresConfigured' /\ OffConfigured'
            BY <2>1, <3>1 DEF Steady, RestoresConfigured, OffConfigured, docker
        <3> QED
            BY <3>2, <3>3, <3>4 DEF Steady
    <2> QED
        BY <2>2, <2>3, <2>4, <2>5 DEF Types, Undisturbed
<1>2. CASE Captures
    <2>1. /\ switchOn \in {"rows", "failed"} /\ switchOn' = "idle"
          /\ baseline' = [c \in Containers |-> IF switchOn = "rows" /\ baseline[c] = 0
                                               THEN cached.rows.limit[c] ELSE baseline[c]]
          /\ UNCHANGED <<docker, cached, enabled, switchOff, events>>
        BY <1>2 DEF Captures
    <2>2. baseline' \in [Containers -> Nat]
        <3>1. switchOn = "rows" => \A c \in Containers : cached.rows.limit[c] \in Nat
            BY <1>0, Zeros DEF CachedOK, Rows
        <3>2. \A c \in Containers : baseline[c] \in Nat
            BY <1>0 DEF RestOK
        <3> QED
            BY <2>1, <3>1, <3>2
    <2>3. SwitchesOK' /\ DockerOK'
        BY <1>0, <2>1 DEF SwitchesOK, DockerOK, docker
    <2>4. CASE enabled /\ tick.pc = "idle"
        <3>1. TickStarts
            BY <1>2, <2>4 DEF Captures
        <3>2. FlightOK' /\ TickOK' /\ disturbed' \in BOOLEAN /\ tick'.pc = "read" /\ Undisturbed'
            BY <2>1, <2>4, <3>1, Started
        <3>3. CachedOK'
            BY <1>0, <2>1, <3>2 DEF CachedOK
        <3> QED
            BY <1>0, <2>1, <2>2, <2>3, <3>2, <3>3 DEF Types, RestOK
    <2>5. CASE ~(enabled /\ tick.pc = "idle")
        <3>1. UNCHANGED <<tick, flight, disturbed>>
            BY <1>2, <2>5 DEF Captures
        <3>2. FlightOK' /\ CachedOK' /\ TickOK'
            BY <1>0, <2>1, <3>1 DEF FlightOK, CachedOK, TickOK
        <3>3. Steady => RowsCurrent'
            BY <2>1, <3>1 DEF Steady, RowsCurrent, docker
        <3>4. Undisturbed'
            BY <2>1, <3>1, <3>3, Kept DEF docker
        <3> QED
            BY <1>0, <2>1, <2>2, <2>3, <3>1, <3>2, <3>4 DEF Types, RestOK
    <2> QED
        BY <2>4, <2>5
<1>3. CASE SwitchesOff
    <2>1. /\ enabled /\ switchOff.pc = "idle" /\ Happens /\ enabled' = FALSE
          /\ switchOff' = [NoSwitchOff EXCEPT !.pc = Answered] /\ ReadCached
          /\ disturbed' = (tick.pc # "idle")
          /\ UNCHANGED <<docker, cached, tick, switchOn, baseline>>
        BY <1>3 DEF SwitchesOff
    <2>2. /\ FlightOK' /\ Answered \in {"rows", "read"} /\ (Answered = "rows" => cached.fresh)
        BY <1>0, <2>1, ReadMaybe
    <2>3. switchOff'.pc = Answered /\ switchOff'.left = NoBaseline
          /\ switchOff' \in [pc : {"idle", "read", "rows", "failed", "restore"}, left : [Containers -> Nat]]
        BY <2>1, <2>2, Zeros DEF NoSwitchOff
    <2>4. CachedOK' /\ TickOK' /\ SwitchesOK' /\ DockerOK'
        BY <1>0, <2>1, <2>2, <2>3 DEF CachedOK, TickOK, SwitchesOK, DockerOK, docker
    <2>5. RestOK'
        BY <1>0, <2>1, HappensOK DEF RestOK
    <2>6. ASSUME ~disturbed' PROVE Steady'
        <3>1. tick'.pc = "idle" /\ switchOff'.pc \in {"rows", "read"}
            BY <2>1, <2>2, <2>3, <2>6
        <3> QED
            BY <3>1 DEF Steady, TickAlone, RowsCurrent, MoveCurrent, AddsUp, RestoresConfigured, OffConfigured
    <2> QED
        BY <2>2, <2>4, <2>5, <2>6 DEF Types, Undisturbed
<1> QED
    BY <1>1, <1>2, <1>3

LEMMA RestoreStep ==
    ASSUME Types, Undisturbed, OffGoesOn
    PROVE  Types' /\ Undisturbed'
<1>0. FlightOK /\ CachedOK /\ TickOK /\ SwitchesOK /\ DockerOK /\ RestOK
    BY DEF Types
<1>1. ASSUME NEW goal \in [Containers -> Nat], PlansWith(goal)
      PROVE  /\ FlightOK' /\ CachedOK' /\ TickOK' /\ SwitchesOK' /\ DockerOK'
             /\ switchOff'.pc = "restore" /\ switchOff'.left = goal
    <2>1. /\ switchOff' = [pc |-> "restore", left |-> goal]
          /\ UNCHANGED <<docker, sampler, enabled, tick, switchOn, baseline>>
        BY <1>1 DEF PlansWith
    <2> QED
        BY <1>0, <2>1 DEF FlightOK, CachedOK, TickOK, SwitchesOK, DockerOK, docker, sampler
<1>2. CASE Plans
    <2> DEFINE goal == [c \in Containers |-> IF cached.rows.limit[c] > 0 THEN Configured[c] ELSE baseline[c]]
    <2>1. switchOff.pc = "rows" /\ PlansWith(goal) /\ UNCHANGED <<disturbed, events>>
        BY <1>2 DEF Plans
    <2>2. cached.rows \in Rows
        BY <1>0, <2>1 DEF CachedOK
    <2>3. \A c \in Containers : cached.rows.limit[c] > 0
        BY <2>2, Zeros DEF Rows
    <2>4. goal = Configured
        BY <2>3, LimitAssumption
    <2> HIDE DEF goal
    <2>5. /\ FlightOK' /\ CachedOK' /\ TickOK' /\ SwitchesOK' /\ DockerOK'
          /\ switchOff'.pc = "restore" /\ switchOff'.left = Configured
        BY <1>1, <2>1, <2>4, Zeros
    <2>6. UNCHANGED <<enabled, tick, baseline>>
        BY <2>1 DEF PlansWith
    <2>7. RestOK'
        BY <1>0, <2>1, <2>6 DEF RestOK
    <2>8. ASSUME ~disturbed' PROVE Steady'
        <3>1. tick'.pc = "idle"
            BY <2>1, <2>6, <2>8 DEF Undisturbed, Steady, TickAlone
        <3> QED
            BY <2>5, <3>1
            DEF Steady, TickAlone, RowsCurrent, MoveCurrent, AddsUp, RestoresConfigured, OffConfigured
    <2> QED
        BY <2>5, <2>7, <2>8 DEF Types, Undisturbed
<1>3. CASE PlansBlind
    <2>1. /\ PlansWith(baseline) /\ disturbed' = TRUE
          /\ UNCHANGED events \/ Happens
        BY <1>3 DEF PlansBlind
    <2>2. FlightOK' /\ CachedOK' /\ TickOK' /\ SwitchesOK' /\ DockerOK'
        BY <1>0, <1>1, <2>1 DEF RestOK
    <2>3. RestOK'
        <3>1. events' \in 0..MaxEvents
            BY <1>0, <2>1, HappensOK DEF RestOK
        <3> QED
            BY <1>0, <2>1, <3>1 DEF RestOK, PlansWith
    <2> QED
        BY <2>1, <2>2, <2>3 DEF Types, Undisturbed
<1>4. ASSUME NEW c \in Containers, RestoresOne(c)
      PROVE  Types' /\ Undisturbed'
    <2> DEFINE g == switchOff.left[c]
    <2>1. /\ switchOff.pc = "restore" /\ g > 0
          /\ switchOff' = [switchOff EXCEPT !.left = [switchOff.left EXCEPT ![c] = 0]]
          /\ UNCHANGED <<sampler, enabled, tick, switchOn, baseline>>
        BY <1>4 DEF RestoresOne
    <2>2. g \in Nat \ {0} /\ switchOff.left \in [Containers -> Nat]
        BY <1>0, <2>1 DEF SwitchesOK
    <2>3. /\ switchOff'.pc = "restore" /\ switchOff'.left = [switchOff.left EXCEPT ![c] = 0]
          /\ SwitchesOK'
        BY <1>0, <2>1, <2>2 DEF SwitchesOK
    <2>4. FlightOK' /\ CachedOK' /\ TickOK'
        BY <1>0, <2>1, <2>3 DEF FlightOK, CachedOK, TickOK, sampler
    <2>5. CASE Update(c, g) /\ UNCHANGED <<disturbed, events>>
        <3>1. DockerOK' /\ limit' = [limit EXCEPT ![c] = g]
            BY <1>0, <2>2, <2>5, Updated
        <3>2. RestOK'
            BY <1>0, <2>1, <2>5 DEF RestOK
        <3>3. ASSUME ~disturbed' PROVE Steady'
            <4>1. tick'.pc = "idle" /\ RestoresConfigured
                BY <2>1, <2>5, <3>3 DEF Undisturbed, Steady, TickAlone
            <4>2. RestoresConfigured'
                <5> SUFFICES ASSUME NEW d \in Containers
                             PROVE  \/ switchOff'.left[d] = Configured[d]
                                    \/ switchOff'.left[d] = 0 /\ limit'[d] = Configured[d]
                    BY DEF RestoresConfigured
                <5>1. \/ switchOff.left[d] = Configured[d]
                      \/ switchOff.left[d] = 0 /\ limit[d] = Configured[d]
                    BY <2>1, <4>1 DEF RestoresConfigured
                <5>2. limit \in [Containers -> Nat \ {0}]
                    BY <1>0 DEF DockerOK, Limits
                <5>3. CASE d = c
                    BY <2>1, <2>2, <2>3, <3>1, <5>1, <5>2, <5>3
                <5>4. CASE d # c
                    BY <2>2, <2>3, <3>1, <5>1, <5>2, <5>4
                <5> QED
                    BY <5>3, <5>4
            <4> QED
                BY <2>3, <4>1, <4>2
                DEF Steady, TickAlone, RowsCurrent, MoveCurrent, AddsUp, OffConfigured
        <3> QED
            BY <2>3, <2>4, <3>1, <3>2, <3>3 DEF Types, Undisturbed
    <2>6. CASE UpdateFails(c, g)
        <3>1. DockerOK' /\ disturbed' = TRUE /\ events' \in 0..MaxEvents
            BY <1>0, <2>2, <2>6, UpdateFailed
        <3> QED
            BY <1>0, <2>1, <2>3, <2>4, <3>1 DEF Types, RestOK, Undisturbed
    <2> QED
        BY <1>4, <2>5, <2>6 DEF RestoresOne
<1>5. CASE Restored
    <2>1. /\ switchOff.pc = "restore" /\ switchOff.left = NoBaseline
          /\ switchOff' = NoSwitchOff /\ baseline' = NoBaseline
          /\ UNCHANGED <<docker, sampler, enabled, tick, switchOn, disturbed, events>>
        BY <1>5 DEF Restored
    <2>2. SwitchesOK' /\ switchOff'.pc = "idle"
        BY <1>0, <2>1, Zeros DEF SwitchesOK, NoSwitchOff
    <2>3. FlightOK' /\ CachedOK' /\ TickOK' /\ DockerOK' /\ RestOK'
        BY <1>0, <2>1, <2>2, Zeros DEF FlightOK, CachedOK, TickOK, DockerOK, RestOK, sampler, docker
    <2>4. ASSUME ~disturbed' PROVE Steady'
        <3>1. tick'.pc = "idle" /\ RestoresConfigured
            BY <2>1, <2>4 DEF Undisturbed, Steady, TickAlone
        <3>2. \A c \in Containers : limit[c] = Configured[c]
            <4>1. \A c \in Containers : switchOff.left[c] = 0 /\ Configured[c] # 0
                BY <2>1, LimitAssumption DEF NoBaseline
            <4> QED
                BY <2>1, <3>1, <4>1 DEF RestoresConfigured
        <3>3. limit' = Configured
            <4>1. limit = Configured
                BY <1>0, <3>2, LimitAssumption DEF DockerOK, Limits
            <4> QED
                BY <2>1, <4>1 DEF docker
        <3>4. AddsUp'
            BY <3>1, <3>3 DEF AddsUp, Total, Gigabytes
        <3> QED
            BY <2>2, <3>1, <3>3, <3>4
            DEF Steady, TickAlone, RowsCurrent, MoveCurrent, RestoresConfigured, OffConfigured
    <2> QED
        BY <2>2, <2>3, <2>4 DEF Types, Undisturbed
<1> QED
    BY <1>2, <1>3, <1>4, <1>5 DEF OffGoesOn

LEMMA OtherStep ==
    ASSUME Types, Undisturbed, Restarts \/ (\E c \in Containers : Stirs(c)) \/ UNCHANGED vars
    PROVE  Types' /\ Undisturbed'
<1>0. FlightOK /\ CachedOK /\ TickOK /\ SwitchesOK /\ DockerOK /\ RestOK
    BY DEF Types
<1>1. CASE Restarts
    <2>1. /\ Happens /\ flight' = NoFlight /\ cached' = NoCache
          /\ tick' = NoTick /\ switchOn' = "idle" /\ switchOff' = NoSwitchOff /\ baseline' = NoBaseline
          /\ disturbed' = (disturbed \/ tick.pc \in {"target", "donor"} \/ switchOff.pc # "idle")
          /\ UNCHANGED enabled
        BY <1>1 DEF Restarts
    <2>2. \/ UNCHANGED docker
          \/ tick.pc = "target" /\ Update(tick.target, tick.more)
          \/ tick.pc = "donor" /\ Update(tick.donor, tick.less)
        BY <1>1 DEF Restarts
    <2>3. DockerOK'
        <3>1. tick.pc \in {"target", "donor"} =>
                  /\ tick.target \in Containers /\ tick.donor \in Containers
                  /\ tick.more \in Nat \ {0} /\ tick.less \in Nat \ {0}
            BY <1>0 DEF TickOK
        <3>2. CASE UNCHANGED docker
            BY <1>0, <3>2 DEF DockerOK, docker
        <3>3. CASE tick.pc = "target" /\ Update(tick.target, tick.more)
            BY <1>0, <3>1, <3>3, Updated
        <3>4. CASE tick.pc = "donor" /\ Update(tick.donor, tick.less)
            BY <1>0, <3>1, <3>4, Updated
        <3> QED
            BY <2>2, <3>2, <3>3, <3>4
    <2>4. FlightOK' /\ CachedOK'
        BY <2>1 DEF FlightOK, CachedOK, NoFlight, NoCache, NoTick, NoSwitchOff
    <2>5. TickOK' /\ SwitchesOK' /\ tick'.pc = "idle" /\ switchOff'.pc = "idle"
        BY <2>1, Zeros DEF TickOK, SwitchesOK, NoTick, NoSwitchOff
    <2>6. RestOK'
        BY <1>0, <2>1, HappensOK, Zeros DEF RestOK
    <2>7. ASSUME ~disturbed' PROVE Steady'
        <3>1. Steady /\ tick.pc \notin {"target", "donor"} /\ switchOff.pc = "idle"
            BY <2>1, <2>7 DEF Undisturbed
        <3>2. limit' = limit
            BY <2>2, <3>1 DEF docker
        <3>3. Total(limit)' = Total(limit)
            BY <3>2 DEF Total, Gigabytes
        <3>4. AddsUp'
            BY <2>5, <3>1, <3>3 DEF Steady, AddsUp
        <3>5. OffConfigured'
            BY <2>1, <3>1, <3>2 DEF Steady, OffConfigured
        <3> QED
            BY <2>5, <3>4, <3>5 DEF Steady, TickAlone, RowsCurrent, MoveCurrent, RestoresConfigured
    <2> QED
        BY <2>3, <2>4, <2>5, <2>6, <2>7 DEF Types, Undisturbed
<1>2. ASSUME NEW c \in Containers, Stirs(c) PROVE Types' /\ Undisturbed'
    <2>1. /\ Happens /\ used' \in [Containers -> Nat]
          /\ UNCHANGED <<limit, sampler, enabled, tick, switchOn, switchOff, baseline, disturbed>>
        <3>1. PICK u \in {1, limit[c]} : used' = [used EXCEPT ![c] = u]
            BY <1>2 DEF Stirs
        <3>2. u \in Nat
            BY <1>0, Zeros DEF DockerOK
        <3>3. used' \in [Containers -> Nat]
            BY <1>0, <3>1, <3>2 DEF DockerOK
        <3> QED
            BY <1>2, <3>3 DEF Stirs
    <2>2. Types'
        <3>1. events' \in 0..MaxEvents
            BY <1>0, <2>1, HappensOK DEF RestOK
        <3> QED
            BY <1>0, <2>1, <3>1 DEF Types, FlightOK, CachedOK, TickOK, SwitchesOK, DockerOK, RestOK, sampler
    <2>3. Steady => RowsCurrent'
        BY <2>1 DEF Steady, RowsCurrent, sampler
    <2>4. Undisturbed'
        BY <2>1, <2>3, Kept
    <2> QED
        BY <2>2, <2>4
<1>3. CASE UNCHANGED vars
    <2>1. Steady => RowsCurrent'
        BY <1>3 DEF Steady, RowsCurrent, vars, docker, sampler
    <2>2. Undisturbed'
        BY <1>3, <2>1, Kept DEF vars, docker, sampler
    <2> QED
        BY <1>0, <1>3, <2>2
        DEF Types, FlightOK, CachedOK, TickOK, SwitchesOK, DockerOK, RestOK, vars, docker, sampler
<1> QED
    BY <1>1, <1>2, <1>3

-----------------------------------------------------------------------------
(* The theorem *)

IInv == Types /\ Undisturbed

LEMMA InitHolds == Init => IInv
<1> SUFFICES ASSUME Init PROVE IInv
    OBVIOUS
<1>1. Types
    BY InitTypes
<1>2. /\ limit = Configured /\ enabled = TRUE
      /\ tick.pc = "idle" /\ switchOff.pc = "idle"
    BY DEF Init, NoTick, NoSwitchOff
<1>3. Steady
    BY <1>2 DEF Steady, TickAlone, RowsCurrent, MoveCurrent, AddsUp, RestoresConfigured, OffConfigured
<1> QED
    BY <1>1, <1>3 DEF IInv, Undisturbed

LEMMA Invariance == Spec => []IInv
<1>1. IInv /\ [Next]_vars => IInv'
    BY SamplerStep, TickStep, SwitchStep, RestoreStep, OtherStep DEF IInv, Next, Sampling
<1> QED
    BY <1>1, InitHolds, PTL DEF Spec

\* Once nobody is at work the limits of all servers add up to what is configured, and are
\* what is configured when the balancer is off: no interleaving of ticks, switches and
\* shared reads makes or loses a gigabyte but by the four exceptions that are counted.
THEOREM MovesNothingAway == Spec => []LimitsAddUp
<1>1. IInv => LimitsAddUp
    BY DEF IInv, Undisturbed, Steady, AddsUp, OffConfigured, LimitsAddUp, Quiet
<1> QED
    BY <1>1, Invariance, PTL

\* No limit is ever set to zero, and a tick that moves a gigabyte has two servers for it.
THEOREM BalancerTypes == Spec => []TypeOK
<1>1. IInv => TypeOK
    <2> SUFFICES ASSUME IInv PROVE TypeOK
        OBVIOUS
    <2>1. limit \in [Containers -> Nat \ {0}] /\ used \in [Containers -> Nat]
        BY DEF IInv, Types, DockerOK, Limits
    <2> QED
        BY <2>1 DEF IInv, Types, FlightOK, CachedOK, TickOK, SwitchesOK, RestOK, TypeOK
<1> QED
    BY <1>1, Invariance, PTL
=============================================================================
