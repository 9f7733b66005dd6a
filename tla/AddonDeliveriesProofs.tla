----------------------- MODULE AddonDeliveriesProofs -----------------------
(***************************************************************************)
(* Proofs about AddonDeliveries, for any requests, any number of ticks and *)
(* of mishaps, any bound of a tick and any delay of a deferral: the types, *)
(* that every open record is found by its key, and that the service keeps  *)
(* the promise of AtMostOnce.                                              *)
(***************************************************************************)
EXTENDS AddonDeliveries, TLAPS

Statuses == {"none", "pending", "processing", "delivered", "failed", "uncertain"}

LEMMA TypeInit == Init => TypeOK
<1>. SUFFICES ASSUME Init PROVE TypeOK
    OBVIOUS
<1>1. RecordsOK
    BY DeferAssumption DEF Init, RecordsOK
<1>2. TicksOK
    BY DeferAssumption DEF Init, TicksOK, NoTick, NoKey
<1>3. SetsOK
    BY DEF Init, SetsOK
<1>4. loaded \in BOOLEAN /\ allowed \in BOOLEAN
    BY DEF Init
<1>5. mishaps \in 0..MaxMishaps
    BY BoundAssumption DEF Init
<1>. QED  BY <1>1, <1>2, <1>3, <1>4, <1>5 DEF TypeOK, FlagsOK

LEMMA RecordsNext == TypeOK /\ [Next]_vars => RecordsOK'
<1>. SUFFICES ASSUME TypeOK, [Next]_vars PROVE RecordsOK'
    OBVIOUS
<1>. USE DeferAssumption DEF RecordsOK, disk, memory, world
<1>0. RecordsOK
    BY DEF TypeOK
<1>1. ASSUME NEW r \in Requests, Operate(r) PROVE RecordsOK'
    BY <1>0, <1>1 DEF Operate, Begin
<1>2. ASSUME NEW r \in Requests, Request(r) \/ RequestWaits(r) \/ WaiterRuns(r) PROVE RecordsOK'
    BY <1>0, <1>1, <1>2 DEF Request, RequestWaits, WaiterRuns
<1>3. ASSUME NEW r \in Requests, Hand(r) PROVE RecordsOK'
    BY <1>0, <1>3 DEF Hand
<1>4. ASSUME NEW r \in Requests, Delivered(r) \/ Failed(r) \/ Deferred(r) PROVE RecordsOK'
    BY <1>0, <1>4 DEF Delivered, Failed, Deferred, Settle
<1>5. ASSUME NEW r \in Requests, Unwritten(r) PROVE RecordsOK'
    BY <1>0, <1>5 DEF Unwritten
<1>6. CASE Interval
    BY <1>0, <1>6 DEF Interval
<1>7. ASSUME NEW t \in Ticks, Sweep(t) PROVE RecordsOK'
    BY <1>0, <1>7 DEF Sweep, SweepFull, SweepOut, SweepTo
<1>8. CASE Crash \/ Uninstall \/ SetAllowed
    BY <1>0, <1>8 DEF Crash, Uninstall, SetAllowed
<1>9. ASSUME NEW r \in Requests, PlayerMoves(r) PROVE RecordsOK'
    BY <1>0, <1>9 DEF PlayerMoves
<1>10. CASE UNCHANGED vars
    BY <1>0, <1>10 DEF vars
<1>. QED  BY <1>2, <1>3, <1>4, <1>5, <1>6, <1>7, <1>8, <1>9, <1>10 DEF Next, Ends

TickRecord == [active: BOOLEAN, left: SUBSET Requests, count: 0..MaxPerTick,
               on: Requests \cup {NoKey}]

LEMMA NoTickOK ==
    /\ NoTick \in TickRecord
    /\ \A K \in SUBSET Requests : [NoTick EXCEPT !.active = TRUE, !.left = K] \in TickRecord
<1>1. NoTick \in TickRecord
    BY DeferAssumption DEF NoTick, NoKey, TickRecord
<1>2. ASSUME NEW K \in SUBSET Requests
      PROVE  [NoTick EXCEPT !.active = TRUE, !.left = K] \in TickRecord
    BY <1>1 DEF TickRecord
<1>. QED  BY <1>1, <1>2

LEMMA TicksNext == TypeOK /\ [Next]_vars => TicksOK'
<1>. SUFFICES ASSUME TypeOK, [Next]_vars PROVE TicksOK'
    OBVIOUS
<1>. USE DEF TicksOK, memory
<1>0. tick \in [Ticks -> TickRecord]
    BY DEF TypeOK, TickRecord
<1>. SUFFICES tick' \in [Ticks -> TickRecord]
    BY DEF TickRecord
<1>1. ASSUME NEW r \in Requests, Delivered(r) \/ Failed(r) \/ Deferred(r) PROVE tick' \in [Ticks -> TickRecord]
    BY <1>0, <1>1 DEF Delivered, Failed, Deferred, Settle, TickRecord, NoKey
<1>2. ASSUME NEW r \in Requests, Unwritten(r) PROVE tick' \in [Ticks -> TickRecord]
    BY <1>0, <1>2, NoTickOK DEF Unwritten
<1>3. CASE Interval
    <2>1. LoadedKeys \subseteq Requests
        BY DEF LoadedKeys, TypeOK, SetsOK
    <2>. QED  BY <1>0, <1>3, <2>1, NoTickOK DEF Interval
<1>4. ASSUME NEW t \in Ticks, Sweep(t) PROVE tick' \in [Ticks -> TickRecord]
    <2>1. CASE SweepFull(t) \/ SweepOut(t)
        BY <1>0, <2>1, NoTickOK DEF SweepFull, SweepOut
    <2>2. ASSUME NEW r \in tick[t].left, SweepTo(t, r), ~(tick[t].count >= MaxPerTick) PROVE tick' \in [Ticks -> TickRecord]
        <3>1. tick[t].left \subseteq Requests /\ tick[t].count \in 0..MaxPerTick
            BY <1>0 DEF TickRecord
        <3>2. tick[t].count + 1 \in 0..MaxPerTick
            BY <2>2, <3>1, DeferAssumption
        <3>3. tick'[t] \in TickRecord /\ tick' = [tick EXCEPT ![t] = tick'[t]]
            BY <1>0, <2>2, <3>1, <3>2 DEF SweepTo, TickRecord, NoKey
        <3>. QED  BY <1>0, <3>3
    <2>3. CASE tick[t].count >= MaxPerTick
        BY <1>4, <2>1, <2>3 DEF Sweep
    <2>4. CASE ~(tick[t].count >= MaxPerTick)
        BY <1>4, <2>1, <2>2, <2>4 DEF Sweep
    <2>. QED  BY <2>3, <2>4
<1>5. CASE Crash
    BY <1>5, NoTickOK DEF Crash
<1>6. CASE tick' = tick
    BY <1>0, <1>6
<1>. QED  BY <1>1, <1>2, <1>3, <1>4, <1>5, <1>6
          DEF Next, Ends, Request, RequestWaits, WaiterRuns, Hand, Uninstall, SetAllowed,
              PlayerMoves, vars

LEMMA SetsNext == TypeOK /\ [Next]_vars => SetsOK'
<1>. SUFFICES ASSUME TypeOK, [Next]_vars PROVE SetsOK'
    OBVIOUS
<1>. USE DEF SetsOK, disk, memory, world
<1>0. SetsOK
    BY DEF TypeOK
<1>1. ASSUME NEW r \in Requests, Request(r) \/ RequestWaits(r) \/ WaiterRuns(r) PROVE SetsOK'
    BY <1>0, <1>1 DEF Request, RequestWaits, WaiterRuns, Operate
<1>2. ASSUME NEW r \in Requests, Ends(r) \/ Unwritten(r) \/ PlayerMoves(r) PROVE SetsOK'
    BY <1>0, <1>2 DEF Ends, Hand, Delivered, Failed, Deferred, Settle, Unwritten, PlayerMoves
<1>3. CASE Interval
    BY <1>0, <1>3 DEF Interval, LoadedKeys
<1>4. ASSUME NEW t \in Ticks, Sweep(t) PROVE SetsOK'
    BY <1>0, <1>4 DEF Sweep, SweepFull, SweepOut, SweepTo
<1>5. CASE Crash \/ Uninstall \/ SetAllowed \/ UNCHANGED vars
    BY <1>0, <1>5 DEF Crash, Uninstall, SetAllowed, vars
<1>. QED  BY <1>1, <1>2, <1>3, <1>4, <1>5 DEF Next

LEMMA FlagsNext == TypeOK /\ [Next]_vars => FlagsOK'
<1>. SUFFICES ASSUME TypeOK, [Next]_vars PROVE FlagsOK'
    OBVIOUS
<1>. USE BoundAssumption DEF disk, memory, world
<1>1. loaded' \in BOOLEAN
    BY DEF TypeOK, FlagsOK, Next, Ends, vars, Request, RequestWaits, WaiterRuns, Hand, Delivered,
           Failed, Deferred, Settle, Unwritten, Interval, Sweep, Crash, Uninstall, SetAllowed, PlayerMoves
<1>2. allowed' \in BOOLEAN
    BY DEF TypeOK, FlagsOK, Next, Ends, vars, Request, RequestWaits, WaiterRuns, Hand, Delivered,
           Failed, Deferred, Settle, Unwritten, Interval, Sweep, Crash, Uninstall, SetAllowed, PlayerMoves
<1>3. mishaps' \in 0..MaxMishaps
    BY DEF TypeOK, FlagsOK, Next, Ends, vars, Request, RequestWaits, WaiterRuns, Hand, Delivered,
           Failed, Deferred, Settle, Unwritten, Interval, Sweep, Crash, Uninstall, SetAllowed, PlayerMoves
<1>. QED  BY <1>1, <1>2, <1>3 DEF FlagsOK

LEMMA TypeNext == TypeOK /\ [Next]_vars => TypeOK'
BY RecordsNext, TicksNext, SetsNext, FlagsNext DEF TypeOK

\* The types of the service's state, and of the ticks in progress.
THEOREM DeliveryTypes == Spec => []TypeOK
BY TypeInit, TypeNext, PTL DEF Spec

-----------------------------------------------------------------------------
(* What an attempt under way knows of its reward and its record *)

AttemptSound ==
    \A r \in Requests :
        /\ attempt[r] = "asked" => grants[r] = 0
        /\ attempt[r] = "handed" => grants[r] = 1
        /\ Busy(r) => status[r] \in {"none", "processing"}
        /\ ~Busy(r) /\ status[r] = "pending" => grants[r] = 0

IInv == TypeOK /\ AttemptSound

LEMMA AttemptInit == Init => AttemptSound
BY DEF Init, AttemptSound, Busy

LEMMA AttemptNext == IInv /\ [Next]_vars => AttemptSound'
<1>. SUFFICES ASSUME IInv, [Next]_vars PROVE AttemptSound'
    OBVIOUS
<1>. USE DEF AttemptSound, Busy, disk, memory, world
<1>0. AttemptSound /\ RecordsOK
    BY DEF IInv, TypeOK
<1>1. ASSUME NEW r \in Requests, Operate(r), ~Busy(r) PROVE AttemptSound'
    BY <1>0, <1>1 DEF Operate, Begin, RecordsOK
<1>2. ASSUME NEW r \in Requests, Request(r) \/ RequestWaits(r) \/ WaiterRuns(r) PROVE AttemptSound'
    BY <1>0, <1>1, <1>2 DEF Request, RequestWaits, WaiterRuns, Free
<1>3. ASSUME NEW r \in Requests, Hand(r) PROVE AttemptSound'
    BY <1>0, <1>3 DEF Hand, RecordsOK
<1>4. ASSUME NEW r \in Requests, Delivered(r) \/ Failed(r) \/ Deferred(r) PROVE AttemptSound'
    BY <1>0, <1>4 DEF Delivered, Failed, Deferred, Settle, RecordsOK
<1>5. ASSUME NEW r \in Requests, Unwritten(r) PROVE AttemptSound'
    BY <1>0, <1>5 DEF Unwritten, RecordsOK
<1>6. CASE Interval
    BY <1>0, <1>6 DEF Interval
<1>7. ASSUME NEW t \in Ticks, Sweep(t) PROVE AttemptSound'
    <2>1. CASE SweepFull(t) \/ SweepOut(t)
        BY <1>0, <1>7, <2>1 DEF Sweep, SweepFull, SweepOut, Interrupted, Free, RecordsOK
    <2>2. ASSUME NEW r \in tick[t].left, SweepTo(t, r) PROVE AttemptSound'
        <3>1. status[r] = "pending" /\ ~Busy(r)
            BY <2>2 DEF SweepTo, Ready, Free
        <3>2. r \in Requests
            BY <2>2 DEF IInv, TypeOK, TicksOK
        <3>. QED  BY <1>0, <1>7, <2>2, <3>1, <3>2 DEF Sweep, SweepTo, Interrupted, Free, RecordsOK
    <2>. QED  BY <1>7, <2>1, <2>2 DEF Sweep
<1>8. CASE Crash \/ Uninstall \/ SetAllowed
    BY <1>0, <1>8 DEF Crash, Uninstall, SetAllowed
<1>9. ASSUME NEW r \in Requests, PlayerMoves(r) PROVE AttemptSound'
    BY <1>0, <1>9 DEF PlayerMoves
<1>10. CASE UNCHANGED vars
    BY <1>0, <1>10 DEF vars
<1>. QED  BY <1>2, <1>3, <1>4, <1>5, <1>6, <1>7, <1>8, <1>9, <1>10 DEF Next, Ends

LEMMA Attempts == Spec => []IInv
BY TypeInit, TypeNext, AttemptInit, AttemptNext, PTL DEF Spec, IInv

-----------------------------------------------------------------------------
(* Nobody is forgotten *)

LEMMA KeysInit == Init => NobodyForgotten
BY DEF Init, NobodyForgotten

LEMMA KeysNext == IInv /\ NobodyForgotten /\ [Next]_vars => NobodyForgotten'
<1>. SUFFICES ASSUME IInv, NobodyForgotten, [Next]_vars PROVE NobodyForgotten'
    OBVIOUS
<1>. USE DEF NobodyForgotten, Open, disk, memory, world
<1>0. AttemptSound /\ RecordsOK
    BY DEF IInv, TypeOK
<1>1. ASSUME NEW r \in Requests, Operate(r), UNCHANGED loaded PROVE NobodyForgotten'
    BY <1>0, <1>1 DEF Operate, Begin, RecordsOK
<1>2. ASSUME NEW r \in Requests, Request(r) \/ RequestWaits(r) \/ WaiterRuns(r)
      PROVE  NobodyForgotten'
    BY <1>0, <1>1, <1>2 DEF Request, RequestWaits, WaiterRuns
<1>3. ASSUME NEW r \in Requests, Hand(r) \/ PlayerMoves(r) PROVE NobodyForgotten'
    BY <1>3 DEF Hand, PlayerMoves
<1>4. ASSUME NEW r \in Requests, Delivered(r) \/ Failed(r) PROVE NobodyForgotten'
    BY <1>0, <1>4 DEF Delivered, Failed, Settle, RecordsOK
\* A deferred record was "processing" and has its key, or it was removed.
<1>5. ASSUME NEW r \in Requests, Deferred(r) PROVE NobodyForgotten'
    BY <1>0, <1>5 DEF Deferred, Settle, RecordsOK, AttemptSound, Busy
<1>6. ASSUME NEW r \in Requests, Unwritten(r) PROVE NobodyForgotten'
    BY <1>6 DEF Unwritten
<1>7. CASE Interval
    BY <1>7 DEF Interval, LoadedKeys
<1>8. ASSUME NEW t \in Ticks, Sweep(t) PROVE NobodyForgotten'
    <2>1. CASE SweepFull(t) \/ SweepOut(t)
        BY <1>0, <1>8, <2>1 DEF Sweep, SweepFull, SweepOut, Interrupted, RecordsOK
    <2>2. ASSUME NEW r \in tick[t].left, SweepTo(t, r) PROVE NobodyForgotten'
        <3>1. status[r] = "pending"
            BY <2>2 DEF SweepTo, Ready
        <3>. QED  BY <1>0, <1>8, <2>2, <3>1 DEF Sweep, SweepTo, Interrupted, RecordsOK
    <2>. QED  BY <1>8, <2>1, <2>2 DEF Sweep
<1>9. CASE Crash \/ Uninstall \/ SetAllowed
    BY <1>9 DEF Crash, Uninstall, SetAllowed
<1>10. CASE UNCHANGED vars
    BY <1>10 DEF vars
<1>. QED  BY <1>2, <1>3, <1>4, <1>5, <1>6, <1>7, <1>8, <1>9, <1>10 DEF Next, Ends

\* A tick finds every open record by its key, unless an attempt wrote the record
\* again after an uninstall had removed it.
THEOREM DeliveriesFound == Spec => []NobodyForgotten
BY Attempts, KeysInit, KeysNext, PTL DEF Spec

-----------------------------------------------------------------------------
(* The promise is kept *)

LEMMA PromiseInit == Init => Promise!Init
BY DEF Init, Promise!Init, Told, Busy, Open

LEMMA PromiseNext == IInv /\ [Next]_vars => [Promise!Next]_<<Told, grants>>
<1>. SUFFICES ASSUME IInv, [Next]_vars PROVE [Promise!Next]_<<Told, grants>>
    OBVIOUS
<1>. USE DEF Told, Busy, Open, disk, memory, world
<1>0. AttemptSound /\ RecordsOK
    BY DEF IInv, TypeOK
<1>1. ASSUME NEW r \in Requests, Operate(r), ~Busy(r)
      PROVE  Promise!Accept(r) \/ UNCHANGED <<Told, grants>>
    BY <1>0, <1>1 DEF Operate, Begin, RecordsOK, Promise!Accept
<1>2. ASSUME NEW r \in Requests, Request(r) \/ WaiterRuns(r)
      PROVE  Promise!Accept(r) \/ UNCHANGED <<Told, grants>>
    BY <1>1, <1>2 DEF Request, WaiterRuns, Free
<1>3. ASSUME NEW r \in Requests, Hand(r) PROVE Promise!Grant(r)
    <2>1. grants[r] = 0 /\ grants' = [grants EXCEPT ![r] = 1]
        <3>1. grants[r] = 0 /\ grants' = [grants EXCEPT ![r] = grants[r] + 1]
            BY <1>0, <1>3 DEF Hand, AttemptSound
        <3>2. grants[r] + 1 = 1
            BY <3>1
        <3>. QED  BY <3>1, <3>2
    <2>2. Told[r] = "open" /\ Told' = Told
        BY <1>0, <1>3 DEF Hand, RecordsOK
    <2>. QED  BY <2>1, <2>2 DEF Promise!Grant
<1>4. ASSUME NEW r \in Requests, Delivered(r) PROVE Promise!Conclude(r, "delivered")
    BY <1>0, <1>4 DEF Delivered, Settle, RecordsOK, AttemptSound, Promise!Conclude
<1>5. ASSUME NEW r \in Requests, Failed(r) PROVE Promise!Conclude(r, "failed")
    BY <1>0, <1>5 DEF Failed, Settle, RecordsOK, Promise!Conclude
<1>6. ASSUME NEW r \in Requests, Deferred(r) PROVE UNCHANGED <<Told, grants>>
    BY <1>0, <1>6 DEF Deferred, Settle, RecordsOK
<1>7. ASSUME NEW r \in Requests, Unwritten(r)
      PROVE  Promise!Forget({r}) \/ UNCHANGED <<Told, grants>>
    BY <1>0, <1>7 DEF Unwritten, RecordsOK, AttemptSound, Promise!Forget
<1>8. ASSUME NEW t \in Ticks, Sweep(t)
      PROVE  \E R \in SUBSET Requests : Promise!GiveUp(R)
    <2>1. tick[t].left \subseteq Requests
        BY DEF IInv, TypeOK, TicksOK
    <2>2. CASE SweepFull(t)
        <3>1. Promise!GiveUp({})
            BY <1>0, <1>8, <2>2 DEF Sweep, SweepFull, Promise!GiveUp
        <3>. QED  BY <3>1
    <2>3. CASE SweepOut(t)
        <3>1. Promise!GiveUp(Interrupted(tick[t].left))
            BY <1>0, <1>8, <2>1, <2>3 DEF Sweep, SweepOut, Interrupted, Free, RecordsOK, Promise!GiveUp
        <3>2. Interrupted(tick[t].left) \in SUBSET Requests
            BY <2>1 DEF Interrupted
        <3>. QED  BY <3>1, <3>2 DEF Promise!GiveUp
    <2>4. ASSUME NEW r \in tick[t].left, SweepTo(t, r)
          PROVE  \E R \in SUBSET Requests : Promise!GiveUp(R)
        <3>. DEFINE passed == {k \in tick[t].left : k < r}
        <3>1. status[r] = "pending" /\ ~Busy(r) /\ r \in Requests
            BY <2>1, <2>4 DEF SweepTo, Ready, Free
        <3>2. Interrupted(passed) \in SUBSET Requests
            BY <2>1 DEF Interrupted
        <3>3. Promise!GiveUp(Interrupted(passed))
            BY <1>0, <1>8, <2>1, <2>4, <3>1, <3>2
               DEF Sweep, SweepTo, Interrupted, Free, RecordsOK, Promise!GiveUp
        <3>. QED  BY <3>2, <3>3 DEF Promise!GiveUp
    <2>. QED  BY <1>8, <2>2, <2>3, <2>4 DEF Sweep
<1>9. CASE Crash
    <2>. DEFINE R == {r \in Requests : Busy(r) /\ status[r] = "none"}
    <2>1. Promise!Forget(R)
        BY <1>0, <1>9 DEF Crash, RecordsOK, AttemptSound, Promise!Forget
    <2>2. R \in SUBSET Requests
        OBVIOUS
    <2>. HIDE DEF R
    <2>. QED  BY <2>1, <2>2 DEF Promise!Next, Promise!Forget
<1>10. CASE Uninstall
    <2>. DEFINE R == {r \in Requests : ~Busy(r)}
    <2>1. Promise!Forget(R)
        BY <1>0, <1>10 DEF Uninstall, RecordsOK, Promise!Forget
    <2>2. R \in SUBSET Requests
        OBVIOUS
    <2>. HIDE DEF R
    <2>. QED  BY <2>1, <2>2 DEF Promise!Next, Promise!Forget
<1>11. ASSUME UNCHANGED <<status, attempt, grants>> PROVE UNCHANGED <<Told, grants>>
    BY <1>11
<1>12. CASE Interval \/ SetAllowed \/ UNCHANGED vars
    BY <1>11, <1>12 DEF Interval, SetAllowed, vars
<1>13. ASSUME NEW r \in Requests, RequestWaits(r) \/ PlayerMoves(r) PROVE UNCHANGED <<Told, grants>>
    BY <1>11, <1>13 DEF RequestWaits, PlayerMoves
<1>. QED  BY <1>2, <1>3, <1>4, <1>5, <1>6, <1>7, <1>8, <1>9, <1>10, <1>12, <1>13
          DEF Next, Ends, Promise!Next

\* Whatever repeats, overlapping ticks, crashes, lost writes and uninstalls do, the
\* reward of a request arrives at most once, and what its addon is told is final and
\* true.
THEOREM DeliversAtMostOnce == Spec => KeepsPromise
BY Attempts, PromiseInit, PromiseNext, PTL DEF Spec, KeepsPromise, Promise!Spec
=============================================================================
