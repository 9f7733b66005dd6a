------------------------- MODULE SingleFlightProofs -------------------------
(***************************************************************************)
(* Theorems about SingleFlight, for any number of callers and passes: the  *)
(* chain invariant, that passes never overlap, that the tick never waits,  *)
(* and that the passes implement SerialPasses.                             *)
(***************************************************************************)
EXTENDS SingleFlight, TLAPS

LEMMA InitChain == Init => ChainInv
BY BoundAssumption DEF Init, ChainInv, TypeOK, NoCall, Passes, Status

\* Making a pass behind the last one made, or behind none when all have settled.
LEMMA MakeChain ==
    ASSUME ChainInv, NEW c \in Callers, NEW plain \in BOOLEAN, NEW behind,
           Make(c, plain, behind),
           \/ behind = made /\ made # 0
           \/ behind = 0 /\ \A p \in 1..made : Settled(p)
    PROVE  ChainInv'
<1>. DEFINE new == made + 1
<1>1. made \in Nat /\ new \in Passes /\ behind \in 0..MaxPasses
    BY BoundAssumption DEF ChainInv, TypeOK, Make, Passes
<1>2. /\ made' = new /\ tail' = new
      /\ status' = [status EXCEPT ![new] = "queued"]
      /\ after' = [after EXCEPT ![new] = behind]
      /\ call' = [call EXCEPT ![c] = [pc |-> "own", plain |-> plain, observed |-> 0,
                                      mine |-> new]]
    BY DEF Make
<1>3. TypeOK'
    BY <1>1, <1>2, BoundAssumption DEF ChainInv, TypeOK, Passes, Status
<1>4. /\ status'[new] = "queued" /\ after'[new] = behind
      /\ \A p \in 1..made : p \in Passes /\ p # new
      /\ \A p \in Passes : p # new => status'[p] = status[p] /\ after'[p] = after[p]
    BY <1>1, <1>2, BoundAssumption DEF ChainInv, TypeOK, Passes
<1>5. \A p \in 1..made : Settled(p) => Settled(p)'
    BY <1>4 DEF Settled
<1>6. \A p \in Passes : status'[p] = "unmade" <=> p > made'
    BY <1>1, <1>2, <1>4 DEF ChainInv, Passes
<1>7. \A q \in 1..made' : q \in 1..made \/ q = new
    BY <1>1, <1>2
<1>8. \A q \in 1..made' : \/ after'[q] = q - 1
                          \/ after'[q] = 0 /\ \A p \in 1..(q - 1) : Settled(p)'
    <2>1. CASE behind = made
        BY <1>1, <1>4, <1>5, <1>7, <2>1 DEF ChainInv
    <2>2. CASE behind = 0 /\ \A p \in 1..made : Settled(p)
        BY <1>1, <1>4, <1>5, <1>7, <2>2 DEF ChainInv
    <2>. QED  BY <2>1, <2>2
<1>9. \A q \in 1..made' : status'[q] # "queued" => \A p \in 1..(q - 1) : Settled(p)'
    BY <1>1, <1>4, <1>5, <1>7 DEF ChainInv
<1>10. \A d \in Callers : /\ call'[d].pc = "wait" => call'[d].observed \in 1..made'
                          /\ call'[d].pc = "own" => call'[d].mine \in 1..made'
    BY <1>1, <1>2 DEF ChainInv, TypeOK
<1>11. made' # 0 /\ tail' = made'
    BY <1>1, <1>2
<1>. QED  BY <1>3, <1>6, <1>8, <1>9, <1>10, <1>11 DEF ChainInv, Settled

\* Once the last pass made has settled, every pass has.
LEMMA LastSettled ==
    ASSUME ChainInv, made > 0, Settled(made)
    PROVE  \A p \in 1..made : Settled(p)
<1>1. made \in 1..made
    BY DEF ChainInv, TypeOK
<1>2. \A p \in 1..(made - 1) : Settled(p)
    BY <1>1 DEF ChainInv, Settled
<1>3. \A p \in 1..made : p = made \/ p \in 1..(made - 1)
    BY <1>1
<1>. QED  BY <1>2, <1>3

\* A pass that moves on from where its promise is, once it may.
LEMMA StatusChain ==
    ASSUME ChainInv, NEW p \in Passes, NEW s \in {"running", "settled", "wedged"},
           status[p] \in {"queued", "running"},
           status[p] = "queued" => CanBegin(p),
           status' = [status EXCEPT ![p] = s],
           UNCHANGED <<made, tail, after, call>>
    PROVE  ChainInv'
<1>1. p \in 1..made
    BY DEF ChainInv, TypeOK, Passes
<1>2. \A q \in 1..(p - 1) : Settled(q)
    <2>1. CASE status[p] # "queued"
        BY <1>1, <2>1 DEF ChainInv
    <2>2. CASE status[p] = "queued" /\ after[p] # 0
        <3>1. after[p] = p - 1 /\ p - 1 \in 1..made /\ Settled(p - 1)
            BY <1>1, <2>2 DEF ChainInv, TypeOK, CanBegin, Passes
        <3>2. \A q \in 1..((p - 1) - 1) : Settled(q)
            BY <3>1 DEF ChainInv, Settled
        <3>3. \A q \in 1..(p - 1) : q = p - 1 \/ q \in 1..((p - 1) - 1)
            BY <3>1
        <3>. QED  BY <3>1, <3>2, <3>3
    <2>3. CASE status[p] = "queued" /\ after[p] = 0
        BY <1>1, <2>3 DEF ChainInv
    <2>. QED  BY <2>1, <2>2, <2>3
<1>3. \A q \in Passes : Settled(q) => Settled(q)'
    BY DEF ChainInv, TypeOK, Settled
<1>4. 1..made \subseteq Passes
    BY BoundAssumption DEF ChainInv, TypeOK, Passes
<1>5. TypeOK'
    BY DEF ChainInv, TypeOK, Status
<1>6. \A q \in 1..made : status'[q] # "queued" => \A r \in 1..(q - 1) : Settled(r)'
    <2>. TAKE q \in 1..made
    <2>1. \A r \in 1..(q - 1) : r \in 1..made
        BY DEF ChainInv, TypeOK
    <2>2. CASE q = p
        BY <1>2, <1>3, <1>4, <2>1, <2>2
    <2>3. CASE q # p
        BY <1>3, <1>4, <2>1, <2>3 DEF ChainInv, TypeOK
    <2>. QED  BY <2>2, <2>3
<1>7. \A q \in 1..made : \/ after[q] = q - 1
                         \/ after[q] = 0 /\ \A r \in 1..(q - 1) : Settled(r)'
    <2>. TAKE q \in 1..made
    <2>1. \A r \in 1..(q - 1) : r \in Passes
        BY <1>4 DEF ChainInv, TypeOK
    <2>. QED  BY <1>3, <2>1 DEF ChainInv
<1>8. \A q \in Passes : status'[q] = "unmade" <=> q > made
    BY <1>1 DEF ChainInv, TypeOK
<1>9. tail = 0 => \A q \in 1..made : Settled(q)'
    BY <1>3, <1>4 DEF ChainInv
<1>10. tail \in {0, made} /\ UNCHANGED <<made, tail, after, call>>
    BY DEF ChainInv
<1>. QED  BY <1>5, <1>6, <1>7, <1>8, <1>9, <1>10 DEF ChainInv, Settled

LEMMA NextChain == ChainInv /\ [Next]_vars => ChainInv'
<1>. SUFFICES ASSUME ChainInv, [Next]_vars PROVE ChainInv'
    OBVIOUS
<1>1. CASE UNCHANGED vars
    BY <1>1 DEF vars, ChainInv, TypeOK, Settled
<1>2. ASSUME NEW c \in Callers, CallPlain(c) PROVE ChainInv'
    BY <1>2, MakeChain DEF CallPlain, ChainInv
<1>3. ASSUME NEW c \in Callers, CallFresh(c) PROVE ChainInv'
    <2>1. CASE tail = 0 /\ Make(c, FALSE, 0)
        BY <2>1, MakeChain DEF ChainInv
    <2>2. CASE /\ tail # 0
               /\ call' = [call EXCEPT ![c] = [pc |-> "wait", plain |-> FALSE,
                                               observed |-> tail, mine |-> 0]]
               /\ UNCHANGED <<made, tail, status, after>>
        <3>1. tail \in 1..made
            BY <2>2 DEF ChainInv, TypeOK
        <3>2. TypeOK'
            BY <2>2, BoundAssumption DEF ChainInv, TypeOK
        <3>3. \A d \in Callers : /\ call'[d].pc = "wait" => call'[d].observed \in 1..made
                                 /\ call'[d].pc = "own" => call'[d].mine \in 1..made
            BY <2>2, <3>1 DEF ChainInv, TypeOK
        <3>. QED  BY <2>2, <3>2, <3>3 DEF ChainInv, Settled
    <2>. QED  BY <1>3, <2>1, <2>2 DEF CallFresh
<1>4. ASSUME NEW c \in Callers, WaitOver(c) PROVE ChainInv'
    <2>1. call[c].observed \in 1..made /\ Settled(call[c].observed)
        BY <1>4 DEF WaitOver, ChainInv
    <2>2. CASE tail = 0
        BY <1>4, <2>1, <2>2, MakeChain DEF WaitOver, Behind, ChainInv
    <2>3. CASE tail = call[c].observed
        <3>1. tail = made /\ made > 0 /\ Settled(made)
            BY <2>1, <2>3 DEF ChainInv, TypeOK
        <3>2. \A p \in 1..made : Settled(p)
            BY <3>1, LastSettled
        <3>. QED  BY <1>4, <2>3, <3>2, MakeChain DEF WaitOver, Behind
    <2>4. CASE tail # 0 /\ tail # call[c].observed
        <3>1. Behind(c) = made /\ made # 0
            BY <2>4 DEF Behind, ChainInv
        <3>. QED  BY <1>4, <3>1, MakeChain DEF WaitOver
    <2>. QED  BY <2>2, <2>3, <2>4
<1>5. ASSUME NEW c \in Callers, WaitTimesOut(c) PROVE ChainInv'
    <2>1. TypeOK'
        BY <1>5, BoundAssumption DEF WaitTimesOut, ChainInv, TypeOK, NoCall
    <2>2. \A d \in Callers : /\ call'[d].pc = "wait" => call'[d].observed \in 1..made
                             /\ call'[d].pc = "own" => call'[d].mine \in 1..made
        BY <1>5 DEF WaitTimesOut, ChainInv, TypeOK, NoCall
    <2>. QED  BY <1>5, <2>1, <2>2 DEF WaitTimesOut, ChainInv, Settled
<1>6. ASSUME NEW c \in Callers, Return(c) PROVE ChainInv'
    <2>1. call[c].mine \in 1..made /\ Settled(call[c].mine)
        BY <1>6 DEF Return, ChainInv
    <2>2. TypeOK' /\ tail' \in {0, made}
        BY <1>6, BoundAssumption DEF Return, ChainInv, TypeOK, NoCall
    <2>3. tail' = 0 => \A p \in 1..made : Settled(p)
        <3>1. CASE tail = call[c].mine
            <4>1. tail = made /\ made > 0 /\ Settled(made)
                BY <2>1, <3>1 DEF ChainInv, TypeOK
            <4>. QED  BY <4>1, LastSettled
        <3>2. CASE tail # call[c].mine
            BY <1>6, <3>2 DEF Return, ChainInv
        <3>. QED  BY <3>1, <3>2
    <2>4. \A d \in Callers : /\ call'[d].pc = "wait" => call'[d].observed \in 1..made
                             /\ call'[d].pc = "own" => call'[d].mine \in 1..made
        BY <1>6 DEF Return, ChainInv, TypeOK, NoCall
    <2>. QED  BY <1>6, <2>2, <2>3, <2>4 DEF Return, ChainInv, Settled
<1>7. ASSUME NEW p \in Passes, Begin(p) PROVE ChainInv'
    BY <1>7, StatusChain DEF Begin, CanBegin
<1>8. ASSUME NEW p \in Passes, Settle(p) PROVE ChainInv'
    BY <1>8, StatusChain DEF Settle
<1>9. ASSUME NEW p \in Passes, Wedge(p) PROVE ChainInv'
    BY <1>9, StatusChain DEF Wedge
<1>. QED  BY <1>1, <1>2, <1>3, <1>4, <1>5, <1>6, <1>7, <1>8, <1>9 DEF Next

\* Every pass is chained behind the one made before it, or made when all had settled.
THEOREM Chained == Spec => []ChainInv
BY InitChain, NextChain, PTL DEF Spec

\* Of two passes under way, the later one could not have begun.
LEMMA ActiveAlone == ChainInv => NoOverlap
<1>. SUFFICES ASSUME ChainInv, NEW p \in Passes, NEW q \in Passes, Active(p), Active(q),
                     p < q
              PROVE  FALSE
    BY DEF NoOverlap, Passes
<1>1. q \in 1..made /\ status[q] # "queued" /\ p \in 1..(q - 1)
    BY DEF ChainInv, TypeOK, Passes, Active
<1>2. Settled(p)
    BY <1>1 DEF ChainInv
<1>. QED  BY <1>2 DEF Settled, Active

\* Passes never overlap, however many forceFresh callers waited for the same pass and
\* whichever of their waits ran out behind a wedged one.
THEOREM PassesNeverOverlap == Spec => []NoOverlap
BY Chained, ActiveAlone, PTL

-----------------------------------------------------------------------------
(* The tick never waits *)

LEMMA SettledStays ==
    ASSUME ChainInv, [Next]_vars
    PROVE  \A p \in 1..made : Settled(p) => Settled(p)'
<1>. SUFFICES ASSUME NEW p \in 1..made, Settled(p) PROVE Settled(p)'
    OBVIOUS
<1>1. p \in Passes /\ status[p] = "settled" /\ status \in [Passes -> Status] /\ p < made + 1
    BY BoundAssumption DEF ChainInv, TypeOK, Passes, Settled
<1>2. CASE status' = status
    BY <1>2 DEF Settled
<1>3. ASSUME NEW c, NEW plain, NEW behind, Make(c, plain, behind) PROVE Settled(p)'
    BY <1>1, <1>3 DEF Make, Settled
<1>4. ASSUME NEW q \in Passes, Begin(q) \/ Settle(q) \/ Wedge(q) PROVE Settled(p)'
    BY <1>1, <1>4 DEF Begin, CanBegin, Settle, Wedge, Settled
<1>5. CASE UNCHANGED vars
    BY <1>2, <1>5 DEF vars
<1>6. ASSUME NEW c \in Callers,
             CallPlain(c) \/ CallFresh(c) \/ WaitOver(c) \/ WaitTimesOut(c) \/ Return(c)
      PROVE  Settled(p)'
    BY <1>2, <1>3, <1>6 DEF CallPlain, CallFresh, WaitOver, WaitTimesOut, Return
<1>. QED  BY <1>4, <1>5, <1>6 DEF Next

LEMMA NextPlain ==
    ChainInv /\ ChainInv' /\ PlainNeverWaits /\ [Next]_vars => PlainNeverWaits'
<1>. SUFFICES ASSUME ChainInv, PlainNeverWaits, [Next]_vars,
                     NEW c \in Callers, call'[c].pc = "own", call'[c].plain
              PROVE  \A p \in 1..(call'[c].mine - 1) : Settled(p)'
    BY DEF PlainNeverWaits
<1>1. call \in [Callers -> [pc: {"idle", "wait", "own"}, plain: BOOLEAN,
                            observed: 0..MaxPasses, mine: 0..MaxPasses]]
    BY DEF ChainInv, TypeOK
<1>2. CASE call'[c] = call[c]
    <2>1. \A p \in 1..(call[c].mine - 1) : Settled(p) /\ p \in 1..made
        BY <1>1, <1>2 DEF PlainNeverWaits, ChainInv, TypeOK
    <2>. QED  BY <1>2, <2>1, SettledStays
<1>3. ASSUME CallPlain(c) PROVE \A p \in 1..(call'[c].mine - 1) : Settled(p)'
    <2>1. call'[c].mine = made + 1 /\ made \in Nat
        BY <1>1, <1>3, BoundAssumption DEF CallPlain, Make, ChainInv, TypeOK
    <2>2. \A p \in 1..made : Settled(p)
        BY <1>3 DEF CallPlain, ChainInv
    <2>. QED  BY <2>1, <2>2, SettledStays
<1>4. ASSUME NEW d \in Callers,
             CallPlain(d) \/ CallFresh(d) \/ WaitOver(d) \/ WaitTimesOut(d) \/ Return(d)
      PROVE  call'[c] = call[c] \/ CallPlain(c)
    <2>1. CASE d # c
        BY <1>1, <1>4, <2>1 DEF CallPlain, CallFresh, WaitOver, WaitTimesOut, Return, Make
    <2>2. CASE d = c /\ ~CallPlain(c)
        BY <1>1, <1>4, <2>2 DEF CallFresh, WaitOver, WaitTimesOut, Return, Make, NoCall
    <2>. QED  BY <2>1, <2>2
<1>5. ASSUME NEW p \in Passes, Begin(p) \/ Settle(p) \/ Wedge(p) PROVE call' = call
    BY <1>5 DEF Begin, Settle, Wedge
<1>6. UNCHANGED vars => call' = call
    BY DEF vars
<1>. QED  BY <1>2, <1>3, <1>4, <1>5, <1>6 DEF Next

\* The tick leaves no waiter behind: a pass it makes can begin at once.
THEOREM TickNeverWaits == Spec => []PlainNeverWaits
<1>1. Init => PlainNeverWaits
    BY DEF Init, PlainNeverWaits, NoCall
<1>. QED  BY <1>1, Chained, NextPlain, PTL DEF Spec

-----------------------------------------------------------------------------
(* Refinement *)

LEMMA InitSerial == Init => Abstract!Init
BY DEF Init, Abstract!Init, Running, Ended, Active, Settled

LEMMA NextSerial ==
    ChainInv /\ ChainInv' /\ [Next]_vars => [Abstract!Next]_<<Running, Ended>>
<1>. SUFFICES ASSUME ChainInv, ChainInv', [Next]_vars
              PROVE  [Abstract!Next]_<<Running, Ended>>
    OBVIOUS
<1>. USE DEF Running, Ended, Active, Settled
<1>1. status \in [Passes -> Status]
    BY DEF ChainInv, TypeOK
<1>2. CASE status' = status
    BY <1>2
<1>3. ASSUME NEW c \in Callers, NEW plain, NEW behind, Make(c, plain, behind)
      PROVE  UNCHANGED <<Running, Ended>>
    <2>1. made + 1 \in Passes /\ status[made + 1] = "unmade"
        BY <1>3, BoundAssumption DEF Make, ChainInv, TypeOK, Passes
    <2>2. \A p \in Passes : status'[p] = IF p = made + 1 THEN "queued" ELSE status[p]
        BY <1>1, <1>3 DEF Make
    <2>. QED  BY <2>1, <2>2
<1>4. ASSUME NEW p \in Passes, Begin(p) PROVE Abstract!Begin(p)
    <2>1. \A q \in Passes : status'[q] = IF q = p THEN "running" ELSE status[q]
        BY <1>1, <1>4 DEF Begin
    <2>2. status[p] = "queued"
        BY <1>4 DEF Begin, CanBegin
    <2>3. NoOverlap'
        BY ActiveAlone, PTL
    <2>4. Running' = {p} /\ Running = {}
        BY <2>1, <2>2, <2>3 DEF NoOverlap
    <2>5. \A q \in Passes : q < p => q \in Ended
        <3>1. p \in 1..made' /\ status'[p] # "queued"
            BY <2>1, <2>2 DEF ChainInv, TypeOK, Passes
        <3>2. \A q \in 1..(p - 1) : status'[q] = "settled"
            BY <3>1 DEF ChainInv
        <3>. QED  BY <2>1, <3>2 DEF Passes
    <2>6. Ended' = Ended /\ p \notin Ended
        BY <2>1, <2>2
    <2>. QED  BY <2>4, <2>5, <2>6 DEF Abstract!Begin
<1>5. ASSUME NEW p \in Passes, Settle(p) PROVE Abstract!End(p)
    <2>1. \A q \in Passes : status'[q] = IF q = p THEN "settled" ELSE status[q]
        BY <1>1, <1>5 DEF Settle
    <2>2. status[p] = "running"
        BY <1>5 DEF Settle
    <2>3. Running = {p}
        BY <2>2, ActiveAlone DEF NoOverlap
    <2>. QED  BY <2>1, <2>2, <2>3 DEF Abstract!End
<1>6. ASSUME NEW p \in Passes, Wedge(p) PROVE UNCHANGED <<Running, Ended>>
    <2>1. \A q \in Passes : status'[q] = IF q = p THEN "wedged" ELSE status[q]
        BY <1>1, <1>6 DEF Wedge
    <2>. QED  BY <1>6, <2>1 DEF Wedge
<1>7. ASSUME NEW c \in Callers,
             CallPlain(c) \/ CallFresh(c) \/ WaitOver(c) \/ WaitTimesOut(c) \/ Return(c)
      PROVE  UNCHANGED <<Running, Ended>>
    BY <1>2, <1>3, <1>7 DEF CallPlain, CallFresh, WaitOver, WaitTimesOut, Return
<1>8. UNCHANGED vars => status' = status
    BY DEF vars
<1>. QED  BY <1>2, <1>4, <1>5, <1>6, <1>7, <1>8 DEF Next, Abstract!Next

\* The passes of all callers together run one at a time, each at most once, in the
\* order they were asked for.
THEOREM ImplementsSerialPasses == Spec => Serial
BY InitSerial, Chained, NextSerial, PTL DEF Spec, Serial, Abstract!Spec
=============================================================================
