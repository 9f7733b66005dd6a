---------------------------- MODULE SingleFlight ----------------------------
(***************************************************************************)
(* createSingleFlight: the guard around each of the five flushes of queued *)
(* writes.  The 5 s poller calls it plainly, a restart that has just taken *)
(* its maps down with forceFresh.  A pass is a promise; passes are         *)
(* numbered in the order they are made.  A pass that rejects settles like  *)
(* any other; one that is wedged never settles.                            *)
(***************************************************************************)
EXTENDS Naturals, FiniteSets

CONSTANTS
    Callers,    \* calls of flush() that can be in progress at once
    MaxPasses,  \* bound: passes made
    MaxWedged   \* bound: passes that never settle

ASSUME BoundAssumption == MaxPasses \in Nat /\ MaxWedged \in Nat

Passes == 1..MaxPasses

VARIABLES
    made,    \* passes made so far
    tail,    \* the tail of the chain: the last pass made, or 0 for null
    status,  \* pass -> where its promise is
    after,   \* pass -> the pass it is chained behind, or 0
    call     \* caller -> its call of flush(), if one is in progress

vars == <<made, tail, status, after, call>>

NoCall == [pc |-> "idle", plain |-> FALSE, observed |-> 0, mine |-> 0]

Init ==
    /\ made = 0 /\ tail = 0
    /\ status = [p \in Passes |-> "unmade"]
    /\ after = [p \in Passes |-> 0]
    /\ call = [c \in Callers |-> NoCall]

\* Bound: a call is made only if the passes already asked for leave room for its own.
Waiting == {c \in Callers : call[c].pc = "wait"}
Room == made + Cardinality(Waiting) < MaxPasses

Settled(p) == status[p] = "settled"

\* Link a pass of caller c onto the chain and make it the tail.
Make(c, plain, behind) ==
    /\ made < MaxPasses
    /\ made' = made + 1 /\ tail' = made + 1
    /\ status' = [status EXCEPT ![made + 1] = "queued"]
    /\ after' = [after EXCEPT ![made + 1] = behind]
    /\ call' = [call EXCEPT ![c] = [pc |-> "own", plain |-> plain, observed |-> 0,
                                    mine |-> made + 1]]

\* Faulty: the tick queues up behind the pass in flight.
CallPlainQueues(c) ==
    /\ call[c].pc = "idle" /\ Room
    /\ Make(c, TRUE, tail)

\* The tick: with a pass in flight it is answered alreadyRunning and is gone.
CallPlain(c) ==
    /\ call[c].pc = "idle" /\ Room /\ tail = 0
    /\ Make(c, TRUE, 0)

CallFresh(c) ==
    /\ call[c].pc = "idle" /\ Room
    /\ \/ /\ tail = 0
          /\ Make(c, FALSE, 0)
       \/ /\ tail # 0
          /\ call' = [call EXCEPT ![c] = [pc |-> "wait", plain |-> FALSE,
                                          observed |-> tail, mine |-> 0]]
          /\ UNCHANGED <<made, tail, status, after>>

\* Faulty: nobody can have linked on; and the tail is replaced before it is read.
BehindNobody(c) == 0
BehindItself(c) == made + 1

\* Behind whoever linked on during the wait; if nobody did, at once.
Behind(c) == IF tail # call[c].observed THEN tail ELSE 0

WaitOver(c) ==
    /\ call[c].pc = "wait" /\ Settled(call[c].observed)
    /\ Make(c, FALSE, Behind(c))

\* withTimeout rejects: the caller throws and starts nothing.
WaitTimesOut(c) ==
    /\ call[c].pc = "wait" /\ ~Settled(call[c].observed)
    /\ call' = [call EXCEPT ![c] = NoCall]
    /\ UNCHANGED <<made, tail, status, after>>

\* Faulty: a pass does not wait for the one before it.
CanBeginAtOnce(p) == status[p] = "queued"

CanBegin(p) == status[p] = "queued" /\ (after[p] # 0 => Settled(after[p]))

Begin(p) ==
    /\ CanBegin(p)
    /\ status' = [status EXCEPT ![p] = "running"]
    /\ UNCHANGED <<made, tail, after, call>>

Settle(p) ==
    /\ status[p] = "running"
    /\ status' = [status EXCEPT ![p] = "settled"]
    /\ UNCHANGED <<made, tail, after, call>>

\* A stuck connection or a backup process that never exits.
Wedge(p) ==
    /\ status[p] = "running"
    /\ Cardinality({q \in Passes : status[q] = "wedged"}) < MaxWedged
    /\ status' = [status EXCEPT ![p] = "wedged"]
    /\ UNCHANGED <<made, tail, after, call>>

\* The finally block of a call whose own pass has settled.
Return(c) ==
    /\ call[c].pc = "own" /\ Settled(call[c].mine)
    /\ tail' = IF tail = call[c].mine THEN 0 ELSE tail
    /\ call' = [call EXCEPT ![c] = NoCall]
    /\ UNCHANGED <<made, status, after>>

Next ==
    \/ \E c \in Callers : \/ CallPlain(c) \/ CallFresh(c)
                          \/ WaitOver(c) \/ WaitTimesOut(c) \/ Return(c)
    \/ \E p \in Passes : Begin(p) \/ Settle(p) \/ Wedge(p)

Spec == Init /\ [][Next]_vars

\* The event loop runs what is ready, a pass ends unless it is wedged, and the
\* timer of a wait fires.
Fairness ==
    /\ \A c \in Callers : WF_vars(WaitOver(c)) /\ WF_vars(WaitTimesOut(c)) /\ WF_vars(Return(c))
    /\ \A p \in Passes : WF_vars(Begin(p)) /\ WF_vars(Settle(p))

FairSpec == Spec /\ Fairness

-----------------------------------------------------------------------------
(* Properties *)

Status == {"unmade", "queued", "running", "wedged", "settled"}

\* Types of the chain and of the calls in progress.
TypeOK ==
    /\ made \in 0..MaxPasses /\ tail \in 0..MaxPasses
    /\ status \in [Passes -> Status]
    /\ after \in [Passes -> 0..MaxPasses]
    /\ call \in [Callers -> [pc: {"idle", "wait", "own"}, plain: BOOLEAN,
                             observed: 0..MaxPasses, mine: 0..MaxPasses]]

Active(p) == status[p] \in {"running", "wedged"}

\* "Passes never overlap": not even with several forceFresh callers that waited
\* for the same pass, and never because a wait for a wedged pass ran out.
NoOverlap == \A p, q \in Passes : Active(p) /\ Active(q) => p = q

\* The tick leaves no waiter behind: a pass it starts has nothing to wait for.
PlainNeverWaits ==
    \A c \in Callers : call[c].pc = "own" /\ call[c].plain
                          => \A p \in 1..(call[c].mine - 1) : Settled(p)

\* Why passes do not overlap: each is chained directly behind the one made before
\* it, unless by then that one and all before it had settled.
ChainInv ==
    /\ TypeOK
    /\ \A p \in Passes : status[p] = "unmade" <=> p > made
    /\ tail \in {0, made}
    /\ tail = 0 => \A p \in 1..made : Settled(p)
    /\ \A q \in 1..made : \/ after[q] = q - 1
                          \/ after[q] = 0 /\ \A p \in 1..(q - 1) : Settled(p)
    /\ \A q \in 1..made : status[q] # "queued" => \A p \in 1..(q - 1) : Settled(p)
    /\ \A c \in Callers : /\ call[c].pc = "wait" => call[c].observed \in 1..made
                          /\ call[c].pc = "own" => call[c].mine \in 1..made

\* A call gets its pass or throws, unless a pass is wedged: the chain has no cycle,
\* and no link of it is lost while its caller awaits it.
EveryCallReturns ==
    \A c \in Callers :
        call[c].pc # "idle" ~> \/ call[c].pc = "idle"
                               \/ \E p \in Passes : status[p] = "wedged"

\* The passes of every caller, together, are the serial ones of SerialPasses.
Running == {p \in Passes : Active(p)}
Ended == {p \in Passes : Settled(p)}
Abstract == INSTANCE SerialPasses WITH running <- Running, ended <- Ended
Serial == Abstract!Spec
=============================================================================
