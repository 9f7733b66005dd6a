--------------------------- MODULE AutoRefillProofs ---------------------------
(***************************************************************************)
(* Theorems about AutoRefill, for any set of bases and any limits: that    *)
(* the backstops of the scan and of the flush add up, that a base whose    *)
(* delete is queued is left alone, and that the operator's switch stands.  *)
(***************************************************************************)
EXTENDS AutoRefill, TLAPS

-----------------------------------------------------------------------------
(* Tables by base *)

Partial(T) == UNION {[S -> T] : S \in SUBSET Bases}

LEMMA PartialDef ==
    ASSUME NEW T, NEW f
    PROVE  f \in Partial(T) <=> DOMAIN f \subseteq Bases /\ f \in [DOMAIN f -> T]
BY DEF Partial

LEMMA EmptyOK == ASSUME NEW T PROVE Empty \in Partial(T) /\ DOMAIN Empty = {}
BY PartialDef DEF Empty

LEMMA PutOK ==
    ASSUME NEW T, NEW f \in Partial(T), NEW b \in Bases, NEW v \in T
    PROVE  /\ Put(f, b, v) \in Partial(T)
           /\ DOMAIN Put(f, b, v) = DOMAIN f \cup {b}
           /\ Put(f, b, v)[b] = v
           /\ \A c \in DOMAIN f : c # b => Put(f, b, v)[c] = f[c]
BY PartialDef DEF Put

LEMMA CutOK ==
    ASSUME NEW T, NEW f \in Partial(T), NEW S \in SUBSET DOMAIN f
    PROVE  /\ Restrict(f, S) \in Partial(T)
           /\ DOMAIN Restrict(f, S) = S
           /\ \A c \in S : Restrict(f, S)[c] = f[c]
BY PartialDef DEF Restrict

-----------------------------------------------------------------------------
(* Types *)

Status == [queues: 0..MaxQueues, stalled: BOOLEAN]
Entry == [attempts: 0..(MaxAttempts - 1), retry: BOOLEAN, old: BOOLEAN, nowhere: BOOLEAN, ours: BOOLEAN]
Verdict == [keep: {FALSE}] \cup [keep: {TRUE}, attempts: 0..(MaxAttempts - 1)]

LEMMA HealthyOK == Healthy \in Status /\ Healthy.queues = 0
BY LimitAssumption DEF Healthy, Status

RollOK ==
    /\ place \in [Bases -> {"there", "packed", "gone"}]
    /\ deletes \in [Bases -> {"none", "reserved", "left", "queued"}]
    /\ enrolled \in Partial(Status) /\ wanted \subseteq Bases
    /\ route \in Bases \cup {None}
    /\ strikes \in [Bases -> Int]

ScanRecord ==
    [pc: {"idle", "observe", "next", "check", "levels", "target"}, daily: BOOLEAN,
     todo: SUBSET Bases, base: Bases \cup {None}, was: Partial(Status), pending: SUBSET Bases,
     frozen: SUBSET Bases, outcomes: Partial(Status), removed: SUBSET Bases,
     queued: Partial(Int), failed: BOOLEAN]

\* A scan has a base in hand or looks for the next; each is settled once; what it has
\* queued it has an outcome for.
ScanOK ==
    /\ scan \in ScanRecord
    /\ scan.pc \in {"idle", "observe", "next"} <=> scan.base = None
    /\ scan.todo \subseteq DOMAIN scan.was
    /\ scan.base # None => scan.base \in DOMAIN scan.was
    /\ scan.base \notin scan.todo
    /\ scan.pc = "target" => scan.was[scan.base].queues < MaxQueues
    /\ scan.pc \in {"idle", "observe"} => scan.queued = Empty
    /\ DOMAIN scan.queued \subseteq DOMAIN scan.outcomes
    /\ \A b \in DOMAIN scan.outcomes : b # scan.base /\ b \notin scan.todo

FlushRecord ==
    [on: BOOLEAN, copy: Partial(Entry), todo: SUBSET Bases, same: SUBSET Bases,
     struck: SUBSET Bases, outcomes: Partial(Verdict)]

\* An entry that is still the one the pass copied has the attempts and the origin of the
\* copy, and a strike of the pass is a strike of a scan's entry that its verdict counts.
QueueOK ==
    /\ refills \in Partial(Entry) /\ flush \in FlushRecord
    /\ flush.todo \subseteq DOMAIN flush.copy
    /\ \A b \in flush.same : /\ b \in DOMAIN refills /\ b \in DOMAIN flush.copy
                             /\ refills[b].ours = flush.copy[b].ours
                             /\ refills[b].attempts = flush.copy[b].attempts
    /\ \A b \in flush.struck : /\ b \in DOMAIN flush.outcomes /\ b \in DOMAIN flush.copy
                               /\ flush.copy[b].ours
    /\ \A b \in DOMAIN flush.outcomes :
          /\ b \in DOMAIN flush.copy /\ b \notin flush.todo
          /\ flush.outcomes[b].keep =>
                flush.outcomes[b].attempts >= flush.copy[b].attempts + (IF b \in flush.struck THEN 1 ELSE 0)
    /\ ~flush.on => flush.todo = {} /\ flush.same = {} /\ flush.struck = {}

Types == RollOK /\ ScanOK /\ QueueOK

LEMMA IdleScanOK == IdleScan \in ScanRecord /\ IdleScan.pc = "idle" /\ IdleScan.base = None
BY EmptyOK DEF IdleScan, ScanRecord

LEMMA ScanStops == ASSUME scan' = IdleScan PROVE ScanOK'
<1>1. IdleScan \in ScanRecord
    BY IdleScanOK
<1>2. DOMAIN Empty = {}
    BY DEF Empty
<1>. QED  BY <1>1, <1>2 DEF IdleScan, ScanOK

LEMMA FlushStops == ASSUME refills \in Partial(Entry), flush = IdleFlush PROVE QueueOK
<1>1. IdleFlush \in FlushRecord
    BY EmptyOK DEF IdleFlush, FlushRecord
<1>2. DOMAIN Empty = {}
    BY DEF Empty
<1>. QED  BY <1>1, <1>2 DEF IdleFlush, QueueOK

LEMMA InitTypes == Init => Types
<1>. SUFFICES ASSUME Init PROVE Types
    OBVIOUS
<1>1. enrolled \in Partial(Status)
    BY PartialDef, HealthyOK DEF Init
<1>2. RollOK
    BY <1>1 DEF Init, RollOK
<1>3. ScanOK
    BY IdleScanOK DEF Init, ScanOK, IdleScan, Empty
<1>4. QueueOK
    BY EmptyOK, FlushStops DEF Init
<1>. QED  BY <1>2, <1>3, <1>4 DEF Types

-----------------------------------------------------------------------------
(* The scan keeps its types *)

\* A scan begins.
LEMMA ScanStarts ==
    ASSUME Types, NEW S \in SUBSET DOMAIN enrolled, NEW d \in BOOLEAN, Starts(S, d)
    PROVE  ScanOK'
<1>. DEFINE t == [IdleScan EXCEPT !.pc = "observe", !.daily = d, !.todo = S, !.was = enrolled,
                                  !.pending = DOMAIN refills,
                                  !.frozen = {b \in Bases : deletes[b] # "none"}]
<1>1. scan' = t
    BY DEF Starts
<1>2. enrolled \in Partial(Status) /\ DOMAIN enrolled \subseteq Bases /\ DOMAIN refills \subseteq Bases
    BY PartialDef DEF Types, RollOK, QueueOK
<1>3. t \in ScanRecord
    BY <1>2, IdleScanOK DEF ScanRecord
<1>4. /\ t.pc = "observe" /\ t.base = None /\ t.todo = S /\ t.was = enrolled
      /\ t.queued = Empty /\ t.outcomes = Empty
    BY DEF IdleScan
<1>5. DOMAIN Empty = {} /\ None \notin S
    BY <1>2, BaseAssumption DEF Empty
<1>. HIDE DEF t
<1>. QED  BY <1>1, <1>2, <1>3, <1>4, <1>5 DEF ScanOK

\* It goes on without a word of the base in hand, or with one.
LEMMA MovesOn == ASSUME ScanOK, scan.pc # "idle", scan.pc # "observe" PROVE
    /\ NextBase \in ScanRecord /\ NextBase.pc = "next" /\ NextBase.base = None
    /\ NextBase.todo = scan.todo /\ NextBase.was = scan.was /\ NextBase.outcomes = scan.outcomes
    /\ NextBase.queued = scan.queued /\ NextBase.removed = scan.removed /\ NextBase.frozen = scan.frozen
BY DEF ScanOK, ScanRecord, NextBase

LEMMA NextBaseOK ==
    ASSUME ScanOK, scan.base # None,
           scan' = NextBase \/ scan' = [NextBase EXCEPT !.failed = TRUE] \/ scan' = Without
    PROVE  ScanOK' /\ scan'.queued = scan.queued /\ scan'.outcomes = scan.outcomes
           /\ scan'.todo = scan.todo /\ scan'.base = None /\ scan'.was = scan.was /\ scan'.frozen = scan.frozen
           /\ scan'.pc = "next"
<1>1. /\ NextBase \in ScanRecord /\ NextBase.pc = "next" /\ NextBase.base = None
      /\ NextBase.todo = scan.todo /\ NextBase.was = scan.was /\ NextBase.outcomes = scan.outcomes
      /\ NextBase.queued = scan.queued /\ NextBase.removed = scan.removed /\ NextBase.frozen = scan.frozen
    BY MovesOn DEF ScanOK
<1>2. /\ scan' \in ScanRecord /\ scan'.pc = "next" /\ scan'.base = None
      /\ scan'.todo = scan.todo /\ scan'.was = scan.was /\ scan'.outcomes = scan.outcomes
      /\ scan'.queued = scan.queued /\ scan'.frozen = scan.frozen
    <2>1. scan.base \in Bases
        BY DEF ScanOK, ScanRecord
    <2>2. CASE scan' = NextBase \/ scan' = [NextBase EXCEPT !.failed = TRUE]
        BY <1>1, <2>2 DEF ScanRecord
    <2>3. CASE scan' = Without
        <3>1. scan' = [NextBase EXCEPT !.removed = scan.removed \cup {scan.base}]
            BY <1>1, <2>3 DEF Without
        <3>2. scan.removed \cup {scan.base} \in SUBSET Bases
            BY <2>1 DEF ScanOK, ScanRecord
        <3>. QED  BY <1>1, <3>1, <3>2 DEF ScanRecord
    <2>. QED  BY <2>2, <2>3
<1>3. None \notin scan.todo /\ None \notin DOMAIN scan.outcomes
    BY BaseAssumption, PartialDef DEF ScanOK, ScanRecord
<1>. QED  BY <1>2, <1>3 DEF ScanOK

LEMMA WithOK ==
    ASSUME ScanOK, scan.base # None, NEW o \in Status
    PROVE  /\ With(o) \in ScanRecord
           /\ With(o).pc = "next" /\ With(o).base = None /\ With(o).todo = scan.todo
           /\ With(o).was = scan.was /\ With(o).queued = scan.queued /\ With(o).frozen = scan.frozen
           /\ With(o).removed = scan.removed
           /\ DOMAIN With(o).outcomes = DOMAIN scan.outcomes \cup {scan.base}
           /\ With(o).outcomes[scan.base] = o
           /\ \A c \in DOMAIN scan.outcomes : With(o).outcomes[c] = scan.outcomes[c]
<1>1. scan.base \in Bases /\ scan.outcomes \in Partial(Status) /\ scan.base \notin DOMAIN scan.outcomes
    BY DEF ScanOK, ScanRecord
<1>. DEFINE out == Put(scan.outcomes, scan.base, o)
<1>2. /\ out \in Partial(Status) /\ DOMAIN out = DOMAIN scan.outcomes \cup {scan.base}
      /\ out[scan.base] = o /\ \A c \in DOMAIN scan.outcomes : out[c] = scan.outcomes[c]
    BY <1>1, PartialDef DEF Put
<1>3. /\ NextBase \in ScanRecord /\ NextBase.pc = "next" /\ NextBase.base = None
      /\ NextBase.todo = scan.todo /\ NextBase.was = scan.was /\ NextBase.outcomes = scan.outcomes
      /\ NextBase.queued = scan.queued /\ NextBase.removed = scan.removed /\ NextBase.frozen = scan.frozen
    BY MovesOn DEF ScanOK
<1>4. With(o) = [NextBase EXCEPT !.outcomes = out]
    BY <1>3 DEF With, ScanRecord
<1>. HIDE DEF out
<1>. QED  BY <1>2, <1>3, <1>4 DEF ScanRecord

LEMMA ScanSettles ==
    ASSUME ScanOK, scan.base # None, NEW o \in Status, scan' = With(o)
    PROVE  ScanOK'
<1>1. /\ scan' \in ScanRecord /\ scan'.pc = "next" /\ scan'.base = None /\ scan'.todo = scan.todo
      /\ scan'.was = scan.was /\ scan'.queued = scan.queued
      /\ DOMAIN scan'.outcomes = DOMAIN scan.outcomes \cup {scan.base}
    BY WithOK
<1>2. None \notin scan.todo /\ None \notin DOMAIN scan.outcomes
    BY BaseAssumption, PartialDef DEF ScanOK, ScanRecord
<1>. QED  BY <1>1, <1>2 DEF ScanOK

LEMMA PriorOK == ASSUME ScanOK, scan.base # None PROVE Prior \in Status /\ scan.base \in Bases
BY PartialDef DEF ScanOK, ScanRecord, Prior

\* It queues a refill.
LEMMA QueuedOK ==
    ASSUME RollOK, ScanOK, scan.pc = "target",
           NEW o, o = [Prior EXCEPT !.queues = @ + 1],
           NEW w, w = With(o), scan' = [w EXCEPT !.queued = Put(@, scan.base, strikes[scan.base])]
    PROVE  /\ ScanOK' /\ scan'.pc = "next" /\ scan'.base = None /\ scan'.todo = scan.todo
           /\ scan'.was = scan.was /\ scan'.removed = scan.removed /\ scan'.frozen = scan.frozen
           /\ DOMAIN scan'.outcomes = DOMAIN scan.outcomes \cup {scan.base}
           /\ scan'.outcomes[scan.base].queues = scan.was[scan.base].queues + 1
           /\ \A c \in DOMAIN scan.outcomes : scan'.outcomes[c] = scan.outcomes[c]
           /\ DOMAIN scan'.queued = DOMAIN scan.queued \cup {scan.base}
           /\ scan'.queued[scan.base] = strikes[scan.base]
           /\ \A c \in DOMAIN scan.queued : scan'.queued[c] = scan.queued[c]
<1>1. /\ scan.base # None /\ scan.base \in Bases /\ Prior \in Status /\ Prior.queues < MaxQueues
      /\ Prior.queues = scan.was[scan.base].queues
    BY PriorOK DEF ScanOK, Prior
<1>2. o \in Status /\ o.queues = scan.was[scan.base].queues + 1
    BY <1>1, LimitAssumption DEF Status
<1>3. /\ w \in ScanRecord
      /\ w.pc = "next" /\ w.base = None /\ w.todo = scan.todo
      /\ w.was = scan.was /\ w.queued = scan.queued /\ w.frozen = scan.frozen
      /\ w.removed = scan.removed
      /\ DOMAIN w.outcomes = DOMAIN scan.outcomes \cup {scan.base}
      /\ w.outcomes[scan.base] = o
      /\ \A c \in DOMAIN scan.outcomes : w.outcomes[c] = scan.outcomes[c]
    BY <1>1, <1>2, WithOK
<1>4. scan.queued \in Partial(Int) /\ strikes[scan.base] \in Int /\ scan.base \notin DOMAIN scan.queued
    BY <1>1 DEF ScanOK, ScanRecord, RollOK
<1>. DEFINE q == Put(scan.queued, scan.base, strikes[scan.base])
<1>5. /\ q \in Partial(Int) /\ DOMAIN q = DOMAIN scan.queued \cup {scan.base}
      /\ q[scan.base] = strikes[scan.base] /\ \A c \in DOMAIN scan.queued : q[c] = scan.queued[c]
    BY <1>1, <1>4, PartialDef DEF Put
<1>6. scan' = [w EXCEPT !.queued = q]
    BY <1>3
<1>. HIDE DEF q
<1>7. /\ scan' \in ScanRecord /\ scan'.pc = "next" /\ scan'.base = None /\ scan'.todo = scan.todo
      /\ scan'.was = scan.was /\ scan'.queued = q /\ scan'.removed = scan.removed
      /\ scan'.frozen = scan.frozen /\ scan'.outcomes = w.outcomes
    BY <1>3, <1>5, <1>6 DEF ScanRecord
<1>8. None \notin scan.todo /\ None \notin DOMAIN scan.outcomes
    BY BaseAssumption, PartialDef DEF ScanOK, ScanRecord
<1>9. ScanOK'
    <2>1. DOMAIN scan'.queued \subseteq DOMAIN scan'.outcomes
        BY <1>3, <1>5, <1>7 DEF ScanOK
    <2>2. \A b \in DOMAIN scan'.outcomes : b # scan'.base /\ b \notin scan'.todo
        BY <1>1, <1>3, <1>7, <1>8 DEF ScanOK
    <2>. QED  BY <1>7, <1>8, <2>1, <2>2 DEF ScanOK
<1>10. DOMAIN scan'.outcomes = DOMAIN scan.outcomes \cup {scan.base} /\ scan'.outcomes[scan.base] = o
    BY <1>3, <1>7
<1>11. \A c \in DOMAIN scan.outcomes : scan'.outcomes[c] = scan.outcomes[c]
    BY <1>3, <1>7
<1>12. /\ DOMAIN scan'.queued = DOMAIN scan.queued \cup {scan.base}
       /\ scan'.queued[scan.base] = strikes[scan.base]
       /\ \A c \in DOMAIN scan.queued : scan'.queued[c] = scan.queued[c]
    BY <1>5, <1>7
<1>13. scan'.outcomes[scan.base].queues = scan.was[scan.base].queues + 1
    BY <1>2, <1>10
<1>. QED  BY <1>7, <1>9, <1>10, <1>11, <1>12, <1>13

-----------------------------------------------------------------------------
(* The queue and the flush keep their types *)

LEMMA EntryOK ==
    ASSUME NEW n \in BOOLEAN, NEW o \in BOOLEAN
    PROVE  [attempts |-> 0, retry |-> FALSE, old |-> FALSE, nowhere |-> n, ours |-> o] \in Entry
BY LimitAssumption DEF Entry

LEMMA EntryFields ==
    ASSUME NEW e \in Entry
    PROVE  e.attempts \in Int /\ 0 <= e.attempts /\ e.attempts < MaxAttempts /\ e.ours \in BOOLEAN
BY LimitAssumption DEF Entry

LEMMA VerdictFields ==
    ASSUME NEW v \in Verdict, v.keep
    PROVE  v.attempts \in Int /\ 0 <= v.attempts /\ v.attempts < MaxAttempts
<1>1. v \in [keep: {TRUE}, attempts: 0..(MaxAttempts - 1)]
    <2>. SUFFICES ASSUME v \in [keep: {FALSE}] PROVE FALSE
        BY DEF Verdict
    <2>1. v.keep \in {FALSE}
        OBVIOUS
    <2>. QED  BY <2>1
<1>. QED  BY <1>1, LimitAssumption

LEMMA QueuePuts ==
    ASSUME QueueOK, NEW b \in Bases, NEW o \in BOOLEAN, Queue(b, o)
    PROVE  /\ QueueOK' /\ DOMAIN refills' = DOMAIN refills \cup {b}
           /\ refills'[b].attempts = 0 /\ refills'[b].ours = o
           /\ \A c \in DOMAIN refills : c # b => refills'[c] = refills[c]
           /\ flush'.same = flush.same \ {b} /\ flush'.todo = flush.todo /\ flush'.copy = flush.copy
           /\ flush'.struck = flush.struck
<1>. DEFINE e == [attempts |-> 0, retry |-> FALSE, old |-> FALSE, nowhere |-> place[b] = "packed", ours |-> o]
<1>1. e \in Entry /\ e.attempts = 0 /\ e.ours = o
    BY EntryOK
<1>2. refills' = Put(refills, b, e) /\ flush' = [flush EXCEPT !.same = @ \ {b}]
    BY DEF Queue
<1>. HIDE DEF e
<1>3. /\ refills' \in Partial(Entry) /\ DOMAIN refills' = DOMAIN refills \cup {b}
      /\ refills'[b] = e /\ \A c \in DOMAIN refills : c # b => refills'[c] = refills[c]
    <2>1. refills \in Partial(Entry)
        BY DEF QueueOK
    <2>. QED  BY <1>1, <1>2, <2>1, PutOK
<1>4. /\ flush' \in FlushRecord /\ flush'.same = flush.same \ {b} /\ flush'.todo = flush.todo
      /\ flush'.copy = flush.copy /\ flush'.struck = flush.struck /\ flush'.outcomes = flush.outcomes
      /\ flush'.on = flush.on
    BY <1>2 DEF QueueOK, FlushRecord
<1>5. \A c \in flush'.same : /\ c \in DOMAIN refills' /\ c \in DOMAIN flush'.copy
                             /\ refills'[c] = refills[c] /\ refills[c].ours = flush.copy[c].ours
                             /\ refills[c].attempts = flush.copy[c].attempts
    BY <1>3, <1>4 DEF QueueOK
<1>6. QueueOK'
    BY <1>3, <1>4, <1>5 DEF QueueOK
<1>. QED  BY <1>1, <1>3, <1>4, <1>6

LEMMA QueueCuts ==
    ASSUME QueueOK, NEW b \in Bases, Unqueue(b)
    PROVE  /\ QueueOK' /\ DOMAIN refills' = DOMAIN refills \ {b}
           /\ \A c \in DOMAIN refills \ {b} : refills'[c] = refills[c]
           /\ flush'.same = flush.same \ {b} /\ flush'.todo = flush.todo /\ flush'.copy = flush.copy
           /\ flush'.struck = flush.struck
<1>1. /\ refills' \in Partial(Entry) /\ DOMAIN refills' = DOMAIN refills \ {b}
      /\ \A c \in DOMAIN refills \ {b} : refills'[c] = refills[c]
    BY CutOK DEF Unqueue, QueueOK
<1>2. /\ flush' \in FlushRecord /\ flush'.same = flush.same \ {b} /\ flush'.todo = flush.todo
      /\ flush'.copy = flush.copy /\ flush'.struck = flush.struck /\ flush'.outcomes = flush.outcomes
      /\ flush'.on = flush.on
    BY DEF Unqueue, QueueOK, FlushRecord
<1>3. QueueOK'
    BY <1>1, <1>2 DEF QueueOK
<1>. QED  BY <1>1, <1>2, <1>3

LEMMA DischargedOK ==
    ASSUME NEW f \in Partial(Entry), NEW B
    PROVE  /\ Discharged(f, B) \in Partial(Entry) /\ DOMAIN Discharged(f, B) = DOMAIN f
           /\ \A c \in DOMAIN f : /\ c \notin B => Discharged(f, B)[c] = f[c]
                                  /\ c \in B => Discharged(f, B)[c].ours = FALSE
                                  /\ Discharged(f, B)[c].attempts = f[c].attempts
<1>1. DOMAIN f \subseteq Bases /\ \A c \in DOMAIN f : f[c] \in Entry
    BY PartialDef
<1>2. \A c \in DOMAIN f : /\ [f[c] EXCEPT !.ours = FALSE] \in Entry
                          /\ [f[c] EXCEPT !.ours = FALSE].ours = FALSE
                          /\ [f[c] EXCEPT !.ours = FALSE].attempts = f[c].attempts
    BY <1>1 DEF Entry
<1>3. /\ DOMAIN Discharged(f, B) = DOMAIN f
      /\ \A c \in DOMAIN f : Discharged(f, B)[c] = IF c \in B THEN [f[c] EXCEPT !.ours = FALSE] ELSE f[c]
    BY DEF Discharged
<1>4. Discharged(f, B) \in [DOMAIN f -> Entry]
    BY <1>1, <1>2 DEF Discharged
<1>. QED  BY <1>1, <1>2, <1>3, <1>4, PartialDef

LEMMA QueueDischarged ==
    ASSUME QueueOK, NEW B \in SUBSET Bases, CountAnew(B)
    PROVE  /\ QueueOK' /\ DOMAIN refills' = DOMAIN refills
           /\ \A c \in DOMAIN refills : /\ c \notin B => refills'[c] = refills[c]
                                        /\ c \in B => refills'[c].ours = FALSE
           /\ flush'.same = flush.same /\ flush'.todo = flush.todo /\ flush'.struck = flush.struck \ B
           /\ \A c \in DOMAIN flush.copy : /\ c \notin B => flush'.copy[c] = flush.copy[c]
                                           /\ c \in B => flush'.copy[c].ours = FALSE
<1>. DEFINE copy == flush.copy
<1>1. refills \in Partial(Entry) /\ copy \in Partial(Entry)
    BY DEF QueueOK, FlushRecord
<1>2. refills' = Discharged(refills, B)
    BY DEF CountAnew
<1>3. /\ flush' = [flush EXCEPT !.copy = Discharged(copy, B), !.struck = flush.struck \ B]
    BY DEF CountAnew
<1>4. /\ refills' \in Partial(Entry) /\ DOMAIN refills' = DOMAIN refills
      /\ \A c \in DOMAIN refills : /\ c \notin B => refills'[c] = refills[c]
                                   /\ c \in B => refills'[c].ours = FALSE
                                   /\ refills'[c].attempts = refills[c].attempts
    BY <1>1, <1>2, DischargedOK
<1>. DEFINE new == Discharged(copy, B)
<1>. HIDE DEF copy
<1>5. /\ new \in Partial(Entry) /\ DOMAIN new = DOMAIN copy
      /\ \A c \in DOMAIN copy : /\ c \notin B => new[c] = copy[c]
                                /\ c \in B => new[c].ours = FALSE
                                /\ new[c].attempts = copy[c].attempts
    BY <1>1, DischargedOK
<1>. HIDE DEF new
<1>6. /\ flush' \in FlushRecord /\ flush'.same = flush.same /\ flush'.todo = flush.todo
      /\ flush'.copy = new /\ flush'.struck = flush.struck \ B /\ flush'.outcomes = flush.outcomes
      /\ flush'.on = flush.on
    BY <1>3, <1>5 DEF QueueOK, FlushRecord, new
<1>7. QueueOK'
    <2>1. \A c \in flush.same : /\ c \in DOMAIN refills' /\ c \in DOMAIN new
                                /\ refills'[c].ours = new[c].ours
                                /\ refills'[c].attempts = new[c].attempts
        <3>1. ASSUME NEW c \in flush.same
              PROVE  /\ c \in DOMAIN refills /\ c \in DOMAIN copy
                     /\ refills[c].ours = copy[c].ours /\ refills[c].attempts = copy[c].attempts
            BY <3>1 DEF QueueOK, copy
        <3>. QED  BY <1>4, <1>5, <3>1
    <2>2. \A c \in flush.struck \ B : c \in DOMAIN flush.outcomes /\ c \in DOMAIN new /\ new[c].ours
        BY <1>5 DEF QueueOK, copy
    <2>3. \A c \in DOMAIN flush.outcomes :
              /\ c \in DOMAIN new /\ c \notin flush.todo
              /\ flush.outcomes[c].keep =>
                    flush.outcomes[c].attempts >= new[c].attempts + (IF c \in flush.struck \ B THEN 1 ELSE 0)
        <3>1. \A c \in DOMAIN copy : copy[c].attempts \in Int
            BY <1>1, PartialDef, EntryFields
        <3>2. \A c \in DOMAIN flush.outcomes : flush.outcomes[c].keep => flush.outcomes[c].attempts \in Int
            <4>1. flush.outcomes \in Partial(Verdict)
                BY DEF QueueOK, FlushRecord
            <4>. QED  BY <4>1, PartialDef, VerdictFields
        <3>3. ASSUME NEW c \in DOMAIN flush.outcomes
              PROVE  /\ c \in DOMAIN copy /\ c \notin flush.todo /\ new[c].attempts = copy[c].attempts
                     /\ flush.outcomes[c].keep =>
                          flush.outcomes[c].attempts >= copy[c].attempts + (IF c \in flush.struck THEN 1 ELSE 0)
            BY <1>5 DEF QueueOK, copy
        <3>. QED  BY <1>5, <3>1, <3>2, <3>3
    <2>4. flush.todo \subseteq DOMAIN new
        BY <1>5 DEF QueueOK, copy
    <2>5. ~flush.on => flush.todo = {} /\ flush.same = {} /\ flush.struck \ B = {}
        BY DEF QueueOK
    <2>. QED  BY <1>4, <1>6, <2>1, <2>2, <2>3, <2>4, <2>5 DEF QueueOK
<1>. QED  BY <1>4, <1>5, <1>6, <1>7 DEF copy

LEMMA FlushBeginsOK == ASSUME QueueOK, FlushBegins PROVE QueueOK'
<1>. DEFINE f == [on |-> TRUE, copy |-> refills, todo |-> DOMAIN refills, same |-> DOMAIN refills,
                  struck |-> {}, outcomes |-> Empty]
<1>1. flush' = f /\ refills' = refills
    BY DEF FlushBegins
<1>2. refills \in Partial(Entry) /\ DOMAIN refills \subseteq Bases /\ Empty \in Partial(Verdict)
    BY PartialDef, EmptyOK DEF QueueOK
<1>3. f \in FlushRecord
    BY <1>2 DEF FlushRecord
<1>4. DOMAIN Empty = {}
    BY DEF Empty
<1>. QED  BY <1>1, <1>2, <1>3, <1>4 DEF QueueOK

\* The verdict on an entry.
Judged(b, v) == [Done(b) EXCEPT !.outcomes = Put(@, b, v)]

LEMMA VerdictOK ==
    ASSUME QueueOK, NEW b \in flush.todo, NEW v \in Verdict,
           NEW f, f = Judged(b, v)
    PROVE  /\ f \in FlushRecord /\ f.on = flush.on /\ f.copy = flush.copy /\ f.todo = flush.todo \ {b}
           /\ f.same = flush.same /\ f.struck = flush.struck
           /\ DOMAIN f.outcomes = DOMAIN flush.outcomes \cup {b} /\ f.outcomes[b] = v
           /\ \A c \in DOMAIN flush.outcomes : c # b => f.outcomes[c] = flush.outcomes[c]
<1>. DEFINE old == flush.outcomes
<1>1. old \in Partial(Verdict) /\ b \in Bases /\ flush \in FlushRecord
    BY DEF QueueOK, FlushRecord
<1>. DEFINE new == Put(old, b, v)
<1>2. f = [flush EXCEPT !.todo = flush.todo \ {b}, !.outcomes = new]
    BY <1>1 DEF Done, Judged, FlushRecord
<1>. HIDE DEF old
<1>3. /\ new \in Partial(Verdict) /\ DOMAIN new = DOMAIN old \cup {b} /\ new[b] = v
      /\ \A c \in DOMAIN old : c # b => new[c] = old[c]
    BY <1>1, PutOK
<1>. HIDE DEF new
<1>4. f \in FlushRecord /\ f.outcomes = new
    BY <1>1, <1>2, <1>3 DEF FlushRecord
<1>. QED  BY <1>1, <1>2, <1>3, <1>4 DEF FlushRecord, old

LEMMA JudgedOK ==
    ASSUME QueueOK, NEW b \in flush.todo, NEW v \in Verdict,
           v.keep => v.attempts >= flush.copy[b].attempts,
           flush' = Judged(b, v), UNCHANGED refills
    PROVE  /\ QueueOK' /\ flush'.same = flush.same /\ flush'.struck = flush.struck
           /\ flush'.todo = flush.todo \ {b} /\ flush'.copy = flush.copy
<1>1. /\ flush' \in FlushRecord /\ flush'.on = flush.on /\ flush'.copy = flush.copy
      /\ flush'.todo = flush.todo \ {b} /\ flush'.same = flush.same /\ flush'.struck = flush.struck
      /\ DOMAIN flush'.outcomes = DOMAIN flush.outcomes \cup {b} /\ flush'.outcomes[b] = v
      /\ \A c \in DOMAIN flush.outcomes : c # b => flush'.outcomes[c] = flush.outcomes[c]
    BY VerdictOK
<1>2. b \notin flush.struck /\ b \in DOMAIN flush.copy /\ b \notin DOMAIN flush.outcomes
    BY DEF QueueOK
<1>3. flush.copy[b].attempts \in Int
    BY <1>2, PartialDef, EntryFields DEF QueueOK, FlushRecord
<1>4. v.keep => v.attempts \in Int
    BY VerdictFields
<1>5. \A c \in DOMAIN flush'.outcomes :
          /\ c \in DOMAIN flush.copy /\ c \notin flush'.todo
          /\ flush'.outcomes[c].keep =>
                flush'.outcomes[c].attempts >= flush.copy[c].attempts + (IF c \in flush.struck THEN 1 ELSE 0)
    BY <1>1, <1>2, <1>3, <1>4 DEF QueueOK
<1>6. /\ flush'.todo \subseteq DOMAIN flush'.copy
      /\ \A c \in flush'.struck : /\ c \in DOMAIN flush'.outcomes /\ c \in DOMAIN flush'.copy
                                  /\ flush'.copy[c].ours
    BY <1>1 DEF QueueOK
<1>7. QueueOK'
    BY <1>1, <1>5, <1>6 DEF QueueOK
<1>. QED  BY <1>1, <1>7

LEMMA StruckOK ==
    ASSUME QueueOK, NEW b \in flush.todo, NEW v \in Verdict, flush.copy[b].ours,
           v.keep => v.attempts >= flush.copy[b].attempts + 1,
           NEW f, f = Judged(b, v),
           flush' = [f EXCEPT !.struck = @ \cup {b}], UNCHANGED refills
    PROVE  /\ QueueOK' /\ flush'.same = flush.same /\ flush'.struck = flush.struck \cup {b}
           /\ flush'.todo = flush.todo \ {b} /\ flush'.copy = flush.copy
<1>1. /\ f \in FlushRecord /\ f.on = flush.on /\ f.copy = flush.copy
      /\ f.todo = flush.todo \ {b} /\ f.same = flush.same /\ f.struck = flush.struck
      /\ DOMAIN f.outcomes = DOMAIN flush.outcomes \cup {b} /\ f.outcomes[b] = v
      /\ \A c \in DOMAIN flush.outcomes : c # b => f.outcomes[c] = flush.outcomes[c]
    BY VerdictOK
<1>2. b \in Bases /\ b \notin flush.struck /\ b \in DOMAIN flush.copy /\ b \notin DOMAIN flush.outcomes
    BY DEF QueueOK, FlushRecord
<1>3. /\ flush' \in FlushRecord /\ flush'.on = flush.on /\ flush'.copy = flush.copy
      /\ flush'.todo = flush.todo \ {b} /\ flush'.same = flush.same
      /\ flush'.struck = flush.struck \cup {b} /\ flush'.outcomes = f.outcomes
    BY <1>1, <1>2 DEF FlushRecord
<1>4. \A c \in DOMAIN flush'.outcomes :
          /\ c \in DOMAIN flush.copy /\ c \notin flush'.todo
          /\ flush'.outcomes[c].keep =>
                flush'.outcomes[c].attempts >= flush.copy[c].attempts + (IF c \in flush'.struck THEN 1 ELSE 0)
    BY <1>1, <1>2, <1>3 DEF QueueOK
<1>5. /\ flush'.todo \subseteq DOMAIN flush'.copy
      /\ \A c \in flush'.struck : /\ c \in DOMAIN flush'.outcomes /\ c \in DOMAIN flush'.copy
                                  /\ flush'.copy[c].ours
    BY <1>1, <1>2, <1>3 DEF QueueOK
<1>6. flush.on
    BY DEF QueueOK
<1>7. QueueOK'
    <2>1. refills' \in Partial(Entry) /\ flush'.on
        BY <1>3, <1>6 DEF QueueOK
    <2>2. \A c \in flush'.same : /\ c \in DOMAIN refills' /\ c \in DOMAIN flush'.copy
                                 /\ refills'[c].ours = flush'.copy[c].ours
                                 /\ refills'[c].attempts = flush'.copy[c].attempts
        BY <1>3 DEF QueueOK
    <2>. QED  BY <1>3, <1>4, <1>5, <2>1, <2>2 DEF QueueOK
<1>. QED  BY <1>3, <1>7

\* The two verdicts.
LEMMA DropsIs ==
    ASSUME NEW b
    PROVE  /\ [keep |-> FALSE] \in Verdict /\ ~[keep |-> FALSE].keep
           /\ Drops(b) = Judged(b, [keep |-> FALSE])
<1>1. [keep |-> FALSE] \in [keep: {FALSE}]
    OBVIOUS
<1>. QED  BY <1>1 DEF Verdict, Drops, Judged

LEMMA KeepsIs ==
    ASSUME NEW b, NEW n \in 0..(MaxAttempts - 1)
    PROVE  /\ [keep |-> TRUE, attempts |-> n] \in Verdict /\ [keep |-> TRUE, attempts |-> n].attempts = n
           /\ Keeps(b, n) = Judged(b, [keep |-> TRUE, attempts |-> n])
<1>1. [keep |-> TRUE, attempts |-> n] \in [keep: {TRUE}, attempts: 0..(MaxAttempts - 1)]
    OBVIOUS
<1>. QED  BY <1>1 DEF Verdict, Keeps, Judged

\* An entry that has failed is kept with one more attempt, or dropped.
LEMMA FailedIs ==
    ASSUME QueueOK, NEW b \in flush.todo
    PROVE  \E v \in Verdict : /\ v.keep => v.attempts >= flush.copy[b].attempts + 1
                              /\ Failed(b) = Judged(b, v)
<1>. DEFINE n == flush.copy[b].attempts + 1
<1>1. n \in Int /\ 1 <= n /\ n <= MaxAttempts
    <2>1. flush.copy[b] \in Entry
        BY PartialDef DEF QueueOK, FlushRecord
    <2>. QED  BY <2>1, EntryFields, LimitAssumption
<1>2. CASE n >= MaxAttempts
    BY <1>2, DropsIs DEF Failed
<1>3. CASE ~(n >= MaxAttempts)
    <2>1. n \in 0..(MaxAttempts - 1)
        BY <1>1, <1>3, LimitAssumption
    <2>2. Failed(b) = Keeps(b, n)
        BY <1>3 DEF Failed
    <2>. HIDE DEF n
    <2>3. /\ [keep |-> TRUE, attempts |-> n] \in Verdict /\ [keep |-> TRUE, attempts |-> n].attempts >= n
          /\ Failed(b) = Judged(b, [keep |-> TRUE, attempts |-> n])
        BY <1>1, <2>1, <2>2, KeepsIs
    <2>. QED  BY <2>3 DEF n
<1>. QED  BY <1>2, <1>3

-----------------------------------------------------------------------------
(* The load of a base: its strikes on record, and those it may still get *)

\* The attempts its entry has left, if a scan queued that.
Left(b) == IF b \in DOMAIN refills /\ refills[b].ours THEN MaxAttempts - refills[b].attempts ELSE 0

\* The attempt of a pass at an entry that has been cancelled or replaced since.
Stray(b) == IF b \in flush.todo \ flush.same /\ flush.copy[b].ours THEN 1 ELSE 0

Load(b) == strikes[b] - Unrecorded(b) + Left(b) + Stray(b)

Lighter == \A c \in Bases : Load(c)' <= Load(c)

LEMMA LoadFacts ==
    ASSUME RollOK, QueueOK, NEW b \in Bases
    PROVE  /\ strikes[b] \in Int /\ Left(b) \in Int /\ Load(b) \in Int
           /\ Unrecorded(b) \in {0, 1} /\ Stray(b) \in {0, 1} /\ 0 <= Left(b)
           /\ Unrecorded(b) = 1 => 1 <= Left(b) /\ Stray(b) = 0
           /\ b \in flush.same \cap flush.todo /\ flush.copy[b].ours => 1 <= Left(b) /\ Unrecorded(b) = 0
           /\ strikes[b] <= Load(b)
<1>1. strikes[b] \in Int
    BY DEF RollOK
<1>2. \A c \in DOMAIN refills : refills[c].attempts \in Int /\ 1 <= MaxAttempts - refills[c].attempts
    <2>1. \A c \in DOMAIN refills : refills[c] \in Entry
        BY PartialDef DEF QueueOK
    <2>2. \A c \in DOMAIN refills : refills[c].attempts \in Int /\ refills[c].attempts < MaxAttempts
        BY <2>1, EntryFields
    <2>. QED  BY <2>2, LimitAssumption
<1>3. Left(b) \in Int /\ 0 <= Left(b)
    BY <1>2, LimitAssumption DEF Left
<1>4. Unrecorded(b) \in {0, 1} /\ Stray(b) \in {0, 1}
    BY DEF Unrecorded, Stray
<1>5. b \in flush.same /\ flush.copy[b].ours => 1 <= Left(b)
    BY <1>2 DEF Left, QueueOK
<1>6. Unrecorded(b) = 1 => b \in flush.struck /\ b \in flush.same /\ flush.copy[b].ours /\ b \notin flush.todo
    BY DEF Unrecorded, QueueOK
<1>7. Unrecorded(b) = 1 => 1 <= Left(b) /\ Stray(b) = 0
    BY <1>5, <1>6 DEF Stray
<1>8. b \in flush.todo => Unrecorded(b) = 0
    BY DEF Unrecorded, QueueOK
<1>9. Load(b) \in Int /\ strikes[b] <= Load(b)
    BY <1>1, <1>3, <1>4, <1>7 DEF Load
<1>. QED  BY <1>1, <1>3, <1>4, <1>5, <1>7, <1>8, <1>9

\* A new entry adds its attempts, if it is a scan's.
LEMMA LoadPuts ==
    ASSUME RollOK, QueueOK, NEW b \in Bases, NEW o \in BOOLEAN, Queue(b, o), UNCHANGED strikes
    PROVE  /\ \A c \in Bases : c # b => Load(c)' = Load(c)
           /\ Load(b)' <= Load(b) + (IF o THEN MaxAttempts ELSE 0)
<1>1. /\ QueueOK' /\ DOMAIN refills' = DOMAIN refills \cup {b}
      /\ refills'[b].attempts = 0 /\ refills'[b].ours = o
      /\ \A c \in DOMAIN refills : c # b => refills'[c] = refills[c]
      /\ flush'.same = flush.same \ {b} /\ flush'.todo = flush.todo /\ flush'.copy = flush.copy
      /\ flush'.struck = flush.struck
    BY QueuePuts
<1>2. \A c \in Bases : c # b => Left(c)' = Left(c) /\ Stray(c)' = Stray(c) /\ Unrecorded(c)' = Unrecorded(c)
    BY <1>1 DEF Left, Stray, Unrecorded
<1>3. Left(b)' = (IF o THEN MaxAttempts ELSE 0) /\ Unrecorded(b)' = 0
    BY <1>1, LimitAssumption DEF Left, Unrecorded
<1>4. Stray(b)' <= Left(b) + Stray(b) - Unrecorded(b)
    <2>1. Stray(b)' = IF b \in flush.todo /\ flush.copy[b].ours THEN 1 ELSE 0
        BY <1>1 DEF Stray
    <2>2. b \notin flush.same => Stray(b)' = Stray(b) /\ Unrecorded(b) = 0
        BY <2>1 DEF Stray, Unrecorded
    <2>. QED  BY <2>1, <2>2, LoadFacts
<1>5. strikes[b] \in Int /\ Left(b) \in Int /\ Unrecorded(b) \in Int /\ Stray(b) \in Int /\ Stray(b)' \in Int
    BY LoadFacts DEF Stray
<1>. QED  BY <1>2, <1>3, <1>4, <1>5, LimitAssumption DEF Load

LEMMA LoadCuts ==
    ASSUME RollOK, QueueOK, NEW b \in Bases, Unqueue(b), UNCHANGED strikes
    PROVE  Lighter
<1>1. /\ QueueOK' /\ DOMAIN refills' = DOMAIN refills \ {b}
      /\ \A c \in DOMAIN refills \ {b} : refills'[c] = refills[c]
      /\ flush'.same = flush.same \ {b} /\ flush'.todo = flush.todo /\ flush'.copy = flush.copy
      /\ flush'.struck = flush.struck
    BY QueueCuts
<1>2. \A c \in Bases : c # b => Left(c)' = Left(c) /\ Stray(c)' = Stray(c) /\ Unrecorded(c)' = Unrecorded(c)
    BY <1>1 DEF Left, Stray, Unrecorded
<1>3. Left(b)' = 0 /\ Unrecorded(b)' = 0
    BY <1>1 DEF Left, Unrecorded
<1>4. Stray(b)' <= Left(b) + Stray(b) - Unrecorded(b)
    <2>1. Stray(b)' = IF b \in flush.todo /\ flush.copy[b].ours THEN 1 ELSE 0
        BY <1>1 DEF Stray
    <2>2. b \notin flush.same => Stray(b)' = Stray(b) /\ Unrecorded(b) = 0
        BY <2>1 DEF Stray, Unrecorded
    <2>. QED  BY <2>1, <2>2, LoadFacts
<1>5. strikes[b] \in Int /\ Left(b) \in Int /\ Unrecorded(b) \in Int /\ Stray(b) \in Int /\ Stray(b)' \in Int
    BY LoadFacts DEF Stray
<1>6. Load(b)' <= Load(b)
    BY <1>3, <1>4, <1>5 DEF Load
<1>7. \A c \in Bases : c # b => Load(c)' = Load(c) /\ Load(c) \in Int
    BY <1>2, LoadFacts DEF Load
<1>. QED  BY <1>6, <1>7 DEF Lighter

\* Bases that are counted anew have no load.
LEMMA LoadAnew ==
    ASSUME RollOK, QueueOK, NEW B \in SUBSET Bases, CountAnew(B)
    PROVE  \A c \in Bases : Load(c)' = IF c \in B THEN 0 ELSE Load(c)
<1>1. /\ QueueOK' /\ DOMAIN refills' = DOMAIN refills
      /\ \A c \in DOMAIN refills : /\ c \notin B => refills'[c] = refills[c]
                                   /\ c \in B => refills'[c].ours = FALSE
      /\ flush'.same = flush.same /\ flush'.todo = flush.todo /\ flush'.struck = flush.struck \ B
      /\ \A c \in DOMAIN flush.copy : /\ c \notin B => flush'.copy[c] = flush.copy[c]
                                      /\ c \in B => flush'.copy[c].ours = FALSE
    BY QueueDischarged
<1>2. flush.todo \subseteq DOMAIN flush.copy
    BY DEF QueueOK
<1>3. \A c \in Bases : strikes'[c] = IF c \in B THEN 0 ELSE strikes[c]
    BY DEF CountAnew
<1>4. ASSUME NEW c \in Bases, c \in B PROVE Load(c)' = 0
    <2>1. Left(c)' = 0 /\ Stray(c)' = 0 /\ Unrecorded(c)' = 0
        BY <1>1, <1>2, <1>4 DEF Left, Stray, Unrecorded
    <2>. QED  BY <1>3, <1>4, <2>1 DEF Load
<1>5. ASSUME NEW c \in Bases, c \notin B PROVE Load(c)' = Load(c)
    <2>1. Left(c)' = Left(c) /\ Stray(c)' = Stray(c) /\ Unrecorded(c)' = Unrecorded(c)
        BY <1>1, <1>2, <1>5 DEF Left, Stray, Unrecorded
    <2>. QED  BY <1>3, <1>5, <2>1 DEF Load
<1>. QED  BY <1>4, <1>5

-----------------------------------------------------------------------------
(* The flush makes no base heavier *)

LEMMA LighterIfSame ==
    ASSUME RollOK, QueueOK, UNCHANGED <<refills, flush, strikes>>
    PROVE  QueueOK' /\ Lighter
<1>1. \A c \in Bases : Load(c)' = Load(c) /\ Load(c) \in Int
    BY LoadFacts DEF Load, Left, Stray, Unrecorded
<1>. QED  BY <1>1 DEF Lighter, QueueOK

LEMMA JudgedLight ==
    ASSUME RollOK, QueueOK, NEW b \in flush.todo, NEW v \in Verdict,
           v.keep => v.attempts >= flush.copy[b].attempts,
           flush' = Judged(b, v), UNCHANGED <<refills, strikes>>
    PROVE  QueueOK' /\ Lighter /\ flush'.struck = flush.struck
<1>1. /\ QueueOK' /\ flush'.same = flush.same /\ flush'.struck = flush.struck
      /\ flush'.todo = flush.todo \ {b} /\ flush'.copy = flush.copy
    BY JudgedOK
<1>2. \A c \in Bases : Left(c)' = Left(c) /\ Unrecorded(c)' = Unrecorded(c) /\ Stray(c)' <= Stray(c)
    BY <1>1 DEF Left, Stray, Unrecorded
<1>3. \A c \in Bases : /\ strikes[c] \in Int /\ Left(c) \in Int /\ Unrecorded(c) \in Int
                       /\ Stray(c) \in Int /\ Stray(c)' \in Int
    BY LoadFacts DEF Stray
<1>. QED  BY <1>1, <1>2, <1>3 DEF Lighter, Load

LEMMA StruckLight ==
    ASSUME RollOK, QueueOK, NEW b \in flush.todo, NEW v \in Verdict, flush.copy[b].ours,
           v.keep => v.attempts >= flush.copy[b].attempts + 1,
           NEW f, f = Judged(b, v),
           flush' = [f EXCEPT !.struck = @ \cup {b}], UNCHANGED refills,
           strikes' = [strikes EXCEPT ![b] = IF b \in flush'.struck THEN @ + 1 ELSE @]
    PROVE  QueueOK' /\ Lighter /\ strikes' \in [Bases -> Int]
<1>1. /\ QueueOK' /\ flush'.same = flush.same /\ flush'.struck = flush.struck \cup {b}
      /\ flush'.todo = flush.todo \ {b} /\ flush'.copy = flush.copy
    BY StruckOK
<1>2. b \in Bases /\ strikes \in [Bases -> Int]
    BY DEF QueueOK, FlushRecord, RollOK
<1>3. strikes' = [strikes EXCEPT ![b] = strikes[b] + 1]
    BY <1>1
<1>4. /\ strikes' \in [Bases -> Int] /\ strikes'[b] = strikes[b] + 1
      /\ \A c \in Bases : c # b => strikes'[c] = strikes[c]
    BY <1>2, <1>3
<1>5. \A c \in Bases : Left(c)' = Left(c)
    BY DEF Left
<1>6. \A c \in Bases : c # b => Unrecorded(c)' = Unrecorded(c) /\ Stray(c)' = Stray(c)
    BY <1>1 DEF Stray, Unrecorded
<1>7. Stray(b)' = 0 /\ Unrecorded(b) = 0 /\ Unrecorded(b)' = 1 - Stray(b)
    BY <1>1, <1>2 DEF Stray, Unrecorded, QueueOK
<1>8. \A c \in Bases : /\ strikes[c] \in Int /\ Left(c) \in Int /\ Unrecorded(c) \in Int /\ Stray(c) \in Int
    BY LoadFacts
<1>9. Load(b)' = Load(b)
    BY <1>2, <1>4, <1>5, <1>7, <1>8 DEF Load
<1>10. \A c \in Bases : c # b => Load(c)' = Load(c)
    BY <1>4, <1>5, <1>6 DEF Load
<1>. QED  BY <1>1, <1>4, <1>8, <1>9, <1>10, LoadFacts DEF Lighter

LEMMA CopyEntry == ASSUME QueueOK, NEW b \in flush.todo PROVE
    /\ b \in Bases /\ flush.copy[b] \in Entry /\ flush.copy[b].attempts \in 0..(MaxAttempts - 1)
<1>1. b \in Bases /\ flush.copy[b] \in Entry
    BY PartialDef DEF QueueOK, FlushRecord
<1>. QED  BY <1>1 DEF Entry

LEMMA PassesLight == ASSUME RollOK, QueueOK, NEW b \in Bases, FlushPasses(b) PROVE QueueOK' /\ Lighter
<1>1. b \in flush.todo /\ UNCHANGED <<refills, strikes>>
    BY DEF FlushPasses, history
<1>2. CASE flush' = Drops(b)
    BY <1>1, <1>2, DropsIs, JudgedLight
<1>3. CASE flush' = Done(b)
    <2>1. /\ flush' \in FlushRecord /\ flush'.todo = flush.todo \ {b} /\ flush'.same = flush.same
          /\ flush'.copy = flush.copy /\ flush'.struck = flush.struck /\ flush'.outcomes = flush.outcomes
          /\ flush'.on = flush.on
        BY <1>3 DEF Done, QueueOK, FlushRecord
    <2>2. QueueOK'
        BY <1>1, <2>1 DEF QueueOK
    <2>3. \A c \in Bases : Left(c)' = Left(c) /\ Unrecorded(c)' = Unrecorded(c) /\ Stray(c)' <= Stray(c)
        BY <1>1, <2>1 DEF Left, Stray, Unrecorded
    <2>4. \A c \in Bases : /\ strikes[c] \in Int /\ Left(c) \in Int /\ Unrecorded(c) \in Int
                           /\ Stray(c) \in Int /\ Stray(c)' \in Int
        BY LoadFacts DEF Stray
    <2>. QED  BY <1>1, <2>2, <2>3, <2>4 DEF Lighter, Load
<1>. QED  BY <1>2, <1>3 DEF FlushPasses

LEMMA AppliesLight ==
    ASSUME RollOK, QueueOK, NEW b \in Bases, FlushApplies(b)
    PROVE  QueueOK' /\ Lighter /\ strikes' \in [Bases -> Int]
<1>1. b \in flush.todo /\ refills' = refills /\ strikes \in [Bases -> Int]
    BY DEF FlushApplies, RollOK
<1>2. strikes' = [strikes EXCEPT ![b] = IF b \in flush'.struck THEN @ + 1 ELSE @]
    BY DEF FlushApplies
<1>3. ASSUME NEW v \in Verdict, v.keep => v.attempts >= flush.copy[b].attempts + 1,
             Struck(b, Judged(b, v)) \/ (flush' = Judged(b, v) /\ ~v.keep)
      PROVE  QueueOK' /\ Lighter /\ strikes' \in [Bases -> Int]
    <2>1. CASE flush' = Judged(b, v)
        <3>1. flush'.struck = flush.struck
            BY <1>1, <2>1, VerdictOK
        <3>2. b \notin flush'.struck
            BY <1>1, <3>1 DEF QueueOK
        <3>3. strikes' = strikes
            BY <1>1, <1>2, <3>2
        <3>4. v.keep => v.attempts >= flush.copy[b].attempts
            BY <1>1, <1>3, CopyEntry, VerdictFields, LimitAssumption
        <3>. QED  BY <1>1, <2>1, <3>3, <3>4, JudgedLight
    <2>2. CASE flush.copy[b].ours /\ flush' = [Judged(b, v) EXCEPT !.struck = @ \cup {b}]
        <3>. DEFINE f == Judged(b, v)
        <3>1. f = Judged(b, v) /\ flush' = [f EXCEPT !.struck = @ \cup {b}]
            BY <2>2
        <3>. HIDE DEF f
        <3>. QED  BY <1>1, <1>2, <1>3, <2>2, <3>1, StruckLight
    <2>. QED  BY <1>3, <2>1, <2>2 DEF Struck
<1>4. Drops(b) = Judged(b, [keep |-> FALSE]) /\ [keep |-> FALSE] \in Verdict /\ ~[keep |-> FALSE].keep
    BY DropsIs
<1>5. CASE flush' = Drops(b) \/ Struck(b, Drops(b))
    BY <1>3, <1>4, <1>5
<1>6. CASE Struck(b, Failed(b))
    BY <1>1, <1>3, <1>6, FailedIs
<1>. QED  BY <1>5, <1>6 DEF FlushApplies

LEMMA FailsLight == ASSUME RollOK, QueueOK, NEW b \in Bases, FlushFails(b) PROVE QueueOK' /\ Lighter
<1>. DEFINE n == flush.copy[b].attempts
<1>1. b \in flush.todo /\ UNCHANGED <<refills, strikes>> /\ flush' = Keeps(b, n)
    BY DEF FlushFails, history
<1>2. n \in 0..(MaxAttempts - 1)
    BY <1>1, CopyEntry
<1>. HIDE DEF n
<1>3. /\ [keep |-> TRUE, attempts |-> n] \in Verdict /\ [keep |-> TRUE, attempts |-> n].attempts >= n
      /\ flush' = Judged(b, [keep |-> TRUE, attempts |-> n])
    BY <1>1, <1>2, KeepsIs, LimitAssumption
<1>. QED  BY <1>1, <1>3, JudgedLight DEF n

LEMMA BeginsLight == ASSUME RollOK, QueueOK, FlushBegins PROVE QueueOK' /\ Lighter
<1>1. /\ QueueOK' /\ UNCHANGED <<refills, strikes>>
      /\ flush'.struck = {} /\ flush'.todo = DOMAIN refills /\ flush'.same = DOMAIN refills
    BY FlushBeginsOK DEF FlushBegins, history
<1>2. flush.struck = {} /\ flush.todo = {}
    BY DEF FlushBegins, QueueOK
<1>3. \A c \in Bases : /\ Left(c)' = Left(c) /\ Unrecorded(c)' = 0 /\ Stray(c)' = 0
                       /\ Unrecorded(c) = 0 /\ Stray(c) = 0
    BY <1>1, <1>2 DEF Left, Stray, Unrecorded
<1>. QED  BY <1>1, <1>3, LoadFacts DEF Lighter, Load

\* A pass that does not end takes back what it has not recorded.
LEMMA StopsLight ==
    ASSUME RollOK, QueueOK, flush' = IdleFlush, refills' \in Partial(Entry),
           DOMAIN refills' = DOMAIN refills,
           NEW b \in Bases, strikes'[b] = strikes[b] - Unrecorded(b),
           b \in DOMAIN refills => refills'[b] = refills[b]
    PROVE  Load(b)' <= Load(b)
<1>1. Left(b)' = Left(b) /\ Unrecorded(b)' = 0 /\ Stray(b)' = 0
    BY DEF Left, Stray, Unrecorded, IdleFlush
<1>. QED  BY <1>1, LoadFacts DEF Load

LEMMA AbortsLight ==
    ASSUME RollOK, QueueOK, FlushAborts PROVE QueueOK' /\ Lighter /\ strikes' \in [Bases -> Int]
<1>1. refills' = refills /\ flush' = IdleFlush
    BY DEF FlushAborts
<1>2. QueueOK'
    <2>1. refills' \in Partial(Entry)
        BY <1>1 DEF QueueOK
    <2>2. IdleFlush \in FlushRecord /\ DOMAIN Empty = {}
        BY EmptyOK DEF IdleFlush, FlushRecord
    <2>. QED  BY <1>1, <2>1, <2>2 DEF IdleFlush, QueueOK
<1>3. \A c \in Bases : strikes'[c] = strikes[c] - Unrecorded(c)
    BY DEF FlushAborts
<1>4. strikes' \in [Bases -> Int]
    BY LoadFacts DEF FlushAborts
<1>5. refills \in Partial(Entry)
    BY DEF QueueOK
<1>. QED  BY <1>1, <1>2, <1>3, <1>4, <1>5, StopsLight DEF Lighter

LEMMA EndsLight == ASSUME RollOK, QueueOK, FlushEnds PROVE QueueOK' /\ Lighter
<1>. DEFINE seen == DOMAIN flush.outcomes \cap flush.same
<1>. DEFINE kept == DOMAIN refills \ {b \in seen : ~flush.outcomes[b].keep}
<1>. DEFINE Next1(b) == IF b \in seen THEN [refills[b] EXCEPT !.attempts = flush.outcomes[b].attempts, !.retry = TRUE]
                        ELSE refills[b]
<1>1. refills' = [b \in kept |-> Next1(b)] /\ flush' = IdleFlush /\ flush.todo = {} /\ strikes' = strikes
    BY DEF FlushEnds, history
<1>2. \A b \in DOMAIN refills : refills[b] \in Entry /\ b \in Bases
    BY PartialDef DEF QueueOK
<1>3. \A b \in seen \cap kept :
          /\ flush.outcomes[b] \in Verdict /\ flush.outcomes[b].keep
          /\ flush.outcomes[b].attempts >= refills[b].attempts + Unrecorded(b)
    <2>1. \A b \in DOMAIN flush.outcomes : flush.outcomes[b] \in Verdict
        BY PartialDef DEF QueueOK, FlushRecord
    <2>. QED  BY <2>1 DEF QueueOK, Unrecorded
<1>4. \A b \in seen \cap kept : flush.outcomes[b].attempts \in 0..(MaxAttempts - 1)
    BY <1>3, VerdictFields, LimitAssumption
<1>5. \A b \in kept : /\ Next1(b) \in Entry /\ Next1(b).ours = refills[b].ours
                      /\ Next1(b).attempts >= refills[b].attempts + Unrecorded(b)
    <2>1. ASSUME NEW b \in kept, b \notin seen
          PROVE  Next1(b) = refills[b] /\ Unrecorded(b) = 0
        BY <2>1 DEF Unrecorded, QueueOK
    <2>2. ASSUME NEW b \in kept, b \in seen
          PROVE  /\ Next1(b) \in Entry /\ Next1(b).ours = refills[b].ours
                 /\ Next1(b).attempts = flush.outcomes[b].attempts
        BY <1>2, <1>4, <2>2 DEF Entry
    <2>3. \A b \in kept : b \in DOMAIN refills /\ refills[b].attempts \in Int /\ refills[b] \in Entry
        BY <1>2, EntryFields
    <2>. HIDE DEF Next1, kept, seen
    <2>. QED  BY <1>3, <2>1, <2>2, <2>3
<1>. HIDE DEF Next1
<1>6. DOMAIN refills' = kept /\ kept \subseteq DOMAIN refills /\ \A b \in kept : refills'[b] = Next1(b)
    BY <1>1
<1>. HIDE DEF kept, seen
<1>7. refills' \in Partial(Entry)
    BY <1>1, <1>2, <1>5, <1>6, PartialDef
<1>8. QueueOK'
    <2>1. IdleFlush \in FlushRecord /\ DOMAIN Empty = {}
        BY EmptyOK DEF IdleFlush, FlushRecord
    <2>. QED  BY <1>1, <1>7, <2>1 DEF IdleFlush, QueueOK
<1>9. ASSUME NEW c \in Bases PROVE Load(c)' <= Load(c)
    <2>1. Unrecorded(c)' = 0 /\ Stray(c)' = 0 /\ Stray(c) = 0
        BY <1>1 DEF Unrecorded, Stray, IdleFlush
    <2>2. Left(c)' \in Int /\ Left(c)' <= Left(c) - Unrecorded(c)
        <3>1. CASE c \in kept /\ refills[c].ours
            <4>1. refills'[c].attempts \in Int /\ refills[c].attempts \in Int
                BY <1>2, <1>5, <1>6, <3>1, EntryFields
            <4>2. Left(c)' = MaxAttempts - refills'[c].attempts /\ Left(c) = MaxAttempts - refills[c].attempts
                BY <1>5, <1>6, <3>1 DEF Left
            <4>. QED  BY <1>5, <1>6, <3>1, <4>1, <4>2, LoadFacts, LimitAssumption
        <3>2. CASE ~(c \in kept /\ refills[c].ours)
            <4>1. Left(c)' = 0
                BY <1>5, <1>6, <3>2 DEF Left
            <4>. QED  BY <4>1, LoadFacts
        <3>. QED  BY <3>1, <3>2
    <2>. QED  BY <1>1, <2>1, <2>2, LoadFacts DEF Load
<1>. QED  BY <1>8, <1>9 DEF Lighter

-----------------------------------------------------------------------------
(* Every step keeps the types, and most make no base heavier *)

\* What happens to the queue beside the scan.
LEMMA QueueSteps ==
    ASSUME Types,
           \/ FlushBegins \/ FlushAborts \/ FlushEnds
           \/ \E b \in Bases : FlushPasses(b) \/ FlushApplies(b) \/ FlushFails(b) \/ Cancels(b) \/ Ages(b)
    PROVE  Types' /\ Lighter /\ UNCHANGED <<scan, enrolled>>
<1>1. RollOK /\ QueueOK /\ ScanOK
    BY DEF Types
<1>2. UNCHANGED <<scan, enrolled>>
    BY DEF FlushBegins, FlushAborts, FlushEnds, FlushPasses, FlushApplies, FlushFails, Cancels, Ages, file
<1>3. ScanOK'
    BY <1>1, <1>2 DEF ScanOK
<1>4. UNCHANGED <<place, deletes, wanted, route>>
    BY DEF FlushBegins, FlushAborts, FlushEnds, FlushPasses, FlushApplies, FlushFails, Cancels, Ages, world, history
<1>5. ASSUME strikes' \in [Bases -> Int] PROVE RollOK'
    BY <1>1, <1>2, <1>4, <1>5 DEF RollOK
<1>6. QueueOK' /\ Lighter /\ strikes' \in [Bases -> Int]
    <2>1. ASSUME strikes' = strikes PROVE strikes' \in [Bases -> Int]
        BY <1>1, <2>1 DEF RollOK
    <2>2. CASE FlushBegins
        BY <1>1, <2>1, <2>2, BeginsLight DEF FlushBegins, history
    <2>3. CASE FlushAborts
        BY <1>1, <2>3, AbortsLight
    <2>4. CASE FlushEnds
        BY <1>1, <2>1, <2>4, EndsLight DEF FlushEnds, history
    <2>5. ASSUME NEW b \in Bases, FlushPasses(b) PROVE QueueOK' /\ Lighter /\ strikes' \in [Bases -> Int]
        BY <1>1, <2>1, <2>5, PassesLight DEF FlushPasses, history
    <2>6. ASSUME NEW b \in Bases, FlushApplies(b) PROVE QueueOK' /\ Lighter /\ strikes' \in [Bases -> Int]
        BY <1>1, <2>6, AppliesLight
    <2>7. ASSUME NEW b \in Bases, FlushFails(b) PROVE QueueOK' /\ Lighter /\ strikes' \in [Bases -> Int]
        BY <1>1, <2>1, <2>7, FailsLight DEF FlushFails, history
    <2>8. ASSUME NEW b \in Bases, Cancels(b) PROVE QueueOK' /\ Lighter /\ strikes' \in [Bases -> Int]
        <3>1. Unqueue(b) /\ strikes' = strikes
            BY <2>8 DEF Cancels, history
        <3>. QED  BY <1>1, <2>1, <3>1, QueueCuts, LoadCuts
    <2>9. ASSUME NEW b \in Bases, Ages(b) PROVE QueueOK' /\ Lighter /\ strikes' \in [Bases -> Int]
        <3>1. /\ b \in DOMAIN refills /\ UNCHANGED <<flush, strikes>>
              /\ refills' = [refills EXCEPT ![b].old = TRUE]
            BY <2>9 DEF Ages, history
        <3>2. DOMAIN refills \subseteq Bases /\ refills \in [DOMAIN refills -> Entry]
            BY <1>1, PartialDef DEF QueueOK
        <3>3. /\ DOMAIN refills' = DOMAIN refills /\ refills' \in [DOMAIN refills -> Entry]
              /\ \A c \in DOMAIN refills : /\ refills'[c].ours = refills[c].ours
                                           /\ refills'[c].attempts = refills[c].attempts
            BY <3>1, <3>2 DEF Entry
        <3>4. refills' \in Partial(Entry)
            BY <3>2, <3>3, PartialDef
        <3>5. QueueOK'
            BY <1>1, <3>1, <3>3, <3>4 DEF QueueOK
        <3>6. \A c \in Bases : Load(c)' = Load(c) /\ Load(c) \in Int
            BY <1>1, <3>1, <3>3, LoadFacts DEF Load, Left, Stray, Unrecorded
        <3>. QED  BY <2>1, <3>1, <3>5, <3>6 DEF Lighter
    <2>. QED  BY <2>2, <2>3, <2>4, <2>5, <2>6, <2>7, <2>8, <2>9
<1>. QED  BY <1>2, <1>3, <1>5, <1>6 DEF Types

\* What happens to the world, to the deletes, to the schedule and to requests.
LEMMA OtherSteps ==
    ASSUME Types,
           \/ Due \/ TickArms
           \/ \E b \in Bases : \/ RouteAsks(b) \/ DeleteReserves(b) \/ DeleteQueues(b) \/ Deleted(b)
                               \/ DeleteIsOff(b) \/ PicksUp(b) \/ Redeploys(b) \/ Changes(b)
           \/ \E d \in BOOLEAN : MapGoes(d)
    PROVE  Types' /\ Lighter /\ UNCHANGED <<scan, enrolled>>
<1>1. RollOK /\ QueueOK /\ ScanOK
    BY DEF Types
<1>2. UNCHANGED <<scan, enrolled, strikes>>
    BY DEF Due, TickArms, RouteAsks, DeleteReserves, DeleteQueues, Deleted, DeleteIsOff, PicksUp,
           Redeploys, Changes, MapGoes, file, history
<1>3. ScanOK'
    BY <1>1, <1>2 DEF ScanOK
<1>4. RollOK'
    <2>1. wanted' = wanted
        BY DEF Due, TickArms, RouteAsks, DeleteReserves, DeleteQueues, Deleted, DeleteIsOff, PicksUp,
               Redeploys, Changes, MapGoes, file, history
    <2>2. place' = place \/ \E b \in Bases, x \in {"there", "packed", "gone"} : place' = [place EXCEPT ![b] = x]
        BY DEF Due, TickArms, RouteAsks, DeleteReserves, DeleteQueues, Deleted, DeleteIsOff, PicksUp,
               Redeploys, Changes, MapGoes, world
    <2>3. place' \in [Bases -> {"there", "packed", "gone"}]
        BY <1>1, <2>2 DEF RollOK
    <2>4. ASSUME NEW b \in Bases, DeleteReserves(b) \/ DeleteQueues(b) \/ Deleted(b) \/ DeleteIsOff(b)
          PROVE  deletes' \in [Bases -> {"none", "reserved", "left", "queued"}]
        BY <1>1, <2>4 DEF DeleteReserves, DeleteQueues, Deleted, DeleteIsOff, RollOK
    <2>5. deletes' \in [Bases -> {"none", "reserved", "left", "queued"}]
        <3>1. \/ deletes' = deletes
              \/ \E b \in Bases : DeleteReserves(b) \/ DeleteQueues(b) \/ Deleted(b) \/ DeleteIsOff(b)
            BY DEF Due, TickArms, RouteAsks, PicksUp, Redeploys, Changes, MapGoes
        <3>. QED  BY <1>1, <2>4, <3>1 DEF RollOK
    <2>6. route' = route \/ \E b \in Bases : route' = b
        BY DEF Due, TickArms, RouteAsks, DeleteReserves, DeleteQueues, Deleted, DeleteIsOff, PicksUp,
               Redeploys, Changes, MapGoes
    <2>. QED  BY <1>1, <1>2, <2>1, <2>3, <2>5, <2>6 DEF RollOK
<1>5. CASE UNCHANGED <<refills, flush>>
    BY <1>1, <1>2, <1>3, <1>4, <1>5, LighterIfSame DEF Types
<1>6. ASSUME NEW b \in Bases, Unqueue(b) PROVE QueueOK' /\ Lighter
    BY <1>1, <1>2, <1>6, QueueCuts, LoadCuts
<1>7. UNCHANGED <<refills, flush>> \/ \E b \in Bases : Unqueue(b)
    BY DEF Due, TickArms, RouteAsks, DeleteReserves, DeleteQueues, Deleted, DeleteIsOff, PicksUp,
           Redeploys, Changes, MapGoes
<1>. QED  BY <1>2, <1>3, <1>4, <1>5, <1>6, <1>7 DEF Types

LEMMA RouteSteps == ASSUME Types, RouteRefills PROVE Types' /\ Lighter /\ UNCHANGED <<scan, enrolled>>
<1>1. RollOK /\ QueueOK /\ ScanOK /\ route \in Bases /\ UNCHANGED <<scan, enrolled, strikes>>
    BY DEF Types, RouteRefills, RollOK, file, history
<1>2. ScanOK' /\ RollOK'
    BY <1>1 DEF ScanOK, RollOK, RouteRefills, history
<1>3. CASE Queue(route, FALSE)
    <2>1. PICK b \in Bases : Queue(b, FALSE)
        BY <1>1, <1>3
    <2>2. QueueOK' /\ \A c \in Bases : Load(c) \in Int
        BY <1>1, <2>1, QueuePuts, LoadFacts
    <2>3. /\ \A c \in Bases : c # b => Load(c)' = Load(c)
          /\ Load(b)' <= Load(b) + (IF FALSE THEN MaxAttempts ELSE 0)
        BY <1>1, <2>1, LoadPuts
    <2>4. Lighter
        BY <1>1, <2>2, <2>3 DEF Lighter
    <2>. QED  BY <1>1, <1>2, <2>2, <2>4 DEF Types
<1>4. CASE UNCHANGED <<refills, flush>>
    BY <1>1, <1>2, <1>4, LighterIfSame DEF Types
<1>. QED  BY <1>3, <1>4 DEF RouteRefills

\* The scan goes on: it takes up only what it was given, and what it has settled a base
\* with is nothing, the count it began with, or a count anew.
Advances ==
    /\ scan.pc # "idle"
    /\ scan'.queued = scan.queued /\ scan'.was = scan.was /\ scan'.frozen = scan.frozen
    /\ scan'.todo \subseteq scan.todo
    /\ scan'.base \in scan.todo \cup {scan.base, None}
    /\ scan'.base \in (scan.todo \ scan.frozen) \cup {scan.base, None}
    /\ scan'.removed \subseteq scan.removed \cup {b \in Bases : place[b] = "gone"}
    /\ DOMAIN scan.outcomes \subseteq DOMAIN scan'.outcomes
    /\ \A b \in DOMAIN scan.outcomes : scan'.outcomes[b] = scan.outcomes[b]
    /\ \A b \in DOMAIN scan'.outcomes \ DOMAIN scan.outcomes :
          b = scan.base /\ scan'.outcomes[b].queues \in {0, scan.was[b].queues}

LEMMA WithAdvances ==
    ASSUME ScanOK, scan.base # None, NEW o \in Status, o.queues \in {0, Prior.queues}, scan' = With(o)
    PROVE  ScanOK' /\ Advances
<1>1. /\ scan' \in ScanRecord /\ scan'.pc = "next" /\ scan'.base = None /\ scan'.todo = scan.todo
      /\ scan'.was = scan.was /\ scan'.queued = scan.queued /\ scan'.frozen = scan.frozen
      /\ scan'.removed = scan.removed
      /\ DOMAIN scan'.outcomes = DOMAIN scan.outcomes \cup {scan.base}
      /\ scan'.outcomes[scan.base] = o
      /\ \A c \in DOMAIN scan.outcomes : scan'.outcomes[c] = scan.outcomes[c]
    BY WithOK
<1>2. scan.pc # "idle"
    BY DEF ScanOK
<1>. QED  BY <1>1, <1>2, ScanSettles DEF Advances, Prior

LEMMA NextAdvances ==
    ASSUME ScanOK, scan.base # None,
           \/ scan' = NextBase \/ scan' = [NextBase EXCEPT !.failed = TRUE]
           \/ scan' = Without /\ place[scan.base] = "gone"
    PROVE  ScanOK' /\ Advances
<1>1. /\ ScanOK' /\ scan'.queued = scan.queued /\ scan'.outcomes = scan.outcomes
      /\ scan'.todo = scan.todo /\ scan'.base = None /\ scan'.was = scan.was /\ scan'.frozen = scan.frozen
    BY NextBaseOK
<1>2. scan.pc # "idle" /\ scan.base \in Bases /\ scan \in ScanRecord /\ NextBase \in ScanRecord
    BY MovesOn DEF ScanOK, ScanRecord
<1>3. scan'.removed \subseteq scan.removed \cup {b \in Bases : place[b] = "gone"}
    <2>1. NextBase.removed = scan.removed
        BY MovesOn DEF ScanOK
    <2>2. CASE scan' = NextBase \/ scan' = [NextBase EXCEPT !.failed = TRUE]
        BY <1>2, <2>1, <2>2 DEF ScanRecord
    <2>3. CASE scan' = Without /\ place[scan.base] = "gone"
        BY <1>2, <2>1, <2>3 DEF ScanRecord, Without
    <2>. QED  BY <2>2, <2>3
<1>. QED  BY <1>1, <1>2, <1>3 DEF Advances

LEMMA ScanMoves ==
    ASSUME Types,
           \/ ScanObserves \/ ScanChecks \/ ScanReads \/ ScanFailsFor
           \/ \E b \in Bases : ScanTurnsTo(b)
    PROVE  Types' /\ Lighter /\ Advances /\ UNCHANGED <<enrolled, refills>>
<1>1. RollOK /\ QueueOK /\ ScanOK
    BY DEF Types
<1>2. UNCHANGED <<enrolled, refills, flush, strikes>>
    BY DEF ScanObserves, ScanChecks, ScanReads, ScanFailsFor, ScanTurnsTo, file, history
<1>3. RollOK'
    BY <1>1 DEF ScanObserves, ScanChecks, ScanReads, ScanFailsFor, ScanTurnsTo, world, file, history, RollOK
<1>4. QueueOK' /\ Lighter
    BY <1>1, <1>2, LighterIfSame
<1>5. scan.pc \in {"check", "levels", "target"} => scan.base # None /\ scan.base \in Bases
    BY <1>1 DEF ScanOK, ScanRecord
<1>6. None \notin scan.todo /\ None \notin DOMAIN scan.outcomes
    BY <1>1, BaseAssumption, PartialDef DEF ScanOK, ScanRecord
<1>7. CASE ScanObserves
    <2>1. /\ scan.pc = "observe" /\ scan' \in ScanRecord /\ scan'.pc = "next" /\ scan'.base = scan.base
          /\ scan'.todo = scan.todo /\ scan'.was = scan.was /\ scan'.queued = scan.queued
          /\ scan'.outcomes = scan.outcomes /\ scan'.frozen = scan.frozen /\ scan'.removed = scan.removed
        BY <1>1, <1>7 DEF ScanObserves, ScanOK, ScanRecord
    <2>2. ScanOK' /\ Advances
        BY <1>1, <2>1 DEF ScanOK, Advances
    <2>. QED  BY <1>2, <1>3, <1>4, <2>2 DEF Types
<1>8. ASSUME NEW b \in Bases, ScanTurnsTo(b) PROVE ScanOK' /\ Advances
    <2>1. /\ scan.pc = "next" /\ scan.base = None /\ b \in scan.todo /\ b # None
        BY <1>1, <1>6, <1>8 DEF ScanTurnsTo, ScanOK
    <2>2. CASE b \in scan.frozen
        <3>1. /\ scan' \in ScanRecord /\ scan'.pc = "next" /\ scan'.base = None
              /\ scan'.todo = scan.todo \ {b} /\ scan'.was = scan.was /\ scan'.queued = scan.queued
              /\ scan'.outcomes = scan.outcomes /\ scan'.frozen = scan.frozen /\ scan'.removed = scan.removed
            BY <1>1, <1>8, <2>1, <2>2 DEF ScanTurnsTo, ScanOK, ScanRecord
        <3>. QED  BY <1>1, <2>1, <3>1 DEF ScanOK, Advances
    <2>3. CASE b \notin scan.frozen
        <3>1. /\ scan' \in ScanRecord /\ scan'.pc = "check" /\ scan'.base = b
              /\ scan'.todo = scan.todo \ {b} /\ scan'.was = scan.was /\ scan'.queued = scan.queued
              /\ scan'.outcomes = scan.outcomes /\ scan'.frozen = scan.frozen /\ scan'.removed = scan.removed
            BY <1>1, <1>8, <2>1, <2>3 DEF ScanTurnsTo, ScanOK, ScanRecord
        <3>. QED  BY <1>1, <2>1, <2>3, <3>1 DEF ScanOK, Advances
    <2>. QED  BY <2>2, <2>3
\* The step keeps the base in hand.
<1>9. ASSUME NEW pc \in {"levels", "target"}, scan' = [scan EXCEPT !.pc = pc], scan.base # None,
             pc = "target" => scan.was[scan.base].queues < MaxQueues
      PROVE  ScanOK' /\ Advances
    <2>1. /\ scan' \in ScanRecord /\ scan'.pc = pc /\ scan'.base = scan.base
          /\ scan'.todo = scan.todo /\ scan'.was = scan.was /\ scan'.queued = scan.queued
          /\ scan'.outcomes = scan.outcomes /\ scan'.frozen = scan.frozen /\ scan'.removed = scan.removed
        BY <1>1, <1>9 DEF ScanOK, ScanRecord
    <2>. QED  BY <1>1, <1>9, <2>1 DEF ScanOK, Advances
<1>10. CASE ScanChecks
    BY <1>1, <1>5, <1>9, <1>10, NextAdvances, <1>2, <1>3, <1>4 DEF ScanChecks, Types
<1>11. CASE ScanReads
    <2>1. scan.base # None /\ Prior \in Status /\ scan' = Levels
        BY <1>1, <1>5, <1>11, PriorOK DEF ScanReads
    <2>2. [Prior EXCEPT !.stalled = TRUE] \in Status /\ [Prior EXCEPT !.stalled = TRUE].queues = Prior.queues
        BY <2>1 DEF Status
    <2>3. ASSUME scan' = With(Healthy) PROVE ScanOK' /\ Advances
        BY <1>1, <2>1, <2>3, HealthyOK, WithAdvances
    <2>4. ASSUME scan' = With(Prior) PROVE ScanOK' /\ Advances
        BY <1>1, <2>1, <2>4, WithAdvances
    <2>5. ASSUME scan' = With([Prior EXCEPT !.stalled = TRUE]) PROVE ScanOK' /\ Advances
        BY <1>1, <2>1, <2>2, <2>5, WithAdvances
    <2>6. ASSUME scan' = [scan EXCEPT !.pc = "target"], ~(Prior.queues >= MaxQueues) PROVE ScanOK' /\ Advances
        <3>1. scan.was[scan.base].queues < MaxQueues
            BY <2>1, <2>6, LimitAssumption DEF Prior, Status
        <3>. QED  BY <1>9, <2>1, <2>6, <3>1
    <2>7. ASSUME scan' = Without, place[scan.base] = "gone" PROVE ScanOK' /\ Advances
        BY <1>1, <2>1, <2>7, NextAdvances
    <2>. QED  BY <1>2, <1>3, <1>4, <2>1, <2>3, <2>4, <2>5, <2>6, <2>7 DEF Levels, Types
<1>12. CASE ScanFailsFor
    BY <1>1, <1>5, <1>12, NextAdvances, <1>2, <1>3, <1>4 DEF ScanFailsFor, Types
<1>. QED  BY <1>2, <1>3, <1>4, <1>7, <1>8, <1>10, <1>11, <1>12 DEF Types

-----------------------------------------------------------------------------
(* The backstops *)

Cap(n) == n * MaxAttempts

LEMMA CapFacts ==
    /\ \A n \in Nat : Cap(n) \in Int /\ 0 <= Cap(n)
    /\ Cap(0) = 0
    /\ \A n \in Nat : Cap(n + 1) = Cap(n) + MaxAttempts
    /\ \A n, m \in Nat : n <= m => Cap(n) <= Cap(m)
<1>1. \A n \in Nat : Cap(n) \in Int /\ 0 <= Cap(n)
    BY LimitAssumption DEF Cap
<1>2. Cap(0) = 0 /\ \A n \in Nat : Cap(n + 1) = Cap(n) + MaxAttempts
    BY LimitAssumption DEF Cap
<1>3. ASSUME NEW n \in Nat, NEW m \in Nat, n <= m PROVE Cap(n) <= Cap(m)
    <2>1. PICK k \in Nat : m = n + k
        BY <1>3
    <2>2. m * MaxAttempts = n * MaxAttempts + k * MaxAttempts
        BY <2>1, LimitAssumption
    <2>3. k * MaxAttempts \in Nat /\ n * MaxAttempts \in Nat
        BY LimitAssumption
    <2>. QED  BY <2>2, <2>3 DEF Cap
<1>. QED  BY <1>1, <1>2, <1>3

\* The load of a base is covered by the refills that were queued for it: those on its
\* record, those a scan in progress began with or will record.  What a scan in progress
\* has queued is not on record, and a crash gives it up.
Covered(b, n) == Load(b) <= Cap(n)
BackAll == \A b \in Bases : Covered(b, MaxQueues)
BackRoll ==
    \A b \in DOMAIN enrolled : IF b \in DOMAIN scan.queued THEN scan.queued[b] <= Cap(enrolled[b].queues)
                               ELSE Covered(b, enrolled[b].queues)
BackScan ==
    /\ \A b \in scan.todo \cup ({scan.base} \ {None}) : Covered(b, scan.was[b].queues)
    /\ \A b \in DOMAIN scan.outcomes : scan.outcomes[b].queues = 0 \/ Covered(b, scan.outcomes[b].queues)
    /\ \A b \in DOMAIN scan.queued : scan.queued[b] <= Cap(MaxQueues)
Back == BackAll /\ BackRoll /\ BackScan

LEMMA LoadInt == Types => \A c \in Bases : Load(c) \in Int
BY LoadFacts DEF Types

LEMMA LoadIntNext == Types' => (\A c \in Bases : Load(c) \in Int)'
BY LoadInt, PTL

\* The counts are numbers, of bases.
LEMMA Counts ==
    ASSUME Types
    PROVE  /\ MaxQueues \in Nat /\ Cap(MaxQueues) \in Int
           /\ \A b \in DOMAIN enrolled : b \in Bases /\ enrolled[b].queues \in 0..MaxQueues
           /\ \A b \in DOMAIN scan.was : b \in Bases /\ scan.was[b].queues \in 0..MaxQueues
           /\ \A b \in DOMAIN scan.outcomes : b \in Bases /\ scan.outcomes[b].queues \in 0..MaxQueues
           /\ \A b \in scan.todo \cup ({scan.base} \ {None}) : b \in DOMAIN scan.was
           /\ \A b \in DOMAIN scan.queued : b \in Bases /\ scan.queued[b] \in Int
<1>1. MaxQueues \in Nat /\ Cap(MaxQueues) \in Int
    BY LimitAssumption, CapFacts
<1>2. \A s \in Status : s.queues \in 0..MaxQueues
    BY DEF Status
<1>3. \A b \in DOMAIN enrolled : b \in Bases /\ enrolled[b] \in Status
    BY PartialDef DEF Types, RollOK
<1>4. scan.was \in Partial(Status) /\ scan.outcomes \in Partial(Status) /\ scan.queued \in Partial(Int)
    BY DEF Types, ScanOK, ScanRecord
<1>5. \A b \in DOMAIN scan.was : b \in Bases /\ scan.was[b] \in Status
    BY <1>4, PartialDef
<1>6. \A b \in DOMAIN scan.outcomes : b \in Bases /\ scan.outcomes[b] \in Status
    BY <1>4, PartialDef
<1>7. \A b \in DOMAIN scan.queued : b \in Bases /\ scan.queued[b] \in Int
    BY <1>4, PartialDef
<1>8. \A b \in scan.todo \cup ({scan.base} \ {None}) : b \in DOMAIN scan.was
    BY DEF Types, ScanOK
<1>. QED  BY <1>1, <1>2, <1>3, <1>5, <1>6, <1>7, <1>8

\* A base that is no heavier is still covered.
LEMMA StaysCovered ==
    ASSUME Types, Types', Lighter
    PROVE  \A b \in Bases, n \in 0..MaxQueues : Covered(b, n) => Covered(b, n)'
<1>1. \A b \in Bases : Load(b) \in Int /\ Load(b)' \in Int /\ Load(b)' <= Load(b)
    BY LoadInt, LoadIntNext DEF Lighter
<1>2. \A n \in 0..MaxQueues : Cap(n) \in Int
    BY CapFacts, LimitAssumption
<1>. QED  BY <1>1, <1>2 DEF Covered

LEMMA BackLight ==
    ASSUME Types, Types', Back, Lighter, UNCHANGED <<scan, enrolled>>
    PROVE  Back'
<1>1. \A b \in Bases, n \in 0..MaxQueues : Covered(b, n) => Covered(b, n)'
    BY StaysCovered
<1>2. MaxQueues \in 0..MaxQueues
    BY LimitAssumption
<1>3. BackAll'
    BY <1>1, <1>2 DEF Back, BackAll
<1>4. BackRoll'
    BY <1>1, Counts DEF Back, BackRoll
<1>5. BackScan'
    BY <1>1, Counts DEF Back, BackScan
<1>. QED  BY <1>3, <1>4, <1>5 DEF Back

LEMMA BackAdvances ==
    ASSUME Types, Types', Back, Lighter, Advances, UNCHANGED enrolled
    PROVE  Back'
<1>1. \A b \in Bases, n \in 0..MaxQueues : Covered(b, n) => Covered(b, n)'
    BY StaysCovered
<1>2. MaxQueues \in 0..MaxQueues
    BY LimitAssumption
<1>3. BackAll'
    BY <1>1, <1>2 DEF Back, BackAll
<1>4. BackRoll'
    BY <1>1, Counts DEF Back, BackRoll, Advances
<1>5. \A b \in scan'.todo \cup ({scan'.base} \ {None}) :
          b \in scan.todo \cup ({scan.base} \ {None}) /\ scan'.was[b] = scan.was[b]
    BY DEF Advances
<1>6. \A b \in scan'.todo \cup ({scan'.base} \ {None}) : Covered(b, scan.was[b].queues)'
    BY <1>1, <1>5, Counts DEF Back, BackScan
<1>7. ASSUME NEW b \in DOMAIN scan'.outcomes, scan'.outcomes[b].queues # 0
      PROVE  Covered(b, scan.outcomes[b].queues)'
    <2>1. CASE b \in DOMAIN scan.outcomes
        BY <1>1, <1>7, <2>1, Counts DEF Back, BackScan, Advances
    <2>2. CASE b \notin DOMAIN scan.outcomes
        <3>1. b = scan.base /\ scan'.outcomes[b].queues = scan.was[b].queues /\ b # None
            <4>1. None \notin DOMAIN scan'.outcomes
                BY BaseAssumption, PartialDef DEF Types, ScanOK, ScanRecord
            <4>. QED  BY <1>7, <2>2, <4>1 DEF Advances
        <3>. QED  BY <1>1, <3>1, Counts DEF Back, BackScan
    <2>. QED  BY <2>1, <2>2
<1>8. BackScan'
    BY <1>6, <1>7 DEF Back, BackScan, Advances
<1>. QED  BY <1>3, <1>4, <1>8 DEF Back

\* A scan begins, on the record as it is.
LEMMA StartSteps ==
    ASSUME Types, TickScans \/ \E b \in Bases : ScanNow(b)
    PROVE  /\ Types' /\ Lighter /\ UNCHANGED <<enrolled, refills, flush>>
           /\ \/ UNCHANGED scan
              \/ /\ scan.pc = "idle" /\ scan'.pc = "observe" /\ scan'.base = None
                 /\ scan'.todo \subseteq DOMAIN enrolled /\ scan'.was = enrolled
                 /\ scan'.queued = Empty /\ scan'.outcomes = Empty /\ scan'.removed = {}
                 /\ scan'.frozen = {b \in Bases : deletes[b] # "none"}
<1>1. RollOK /\ QueueOK /\ ScanOK
    BY DEF Types
<1>2. UNCHANGED <<enrolled, refills, flush, strikes, place, deletes, wanted, route>>
    BY DEF TickScans, ScanNow, world, file, history
<1>3. RollOK' /\ QueueOK' /\ Lighter
    BY <1>1, <1>2, LighterIfSame DEF RollOK
<1>4. \/ UNCHANGED scan
      \/ /\ scan.pc = "idle"
         /\ \E S \in SUBSET DOMAIN enrolled, d \in BOOLEAN : Starts(S, d)
    BY DEF TickScans, ScanNow
<1>5. CASE UNCHANGED scan
    BY <1>1, <1>2, <1>3, <1>5 DEF ScanOK, Types
<1>6. ASSUME NEW S \in SUBSET DOMAIN enrolled, NEW d \in BOOLEAN, Starts(S, d)
      PROVE  /\ ScanOK' /\ scan'.pc = "observe" /\ scan'.base = None
             /\ scan'.todo \subseteq DOMAIN enrolled /\ scan'.was = enrolled
             /\ scan'.queued = Empty /\ scan'.outcomes = Empty /\ scan'.removed = {}
             /\ scan'.frozen = {b \in Bases : deletes[b] # "none"}
    <2>1. ScanOK'
        BY <1>6, ScanStarts
    <2>. QED  BY <1>6, <2>1 DEF Starts, IdleScan
<1>. QED  BY <1>2, <1>3, <1>4, <1>5, <1>6 DEF Types

LEMMA BackStarts ==
    ASSUME Types, Back, TickScans \/ \E b \in Bases : ScanNow(b)
    PROVE  Back'
<1>1. /\ Types' /\ Lighter /\ UNCHANGED enrolled
      /\ \/ UNCHANGED scan
         \/ /\ scan.pc = "idle" /\ scan'.base = None
            /\ scan'.todo \subseteq DOMAIN enrolled /\ scan'.was = enrolled
            /\ scan'.queued = Empty /\ scan'.outcomes = Empty
    BY StartSteps
<1>2. CASE UNCHANGED scan
    BY <1>1, <1>2, BackLight
<1>3. CASE /\ scan.pc = "idle" /\ scan'.base = None
           /\ scan'.todo \subseteq DOMAIN enrolled /\ scan'.was = enrolled
           /\ scan'.queued = Empty /\ scan'.outcomes = Empty
    <2>1. \A b \in Bases, n \in 0..MaxQueues : Covered(b, n) => Covered(b, n)'
        BY <1>1, StaysCovered
    <2>2. DOMAIN Empty = {} /\ scan.queued = Empty /\ MaxQueues \in 0..MaxQueues
        BY <1>3, LimitAssumption DEF Types, ScanOK, Empty
    <2>3. BackAll'
        BY <2>1, <2>2 DEF Back, BackAll
    <2>4. BackRoll'
        BY <1>1, <1>3, <2>1, <2>2, Counts DEF Back, BackRoll
    <2>5. BackScan'
        BY <1>1, <1>3, <2>1, <2>2, Counts DEF Back, BackRoll, BackScan
    <2>. QED  BY <2>3, <2>4, <2>5 DEF Back
<1>. QED  BY <1>1, <1>2, <1>3

\* The scan queues a refill: the base in hand is a count and a room heavier.
LEMMA QueuingSteps ==
    ASSUME Types, Back, ScanQueues
    PROVE  Types' /\ Back'
<1>1. RollOK /\ QueueOK /\ ScanOK /\ scan.pc = "target" /\ scan.base # None /\ scan.base \in Bases
    BY DEF Types, ScanQueues, ScanOK, ScanRecord
<1>2. UNCHANGED <<enrolled, strikes, place, deletes, wanted, route>>
    BY DEF ScanQueues, file, history, world
<1>3. RollOK'
    BY <1>1, <1>2 DEF RollOK
<1>4. CASE place[scan.base] = "gone"
    <2>1. scan' = Without /\ UNCHANGED <<refills, flush>>
        BY <1>4 DEF ScanQueues
    <2>2. QueueOK' /\ Lighter /\ ScanOK' /\ Advances
        BY <1>1, <1>2, <1>4, <2>1, LighterIfSame, NextAdvances
    <2>. QED  BY <1>2, <1>3, <2>2, BackAdvances DEF Types
<1>5. CASE place[scan.base] # "gone"
    <2>1. PICK b \in Bases : b = scan.base
        BY <1>1
    <2>2. /\ scan' = [With([Prior EXCEPT !.queues = @ + 1]) EXCEPT !.queued = Put(@, scan.base, strikes[scan.base])]
          /\ Queue(b, TRUE)
        BY <1>5, <2>1, Zenon DEF ScanQueues
    <2>3. /\ ScanOK' /\ scan'.pc = "next" /\ scan'.base = None /\ scan'.todo = scan.todo
          /\ scan'.was = scan.was
          /\ DOMAIN scan'.outcomes = DOMAIN scan.outcomes \cup {b}
          /\ scan'.outcomes[b].queues = scan.was[b].queues + 1
          /\ \A c \in DOMAIN scan.outcomes : scan'.outcomes[c] = scan.outcomes[c]
          /\ DOMAIN scan'.queued = DOMAIN scan.queued \cup {b}
          /\ scan'.queued[b] = strikes[b]
          /\ \A c \in DOMAIN scan.queued : scan'.queued[c] = scan.queued[c]
        <3>. DEFINE o == [Prior EXCEPT !.queues = @ + 1]
        <3>. DEFINE w == With(o)
        <3>1. scan' = [w EXCEPT !.queued = Put(@, scan.base, strikes[scan.base])]
            BY <2>2, Zenon
        <3>2. o = [Prior EXCEPT !.queues = @ + 1] /\ w = With(o)
            OBVIOUS
        <3>. HIDE DEF o, w
        <3>. QED  BY <1>1, <2>1, <3>1, <3>2, QueuedOK
    <2>4. QueueOK'
        BY <1>1, <2>2, QueuePuts
    <2>5. Types'
        BY <1>3, <2>3, <2>4 DEF Types
    <2>6. /\ \A c \in Bases : c # b => Load(c)' = Load(c)
          /\ Load(b)' <= Load(b) + (IF TRUE THEN MaxAttempts ELSE 0)
        BY <1>1, <1>2, <2>2, LoadPuts
    <2>. DEFINE q == scan.was[b].queues
    <2>7. q \in Nat /\ q < MaxQueues /\ Covered(b, q) /\ b \notin DOMAIN scan.queued
        BY <1>1, <2>1, Counts DEF ScanOK, Back, BackScan
    <2>8. Load(b) \in Int /\ Load(b)' \in Int /\ strikes[b] \in Int /\ strikes[b] <= Load(b)
        BY <1>1, <2>5, LoadFacts, LoadInt, LoadIntNext DEF Types
    <2>. HIDE DEF q
    <2>9. /\ Load(b)' <= Cap(q + 1) /\ Cap(q + 1) <= Cap(MaxQueues)
          /\ Cap(q) <= Cap(MaxQueues) /\ Cap(q) \in Int /\ Cap(q + 1) \in Int /\ Cap(MaxQueues) \in Int
        <3>1. q + 1 \in Nat /\ q + 1 <= MaxQueues /\ q <= MaxQueues /\ MaxQueues \in Nat
            BY <2>7, LimitAssumption
        <3>2. /\ Cap(q) \in Int /\ Cap(q + 1) \in Int /\ Cap(MaxQueues) \in Int
              /\ Cap(q + 1) <= Cap(MaxQueues) /\ Cap(q) <= Cap(MaxQueues)
            BY <2>7, <3>1, CapFacts
        <3>3. Cap(q + 1) = Cap(q) + MaxAttempts
            BY <2>7, CapFacts
        <3>4. Load(b)' <= Load(b) + MaxAttempts /\ Load(b) <= Cap(q)
            BY <2>6, <2>7 DEF Covered
        <3>. QED  BY <2>8, <3>2, <3>3, <3>4, LimitAssumption
    <2>10. BackAll'
        BY <2>6, <2>8, <2>9 DEF Back, BackAll, Covered
    <2>11. BackRoll'
        <3>1. b \in DOMAIN enrolled => strikes[b] <= Cap(enrolled[b].queues)
            <4>1. ASSUME b \in DOMAIN enrolled PROVE Load(b) <= Cap(enrolled[b].queues) /\ enrolled[b].queues \in Nat
                BY <2>7, <4>1, Counts DEF Back, BackRoll, Covered
            <4>2. \A n \in Nat : Cap(n) \in Int
                BY CapFacts
            <4>. QED  BY <2>8, <4>1, <4>2
        <3>2. ASSUME NEW c \in DOMAIN enrolled, c # b
              PROVE  /\ c \in DOMAIN scan'.queued <=> c \in DOMAIN scan.queued
                     /\ c \in DOMAIN scan.queued => scan'.queued[c] = scan.queued[c]
                     /\ Load(c)' = Load(c)
            BY <2>3, <2>6, <3>2, Counts
        <3>. QED  BY <1>2, <2>3, <3>1, <3>2 DEF Back, BackRoll, Covered
    <2>12. BackScan'
        <3>1. ASSUME NEW c \in scan'.todo \cup ({scan'.base} \ {None})
              PROVE  c \in scan.todo /\ c # b /\ Load(c)' = Load(c) /\ scan'.was[c] = scan.was[c]
            BY <1>1, <2>1, <2>3, <2>6, Counts DEF ScanOK
        <3>2. ASSUME NEW c \in DOMAIN scan'.outcomes, c # b
              PROVE  c \in DOMAIN scan.outcomes /\ scan'.outcomes[c] = scan.outcomes[c] /\ Load(c)' = Load(c)
            BY <2>3, <2>6, <3>2, Counts
        <3>3. \A c \in DOMAIN scan'.outcomes : (scan.outcomes[c].queues = 0 \/ Covered(c, scan.outcomes[c].queues))'
            <4>1. Covered(b, scan.outcomes[b].queues)'
                BY <2>3, <2>9 DEF Covered, q
            <4>. QED  BY <3>2, <4>1 DEF Back, BackScan, Covered
        <3>4. \A c \in DOMAIN scan'.queued : scan'.queued[c] <= Cap(MaxQueues)
            <4>1. strikes[b] <= Cap(MaxQueues)
                BY <2>7, <2>8, <2>9 DEF Covered
            <4>. QED  BY <2>3, <4>1 DEF Back, BackScan
        <3>. QED  BY <3>1, <3>3, <3>4 DEF Back, BackScan, Covered
    <2>. QED  BY <2>5, <2>10, <2>11, <2>12 DEF Back
<1>. QED  BY <1>4, <1>5

\* What the scan leaves of the record.
LEMMA PersistOK ==
    ASSUME enrolled \in Partial(Status), NEW o \in Partial(Status), NEW r, NEW k, Persist(o, r, k)
    PROVE  /\ enrolled' \in Partial(Status) /\ DOMAIN enrolled' = DOMAIN enrolled \ r
           /\ \A b \in DOMAIN enrolled' : enrolled'[b] = IF b \in DOMAIN o THEN o[b] ELSE enrolled[b]
<1>1. enrolled' = [b \in DOMAIN enrolled \ r |-> IF b \in DOMAIN o THEN o[b] ELSE enrolled[b]]
    BY DEF Persist
<1>2. /\ DOMAIN enrolled \subseteq Bases /\ \A b \in DOMAIN enrolled : enrolled[b] \in Status
      /\ \A b \in DOMAIN o : o[b] \in Status
    BY PartialDef
<1>3. enrolled' \in [DOMAIN enrolled \ r -> Status]
    BY <1>1, <1>2
<1>4. DOMAIN enrolled \ r \subseteq Bases /\ DOMAIN enrolled' = DOMAIN enrolled \ r
    BY <1>1, <1>2
<1>5. enrolled' \in Partial(Status)
    BY <1>3, <1>4, PartialDef
<1>. QED  BY <1>1, <1>5

\* No scan is in progress any more.
LEMMA BackIdle ==
    ASSUME scan' = IdleScan, BackAll',
           \A b \in DOMAIN enrolled' : Load(b)' <= Cap(enrolled'[b].queues)
    PROVE  Back'
<1>1. /\ scan'.todo = {} /\ scan'.base = None /\ scan'.outcomes = Empty /\ scan'.queued = Empty
      /\ DOMAIN Empty = {}
    BY DEF IdleScan, Empty
<1>2. BackRoll'
    BY <1>1 DEF BackRoll, Covered
<1>3. BackScan'
    BY <1>1 DEF BackScan
<1>. QED  BY <1>2, <1>3 DEF Back

LEMMA ThrowingSteps == ASSUME Types, Back, ScanThrows PROVE Types' /\ Back'
<1>1. RollOK /\ QueueOK /\ ScanOK /\ scan.pc = "observe" /\ scan' = IdleScan /\ scan.queued = Empty
    BY DEF Types, ScanThrows, ScanOK
<1>2. /\ Empty \in Partial(Status) /\ DOMAIN Empty = {} /\ Persist(Empty, {}, FALSE)
      /\ enrolled \in Partial(Status)
    BY <1>1, EmptyOK DEF ScanThrows, RollOK
<1>3. /\ enrolled' \in Partial(Status) /\ DOMAIN enrolled' = DOMAIN enrolled
      /\ \A b \in DOMAIN enrolled : enrolled'[b] = enrolled[b]
    BY <1>2, PersistOK
<1>4. UNCHANGED <<place, deletes, wanted, route, strikes, refills, flush>>
    BY DEF ScanThrows, world, history
<1>5. QueueOK' /\ Lighter
    BY <1>1, <1>4, LighterIfSame
<1>6. RollOK'
    BY <1>1, <1>3, <1>4 DEF RollOK
<1>7. Types'
    BY <1>1, <1>5, <1>6, ScanStops DEF Types
<1>8. \A b \in Bases, n \in 0..MaxQueues : Covered(b, n) => Covered(b, n)'
    BY <1>5, <1>7, StaysCovered
<1>9. BackAll'
    BY <1>8, LimitAssumption DEF Back, BackAll
<1>10. ASSUME NEW b \in DOMAIN enrolled' PROVE Load(b)' <= Cap(enrolled'[b].queues)
    <2>1. Covered(b, enrolled[b].queues) /\ b \in Bases /\ enrolled[b].queues \in 0..MaxQueues
        BY <1>1, <1>2, <1>3, Counts DEF Back, BackRoll
    <2>. DEFINE n == enrolled[b].queues
    <2>2. n \in 0..MaxQueues /\ Covered(b, n) /\ n = enrolled'[b].queues
        BY <1>3, <2>1
    <2>. HIDE DEF n
    <2>3. Load(b)' <= Cap(n)
        BY <1>8, <2>1, <2>2 DEF Covered
    <2>. QED  BY <2>2, <2>3
<1>. QED  BY <1>1, <1>7, <1>9, <1>10, BackIdle

\* Bases counted anew are covered by nothing, the others as before.
LEMMA AnewCovered ==
    ASSUME Types, NEW B \in SUBSET Bases, CountAnew(B)
    PROVE  /\ \A b \in Bases, n \in 0..MaxQueues : Covered(b, n) => Covered(b, n)'
           /\ \A b \in B, n \in 0..MaxQueues : Covered(b, n)'
<1>1. \A c \in Bases : Load(c)' = IF c \in B THEN 0 ELSE Load(c)
    BY LoadAnew DEF Types
<1>2. \A n \in 0..MaxQueues : 0 <= Cap(n)
    BY CapFacts, LimitAssumption
<1>. QED  BY <1>1, <1>2 DEF Covered

\* The scan ends: a base found healthy counts anew, and the others have on record what
\* they were settled with.
LEMMA EndingSteps == ASSUME Types, Back, ScanEnds PROVE Types' /\ Back'
<1>. DEFINE H == {b \in DOMAIN scan.outcomes \cap DOMAIN enrolled : scan.outcomes[b].queues = 0}
<1>. DEFINE o == scan.outcomes
<1>. DEFINE r == scan.removed
<1>. DEFINE k == ~scan.daily /\ ~scan.failed
<1>1. /\ RollOK /\ QueueOK /\ ScanOK /\ scan' = IdleScan /\ CountAnew(H) /\ Persist(o, r, k)
      /\ UNCHANGED <<place, deletes, wanted, route>>
    BY DEF Types, ScanEnds, world
<1>2. enrolled \in Partial(Status) /\ o \in Partial(Status)
    BY <1>1 DEF RollOK, ScanOK, ScanRecord
<1>3. H \in SUBSET Bases
    BY <1>2, PartialDef
<1>. HIDE DEF o, r, k
<1>4. /\ enrolled' \in Partial(Status) /\ DOMAIN enrolled' = DOMAIN enrolled \ r
      /\ \A b \in DOMAIN enrolled' : enrolled'[b] = IF b \in DOMAIN o THEN o[b] ELSE enrolled[b]
    BY <1>1, <1>2, PersistOK
<1>5. strikes' \in [Bases -> Int]
    BY <1>1 DEF CountAnew, RollOK
<1>6. RollOK'
    BY <1>1, <1>4, <1>5 DEF RollOK
<1>. HIDE DEF H
<1>7. Types'
    BY <1>1, <1>3, <1>6, QueueDischarged, ScanStops DEF Types
<1>8. /\ \A b \in Bases, n \in 0..MaxQueues : Covered(b, n) => Covered(b, n)'
      /\ \A b \in H, n \in 0..MaxQueues : Covered(b, n)'
    BY <1>1, <1>3, AnewCovered
<1>9. BackAll'
    BY <1>8, LimitAssumption DEF Back, BackAll
<1>10. ASSUME NEW b \in DOMAIN enrolled' PROVE Load(b)' <= Cap(enrolled'[b].queues)
    <2>. DEFINE n == enrolled'[b].queues
    <2>1. b \in Bases /\ b \in DOMAIN enrolled /\ n \in 0..MaxQueues
        <3>1. b \in DOMAIN enrolled /\ b \in Bases
            BY <1>2, <1>4, PartialDef
        <3>2. enrolled'[b] \in Status
            BY <1>4, PartialDef
        <3>. QED  BY <3>1, <3>2 DEF Status
    <2>2. n = IF b \in DOMAIN o THEN o[b].queues ELSE enrolled[b].queues
        BY <1>4
    <2>. HIDE DEF n
    <2>3. b \in H \/ Covered(b, n)
        <3>1. CASE b \in DOMAIN o
            BY <2>1, <2>2, <3>1 DEF Back, BackScan, o, H
        <3>2. CASE b \notin DOMAIN o
            <4>1. b \notin DOMAIN scan.queued
                BY <1>1, <3>2 DEF ScanOK, o
            <4>. QED  BY <2>1, <2>2, <3>2, <4>1 DEF Back, BackRoll
        <3>. QED  BY <3>1, <3>2
    <2>4. Load(b)' <= Cap(n)
        BY <1>8, <2>1, <2>3 DEF Covered
    <2>. QED  BY <2>4 DEF n
<1>. QED  BY <1>1, <1>7, <1>9, <1>10, BackIdle

\* A base is switched on: it counts anew, also for the scan in progress.
LEMMA OnSteps == ASSUME Types, Back, NEW b \in Bases, TogglesOn(b) PROVE Types' /\ Back'
<1>. DEFINE q == scan.queued
<1>1. /\ RollOK /\ QueueOK /\ ScanOK /\ CountAnew({b}) /\ b \notin DOMAIN enrolled
      /\ enrolled' = Put(enrolled, b, Healthy)
      /\ scan' = [scan EXCEPT !.queued = Restrict(q, DOMAIN q \ {b})]
      /\ wanted' = wanted \cup {b} /\ UNCHANGED <<place, deletes, route>>
    BY DEF Types, TogglesOn, world
<1>2. /\ enrolled' \in Partial(Status) /\ DOMAIN enrolled' = DOMAIN enrolled \cup {b}
      /\ enrolled'[b] = Healthy /\ \A c \in DOMAIN enrolled : c # b => enrolled'[c] = enrolled[c]
    <2>1. enrolled \in Partial(Status)
        BY <1>1 DEF RollOK
    <2>2. /\ DOMAIN enrolled' = DOMAIN enrolled \cup {b} /\ enrolled'[b] = Healthy
          /\ \A c \in DOMAIN enrolled : c # b => enrolled'[c] = enrolled[c]
        BY <1>1 DEF Put
    <2>3. enrolled' \in [DOMAIN enrolled' -> Status] /\ DOMAIN enrolled' \subseteq Bases
        BY <1>1, <2>1, HealthyOK, PartialDef DEF Put
    <2>. QED  BY <2>2, <2>3, PartialDef
<1>3. strikes' \in [Bases -> Int]
    BY <1>1 DEF CountAnew, RollOK
<1>4. RollOK'
    BY <1>1, <1>2, <1>3 DEF RollOK
<1>5. q \in Partial(Int)
    BY <1>1 DEF ScanOK, ScanRecord
<1>. DEFINE new == Restrict(q, DOMAIN q \ {b})
<1>6. new \in Partial(Int) /\ DOMAIN new = DOMAIN q \ {b} /\ \A c \in DOMAIN new : new[c] = q[c]
    <2>. HIDE DEF q
    <2>. QED  BY <1>5, CutOK
<1>7. q = Empty => new = Empty
    BY DEF Restrict, Empty
<1>. HIDE DEF new
<1>8. /\ scan' \in ScanRecord /\ scan'.pc = scan.pc /\ scan'.base = scan.base /\ scan'.todo = scan.todo
      /\ scan'.was = scan.was /\ scan'.outcomes = scan.outcomes /\ scan'.queued = new
    BY <1>1, <1>6 DEF ScanOK, ScanRecord, new
<1>9. ScanOK'
    BY <1>1, <1>6, <1>7, <1>8 DEF ScanOK
<1>10. Types'
    BY <1>1, <1>4, <1>9, QueueDischarged DEF Types
<1>11. /\ \A c \in Bases, n \in 0..MaxQueues : Covered(c, n) => Covered(c, n)'
       /\ \A c \in {b}, n \in 0..MaxQueues : Covered(c, n)'
    BY <1>1, AnewCovered
<1>12. BackAll'
    BY <1>11, LimitAssumption DEF Back, BackAll
<1>13. BackRoll'
    <2>1. ASSUME NEW c \in DOMAIN enrolled', c # b
          PROVE  IF c \in DOMAIN scan'.queued THEN scan'.queued[c] <= Cap(enrolled'[c].queues)
                 ELSE Load(c)' <= Cap(enrolled'[c].queues)
        <3>. DEFINE n == enrolled[c].queues
        <3>1. c \in DOMAIN enrolled /\ enrolled'[c].queues = n /\ c \in Bases /\ n \in 0..MaxQueues
            BY <1>2, <2>1, Counts
        <3>2. IF c \in DOMAIN q THEN q[c] <= Cap(n) ELSE Covered(c, n)
            BY <3>1 DEF Back, BackRoll
        <3>. HIDE DEF n, q
        <3>. QED  BY <1>6, <1>8, <1>11, <2>1, <3>1, <3>2 DEF Covered
    <2>2. b \notin DOMAIN scan'.queued /\ Load(b)' <= Cap(enrolled'[b].queues)
        <3>. DEFINE n == Healthy.queues
        <3>1. n \in 0..MaxQueues /\ n = enrolled'[b].queues
            BY <1>2, HealthyOK, LimitAssumption
        <3>. HIDE DEF n
        <3>. QED  BY <1>6, <1>8, <1>11, <3>1 DEF Covered
    <2>. QED  BY <2>1, <2>2 DEF BackRoll, Covered
<1>14. BackScan'
    <2>1. \A c \in scan.todo \cup ({scan.base} \ {None}) : Covered(c, scan.was[c].queues)'
        BY <1>8, <1>11, Counts DEF Back, BackScan, Covered
    <2>2. \A c \in DOMAIN scan.outcomes : (scan.outcomes[c].queues = 0 \/ Covered(c, scan.outcomes[c].queues))'
        BY <1>8, <1>11, Counts DEF Back, BackScan, Covered
    <2>3. \A c \in DOMAIN new : new[c] <= Cap(MaxQueues)
        BY <1>6 DEF Back, BackScan
    <2>. QED  BY <1>8, <2>1, <2>2, <2>3 DEF BackScan, Covered
<1>. QED  BY <1>10, <1>12, <1>13, <1>14 DEF Back

LEMMA OffSteps == ASSUME Types, Back, NEW b \in Bases, TogglesOff(b) PROVE Types' /\ Back'
<1>1. /\ RollOK /\ QueueOK /\ ScanOK /\ wanted' = wanted \ {b}
      /\ enrolled' = Restrict(enrolled, DOMAIN enrolled \ {b})
      /\ UNCHANGED <<place, deletes, route, scan, refills, flush, strikes>>
    BY DEF Types, TogglesOff, world
<1>2. /\ enrolled' \in Partial(Status) /\ DOMAIN enrolled' = DOMAIN enrolled \ {b}
      /\ \A c \in DOMAIN enrolled' : enrolled'[c] = enrolled[c]
    <2>1. enrolled \in Partial(Status)
        BY <1>1 DEF RollOK
    <2>. QED  BY <1>1, <2>1, CutOK
<1>3. QueueOK' /\ Lighter
    BY <1>1, LighterIfSame
<1>4. ScanOK' /\ RollOK'
    BY <1>1, <1>2 DEF ScanOK, RollOK
<1>5. Types'
    BY <1>3, <1>4 DEF Types
<1>6. \A c \in Bases, n \in 0..MaxQueues : Covered(c, n) => Covered(c, n)'
    BY <1>3, <1>5, StaysCovered
<1>7. BackAll'
    BY <1>6, LimitAssumption DEF Back, BackAll
<1>8. BackRoll'
    <2>1. ASSUME NEW c \in DOMAIN enrolled'
          PROVE  IF c \in DOMAIN scan.queued THEN scan.queued[c] <= Cap(enrolled'[c].queues)
                 ELSE Load(c)' <= Cap(enrolled'[c].queues)
        <3>. DEFINE n == enrolled[c].queues
        <3>1. c \in DOMAIN enrolled /\ enrolled'[c].queues = n /\ c \in Bases /\ n \in 0..MaxQueues
            BY <1>2, Counts
        <3>2. IF c \in DOMAIN scan.queued THEN scan.queued[c] <= Cap(n) ELSE Covered(c, n)
            BY <3>1 DEF Back, BackRoll
        <3>. HIDE DEF n
        <3>. QED  BY <1>6, <3>1, <3>2 DEF Covered
    <2>. QED  BY <1>1, <2>1 DEF BackRoll, Covered
<1>9. BackScan'
    BY <1>1, <1>6, Counts DEF Back, BackScan
<1>. QED  BY <1>5, <1>7, <1>8, <1>9 DEF Back

\* The Console restarts: the bases a scan in progress has queued have the strikes they
\* had, and nothing more to come.
LEMMA CrashSteps == ASSUME Types, Back, Crash PROVE Types' /\ Back'
<1>. DEFINE q == scan.queued
<1>1. /\ RollOK /\ QueueOK /\ ScanOK /\ scan' = IdleScan /\ flush' = IdleFlush /\ route' = None
      /\ deletes' = [b \in Bases |-> IF deletes[b] = "reserved" THEN "left" ELSE deletes[b]]
      /\ refills' = Discharged(refills, DOMAIN q)
      /\ strikes' = [b \in Bases |-> IF b \in DOMAIN q THEN q[b] ELSE strikes[b] - Unrecorded(b)]
      /\ UNCHANGED <<place, wanted, enrolled>>
    BY DEF Types, Crash, world, file
<1>2. q \in Partial(Int) /\ refills \in Partial(Entry)
    BY <1>1 DEF ScanOK, ScanRecord, QueueOK
<1>. HIDE DEF q
<1>3. /\ refills' \in Partial(Entry) /\ DOMAIN refills' = DOMAIN refills
      /\ \A c \in DOMAIN refills : /\ c \notin DOMAIN q => refills'[c] = refills[c]
                                   /\ c \in DOMAIN q => refills'[c].ours = FALSE
    <2>. DEFINE B == DOMAIN q
    <2>1. refills' = Discharged(refills, B)
        BY <1>1
    <2>. HIDE DEF B
    <2>2. /\ refills' \in Partial(Entry) /\ DOMAIN refills' = DOMAIN refills
          /\ \A c \in DOMAIN refills : /\ c \notin B => refills'[c] = refills[c]
                                       /\ c \in B => refills'[c].ours = FALSE
        BY <1>2, <2>1, DischargedOK
    <2>. QED  BY <2>2 DEF B
<1>4. QueueOK'
    <2>1. IdleFlush \in FlushRecord /\ DOMAIN Empty = {}
        BY EmptyOK DEF IdleFlush, FlushRecord
    <2>. QED  BY <1>1, <1>3, <2>1 DEF IdleFlush, QueueOK
<1>5. \A b \in Bases : strikes[b] - Unrecorded(b) \in Int
    BY <1>1, LoadFacts
<1>6. \A b \in DOMAIN q : q[b] \in Int
    BY <1>2, PartialDef
<1>7. strikes' \in [Bases -> Int]
    BY <1>1, <1>5, <1>6
<1>8. deletes' \in [Bases -> {"none", "reserved", "left", "queued"}]
    BY <1>1 DEF RollOK
<1>9. RollOK'
    BY <1>1, <1>7, <1>8 DEF RollOK
<1>10. Types'
    BY <1>1, <1>4, <1>9, ScanStops DEF Types
<1>11. ASSUME NEW b \in Bases, b \in DOMAIN q PROVE Load(b)' = q[b]
    <2>1. Left(b)' = 0 /\ Unrecorded(b)' = 0 /\ Stray(b)' = 0
        BY <1>1, <1>3, <1>11 DEF Left, Stray, Unrecorded, IdleFlush
    <2>2. strikes'[b] = q[b]
        BY <1>1, <1>11
    <2>. QED  BY <1>6, <1>11, <2>1, <2>2 DEF Load
<1>12. ASSUME NEW b \in Bases, b \notin DOMAIN q PROVE Load(b)' <= Load(b)
    BY <1>1, <1>3, <1>12, StopsLight
<1>13. \A b \in Bases : Load(b) \in Int /\ Load(b)' \in Int
    BY <1>10, LoadInt, LoadIntNext
<1>14. ASSUME NEW b \in Bases, b \notin DOMAIN q, NEW n \in 0..MaxQueues, Covered(b, n)
       PROVE  Load(b)' <= Cap(n)
    BY <1>12, <1>13, <1>14, CapFacts, LimitAssumption DEF Covered
<1>15. BackAll'
    <2>1. \A b \in DOMAIN q : q[b] <= Cap(MaxQueues)
        BY DEF Back, BackScan, q
    <2>2. ASSUME NEW b \in Bases PROVE Load(b)' <= Cap(MaxQueues)
        BY <1>11, <1>14, <2>1, LimitAssumption DEF Back, BackAll
    <2>. QED  BY <2>2 DEF BackAll, Covered
<1>16. ASSUME NEW b \in DOMAIN enrolled' PROVE Load(b)' <= Cap(enrolled'[b].queues)
    <2>. DEFINE n == enrolled[b].queues
    <2>1. b \in DOMAIN enrolled /\ n = enrolled'[b].queues /\ b \in Bases /\ n \in 0..MaxQueues
        BY <1>1, Counts
    <2>2. IF b \in DOMAIN q THEN q[b] <= Cap(n) ELSE Covered(b, n)
        BY <2>1 DEF Back, BackRoll, q
    <2>. HIDE DEF n
    <2>. QED  BY <1>11, <1>14, <2>1, <2>2
<1>. QED  BY <1>1, <1>10, <1>15, <1>16, BackIdle

-----------------------------------------------------------------------------
(* The theorems *)

LEMMA InitBack == Init => Back
<1>. SUFFICES ASSUME Init PROVE Back
    OBVIOUS
<1>1. /\ scan = IdleScan /\ flush = IdleFlush /\ refills = Empty /\ strikes = [b \in Bases |-> 0]
      /\ enrolled = [b \in wanted |-> Healthy] /\ wanted \subseteq Bases
    BY DEF Init
<1>2. DOMAIN Empty = {}
    BY DEF Empty
<1>3. \A b \in Bases : Load(b) = 0
    BY <1>1, <1>2 DEF Load, Left, Stray, Unrecorded, IdleFlush
<1>4. MaxQueues \in Nat /\ Healthy.queues \in Nat /\ \A n \in Nat : 0 <= Cap(n)
    BY LimitAssumption, CapFacts DEF Healthy
<1>5. BackAll
    BY <1>3, <1>4 DEF BackAll, Covered
<1>6. BackRoll
    BY <1>1, <1>2, <1>3, <1>4 DEF BackRoll, Covered, IdleScan
<1>7. BackScan
    BY <1>1, <1>2 DEF BackScan, IdleScan
<1>. QED  BY <1>5, <1>6, <1>7 DEF Back

LEMMA NextBack == Types /\ Back /\ [Next]_vars => Types' /\ Back'
<1>. SUFFICES ASSUME Types, Back, [Next]_vars PROVE Types' /\ Back'
    OBVIOUS
<1>1. ASSUME Types', Lighter, UNCHANGED <<scan, enrolled>> PROVE Types' /\ Back'
    BY <1>1, BackLight
<1>2. CASE \/ FlushBegins \/ FlushAborts \/ FlushEnds
           \/ \E b \in Bases : FlushPasses(b) \/ FlushApplies(b) \/ FlushFails(b) \/ Cancels(b) \/ Ages(b)
    <2>1. Types' /\ Lighter /\ UNCHANGED <<scan, enrolled>>
        BY <1>2, QueueSteps
    <2>. QED  BY <1>1, <2>1
<1>3. CASE \/ Due \/ TickArms
           \/ \E b \in Bases : \/ RouteAsks(b) \/ DeleteReserves(b) \/ DeleteQueues(b) \/ Deleted(b)
                               \/ DeleteIsOff(b) \/ PicksUp(b) \/ Redeploys(b) \/ Changes(b)
           \/ \E d \in BOOLEAN : MapGoes(d)
    <2>1. Types' /\ Lighter /\ UNCHANGED <<scan, enrolled>>
        BY <1>3, OtherSteps
    <2>. QED  BY <1>1, <2>1
<1>4. CASE RouteRefills
    BY <1>1, <1>4, RouteSteps
<1>5. CASE \/ ScanObserves \/ ScanChecks \/ ScanReads \/ ScanFailsFor
           \/ \E b \in Bases : ScanTurnsTo(b)
    <2>1. Types' /\ Lighter /\ Advances /\ UNCHANGED <<enrolled, refills>>
        BY <1>5, ScanMoves
    <2>. QED  BY <2>1, BackAdvances
<1>6. CASE TickScans \/ \E b \in Bases : ScanNow(b)
    <2>1. Types'
        BY <1>6, StartSteps
    <2>. QED  BY <1>6, <2>1, BackStarts
<1>7. CASE ScanQueues
    BY <1>7, QueuingSteps
<1>8. CASE ScanThrows
    BY <1>8, ThrowingSteps
<1>9. CASE ScanEnds
    BY <1>9, EndingSteps
<1>10. ASSUME NEW b \in Bases, TogglesOn(b) PROVE Types' /\ Back'
    BY <1>10, OnSteps
<1>11. ASSUME NEW b \in Bases, TogglesOff(b) PROVE Types' /\ Back'
    BY <1>11, OffSteps
<1>12. CASE Crash
    BY <1>12, CrashSteps
<1>13. CASE UNCHANGED vars
    <2>1. UNCHANGED <<refills, flush, strikes, scan, enrolled, place, deletes, wanted, route>>
        BY <1>13 DEF vars, world, file, history
    <2>2. RollOK' /\ ScanOK'
        BY <2>1 DEF Types, RollOK, ScanOK
    <2>3. QueueOK' /\ Lighter
        BY <2>1, LighterIfSame DEF Types
    <2>. QED  BY <1>1, <2>1, <2>2, <2>3 DEF Types
<1>. QED  BY <1>2, <1>3, <1>4, <1>5, <1>6, <1>7, <1>8, <1>9, <1>10, <1>11, <1>12, <1>13
         DEF Next, Ticking, Scanning, Flushing

LEMMA RefillKeeps == Spec => [](Types /\ Back)
<1>1. Init => Types /\ Back
    BY InitTypes, InitBack
<1>. QED  BY <1>1, NextBack, PTL DEF Spec

\* The two backstops together: a base that refills do not help is written to no more
\* than MAX_CONSECUTIVE_QUEUES * MAX_REFILL_FLUSH_ATTEMPTS times since it was enrolled or
\* last found healthy, whatever is cancelled, queued anew, switched or deleted meanwhile,
\* and wherever the Console restarts.
THEOREM StrikesAreCapped == Spec => []BackstopHolds
<1>1. Types /\ Back => BackstopHolds
    <2>. SUFFICES ASSUME Types, Back, NEW b \in Bases PROVE strikes[b] <= MaxQueues * MaxAttempts
        BY DEF BackstopHolds
    <2>. DEFINE c == Cap(MaxQueues)
    <2>1. strikes[b] \in Int /\ Load(b) \in Int /\ strikes[b] <= Load(b)
        BY LoadFacts DEF Types
    <2>2. Load(b) <= c
        BY DEF Back, BackAll, Covered
    <2>3. c \in Int /\ c = MaxQueues * MaxAttempts
        BY Counts DEF Cap
    <2>. HIDE DEF c
    <2>. QED  BY <2>1, <2>2, <2>3
<1>. QED  BY <1>1, RefillKeeps, PTL

-----------------------------------------------------------------------------
(* The freeze *)

\* What is at hand for a base: something under way, or an entry of the queue.
AtHand(b) == UnderWay(b) \/ b \in DOMAIN refills
Freeze == \A b \in Bases : deletes[b] = "queued" /\ AtHand(b) => b \in slipped

LEMMA JudgedTodo ==
    ASSUME flush \in FlushRecord, NEW b, NEW v, NEW f, f = Judged(b, v)
    PROVE  /\ f.todo = flush.todo \ {b}
           /\ [f EXCEPT !.struck = @ \cup {b}].todo = flush.todo \ {b}
<1>. DEFINE new == Put(flush.outcomes, b, v)
<1>1. f = [flush EXCEPT !.todo = flush.todo \ {b}, !.outcomes = new]
    BY DEF Done, Judged, FlushRecord
<1>. HIDE DEF new
<1>. QED  BY <1>1 DEF FlushRecord

\* The pass turns to fewer and fewer entries.
LEMMA FlushShrinks ==
    ASSUME flush \in FlushRecord, NEW b \in Bases,
           FlushPasses(b) \/ FlushApplies(b) \/ FlushFails(b)
    PROVE  flush'.todo \subseteq flush.todo
<1>1. ASSUME NEW v, flush' = Judged(b, v) \/ Struck(b, Judged(b, v))
      PROVE  flush'.todo \subseteq flush.todo
    <2>. DEFINE f == Judged(b, v)
    <2>1. f = Judged(b, v) /\ (flush' = f \/ flush' = [f EXCEPT !.struck = @ \cup {b}])
        BY <1>1 DEF Struck
    <2>. HIDE DEF f
    <2>2. flush'.todo = flush.todo \ {b}
        BY <2>1, JudgedTodo
    <2>. QED  BY <2>2
<1>2. /\ Drops(b) = Judged(b, [keep |-> FALSE])
      /\ \A n : Keeps(b, n) = Judged(b, [keep |-> TRUE, attempts |-> n])
    BY DEF Drops, Keeps, Judged
<1>3. \E v : Failed(b) = Judged(b, v)
    BY <1>2 DEF Failed
<1>4. CASE flush' = Done(b)
    BY <1>4 DEF Done, FlushRecord
<1>5. CASE flush' = Drops(b) \/ Struck(b, Drops(b))
    BY <1>1, <1>2, <1>5
<1>6. CASE Struck(b, Failed(b))
    BY <1>1, <1>3, <1>6
<1>7. CASE FlushFails(b)
    BY <1>1, <1>2, <1>7 DEF FlushFails
<1>. QED  BY <1>4, <1>5, <1>6, <1>7 DEF FlushPasses, FlushApplies

\* Nothing comes to be at hand for a base whose delete is queued.
LEMMA FreezeStays ==
    ASSUME Freeze, UNCHANGED <<deletes, slipped>>, \A b \in Bases : AtHand(b)' => AtHand(b)
    PROVE  Freeze'
BY DEF Freeze

LEMMA FlushFreezes ==
    ASSUME Types, Freeze,
           \/ FlushBegins \/ FlushAborts \/ FlushEnds
           \/ \E b \in Bases : FlushPasses(b) \/ FlushApplies(b) \/ FlushFails(b) \/ Cancels(b) \/ Ages(b)
    PROVE  Freeze'
<1>1. UNCHANGED <<scan, route, deletes, slipped>>
    BY DEF FlushBegins, FlushAborts, FlushEnds, FlushPasses, FlushApplies, FlushFails, Cancels, Ages, history
<1>2. flush \in FlushRecord
    BY DEF Types, QueueOK
<1>3. flush'.todo \cup DOMAIN refills' \subseteq flush.todo \cup DOMAIN refills
    <2>1. CASE FlushBegins
        BY <2>1 DEF FlushBegins
    <2>2. CASE FlushAborts \/ FlushEnds
        <3>1. flush' = IdleFlush /\ DOMAIN refills' \subseteq DOMAIN refills
            BY <2>2 DEF FlushAborts, FlushEnds
        <3>. QED  BY <3>1 DEF IdleFlush
    <2>3. ASSUME NEW b \in Bases, FlushPasses(b) \/ FlushApplies(b) \/ FlushFails(b)
          PROVE  flush'.todo \cup DOMAIN refills' \subseteq flush.todo \cup DOMAIN refills
        <3>1. refills' = refills
            BY <2>3 DEF FlushPasses, FlushApplies, FlushFails
        <3>. QED  BY <1>2, <2>3, <3>1, FlushShrinks
    <2>4. ASSUME NEW b \in Bases, Cancels(b)
          PROVE  flush'.todo \cup DOMAIN refills' \subseteq flush.todo \cup DOMAIN refills
        <3>1. QueueOK /\ Unqueue(b)
            BY <2>4 DEF Types, Cancels
        <3>. QED  BY <3>1, QueueCuts
    <2>5. ASSUME NEW b \in Bases, Ages(b)
          PROVE  flush'.todo \cup DOMAIN refills' \subseteq flush.todo \cup DOMAIN refills
        BY <2>5 DEF Ages
    <2>. QED  BY <2>1, <2>2, <2>3, <2>4, <2>5
<1>4. \A b \in Bases : AtHand(b)' => AtHand(b)
    BY <1>1, <1>3 DEF AtHand, UnderWay
<1>. QED  BY <1>1, <1>4, FreezeStays

LEMMA ScanFreezes ==
    ASSUME Types, Freeze,
           \/ ScanObserves \/ ScanChecks \/ ScanReads \/ ScanFailsFor
           \/ \E b \in Bases : ScanTurnsTo(b)
    PROVE  Freeze'
<1>1. UNCHANGED <<flush, route, deletes, slipped>>
    BY DEF ScanObserves, ScanChecks, ScanReads, ScanFailsFor, ScanTurnsTo, history
<1>2. Advances /\ UNCHANGED refills
    BY ScanMoves
<1>3. \A b \in Bases : AtHand(b)' => AtHand(b)
    BY <1>1, <1>2, BaseAssumption DEF AtHand, UnderWay, Advances
<1>. QED  BY <1>1, <1>3, FreezeStays

LEMMA StartFreezes ==
    ASSUME Types, Freeze, TickScans \/ \E b \in Bases : ScanNow(b)
    PROVE  Freeze'
<1>1. UNCHANGED <<flush, route, deletes, slipped, refills>>
    BY DEF TickScans, ScanNow, history
<1>2. \/ UNCHANGED scan
      \/ /\ scan.pc = "idle" /\ scan'.base = None
         /\ scan'.frozen = {b \in Bases : deletes[b] # "none"}
    BY StartSteps
<1>3. ASSUME NEW b \in Bases, deletes[b] = "queued", AtHand(b)' PROVE AtHand(b)
    BY <1>1, <1>2, <1>3, BaseAssumption DEF AtHand, UnderWay
<1>. QED  BY <1>1, <1>3 DEF Freeze

LEMMA QueuingFreezes == ASSUME Types, Freeze, ScanQueues PROVE Freeze'
<1>1. UNCHANGED <<route, deletes, slipped>>
    BY DEF ScanQueues, history
<1>2. RollOK /\ ScanOK /\ QueueOK /\ scan.pc = "target" /\ scan.base # None /\ scan.base \in Bases
    BY DEF Types, ScanQueues, ScanOK, ScanRecord
<1>3. /\ scan'.base = None /\ scan'.todo = scan.todo /\ scan'.frozen = scan.frozen
      /\ flush'.todo = flush.todo /\ DOMAIN refills' \subseteq DOMAIN refills \cup {scan.base}
    <2>1. CASE place[scan.base] = "gone"
        <3>1. scan' = Without /\ UNCHANGED <<refills, flush>>
            BY <2>1 DEF ScanQueues
        <3>. QED  BY <1>2, <3>1, NextBaseOK
    <2>2. CASE place[scan.base] # "gone"
        <3>1. PICK b \in Bases : b = scan.base
            BY <1>2
        <3>2. /\ scan' = [With([Prior EXCEPT !.queues = @ + 1]) EXCEPT !.queued = Put(@, scan.base, strikes[scan.base])]
              /\ Queue(b, TRUE)
            BY <2>2, <3>1, Zenon DEF ScanQueues
        <3>. DEFINE o == [Prior EXCEPT !.queues = @ + 1]
        <3>. DEFINE w == With(o)
        <3>3. scan' = [w EXCEPT !.queued = Put(@, scan.base, strikes[scan.base])]
            BY <3>2, Zenon
        <3>4. o = [Prior EXCEPT !.queues = @ + 1] /\ w = With(o)
            OBVIOUS
        <3>. HIDE DEF o, w
        <3>5. scan'.base = None /\ scan'.todo = scan.todo /\ scan'.frozen = scan.frozen
            BY <1>2, <3>3, <3>4, QueuedOK
        <3>6. flush'.todo = flush.todo /\ DOMAIN refills' = DOMAIN refills \cup {b}
            BY <1>2, <3>2, QueuePuts
        <3>. QED  BY <3>1, <3>5, <3>6
    <2>. QED  BY <2>1, <2>2
<1>4. \A b \in Bases : AtHand(b)' => AtHand(b)
    BY <1>1, <1>2, <1>3, BaseAssumption DEF AtHand, UnderWay
<1>. QED  BY <1>1, <1>4, FreezeStays

LEMMA RecordFreezes ==
    ASSUME Types, Freeze,
           \/ ScanThrows \/ ScanEnds \/ Crash
           \/ \E b \in Bases : TogglesOn(b) \/ TogglesOff(b)
    PROVE  Freeze'
<1>1. slipped' = slipped /\ \A b \in Bases : deletes'[b] = "queued" => deletes[b] = "queued"
    BY DEF ScanThrows, ScanEnds, Crash, TogglesOn, TogglesOff, history
<1>2. flush \in FlushRecord /\ scan \in ScanRecord
    BY DEF Types, QueueOK, ScanOK
<1>3. DOMAIN refills' = DOMAIN refills /\ flush'.todo \subseteq flush.todo
    <2>1. ASSUME NEW B, CountAnew(B) PROVE DOMAIN refills' = DOMAIN refills /\ flush'.todo = flush.todo
        <3>. DEFINE copy == Discharged(flush.copy, B)
        <3>1. flush' = [flush EXCEPT !.copy = copy, !.struck = flush.struck \ B]
            BY <2>1 DEF CountAnew
        <3>. HIDE DEF copy
        <3>2. flush'.todo = flush.todo
            BY <1>2, <3>1 DEF FlushRecord
        <3>3. DOMAIN refills' = DOMAIN refills
            BY <2>1 DEF CountAnew, Discharged
        <3>. QED  BY <3>2, <3>3
    <2>2. CASE UNCHANGED <<refills, flush>>
        BY <2>2
    <2>3. CASE Crash
        BY <2>3 DEF Crash, Discharged, IdleFlush
    <2>4. \/ UNCHANGED <<refills, flush>> \/ Crash
          \/ \E B : CountAnew(B)
        BY DEF ScanThrows, ScanEnds, TogglesOn, TogglesOff
    <2>. QED  BY <2>1, <2>2, <2>3, <2>4
<1>4. route' \in {route, None}
    BY DEF ScanThrows, ScanEnds, Crash, TogglesOn, TogglesOff
<1>5. \/ scan'.pc = "idle"
      \/ scan'.pc = scan.pc /\ scan'.todo = scan.todo /\ scan'.base = scan.base /\ scan'.frozen = scan.frozen
    <2>1. CASE ScanThrows \/ ScanEnds \/ Crash
        <3>1. scan' = IdleScan
            BY <2>1 DEF ScanThrows, ScanEnds, Crash
        <3>. QED  BY <3>1 DEF IdleScan
    <2>2. ASSUME NEW b \in Bases, TogglesOff(b) PROVE scan' = scan
        BY <2>2 DEF TogglesOff
    <2>3. ASSUME NEW b \in Bases, TogglesOn(b)
          PROVE  scan'.pc = scan.pc /\ scan'.todo = scan.todo /\ scan'.base = scan.base /\ scan'.frozen = scan.frozen
        <3>. DEFINE q == Restrict(scan.queued, DOMAIN scan.queued \ {b})
        <3>1. scan' = [scan EXCEPT !.queued = q]
            BY <2>3 DEF TogglesOn
        <3>. HIDE DEF q
        <3>. QED  BY <1>2, <3>1 DEF ScanRecord
    <2>. QED  BY <2>1, <2>2, <2>3
<1>6. ASSUME NEW b \in Bases, AtHand(b)' PROVE AtHand(b)
    BY <1>3, <1>4, <1>5, <1>6, BaseAssumption DEF AtHand, UnderWay
<1>. QED  BY <1>1, <1>6 DEF Freeze

\* A request asks before a delete is reserved, and a delete that is queued cancels the
\* entry and notes what is under way.
LEMMA RequestFreezes ==
    ASSUME Types, Freeze,
           \/ RouteRefills
           \/ \E b \in Bases : RouteAsks(b) \/ DeleteReserves(b) \/ DeleteQueues(b) \/ Deleted(b) \/ DeleteIsOff(b)
    PROVE  Freeze'
<1>1. RollOK /\ QueueOK
    BY DEF Types
<1>2. CASE RouteRefills
    <2>1. route \in Bases /\ UNCHANGED <<scan, deletes, slipped>> /\ route' = None
        BY <1>1, <1>2 DEF RouteRefills, RollOK, history
    <2>2. PICK r \in Bases : r = route
        BY <2>1
    <2>3. Queue(r, FALSE) \/ UNCHANGED <<refills, flush>>
        BY <1>2, <2>2 DEF RouteRefills
    <2>4. flush'.todo = flush.todo /\ DOMAIN refills' \subseteq DOMAIN refills \cup {r}
        BY <1>1, <2>3, QueuePuts
    <2>5. \A b \in Bases : AtHand(b)' => AtHand(b)
        BY <2>1, <2>2, <2>4, BaseAssumption DEF AtHand, UnderWay
    <2>. QED  BY <2>1, <2>5, FreezeStays
<1>3. ASSUME NEW b \in Bases, RouteAsks(b) PROVE Freeze'
    <2>1. UNCHANGED <<scan, flush, refills, deletes, slipped>> /\ route' = b /\ deletes[b] = "none"
        BY <1>3 DEF RouteAsks, history
    <2>2. ASSUME NEW c \in Bases, deletes[c] = "queued", AtHand(c)' PROVE AtHand(c)
        BY <2>1, <2>2 DEF AtHand, UnderWay
    <2>. QED  BY <2>1, <2>2 DEF Freeze
<1>4. ASSUME NEW b \in Bases, DeleteReserves(b) PROVE Freeze'
    <2>1. /\ UNCHANGED <<scan, flush, refills, route>> /\ slipped \subseteq slipped'
          /\ deletes' = [deletes EXCEPT ![b] = "reserved"]
        BY <1>4 DEF DeleteReserves
    <2>2. \A c \in Bases : deletes'[c] = "queued" => deletes[c] = "queued"
        BY <1>1, <2>1 DEF RollOK
    <2>3. \A c \in Bases : AtHand(c)' => AtHand(c)
        BY <2>1 DEF AtHand, UnderWay
    <2>. QED  BY <2>1, <2>2, <2>3 DEF Freeze
<1>5. ASSUME NEW b \in Bases, DeleteQueues(b) PROVE Freeze'
    <2>1. /\ UNCHANGED <<scan, route>> /\ Unqueue(b) /\ deletes' = [deletes EXCEPT ![b] = "queued"]
          /\ slipped' = IF UnderWay(b) THEN slipped \cup {b} ELSE slipped
        BY <1>5 DEF DeleteQueues
    <2>2. DOMAIN refills' = DOMAIN refills \ {b} /\ flush'.todo = flush.todo
        BY <1>1, <2>1, QueueCuts
    <2>3. \A c \in Bases : c # b => deletes'[c] = deletes[c]
        BY <1>1, <2>1 DEF RollOK
    <2>4. \A c \in Bases : UnderWay(c)' <=> UnderWay(c)
        BY <2>1, <2>2 DEF UnderWay
    <2>5. AtHand(b)' => b \in slipped'
        BY <2>1, <2>2, <2>4 DEF AtHand
    <2>6. ASSUME NEW c \in Bases, c # b, deletes'[c] = "queued", AtHand(c)' PROVE c \in slipped'
        <3>1. AtHand(c) /\ deletes[c] = "queued"
            BY <2>2, <2>3, <2>4, <2>6 DEF AtHand
        <3>. QED  BY <2>1, <3>1 DEF Freeze
    <2>. QED  BY <2>5, <2>6 DEF Freeze
<1>6. ASSUME NEW b \in Bases, Deleted(b) \/ DeleteIsOff(b) PROVE Freeze'
    <2>1. /\ UNCHANGED <<scan, route>> /\ deletes' = [deletes EXCEPT ![b] = "none"]
          /\ slipped' = slipped \ {b} /\ (Unqueue(b) \/ UNCHANGED <<refills, flush>>)
        BY <1>6 DEF Deleted, DeleteIsOff
    <2>2. DOMAIN refills' \subseteq DOMAIN refills /\ flush'.todo = flush.todo
        BY <1>1, <2>1, QueueCuts
    <2>3. \A c \in Bases : deletes'[c] = "queued" => deletes[c] = "queued" /\ c # b
        BY <1>1, <2>1 DEF RollOK
    <2>4. \A c \in Bases : AtHand(c)' => AtHand(c)
        BY <2>1, <2>2 DEF AtHand, UnderWay
    <2>. QED  BY <2>1, <2>3, <2>4 DEF Freeze
<1>. QED  BY <1>2, <1>3, <1>4, <1>5, <1>6

LEMMA NextFreeze == Types /\ Freeze /\ [Next]_vars => Freeze'
<1>. SUFFICES ASSUME Types, Freeze, [Next]_vars PROVE Freeze'
    OBVIOUS
<1>1. CASE \/ Due \/ TickArms
           \/ \E b \in Bases : PicksUp(b) \/ Redeploys(b) \/ Changes(b)
           \/ \E d \in BOOLEAN : MapGoes(d)
           \/ UNCHANGED vars
    <2>1. UNCHANGED <<scan, flush, refills, route, deletes, slipped>>
        BY <1>1 DEF Due, TickArms, PicksUp, Redeploys, Changes, MapGoes, vars, history
    <2>. QED  BY <2>1, FreezeStays DEF AtHand, UnderWay
<1>2. CASE \/ FlushBegins \/ FlushAborts \/ FlushEnds
           \/ \E b \in Bases : FlushPasses(b) \/ FlushApplies(b) \/ FlushFails(b) \/ Cancels(b) \/ Ages(b)
    BY <1>2, FlushFreezes
<1>3. CASE \/ ScanObserves \/ ScanChecks \/ ScanReads \/ ScanFailsFor
           \/ \E b \in Bases : ScanTurnsTo(b)
    BY <1>3, ScanFreezes
<1>4. CASE TickScans \/ \E b \in Bases : ScanNow(b)
    BY <1>4, StartFreezes
<1>5. CASE ScanQueues
    BY <1>5, QueuingFreezes
<1>6. CASE \/ ScanThrows \/ ScanEnds \/ Crash
           \/ \E b \in Bases : TogglesOn(b) \/ TogglesOff(b)
    BY <1>6, RecordFreezes
<1>7. CASE \/ RouteRefills
           \/ \E b \in Bases : RouteAsks(b) \/ DeleteReserves(b) \/ DeleteQueues(b) \/ Deleted(b) \/ DeleteIsOff(b)
    BY <1>7, RequestFreezes
<1>. QED  BY <1>1, <1>2, <1>3, <1>4, <1>5, <1>6, <1>7 DEF Next, Ticking, Scanning, Flushing

\* A base whose delete is queued has a refill queued or at hand only if that was under
\* way as the delete came: every party reads the queue of deletes, reservations and all,
\* before it takes a base up, and the delete cancels what is queued.
THEOREM DeletesFreezeRefills == Spec => []FreezeHolds
<1>1. Init => Freeze
    BY DEF Init, Freeze
<1>2. Types /\ Freeze => FreezeHolds
    BY DEF Freeze, FreezeHolds, AtHand, UnderWay
<1>. QED  BY <1>1, <1>2, NextFreeze, RefillKeeps, PTL DEF Spec

-----------------------------------------------------------------------------
(* The operator's last word *)

\* A base that a scan will strike off the record is gone for good.
Forgotten == \A b \in scan.removed : place[b] = "gone"
LastWord == LastWordHolds /\ Forgotten

LEMMA GoneStays == ASSUME RollOK, [Next]_vars PROVE \A b \in Bases : place[b] = "gone" => place'[b] = "gone"
<1>1. place' = place \/ \E b \in Bases, x \in {"there", "packed", "gone"} : place[b] # "gone" /\ place' = [place EXCEPT ![b] = x]
    <2>1. CASE \E b \in Bases : PicksUp(b) \/ Redeploys(b) \/ Deleted(b)
        BY <2>1 DEF PicksUp, Redeploys, Deleted
    <2>2. CASE ScanObserves \/ ScanChecks \/ ScanReads \/ ScanQueues \/ ScanEnds \/ ScanThrows \/ ScanFailsFor
        BY <2>2 DEF ScanObserves, ScanChecks, ScanReads, ScanQueues, ScanEnds, ScanThrows, ScanFailsFor, world
    <2>3. CASE Ticking \/ FlushBegins \/ FlushEnds \/ FlushAborts \/ RouteRefills \/ Crash \/ UNCHANGED vars
        BY <2>3 DEF Ticking, Due, TickArms, TickScans, FlushBegins, FlushEnds, FlushAborts, RouteRefills, Crash, vars, world
    <2>4. CASE \E b \in Bases : \/ TogglesOn(b) \/ TogglesOff(b) \/ ScanNow(b) \/ Cancels(b) \/ Ages(b) \/ FlushFails(b)
                                \/ FlushPasses(b) \/ FlushApplies(b) \/ ScanTurnsTo(b)
        BY <2>4 DEF TogglesOn, TogglesOff, ScanNow, Cancels, Ages, FlushFails, FlushPasses, FlushApplies, ScanTurnsTo, world
    <2>5. CASE \E b \in Bases : RouteAsks(b) \/ DeleteReserves(b) \/ DeleteQueues(b) \/ DeleteIsOff(b) \/ Changes(b)
        BY <2>5 DEF RouteAsks, DeleteReserves, DeleteQueues, DeleteIsOff, Changes, world
    <2>6. CASE \E d \in BOOLEAN : MapGoes(d)
        BY <2>6 DEF MapGoes
    <2>. QED  BY <2>1, <2>2, <2>3, <2>4, <2>5, <2>6 DEF Next, Scanning, Flushing
<1>. QED  BY <1>1 DEF RollOK

LEMMA LastWordStays ==
    ASSUME Types, LastWord, \A b \in Bases : place[b] = "gone" => place'[b] = "gone",
           UNCHANGED <<enrolled, wanted>>,
           scan'.removed \subseteq scan.removed \cup {b \in Bases : place[b] = "gone"}
    PROVE  LastWord'
<1>1. wanted \subseteq Bases /\ scan.removed \subseteq Bases
    BY DEF Types, RollOK, ScanOK, ScanRecord
<1>. QED  BY <1>1 DEF LastWord, LastWordHolds, Forgotten

LEMMA NextLastWord == Types /\ LastWord /\ [Next]_vars => LastWord'
<1>. SUFFICES ASSUME Types, LastWord, [Next]_vars PROVE LastWord'
    OBVIOUS
<1>1. RollOK /\ ScanOK /\ QueueOK /\ wanted \subseteq Bases /\ enrolled \in Partial(Status) /\ scan.removed \subseteq Bases
    BY DEF Types, RollOK, ScanOK, ScanRecord
<1>2. \A b \in Bases : place[b] = "gone" => place'[b] = "gone"
    BY <1>1, GoneStays
<1>3. CASE UNCHANGED <<scan, enrolled, wanted>>
    BY <1>2, <1>3, LastWordStays
<1>4. CASE \/ ScanObserves \/ ScanChecks \/ ScanReads \/ ScanFailsFor
           \/ \E b \in Bases : ScanTurnsTo(b)
    <2>1. Advances /\ UNCHANGED enrolled
        BY <1>4, ScanMoves
    <2>2. wanted' = wanted
        BY <1>4 DEF ScanObserves, ScanChecks, ScanReads, ScanFailsFor, ScanTurnsTo, history
    <2>. QED  BY <1>2, <2>1, <2>2, LastWordStays DEF Advances
<1>5. CASE TickScans \/ \E b \in Bases : ScanNow(b)
    <2>1. UNCHANGED enrolled /\ (UNCHANGED scan \/ scan'.removed = {})
        BY <1>5, StartSteps
    <2>2. wanted' = wanted
        BY <1>5 DEF TickScans, ScanNow, history
    <2>. QED  BY <1>2, <2>1, <2>2, LastWordStays
<1>6. CASE ScanQueues
    <2>1. UNCHANGED <<enrolled, wanted>> /\ scan.pc = "target" /\ scan.base # None /\ scan.base \in Bases
        BY <1>1, <1>6 DEF ScanQueues, file, history, ScanOK, ScanRecord
    <2>2. CASE place[scan.base] = "gone"
        <3>1. scan' = Without
            BY <1>6, <2>2 DEF ScanQueues
        <3>2. Advances
            BY <1>1, <2>1, <2>2, <3>1, NextAdvances
        <3>. QED  BY <1>2, <2>1, <3>2, LastWordStays DEF Advances
    <2>3. CASE place[scan.base] # "gone"
        <3>1. scan' = [With([Prior EXCEPT !.queues = @ + 1]) EXCEPT !.queued = Put(@, scan.base, strikes[scan.base])]
            BY <1>6, <2>3, Zenon DEF ScanQueues
        <3>. DEFINE o == [Prior EXCEPT !.queues = @ + 1]
        <3>. DEFINE w == With(o)
        <3>2. scan' = [w EXCEPT !.queued = Put(@, scan.base, strikes[scan.base])]
            BY <3>1, Zenon
        <3>3. o = [Prior EXCEPT !.queues = @ + 1] /\ w = With(o)
            OBVIOUS
        <3>. HIDE DEF o, w
        <3>4. scan'.removed = scan.removed
            BY <1>1, <2>1, <3>2, <3>3, QueuedOK
        <3>. QED  BY <1>2, <2>1, <3>4, LastWordStays
    <2>. QED  BY <2>2, <2>3
\* The record is written, and what is struck off it is gone.
<1>7. CASE ScanThrows \/ ScanEnds
    <2>1. /\ wanted' = wanted /\ scan' = IdleScan
          /\ \E o \in Partial(Status), r \in SUBSET scan.removed, k \in BOOLEAN : Persist(o, r, k)
        <3>1. Empty \in Partial(Status) /\ scan.outcomes \in Partial(Status)
            BY <1>1, EmptyOK DEF ScanOK, ScanRecord
        <3>. QED  BY <1>7, <3>1 DEF ScanThrows, ScanEnds, history
    <2>2. PICK o \in Partial(Status), r \in SUBSET scan.removed, k \in BOOLEAN : Persist(o, r, k)
        BY <2>1
    <2>3. DOMAIN enrolled' = DOMAIN enrolled \ r
        BY <1>1, <2>2, PersistOK
    <2>4. scan'.removed = {}
        BY <2>1 DEF IdleScan
    <2>. QED  BY <1>1, <1>2, <2>1, <2>3, <2>4 DEF LastWord, LastWordHolds, Forgotten
<1>8. ASSUME NEW b \in Bases, TogglesOn(b) \/ TogglesOff(b) PROVE LastWord'
    <2>1. scan'.removed = scan.removed
        <3>. DEFINE q == Restrict(scan.queued, DOMAIN scan.queued \ {b})
        <3>1. scan' = scan \/ scan' = [scan EXCEPT !.queued = q]
            BY <1>8 DEF TogglesOn, TogglesOff
        <3>. HIDE DEF q
        <3>. QED  BY <1>1, <3>1 DEF ScanOK, ScanRecord
    <2>2. \/ DOMAIN enrolled' = DOMAIN enrolled \cup {b} /\ wanted' = wanted \cup {b}
          \/ DOMAIN enrolled' = DOMAIN enrolled \ {b} /\ wanted' = wanted \ {b}
        BY <1>8 DEF TogglesOn, TogglesOff, Put, Restrict
    <2>. QED  BY <1>1, <1>2, <2>1, <2>2 DEF LastWord, LastWordHolds, Forgotten
<1>9. CASE Crash
    <2>1. UNCHANGED <<enrolled, wanted>> /\ scan'.removed = {}
        BY <1>9 DEF Crash, file, IdleScan
    <2>. QED  BY <1>2, <2>1, LastWordStays
<1>10. CASE \/ FlushBegins \/ FlushAborts \/ FlushEnds
            \/ \E b \in Bases : FlushPasses(b) \/ FlushApplies(b) \/ FlushFails(b) \/ Cancels(b) \/ Ages(b)
    BY <1>3, <1>10 DEF FlushBegins, FlushAborts, FlushEnds, FlushPasses, FlushApplies, FlushFails, Cancels, Ages, file, history
<1>11. CASE \/ Due \/ TickArms \/ RouteRefills
            \/ \E b \in Bases : \/ RouteAsks(b) \/ DeleteReserves(b) \/ DeleteQueues(b) \/ Deleted(b)
                                \/ DeleteIsOff(b) \/ PicksUp(b) \/ Redeploys(b) \/ Changes(b)
            \/ \E d \in BOOLEAN : MapGoes(d)
            \/ UNCHANGED vars
    BY <1>3, <1>11 DEF Due, TickArms, RouteRefills, RouteAsks, DeleteReserves, DeleteQueues, Deleted, DeleteIsOff,
                       PicksUp, Redeploys, Changes, MapGoes, file, history, vars
<1>. QED  BY <1>4, <1>5, <1>6, <1>7, <1>8, <1>9, <1>10, <1>11 DEF Next, Ticking, Scanning, Flushing

\* The operator's last word stands: whatever scans are under way, a base switched off
\* stays off, and one switched on stays on for as long as it exists.
THEOREM SwitchStands == Spec => []LastWordHolds
<1>1. Init => LastWord
    BY DEF Init, LastWord, LastWordHolds, Forgotten, IdleScan
<1>2. LastWord => LastWordHolds
    BY DEF LastWord
<1>. QED  BY <1>1, <1>2, NextLastWord, RefillKeeps, PTL DEF Spec
=============================================================================
