------------------------- MODULE CarePackageProofs -------------------------
(***************************************************************************)
(* That the kit of the first_online rule is delivered once, for any number *)
(* of players and any history: a grant under way holds a claim of its own, *)
(* and the claim of what was delivered stays.  That scans give the kit of  *)
(* the last_seen rule once: what was given is known from the history, or   *)
(* is about to be recorded, unless something noted excuses it.  And that   *)
(* claims, history, receipts and jobs stay well-formed.                    *)
(***************************************************************************)
EXTENDS CarePackage, SequenceTheorems, TLAPS

JobRecord ==
    [pc : {"idle", "listed", "turn", "deliver", "record"},
     seen : [Players -> {"online", "away", "gone"}],
     base : SUBSET Players, pend : SUBSET Players, changed : BOOLEAN,
     kit : Kits, todo : SUBSET Players, player : Players \cup {Nobody}, ok : BOOLEAN]

Reasons == {"failed", "unverified", "overlap", "overwritten", "slid", "cleared", "crash"}

PresenceOK == presence \in [Players -> {"online", "away", "gone"}]
FilesOK == claims \subseteq Players /\ pending \subseteq Players
JobsOK == job \in [Jobs -> JobRecord]
GhostsOK == given \in [Players -> [Kits -> Nat]] /\ why \in [Players -> SUBSET Reasons]
Types == PresenceOK /\ FilesOK /\ JobsOK /\ GhostsOK

Verified(p) == "unverified" \notin why[p]
Given(p) == given[p]["first"]

\* A grant of the first kit to p that is under way.
Grants(j, p) == job[j].pc \in {"deliver", "record"} /\ job[j].player = p /\ job[j].kit = "first"

\* Nothing has been delivered by it, or by anybody before it.
Empty(j) == job[j].pc = "deliver" \/ ~job[j].ok

HoldsClaim == \A p \in Players, j \in Jobs : Grants(j, p) => p \in claims
HoldsAlone == \A p \in Players, i, j \in Jobs : Grants(i, p) /\ Grants(j, p) => i = j
NothingBefore == \A p \in Players, j \in Jobs : Grants(j, p) /\ Empty(j) /\ Verified(p) => Given(p) = 0
ClaimStays == \A p \in Players : Verified(p) /\ Given(p) > 0 => p \in claims
AtMostOne == \A p \in Players : Verified(p) => Given(p) <= 1

Claims == HoldsClaim /\ HoldsAlone /\ NothingBefore /\ ClaimStays /\ AtMostOne
IInv == Types /\ Claims

\* What was said of a player is not taken back, and nothing but the one reason is added.
LEMMA ExcuseAdds ==
    ASSUME NEW before \in [Players -> SUBSET Reasons], NEW after, NEW who, NEW reason \in Reasons,
           after = [p \in Players |-> IF p \in who THEN before[p] \cup {reason} ELSE before[p]]
    PROVE  /\ after \in [Players -> SUBSET Reasons]
           /\ \A p \in Players : before[p] \subseteq after[p]
           /\ \A p \in Players : after[p] \ before[p] \subseteq {reason}
           /\ \A p \in Players : p \in who => reason \in after[p]
    OBVIOUS

-----------------------------------------------------------------------------
(* Types *)

LEMMA InitTypes == Init => Types
    BY DEF Init, Types, PresenceOK, FilesOK, JobsOK, GhostsOK, JobRecord, Idle, Kits

LEMMA JobReplaced ==
    ASSUME JobsOK, NEW j \in Jobs, NEW r \in JobRecord, job' = [job EXCEPT ![j] = r]
    PROVE  JobsOK'
    BY DEF JobsOK

LEMMA IdleRecord == Idle \in JobRecord
    BY DEF Idle, JobRecord, Kits

LEMMA Applied ==
    ASSUME NEW j \in JobRecord, NEW kit \in Kits
    PROVE  /\ Applies(j, kit) \in JobRecord
           /\ Applies(j, kit).pc = "turn" /\ Applies(j, kit).player = j.player
<1>1. Eligible(j, kit) \subseteq Players /\ Marked(j) \subseteq Players
    BY DEF Eligible, Marked, JobRecord
<1>2. (j.pend \cup Marked(j)) \ Settled(j) \subseteq Players
    BY <1>1 DEF Settled, JobRecord
<1> DEFINE opened == [j EXCEPT !.pc = "turn", !.kit = kit, !.todo = Eligible(j, kit)]
<1>3. opened \in JobRecord /\ opened.pc = "turn" /\ opened.player = j.player
    BY <1>1 DEF JobRecord
<1> DEFINE pend == (j.pend \cup Marked(j)) \ Settled(j)
<1>4. [opened EXCEPT !.pend = pend, !.changed = (pend # j.pend)] \in JobRecord
    BY <1>2, <1>3 DEF JobRecord
<1>5. [opened EXCEPT !.pend = pend, !.changed = (pend # j.pend)].pc = "turn"
    BY <1>3 DEF JobRecord
<1>6. [opened EXCEPT !.pend = pend, !.changed = (pend # j.pend)].player = j.player
    BY <1>3 DEF JobRecord
<1> QED
    BY <1>3, <1>4, <1>5, <1>6 DEF Applies

-----------------------------------------------------------------------------
(* The steps *)

\* A step that starts no grant of the first kit, delivers none and releases no claim.
LEMMA Untouched ==
    ASSUME Claims, given' = given, claims' = claims,
           \A p \in Players : Verified(p)' => Verified(p),
           \A p \in Players, j \in Jobs : Grants(j, p)' => Grants(j, p) /\ (Empty(j)' => Empty(j))
    PROVE  Claims'
<1>1. HoldsClaim' /\ HoldsAlone'
    BY DEF Claims, HoldsClaim, HoldsAlone
<1>2. NothingBefore' /\ ClaimStays' /\ AtMostOne'
    BY DEF Claims, NothingBefore, ClaimStays, AtMostOne, Given
<1> QED
    BY <1>1, <1>2 DEF Claims

\* Such a step of one job: it is no longer at a grant, or the grant is of the other kit.
LEMMA JobUntouched ==
    ASSUME Types, Claims, NEW k \in Jobs, NEW r \in JobRecord, job' = [job EXCEPT ![k] = r],
           r.pc \notin {"deliver", "record"} \/ r.kit # "first",
           given' = given, claims' = claims,
           \A p \in Players : Verified(p)' => Verified(p)
    PROVE  Claims'
<1>1. \A j \in Jobs : j # k => job'[j] = job[j]
    BY DEF Types, JobsOK
<1>2. job'[k] = r
    BY DEF Types, JobsOK
<1>3. \A p \in Players, j \in Jobs : Grants(j, p)' => Grants(j, p) /\ (Empty(j)' => Empty(j))
    BY <1>1, <1>2 DEF Grants, Empty
<1> QED
    BY <1>3, Untouched

\* A grant of the first kit starts: nobody has the claim, so nobody is at one and none
\* was delivered.
LEMMA Starts ==
    ASSUME Types, Claims, NEW k \in Jobs, NEW r \in JobRecord, NEW p \in Players,
           job' = [job EXCEPT ![k] = r], r.pc = "deliver", r.player = p,
           p \notin claims, claims' = claims \cup {p}, given' = given,
           \A q \in Players : Verified(q)' => Verified(q)
    PROVE  Claims'
<1>1. \A j \in Jobs : j # k => job'[j] = job[j]
    BY DEF Types, JobsOK
<1>2. job'[k] = r
    BY DEF Types, JobsOK
<1>3. \A j \in Jobs : ~Grants(j, p)
    BY DEF Claims, HoldsClaim
<1>4. \A q \in Players, j \in Jobs : Grants(j, q)' => (Grants(j, q) /\ j # k /\ q # p) \/ (j = k /\ q = p)
    BY <1>1, <1>2, <1>3 DEF Grants
<1>5. HoldsClaim' /\ HoldsAlone'
    BY <1>4 DEF Claims, HoldsClaim, HoldsAlone
<1>6. Verified(p) => Given(p) = 0
    <2>1. Given(p) \in Nat
        BY DEF Given, Types, GhostsOK, Kits
    <2> QED
        BY <2>1 DEF Claims, ClaimStays
<1>7. NothingBefore'
    <2> SUFFICES ASSUME NEW q \in Players, NEW j \in Jobs, Grants(j, q)', Empty(j)', Verified(q)'
                 PROVE  Given(q) = 0
        BY DEF NothingBefore, Given
    <2>1. CASE j = k /\ q = p
        BY <2>1, <1>6
    <2>2. CASE Grants(j, q) /\ j # k
        <3>1. Empty(j)
            BY <1>1, <2>2 DEF Empty
        <3> QED
            BY <2>2, <3>1 DEF Claims, NothingBefore
    <2> QED
        BY <1>4, <2>1, <2>2
<1>8. ClaimStays' /\ AtMostOne'
    BY DEF Claims, ClaimStays, AtMostOne, Given
<1> QED
    BY <1>5, <1>7, <1>8 DEF Claims

LEMMA ScanStep ==
    ASSUME Types, Claims, NEW s \in Scans, Lists(s) \/ ScanGoesOn(s)
    PROVE  Types' /\ Claims'
<1>0. s \in Jobs
    BY DEF Jobs
<1>1. job[s] \in JobRecord
    BY <1>0 DEF Types, JobsOK
<1>2. CASE Lists(s)
    <2> DEFINE r == [Idle EXCEPT !.pc = "listed", !.seen = presence]
    <2>1. r \in JobRecord /\ r.pc = "listed"
        BY IdleRecord DEF JobRecord, Types, PresenceOK
    <2>2. job' = [job EXCEPT ![s] = r] /\ given' = given /\ why' = why /\ claims' = claims
        BY <1>2 DEF Lists, files, ghosts
    <2>3. Types'
        BY <1>0, <1>2, <2>1, <2>2, JobReplaced DEF Lists, files, ghosts, Types, PresenceOK, FilesOK, GhostsOK
    <2>4. Claims'
        BY <1>0, <2>1, <2>2, JobUntouched DEF Verified
    <2> QED
        BY <2>3, <2>4
<1>3. CASE Begins(s)
    <2> DEFINE j == [job[s] EXCEPT !.base = pending, !.pend = pending]
               r == Applies(j, "first")
    <2>1. j \in JobRecord
        BY <1>1 DEF JobRecord, Types, FilesOK
    <2>2. r \in JobRecord /\ r.pc = "turn"
        BY <2>1, Applied DEF Kits
    <2>3. job' = [job EXCEPT ![s] = r] /\ given' = given /\ why' = why /\ claims' = claims
        BY <1>3 DEF Begins, files, ghosts
    <2>4. Types'
        BY <1>0, <1>3, <2>2, <2>3, JobReplaced DEF Begins, files, ghosts, Types, PresenceOK, FilesOK, GhostsOK
    <2>5. Claims'
        BY <1>0, <2>2, <2>3, JobUntouched DEF Verified
    <2> QED
        BY <2>4, <2>5
<1>4. CASE NextRule(s)
    <2> DEFINE r == Applies(job[s], "seen")
    <2>1. r \in JobRecord /\ r.pc = "turn"
        BY <1>1, Applied DEF Kits
    <2>2. job' = [job EXCEPT ![s] = r] /\ given' = given /\ why' = why /\ claims' = claims
        BY <1>4 DEF NextRule, files, ghosts
    <2>3. Types'
        BY <1>0, <1>4, <2>1, <2>2, JobReplaced DEF NextRule, files, ghosts, Types, PresenceOK, FilesOK, GhostsOK
    <2>4. Claims'
        BY <1>0, <2>1, <2>2, JobUntouched DEF Verified
    <2> QED
        BY <2>3, <2>4
<1>5. CASE Ends(s)
    <2> DEFINE lost == (pending \ pending') \ job[s].base
    <2>1. job' = [job EXCEPT ![s] = Idle] /\ given' = given /\ claims' = claims /\ presence' = presence
        BY <1>5 DEF Ends
    <2>2. why' = [p \in Players |-> IF p \in lost THEN why[p] \cup {"overwritten"} ELSE why[p]]
        BY <1>5 DEF Ends, Excuse
    <2>3. why' \in [Players -> SUBSET Reasons] /\ \A p \in Players : Verified(p)' => Verified(p)
        BY <2>2 DEF Types, GhostsOK, Reasons, Verified
    <2>4. pending' \subseteq Players
        BY <1>1, <1>5 DEF Ends, Types, FilesOK, JobRecord
    <2>5. JobsOK'
        BY <1>0, <2>1, IdleRecord, JobReplaced DEF Types
    <2>6. Types'
        BY <2>1, <2>3, <2>4, <2>5 DEF Types, PresenceOK, FilesOK, GhostsOK
    <2>7. Idle.pc = "idle"
        BY DEF Idle
    <2>8. Claims'
        BY <1>0, <2>1, <2>3, <2>7, IdleRecord, JobUntouched
    <2> QED
        BY <2>6, <2>8
<1>6. CASE Refuses(s)
    <2>1. PICK p \in job[s].todo :
              /\ AppendGrant(Row(p, job[s].kit, FALSE, FALSE))
              /\ job' = [job EXCEPT ![s] = [job[s] EXCEPT !.todo = job[s].todo \ {p}]]
        BY <1>0, <1>6 DEF Refuses, Types, JobsOK
    <2> DEFINE r == [job[s] EXCEPT !.todo = job[s].todo \ {p}]
               slid == Slid(Row(p, job[s].kit, FALSE, FALSE))
    <2>2. r \in JobRecord /\ r.pc = "turn"
        BY <1>1, <1>6 DEF JobRecord, Refuses
    <2>3. job' = [job EXCEPT ![s] = r] /\ given' = given /\ claims' = claims /\ presence' = presence
        BY <1>6, <2>1 DEF Refuses
    <2>4. why' = [q \in Players |-> IF q \in slid THEN why[q] \cup {"slid"} ELSE why[q]]
        BY <2>1 DEF AppendGrant, Excuse
    <2>5. why' \in [Players -> SUBSET Reasons] /\ \A q \in Players : Verified(q)' => Verified(q)
        BY <2>4 DEF Types, GhostsOK, Reasons, Verified
    <2>6. Types'
        BY <1>0, <1>6, <2>2, <2>3, <2>5, JobReplaced DEF Refuses, Types, PresenceOK, FilesOK, GhostsOK
    <2>7. Claims'
        BY <1>0, <2>2, <2>3, <2>5, JobUntouched
    <2> QED
        BY <2>6, <2>7
<1>7. CASE Reserves(s)
    <2>1. PICK p \in job[s].todo :
              /\ ~Refused(p, job[s].kit)
              /\ claims' = IF job[s].kit = "first" THEN claims \cup {p} ELSE claims
              /\ job' = [job EXCEPT ![s] = [job[s] EXCEPT !.pc = "deliver", !.player = p]]
              /\ Excuse(IF Overlapped(s, p, job[s].kit) THEN {p} ELSE {}, "overlap")
        BY <1>0, <1>7 DEF Reserves, Types, JobsOK
    <2> DEFINE r == [job[s] EXCEPT !.pc = "deliver", !.player = p]
               others == IF Overlapped(s, p, job[s].kit) THEN {p} ELSE {}
    <2>2. p \in Players
        BY <1>1 DEF JobRecord
    <2>3. r \in JobRecord /\ r.pc = "deliver" /\ r.player = p /\ r.kit = job[s].kit
        BY <1>1, <2>2 DEF JobRecord
    <2>4. job' = [job EXCEPT ![s] = r] /\ given' = given /\ presence' = presence /\ pending' = pending
        BY <1>7, <2>1 DEF Reserves
    <2>5. why' = [q \in Players |-> IF q \in others THEN why[q] \cup {"overlap"} ELSE why[q]]
        BY <2>1 DEF Excuse
    <2>6. why' \in [Players -> SUBSET Reasons] /\ \A q \in Players : Verified(q)' => Verified(q)
        BY <2>5 DEF Types, GhostsOK, Reasons, Verified
    <2>7. JobsOK'
        BY <1>0, <2>3, <2>4, JobReplaced DEF Types
    <2>8. Types'
        BY <2>1, <2>2, <2>4, <2>6, <2>7 DEF Types, PresenceOK, FilesOK, GhostsOK
    <2>9. CASE job[s].kit = "first"
        <3>1. p \notin claims
            BY <2>1, <2>9 DEF Refused
        <3>2. claims' = claims \cup {p}
            BY <2>1, <2>9
        <3> QED
            BY <1>0, <2>2, <2>3, <2>4, <2>6, <2>8, <3>1, <3>2, Starts
    <2>10. CASE job[s].kit # "first"
        <3>1. claims' = claims
            BY <2>1, <2>10
        <3> QED
            BY <1>0, <2>3, <2>4, <2>6, <2>8, <2>10, <3>1, JobUntouched
    <2> QED
        BY <2>9, <2>10
<1> QED
    BY <1>2, <1>3, <1>4, <1>5, <1>6, <1>7 DEF ScanGoesOn

LEMMA ManualStep ==
    ASSUME Types, Claims, NEW p \in Players, NEW kit \in Kits, Manual(p, kit)
    PROVE  Types' /\ Claims'
<1> DEFINE r == [Idle EXCEPT !.pc = "deliver", !.player = p, !.kit = kit]
<1>1. r \in JobRecord /\ r.pc = "deliver" /\ r.player = p /\ r.kit = kit
    BY IdleRecord DEF JobRecord
<1>2. job' = [job EXCEPT !["manual"] = r] /\ "manual" \in Jobs
    BY DEF Manual, Jobs
<1>3. /\ given' = given /\ why' = why /\ presence' = presence /\ pending' = pending
      /\ claims' = IF kit = "first" THEN claims \cup {p} ELSE claims
      /\ kit = "first" => p \notin claims
    BY DEF Manual, ghosts
<1>4. JobsOK'
    BY <1>1, <1>2, JobReplaced DEF Types
<1>5. Types'
    BY <1>3, <1>4 DEF Types, PresenceOK, FilesOK, GhostsOK
<1>6. \A q \in Players : Verified(q)' => Verified(q)
    BY <1>3 DEF Verified
<1>7. CASE kit = "first"
    <2>1. p \notin claims /\ claims' = claims \cup {p}
        BY <1>3, <1>7
    <2> QED
        BY <1>1, <1>2, <1>3, <1>5, <1>6, <2>1, Starts
<1>8. CASE kit # "first"
    <2>1. claims' = claims
        BY <1>3, <1>8
    <2> QED
        BY <1>1, <1>2, <1>3, <1>5, <1>6, <1>8, <2>1, JobUntouched
<1> QED
    BY <1>5, <1>7, <1>8

\* A grant goes on: its job, and what it adds to given.
LEMMA DeliveryTypes ==
    ASSUME Types, NEW j \in Jobs, job[j].pc = "deliver"
    PROVE  /\ Delivered(j) \in [Players -> [Kits -> Nat]]
           /\ \A q \in Players : ~Grants(j, q) => Delivered(j)[q]["first"] = Given(q)
           /\ \A q \in Players : Grants(j, q) => Delivered(j)[q]["first"] = Given(q) + 1
<1>1. job[j] \in JobRecord /\ given \in [Players -> [Kits -> Nat]]
    BY DEF Types, JobsOK, GhostsOK
<1> DEFINE p == job[j].player
           kit == job[j].kit
           more == [given EXCEPT ![p] = [given[p] EXCEPT ![kit] = given[p][kit] + 1]]
<1>2. kit \in Kits
    BY <1>1 DEF JobRecord
<1>3. Delivered(j) = IF j = "manual" /\ kit = "seen" THEN given ELSE more
    BY <1>1, <1>2 DEF Delivered
<1>4. more \in [Players -> [Kits -> Nat]]
    <2>1. CASE p \in Players
        <3>1. given[p] \in [Kits -> Nat] /\ given[p][kit] \in Nat
            BY <1>1, <1>2, <2>1
        <3>2. [given[p] EXCEPT ![kit] = given[p][kit] + 1] \in [Kits -> Nat]
            BY <3>1, <1>2
        <3> QED
            BY <1>1, <3>2
    <2>2. CASE p \notin Players
        BY <1>1, <2>2
    <2> QED
        BY <2>1, <2>2
<1>5. \A q \in Players : ~Grants(j, q) => more[q]["first"] = Given(q)
    <2> SUFFICES ASSUME NEW q \in Players, ~Grants(j, q)
                 PROVE  more[q]["first"] = Given(q)
        OBVIOUS
    <2>1. CASE q # p
        BY <1>1, <2>1 DEF Given
    <2>2. CASE q = p
        <3>1. kit # "first"
            BY <2>2 DEF Grants
        <3>2. given[p] \in [Kits -> Nat]
            BY <1>1, <2>2
        <3>3. more[q] = [given[p] EXCEPT ![kit] = given[p][kit] + 1]
            BY <1>1, <2>2
        <3> QED
            BY <2>2, <3>1, <3>2, <3>3 DEF Given, Kits
    <2> QED
        BY <2>1, <2>2
<1>6. \A q \in Players : Grants(j, q) => more[q]["first"] = Given(q) + 1 /\ kit = "first"
    <2> SUFFICES ASSUME NEW q \in Players, Grants(j, q)
                 PROVE  more[q]["first"] = Given(q) + 1 /\ kit = "first"
        OBVIOUS
    <2>1. p = q /\ kit = "first"
        BY DEF Grants
    <2>2. given[p] \in [Kits -> Nat]
        BY <1>1, <2>1
    <2>3. more[q] = [given[p] EXCEPT ![kit] = given[p][kit] + 1]
        BY <1>1, <2>1
    <2> QED
        BY <2>1, <2>2, <2>3 DEF Given, Kits
<1>7. \A q \in Players : given[q]["first"] = Given(q)
    BY DEF Given
<1> QED
    BY <1>1, <1>3, <1>4, <1>5, <1>6, <1>7

\* What a delivery adds to given agrees with the claims.
LEMMA Counted ==
    ASSUME Types, Claims, NEW j \in Jobs, job[j].pc = "deliver",
           NEW r \in JobRecord, job' = [job EXCEPT ![j] = r],
           r.pc = "record", r.player = job[j].player, r.kit = job[j].kit,
           given' = Delivered(j), claims' = claims,
           \A q \in Players : Verified(q)' => Verified(q),
           ~r.ok => \A q \in Players : Grants(j, q) => ~Verified(q)'
    PROVE  Claims'
<1>1. \A i \in Jobs : i # j => job'[i] = job[i]
    BY DEF Types, JobsOK
<1>2. job'[j] = r
    BY DEF Types, JobsOK
<1>3. \A q \in Players, i \in Jobs : Grants(i, q)' <=> Grants(i, q)
    BY <1>1, <1>2 DEF Grants
<1>4. \A q \in Players : Given(q) \in Nat
    BY DEF Types, GhostsOK, Given, Kits
<1>5. \A q \in Players : ~Grants(j, q) => Given(q)' = Given(q)
    BY DeliveryTypes DEF Given
<1>6. \A q \in Players : Grants(j, q) => Given(q)' = Given(q) + 1
    BY DeliveryTypes DEF Given
<1>7. \A q \in Players : Grants(j, q) /\ Verified(q) => Given(q) = 0
    BY DEF Claims, NothingBefore, Empty
<1>8. HoldsClaim' /\ HoldsAlone'
    BY <1>3 DEF Claims, HoldsClaim, HoldsAlone
<1>9. NothingBefore'
    <2> SUFFICES ASSUME NEW q \in Players, NEW i \in Jobs, Grants(i, q)', Empty(i)', Verified(q)'
                 PROVE  Given(q)' = 0
        BY DEF NothingBefore
    <2>1. Grants(i, q) /\ Verified(q)
        BY <1>3
    <2>2. CASE i = j
        BY <1>2, <2>1, <2>2 DEF Empty
    <2>3. CASE i # j
        <3>1. Empty(i) /\ ~Grants(j, q)
            BY <1>1, <2>1, <2>3 DEF Empty, Claims, HoldsAlone
        <3> QED
            BY <1>5, <2>1, <3>1 DEF Claims, NothingBefore
    <2> QED
        BY <2>2, <2>3
<1>10. ClaimStays'
    <2> SUFFICES ASSUME NEW q \in Players, Verified(q)', Given(q)' > 0
                 PROVE  q \in claims
        BY DEF ClaimStays
    <2>1. CASE Grants(j, q)
        BY <2>1 DEF Claims, HoldsClaim
    <2>2. CASE ~Grants(j, q)
        BY <1>5, <2>2 DEF Claims, ClaimStays
    <2> QED
        BY <2>1, <2>2
<1>11. AtMostOne'
    <2> SUFFICES ASSUME NEW q \in Players, Verified(q)'
                 PROVE  Given(q)' <= 1
        BY DEF AtMostOne
    <2>1. CASE Grants(j, q)
        BY <1>6, <1>7, <2>1
    <2>2. CASE ~Grants(j, q)
        BY <1>5, <2>2 DEF Claims, AtMostOne
    <2> QED
        BY <2>1, <2>2
<1> QED
    BY <1>8, <1>9, <1>10, <1>11 DEF Claims

LEMMA GrantStep ==
    ASSUME Types, Claims, NEW j \in Jobs, GrantGoesOn(j)
    PROVE  Types' /\ Claims'
<1>1. job[j] \in JobRecord
    BY DEF Types, JobsOK
<1>2. CASE Delivers(j)
    <2> DEFINE r == [job[j] EXCEPT !.pc = "record", !.ok = TRUE]
    <2>1. r \in JobRecord /\ r.pc = "record" /\ r.player = job[j].player /\ r.kit = job[j].kit /\ r.ok
        BY <1>1 DEF JobRecord
    <2>2. /\ job[j].pc = "deliver" /\ job' = [job EXCEPT ![j] = r] /\ given' = Delivered(j)
          /\ why' = why /\ claims' = claims /\ presence' = presence /\ pending' = pending
        BY <1>2 DEF Delivers, files
    <2>3. JobsOK' /\ given' \in [Players -> [Kits -> Nat]]
        BY <2>1, <2>2, JobReplaced, DeliveryTypes DEF Types
    <2>4. Types'
        BY <2>2, <2>3 DEF Types, PresenceOK, FilesOK, GhostsOK
    <2>5. \A q \in Players : Verified(q)' => Verified(q)
        BY <2>2 DEF Verified
    <2>6. Claims'
        BY <2>1, <2>2, <2>5, Counted
    <2> QED
        BY <2>4, <2>6
<1>3. CASE FailsToDeliver(j)
    <2> DEFINE r == [job[j] EXCEPT !.pc = "record", !.ok = FALSE]
               p == job[j].player
    <2>1. r \in JobRecord /\ r.pc = "record" /\ r.player = p /\ r.kit = job[j].kit /\ ~r.ok
        BY <1>1 DEF JobRecord
    <2>2. /\ job[j].pc = "deliver" /\ job' = [job EXCEPT ![j] = r]
          /\ claims' = claims /\ presence' = presence /\ pending' = pending
        BY <1>3 DEF FailsToDeliver, files
    <2>3. JobsOK'
        BY <2>1, <2>2, JobReplaced DEF Types
    <2>4. CASE given' = given /\ Excuse({p}, "failed")
        <3>1. why' = [q \in Players |-> IF q \in {p} THEN why[q] \cup {"failed"} ELSE why[q]]
            BY <2>4 DEF Excuse
        <3>2. why' \in [Players -> SUBSET Reasons] /\ \A q \in Players : Verified(q)' => Verified(q)
            BY <3>1 DEF Types, GhostsOK, Reasons, Verified
        <3>3. Types'
            BY <2>2, <2>3, <2>4, <3>2 DEF Types, PresenceOK, FilesOK, GhostsOK
        <3>4. \A i \in Jobs : i # j => job'[i] = job[i]
            BY <2>2 DEF Types, JobsOK
        <3>5. job'[j] = r
            BY <2>2 DEF Types, JobsOK
        <3>6. \A q \in Players, i \in Jobs : Grants(i, q)' => Grants(i, q) /\ (Empty(i)' => Empty(i))
            BY <2>1, <2>2, <3>4, <3>5 DEF Grants, Empty
        <3>7. Claims'
            BY <2>2, <2>4, <3>2, <3>6, Untouched
        <3> QED
            BY <3>3, <3>7
    <2>5. CASE given' = Delivered(j) /\ Excuse({p}, "unverified")
        <3>1. why' = [q \in Players |-> IF q \in {p} THEN why[q] \cup {"unverified"} ELSE why[q]]
            BY <2>5 DEF Excuse
        <3>2. why' \in [Players -> SUBSET Reasons] /\ \A q \in Players : Verified(q)' => Verified(q)
            BY <3>1 DEF Types, GhostsOK, Reasons, Verified
        <3>3. given' \in [Players -> [Kits -> Nat]]
            BY <2>2, <2>5, DeliveryTypes
        <3>4. Types'
            BY <2>2, <2>3, <3>2, <3>3 DEF Types, PresenceOK, FilesOK, GhostsOK
        <3>5. \A q \in Players : Grants(j, q) => ~Verified(q)'
            BY <3>1 DEF Grants, Verified
        <3>6. Claims'
            BY <2>1, <2>2, <2>5, <3>2, <3>5, Counted
        <3> QED
            BY <3>4, <3>6
    <2> QED
        BY <1>3, <2>4, <2>5 DEF FailsToDeliver
<1>4. CASE Records(j)
    <2> DEFINE p == job[j].player
               kit == job[j].kit
               cleared == IF kit = "seen" THEN {p} ELSE {}
               row == Row(p, kit, j = "manual" \/ kit = "first", job[j].ok)
               r == IF j = "manual" THEN Idle ELSE
                    [job[j] EXCEPT !.pc = "turn", !.todo = job[j].todo \ {p}, !.player = Nobody, !.ok = FALSE,
                                   !.pend = job[j].pend \ cleared,
                                   !.changed = job[j].changed \/ (cleared \cap job[j].pend # {})]
               slid == Slid(row)
    <2>1. r \in JobRecord /\ r.pc \notin {"deliver", "record"}
        <3>1. CASE j = "manual"
            BY <3>1, IdleRecord DEF Idle
        <3>2. CASE j # "manual"
            <4>1. job[j].todo \ {p} \subseteq Players /\ job[j].pend \ cleared \subseteq Players
                BY <1>1 DEF JobRecord
            <4> QED
                BY <1>1, <3>2, <4>1 DEF JobRecord
        <3> QED
            BY <3>1, <3>2
    <2>2. /\ job[j].pc = "record" /\ job' = [job EXCEPT ![j] = r] /\ given' = given
          /\ presence' = presence /\ pending' = pending
          /\ claims' = IF kit = "first" /\ ~job[j].ok THEN claims \ {p} ELSE claims
        BY <1>4 DEF Records
    <2>3. why' = [q \in Players |-> IF q \in slid THEN why[q] \cup {"slid"} ELSE why[q]]
        BY <1>4 DEF Records, AppendGrant, Excuse
    <2>4. why' \in [Players -> SUBSET Reasons] /\ \A q \in Players : Verified(q)' => Verified(q)
        BY <2>3 DEF Types, GhostsOK, Reasons, Verified
    <2>5. JobsOK' /\ claims' \subseteq Players
        BY <2>1, <2>2, JobReplaced DEF Types, FilesOK
    <2>6. Types'
        BY <2>2, <2>4, <2>5 DEF Types, PresenceOK, FilesOK, GhostsOK
    <2>7. CASE kit = "first" /\ ~job[j].ok
        <3>1. \A i \in Jobs : i # j => job'[i] = job[i]
            BY <2>2 DEF Types, JobsOK
        <3>2. job'[j] = r
            BY <2>2 DEF Types, JobsOK
        <3>3. \A q \in Players, i \in Jobs : Grants(i, q)' => Grants(i, q) /\ i # j /\ (Empty(i)' <=> Empty(i))
            BY <2>1, <3>1, <3>2 DEF Grants, Empty
        <3>4. \A q \in Players, i \in Jobs : Grants(i, q)' => q # p
            BY <2>2, <2>7, <3>3 DEF Grants, Claims, HoldsAlone
        <3>5. claims' = claims \ {p}
            BY <2>2, <2>7
        <3>6. HoldsClaim' /\ HoldsAlone' /\ NothingBefore' /\ AtMostOne'
            BY <2>2, <2>4, <3>3, <3>4, <3>5 DEF Claims, HoldsClaim, HoldsAlone, NothingBefore, AtMostOne, Given
        <3>7. p \in Players /\ Verified(p) => Given(p) = 0
            BY <2>2, <2>7 DEF Claims, NothingBefore, Grants, Empty
        <3>8. ClaimStays'
            BY <2>2, <2>4, <3>5, <3>7 DEF Claims, ClaimStays, Given
        <3> QED
            BY <2>6, <3>6, <3>8 DEF Claims
    <2>8. CASE ~(kit = "first" /\ ~job[j].ok)
        <3>1. claims' = claims
            BY <2>2, <2>8
        <3> QED
            BY <2>1, <2>2, <2>4, <2>6, <3>1, JobUntouched
    <2> QED
        BY <2>7, <2>8
<1> QED
    BY <1>2, <1>3, <1>4 DEF GrantGoesOn

LEMMA OtherStep ==
    ASSUME Types, Claims,
           Compacts \/ Compacted \/ ClearHistory \/ Crash \/ (\E p \in Players : Moves(p)) \/ UNCHANGED vars
    PROVE  Types' /\ Claims'
<1>1. ASSUME job' = job, given' = given, claims' = claims, \A p \in Players : Verified(p)' => Verified(p)
      PROVE  Claims'
    <2>1. \A p \in Players, j \in Jobs : Grants(j, p)' => Grants(j, p) /\ (Empty(j)' => Empty(j))
        BY <1>1 DEF Grants, Empty
    <2> QED
        BY <1>1, <2>1, Untouched
<1>2. CASE Compacts \/ Compacted \/ UNCHANGED vars
    <2>1. /\ job' = job /\ given' = given /\ claims' = claims /\ why' = why
          /\ presence' = presence /\ pending' = pending
        BY <1>2 DEF Compacts, Compacted, vars, files, ghosts
    <2> QED
        BY <1>1, <2>1 DEF Types, PresenceOK, FilesOK, JobsOK, GhostsOK, Verified
<1>3. CASE ClearHistory
    <2> DEFINE who == {r.player : r \in Known \ receipts}
    <2>1. /\ job' = job /\ given' = given /\ claims' = claims
          /\ presence' = presence /\ pending' = pending
        BY <1>3 DEF ClearHistory
    <2>2. why' = [p \in Players |-> IF p \in who THEN why[p] \cup {"cleared"} ELSE why[p]]
        BY <1>3 DEF ClearHistory, Excuse
    <2> HIDE DEF who
    <2>3. why' \in [Players -> SUBSET Reasons] /\ \A p \in Players : Verified(p)' => Verified(p)
        BY <2>2 DEF Types, GhostsOK, Reasons, Verified
    <2> QED
        BY <1>1, <2>1, <2>3 DEF Types, PresenceOK, FilesOK, JobsOK, GhostsOK
<1>4. CASE Crash
    <2> DEFINE who == Underway
    <2>1. /\ job' = [j \in Jobs |-> Idle] /\ given' = given /\ claims' = claims
          /\ presence' = presence /\ pending' = pending
        BY <1>4 DEF Crash
    <2>2. why' = [p \in Players |-> IF p \in who THEN why[p] \cup {"crash"} ELSE why[p]]
        BY <1>4 DEF Crash, Excuse
    <2> HIDE DEF who
    <2>3. why' \in [Players -> SUBSET Reasons] /\ \A p \in Players : Verified(p)' => Verified(p)
        BY <2>2 DEF Types, GhostsOK, Reasons, Verified
    <2>4. Types'
        BY <2>1, <2>3, IdleRecord DEF Types, PresenceOK, FilesOK, JobsOK, GhostsOK
    <2>5. \A p \in Players, j \in Jobs : ~Grants(j, p)'
        BY <2>1 DEF Grants, Idle
    <2> QED
        BY <2>1, <2>3, <2>4, <2>5, Untouched
<1>5. CASE \E p \in Players : Moves(p)
    <2>1. /\ job' = job /\ given' = given /\ claims' = claims /\ why' = why /\ pending' = pending
        BY <1>5 DEF Moves, files, ghosts
    <2>2. PresenceOK'
        BY <1>5 DEF Moves, Types, PresenceOK
    <2> QED
        BY <1>1, <2>1, <2>2 DEF Types, FilesOK, JobsOK, GhostsOK, Verified
<1> QED
    BY <1>2, <1>3, <1>4, <1>5

\* Whatever scans and grants overlap, whenever the history is cleared or compacted and
\* the Console stops: a player gets the kit of the first_online rule once, unless a
\* delivery that arrived was taken for a failure (reserveFirstOnlineClaim and its release).
THEOREM FirstOnlineClaimed == Spec => []FirstOnlineOnce
<1>1. Init => IInv
    <2>1. Init => Types
        BY InitTypes
    <2>2. Init => Claims
        BY DEF Init, Claims, HoldsClaim, HoldsAlone, NothingBefore, ClaimStays, AtMostOne, Grants, Given, Idle, Kits
    <2> QED
        BY <2>1, <2>2 DEF IInv
<1>2. IInv /\ [Next]_vars => IInv'
    BY ScanStep, GrantStep, ManualStep, OtherStep DEF IInv, Next
<1>3. IInv => FirstOnlineOnce
    BY DEF IInv, Types, GhostsOK, Claims, AtMostOne, Verified, Given, FirstOnlineOnce, Kits
<1> QED
    BY <1>1, <1>2, <1>3, PTL DEF Spec

-----------------------------------------------------------------------------
(* The history and what is known of it *)

RowRecord == [player : Players, kit : Kits, first : BOOLEAN, ok : BOOLEAN]

StoreOK ==
    /\ receipts \subseteq RowRecord /\ history \in Seq(RowRecord)
    /\ keeper \in {"idle", "reading", "cancelled"}

\* The newest rows are rows, the last one among them.
LEMMA NewestRows ==
    ASSUME NEW rows \in Seq(RowRecord)
    PROVE  /\ Newest(rows) \in Seq(RowRecord)
           /\ \A i \in DOMAIN Newest(rows) : \E k \in DOMAIN rows : Newest(rows)[i] = rows[k]
           /\ rows # <<>> => \E i \in DOMAIN Newest(rows) : Newest(rows)[i] = rows[Len(rows)]
<1> DEFINE n == Len(rows)
           m == IF n > Window THEN n - Window + 1 ELSE 1
<1>1. n \in Nat /\ DOMAIN rows = 1..n /\ \A i \in 1..n : rows[i] \in RowRecord
    OBVIOUS
<1>2. m \in Nat /\ 1 <= m /\ (n >= 1 => m <= n)
    BY <1>1, BoundAssumption
<1>3. Newest(rows) = SubSeq(rows, m, n)
    BY DEF Newest
<1>4. rows # <<>> => n >= 1
    BY <1>1
<1> HIDE DEF m, n
<1>5. \A i \in m..n : rows[i] \in RowRecord
    BY <1>1, <1>2
<1>6. /\ Newest(rows) \in Seq(RowRecord)
      /\ Len(Newest(rows)) = IF m <= n THEN n - m + 1 ELSE 0
      /\ \A i \in 1..(n - m + 1) : Newest(rows)[i] = rows[m + i - 1]
    BY <1>1, <1>2, <1>3, <1>5, SubSeqProperties
<1>7. DOMAIN Newest(rows) = 1..(IF m <= n THEN n - m + 1 ELSE 0)
    BY <1>6
<1>8. ASSUME NEW i \in DOMAIN Newest(rows) PROVE \E k \in DOMAIN rows : Newest(rows)[i] = rows[k]
    <2>1. i \in 1..(n - m + 1) /\ m + i - 1 \in 1..n
        BY <1>1, <1>2, <1>7
    <2> QED
        BY <1>1, <1>6, <2>1
<1>9. ASSUME rows # <<>> PROVE \E i \in DOMAIN Newest(rows) : Newest(rows)[i] = rows[n]
    <2>1. n - m + 1 \in 1..(n - m + 1) /\ n - m + 1 \in DOMAIN Newest(rows) /\ m + (n - m + 1) - 1 = n
        BY <1>1, <1>2, <1>4, <1>7, <1>9
    <2> QED
        BY <1>6, <2>1
<1> QED
    BY <1>6, <1>8, <1>9 DEF n

LEMMA SuccessesAre ==
    ASSUME NEW rows \in Seq(RowRecord)
    PROVE  /\ Successes(rows) \subseteq RowRecord
           /\ Successes(Newest(rows)) \subseteq Successes(rows)
           /\ rows # <<>> /\ rows[Len(rows)].ok => rows[Len(rows)] \in Successes(Newest(rows))
<1>1. \A i \in DOMAIN rows : rows[i] \in RowRecord
    OBVIOUS
<1>2. Successes(rows) \subseteq RowRecord
    BY <1>1 DEF Successes
<1>3. Successes(Newest(rows)) \subseteq Successes(rows)
    BY NewestRows DEF Successes
<1>4. ASSUME rows # <<>>, rows[Len(rows)].ok PROVE rows[Len(rows)] \in Successes(Newest(rows))
    BY <1>4, NewestRows DEF Successes
<1> QED
    BY <1>2, <1>3, <1>4

LEMMA KnownTyped == ASSUME StoreOK PROVE Known \subseteq RowRecord
<1>1. Successes(Newest(history)) \subseteq RowRecord
    BY SuccessesAre DEF StoreOK
<1> QED
    BY <1>1 DEF Known, StoreOK

\* What is known of a player is known no longer only if that is noted; a success is known
\* when it has been recorded.
LEMMA KnownAppends ==
    ASSUME StoreOK, NEW row \in RowRecord, AppendGrant(row), UNCHANGED <<receipts, keeper>>
    PROVE  /\ StoreOK'
           /\ \A p \in Players : "slid" \notin why'[p] => \A r \in Known : r.player = p => r \in Known'
           /\ row.ok => row \in Known'
<1> DEFINE rows == Append(history, row)
<1>1. /\ history \in Seq(RowRecord) /\ rows \in Seq(RowRecord)
      /\ rows # <<>> /\ rows[Len(rows)] = row /\ history' = rows
    BY DEF StoreOK, AppendGrant
<1> HIDE DEF rows
<1>2. StoreOK'
    BY <1>1 DEF StoreOK
<1>3. Known' = receipts \cup Successes(Newest(rows))
    BY <1>1 DEF Known
<1>4. row.ok => row \in Known'
    BY <1>1, <1>3, SuccessesAre
<1>5. Slid(row) = {p \in Players : \E r \in Known \ Known' : r.player = p}
    BY <1>3 DEF Slid, rows
<1>6. \A p \in Players : p \in Slid(row) => "slid" \in why'[p]
    BY DEF AppendGrant, Excuse
<1> QED
    BY <1>2, <1>4, <1>5, <1>6

\* Compaction forgets nothing, and clearing what is on no receipt.
LEMMA KnownKept ==
    ASSUME StoreOK, Compacts \/ Compacted \/ ClearHistory \/ Crash
    PROVE  /\ StoreOK'
           /\ \A p \in Players : "cleared" \notin why'[p] => \A r \in Known : r.player = p => r \in Known'
<1>1. /\ history \in Seq(RowRecord) /\ Successes(history) \subseteq RowRecord
      /\ Successes(Newest(history)) \subseteq Successes(history) /\ Newest(history) \in Seq(RowRecord)
    BY SuccessesAre, NewestRows DEF StoreOK
<1>2. CASE Compacts
    BY <1>2 DEF Compacts, files, StoreOK, Known
<1>3. CASE Compacted
    <2>1. CASE keeper = "reading"
        <3>1. receipts' = receipts \cup Successes(history) /\ history' = Newest(history) /\ keeper' = "idle"
            BY <1>3, <2>1 DEF Compacted
        <3> QED
            BY <1>1, <3>1 DEF StoreOK, Known
    <2>2. CASE keeper # "reading"
        BY <1>3, <2>2 DEF Compacted, StoreOK, Known
    <2> QED
        BY <2>1, <2>2
<1>4. CASE ClearHistory
    <2>1. /\ history' = <<>> /\ receipts' = receipts /\ keeper' \in {"idle", "reading", "cancelled"}
        BY <1>4 DEF ClearHistory, StoreOK
    <2>2. StoreOK' /\ receipts \subseteq Known'
        BY <2>1 DEF StoreOK, Known
    <2>3. \A p \in Players : (\E r \in Known \ receipts : r.player = p) => "cleared" \in why'[p]
        BY <1>4 DEF ClearHistory, Excuse
    <2> QED
        BY <2>2, <2>3
<1>5. CASE Crash
    <2>1. history' = history /\ keeper' = "idle" /\ receipts \subseteq receipts'
          /\ receipts' \subseteq receipts \cup Successes(history)
        BY <1>5 DEF Crash
    <2> QED
        BY <1>1, <2>1 DEF StoreOK, Known
<1> QED
    BY <1>2, <1>3, <1>4, <1>5

-----------------------------------------------------------------------------
(* The kit of the last_seen rule, given by scans *)

Excuses == {"overlap", "unverified", "crash", "cleared", "slid"}
Clean(p) == why[p] \cap Excuses = {}

\* A scan at a grant of the return kit to p; what scans have given of it.
Seen(j, p) == job[j].pc \in {"deliver", "record"} /\ job[j].player = p /\ job[j].kit = "seen"
Returned(p) == given[p]["seen"]

\* One scan at a time, none was given before it delivers, and what was given is known
\* from the history or about to be recorded.
SeenAlone == \A p \in Players, i, j \in Scans : Clean(p) /\ Seen(i, p) /\ Seen(j, p) => i = j
SeenFirst == \A p \in Players, j \in Scans : Clean(p) /\ Seen(j, p) /\ Empty(j) => Returned(p) = 0
SeenOnce == \A p \in Players : Clean(p) => Returned(p) <= 1
SeenKnown ==
    \A p \in Players : Clean(p) /\ Returned(p) > 0 =>
        Granted(p, "seen") \/ \E j \in Scans : Seen(j, p) /\ ~Empty(j)

Returns == SeenAlone /\ SeenFirst /\ SeenOnce /\ SeenKnown

\* Who a job grants to is set while it does, and only then.
JobPlayers == \A j \in Jobs : job[j].pc \in {"deliver", "record"} <=> job[j].player \in Players

LEMMA Excused ==
    ASSUME Types, NEW who, NEW reason, Excuse(who, reason)
    PROVE  /\ \A p \in Players : Clean(p)' => Clean(p)
           /\ reason \in Excuses => \A p \in Players : p \in who => ~Clean(p)'
<1>1. \A p \in Players : why'[p] = IF p \in who THEN why[p] \cup {reason} ELSE why[p]
    BY DEF Excuse
<1> QED
    BY <1>1 DEF Clean

LEMMA JobReplacedPlayers ==
    ASSUME Types, JobPlayers, NEW k \in Jobs, NEW r, job' = [job EXCEPT ![k] = r],
           r.pc \in {"deliver", "record"} <=> r.player \in Players
    PROVE  JobPlayers'
<1>1. \A j \in Jobs : job'[j] = IF j = k THEN r ELSE job[j]
    BY DEF Types, JobsOK
<1> QED
    BY <1>1 DEF JobPlayers

LEMMA IdlePlayer == Idle.pc = "idle" /\ Idle.player = Nobody /\ Nobody \notin Players
    BY PlayerAssumption DEF Idle, Nobody

\* What is known stays known, of whom nothing excuses it.
LEMMA GrantedKept ==
    ASSUME \A p \in Players : Clean(p)' => \A r \in Known : r.player = p => r \in Known'
    PROVE  \A p \in Players : Clean(p)' /\ Granted(p, "seen") => Granted(p, "seen")'
    BY DEF Granted

\* A step that gives none of this kit, starts no grant of it, forgets none, and ends a
\* grant that was delivered when it is known.
LEMMA Quiet ==
    ASSUME Returns,
           \A p \in Players : Clean(p)' => Clean(p) /\ Returned(p)' = Returned(p),
           \A p \in Players : Clean(p)' /\ Granted(p, "seen") => Granted(p, "seen")',
           \A p \in Players, j \in Scans : Seen(j, p)' => Seen(j, p) /\ (Empty(j)' => Empty(j)),
           \A p \in Players, j \in Scans : Clean(p)' /\ Seen(j, p) /\ ~Empty(j) =>
               (Seen(j, p)' /\ ~Empty(j)') \/ Granted(p, "seen")'
    PROVE  Returns'
<1>1. SeenAlone'
    BY DEF Returns, SeenAlone
<1>2. SeenFirst'
    BY DEF Returns, SeenFirst
<1>3. SeenOnce'
    BY DEF Returns, SeenOnce
<1>4. SeenKnown'
    <2> SUFFICES ASSUME NEW p \in Players, Clean(p)', Returned(p)' > 0
                 PROVE  Granted(p, "seen")' \/ \E j \in Scans : Seen(j, p)' /\ ~Empty(j)'
        BY DEF SeenKnown
    <2>1. Granted(p, "seen") \/ \E j \in Scans : Seen(j, p) /\ ~Empty(j)
        BY DEF Returns, SeenKnown
    <2> QED
        BY <2>1
<1> QED
    BY <1>1, <1>2, <1>3, <1>4 DEF Returns

\* Such a step of one job that is at no grant of this kit, before and after.
LEMMA JobQuiet ==
    ASSUME Types, Returns, NEW k \in Jobs, NEW r, job' = [job EXCEPT ![k] = r],
           k \in Scans => \A p \in Players : ~Seen(k, p),
           k \in Scans => r.pc \notin {"deliver", "record"} \/ r.kit # "seen",
           \A p \in Players : Clean(p)' => Clean(p) /\ Returned(p)' = Returned(p),
           \A p \in Players : Clean(p)' /\ Granted(p, "seen") => Granted(p, "seen")'
    PROVE  Returns'
<1>1. \A j \in Jobs : job'[j] = IF j = k THEN r ELSE job[j]
    BY DEF Types, JobsOK
<1>2. \A j \in Scans : j \in Jobs
    BY DEF Jobs
<1>3. \A p \in Players, j \in Scans : Seen(j, p)' => Seen(j, p) /\ (Empty(j)' => Empty(j))
    BY <1>1, <1>2 DEF Seen, Empty
<1>4. \A p \in Players, j \in Scans : Seen(j, p) /\ ~Empty(j) => Seen(j, p)' /\ ~Empty(j)'
    BY <1>1, <1>2 DEF Seen, Empty
<1> QED
    BY <1>3, <1>4, Quiet

\* A scan is about to give p the kit, which is not known to have been given: nobody else
\* is at it, or that is noted.
LEMMA Turns ==
    ASSUME Types, Returns, NEW s \in Scans, NEW p \in Players, NEW r,
           job' = [job EXCEPT ![s] = r], r.pc = "deliver", r.player = p, r.kit = "seen",
           \A q \in Players : ~Seen(s, q),
           ~Granted(p, "seen"), UNCHANGED <<given, history, receipts>>,
           \A q \in Players : Clean(q)' => Clean(q),
           Clean(p)' => ~Overlapped(s, p, "seen")
    PROVE  Returns'
<1>1. s \in Jobs /\ \A j \in Scans : j \in Jobs
    BY DEF Jobs
<1>2. \A j \in Jobs : job'[j] = IF j = s THEN r ELSE job[j]
    BY <1>1 DEF Types, JobsOK
<1>3. Clean(p)' => \A j \in Scans : ~Seen(j, p)
    BY <1>1 DEF Overlapped, Seen
<1>4. \A q \in Players, j \in Scans : Seen(j, q)' => (j = s /\ q = p) \/ (j # s /\ Seen(j, q) /\ (Empty(j)' <=> Empty(j)))
    BY <1>1, <1>2 DEF Seen, Empty
<1>5. \A q \in Players, j \in Scans : Seen(j, q) /\ ~Empty(j) => Seen(j, q)' /\ ~Empty(j)'
    BY <1>1, <1>2 DEF Seen, Empty
<1>6. \A q \in Players : (Granted(q, "seen")' <=> Granted(q, "seen")) /\ Returned(q)' = Returned(q)
    BY DEF Granted, Known, Returned
<1>7. Clean(p)' => Returned(p) = 0
    <2>1. \A q \in Players : Returned(q) \in Nat
        BY DEF Types, GhostsOK, Returned, Kits
    <2> QED
        BY <1>3, <2>1 DEF Returns, SeenKnown
<1>8. SeenAlone'
    BY <1>3, <1>4 DEF Returns, SeenAlone
<1>9. SeenFirst'
    <2> SUFFICES ASSUME NEW q \in Players, NEW j \in Scans, Clean(q)', Seen(j, q)', Empty(j)'
                 PROVE  Returned(q)' = 0
        BY DEF SeenFirst
    <2>1. CASE j = s /\ q = p
        BY <1>6, <1>7, <2>1
    <2>2. CASE j # s /\ Seen(j, q) /\ (Empty(j)' <=> Empty(j))
        BY <1>6, <2>2 DEF Returns, SeenFirst
    <2> QED
        BY <1>4, <2>1, <2>2
<1>10. SeenOnce' /\ SeenKnown'
    BY <1>5, <1>6 DEF Returns, SeenOnce, SeenKnown
<1> QED
    BY <1>8, <1>9, <1>10 DEF Returns

\* Of the return kit, a delivery adds what a scan gives to its player.
LEMMA SeenCounted ==
    ASSUME Types, NEW j \in Jobs, job[j].pc = "deliver"
    PROVE  /\ \A q \in Players : j \notin Scans \/ ~Seen(j, q) => Delivered(j)[q]["seen"] = Returned(q)
           /\ \A q \in Players : j \in Scans /\ Seen(j, q) => Delivered(j)[q]["seen"] = Returned(q) + 1
<1>1. job[j] \in JobRecord /\ given \in [Players -> [Kits -> Nat]]
    BY DEF Types, JobsOK, GhostsOK
<1> DEFINE p == job[j].player
           kit == job[j].kit
           more == [given EXCEPT ![p] = [given[p] EXCEPT ![kit] = given[p][kit] + 1]]
<1>2. Delivered(j) = IF j = "manual" /\ kit = "seen" THEN given ELSE more
    BY <1>1 DEF Delivered
<1>3. j \in Scans <=> j # "manual"
    BY ScanAssumption DEF Jobs
<1>4. ASSUME NEW q \in Players, ~Seen(j, q) PROVE more[q]["seen"] = Returned(q)
    <2>1. CASE q # p
        BY <1>1, <2>1 DEF Returned
    <2>2. CASE q = p
        <3>1. kit # "seen" /\ given[p] \in [Kits -> Nat]
            BY <1>1, <1>4, <2>2 DEF Seen
        <3>2. more[q] = [given[p] EXCEPT ![kit] = given[p][kit] + 1]
            BY <1>1, <2>2
        <3> QED
            BY <2>2, <3>1, <3>2 DEF Returned, Kits
    <2> QED
        BY <2>1, <2>2
<1>5. ASSUME NEW q \in Players, Seen(j, q) PROVE more[q]["seen"] = Returned(q) + 1 /\ kit = "seen"
    <2>1. p = q /\ kit = "seen" /\ given[p] \in [Kits -> Nat]
        BY <1>1, <1>5 DEF Seen
    <2>2. more[q] = [given[p] EXCEPT ![kit] = given[p][kit] + 1]
        BY <1>1, <2>1
    <2> QED
        BY <2>1, <2>2 DEF Returned, Kits
<1>6. ASSUME NEW q \in Players PROVE given[q]["seen"] = Returned(q)
    BY DEF Returned
<1> HIDE DEF more
<1>7. ASSUME NEW q \in Players, j \notin Scans \/ ~Seen(j, q) PROVE Delivered(j)[q]["seen"] = Returned(q)
    <2>1. CASE Seen(j, q)
        BY <1>2, <1>3, <1>5, <1>6, <1>7, <2>1
    <2>2. CASE ~Seen(j, q)
        BY <1>2, <1>4, <1>6, <2>2
    <2> QED
        BY <2>1, <2>2
<1>8. ASSUME NEW q \in Players, j \in Scans, Seen(j, q) PROVE Delivered(j)[q]["seen"] = Returned(q) + 1
    BY <1>2, <1>3, <1>5, <1>8
<1> QED
    BY <1>7, <1>8

\* The kit arrives, and the scan is to record that.
LEMMA ReturnArrives ==
    ASSUME Types, Returns, NEW j \in Jobs, job[j].pc = "deliver", NEW r, job' = [job EXCEPT ![j] = r],
           r.pc = "record", r.player = job[j].player, r.kit = job[j].kit,
           given' = Delivered(j), UNCHANGED <<history, receipts>>,
           \A q \in Players : Clean(q)' => Clean(q),
           ~r.ok => \A q \in Players : Seen(j, q) => ~Clean(q)'
    PROVE  Returns'
<1>1. \A i \in Jobs : job'[i] = IF i = j THEN r ELSE job[i]
    BY DEF Types, JobsOK
<1>2. \A i \in Scans : i \in Jobs
    BY DEF Jobs
<1>3. \A q \in Players, i \in Scans : Seen(i, q)' <=> Seen(i, q)
    BY <1>1, <1>2 DEF Seen
<1>4. \A i \in Jobs : i # j => (Empty(i)' <=> Empty(i))
    BY <1>1 DEF Empty
<1>5. Empty(j) /\ (r.ok => ~Empty(j)')
    BY <1>1 DEF Empty
<1>6. \A q \in Players : Granted(q, "seen")' <=> Granted(q, "seen")
    BY DEF Granted, Known
<1>7. CASE j \in Scans /\ \E p \in Players : Seen(j, p)
    <2> PICK p \in Players : Seen(j, p)
        BY <1>7
    <2>1. \A q \in Players : q # p => ~Seen(j, q)
        BY DEF Seen
    <2>2. \A q \in Players : q # p => Returned(q)' = Returned(q)
        BY <2>1, SeenCounted DEF Returned
    <2>3. Returned(p)' = Returned(p) + 1
        BY <1>7, SeenCounted DEF Returned
    <2>4. Clean(p) => Returned(p) = 0
        BY <1>5, <1>7 DEF Returns, SeenFirst
    <2>5. Clean(p)' => ~Empty(j)'
        BY <1>5
    <2>6. SeenAlone'
        BY <1>3 DEF Returns, SeenAlone
    <2>7. SeenFirst'
        <3> SUFFICES ASSUME NEW q \in Players, NEW i \in Scans, Clean(q)', Seen(i, q)', Empty(i)'
                     PROVE  Returned(q)' = 0
            BY DEF SeenFirst
        <3>1. Clean(q) /\ Seen(i, q)
            BY <1>3
        <3>2. CASE q = p
            <4>1. i = j
                BY <1>7, <3>1, <3>2 DEF Returns, SeenAlone
            <4> QED
                BY <2>5, <3>2, <4>1
        <3>3. CASE q # p
            <4>1. i # j
                BY <2>1, <3>1, <3>3
            <4>2. Empty(i)
                BY <1>2, <1>4, <4>1
            <4> QED
                BY <2>2, <3>1, <3>3, <4>2 DEF Returns, SeenFirst
        <3> QED
            BY <3>2, <3>3
    <2>8. SeenOnce'
        <3> SUFFICES ASSUME NEW q \in Players, Clean(q)'
                     PROVE  Returned(q)' <= 1
            BY DEF SeenOnce
        <3>1. CASE q = p
            BY <2>3, <2>4, <3>1
        <3>2. CASE q # p
            BY <2>2, <3>2 DEF Returns, SeenOnce
        <3> QED
            BY <3>1, <3>2
    <2>9. SeenKnown'
        <3> SUFFICES ASSUME NEW q \in Players, Clean(q)', Returned(q)' > 0
                     PROVE  Granted(q, "seen")' \/ \E i \in Scans : Seen(i, q)' /\ ~Empty(i)'
            BY DEF SeenKnown
        <3>1. CASE q = p
            BY <1>3, <1>7, <2>5, <3>1
        <3>2. CASE q # p
            <4>1. Granted(q, "seen") \/ \E i \in Scans : Seen(i, q) /\ ~Empty(i)
                BY <2>2, <3>2 DEF Returns, SeenKnown
            <4>2. ASSUME NEW i \in Scans, Seen(i, q), ~Empty(i) PROVE Seen(i, q)' /\ ~Empty(i)'
                BY <1>2, <1>3, <1>4, <2>1, <3>2, <4>2
            <4> QED
                BY <1>6, <4>1, <4>2
        <3> QED
            BY <3>1, <3>2
    <2> QED
        BY <2>6, <2>7, <2>8, <2>9 DEF Returns
<1>8. CASE ~(j \in Scans /\ \E p \in Players : Seen(j, p))
    <2>1. \A q \in Players : Returned(q)' = Returned(q)
        BY <1>8, SeenCounted DEF Returned
    <2>2. \A q \in Players, i \in Scans : Seen(i, q) => i # j
        BY <1>8
    <2>3. \A q \in Players, i \in Scans : Seen(i, q)' => Seen(i, q) /\ (Empty(i)' => Empty(i))
        BY <1>2, <1>3, <1>4, <2>2
    <2>4. \A q \in Players, i \in Scans : Seen(i, q) /\ ~Empty(i) => Seen(i, q)' /\ ~Empty(i)'
        BY <1>2, <1>3, <1>4, <2>2
    <2> QED
        BY <1>6, <2>1, <2>3, <2>4, Quiet
<1> QED
    BY <1>7, <1>8

-----------------------------------------------------------------------------
(* The steps, for the history and the return kit *)

Whole == Types /\ StoreOK /\ JobPlayers /\ Returns

\* A row of a grant.
LEMMA RowTyped ==
    ASSUME NEW p \in Players, NEW kit \in Kits, NEW first \in BOOLEAN, NEW ok \in BOOLEAN
    PROVE  /\ Row(p, kit, first, ok) \in RowRecord
           /\ Row(p, kit, first, ok).player = p /\ Row(p, kit, first, ok).kit = kit /\ Row(p, kit, first, ok).ok = ok
    BY DEF Row, RowRecord

LEMMA ScanReturns ==
    ASSUME Whole, NEW s \in Scans, Lists(s) \/ ScanGoesOn(s)
    PROVE  StoreOK' /\ JobPlayers' /\ Returns'
<1>0. s \in Jobs
    BY DEF Jobs
<1>1. job[s] \in JobRecord /\ Types /\ StoreOK /\ JobPlayers /\ Returns
    BY <1>0 DEF Whole, Types, JobsOK
<1>2. job[s].pc \notin {"deliver", "record"} /\ \A p \in Players : ~Seen(s, p)
    BY DEF Lists, ScanGoesOn, Begins, NextRule, Ends, Refuses, Reserves, Seen
<1>3. job[s].player \notin Players
    BY <1>0, <1>1, <1>2 DEF JobPlayers
<1>4. ASSUME UNCHANGED <<history, receipts, keeper>> PROVE StoreOK' /\ Known' = Known
    BY <1>1, <1>4 DEF StoreOK, Known
<1>5. ASSUME UNCHANGED <<history, receipts>>
      PROVE  \A p \in Players : Granted(p, "seen") => Granted(p, "seen")'
    BY <1>5 DEF Granted, Known
\* The steps by which the scan is at no grant of the return kit.
<1>6. ASSUME NEW r, job' = [job EXCEPT ![s] = r], given' = given,
             \A p \in Players : Clean(p)' => Clean(p),
             UNCHANGED <<history, receipts, keeper>>,
             r.pc \in {"deliver", "record"} <=> r.player \in Players,
             r.pc \notin {"deliver", "record"} \/ r.kit # "seen"
      PROVE  StoreOK' /\ JobPlayers' /\ Returns'
    <2>1. StoreOK' /\ JobPlayers'
        BY <1>0, <1>1, <1>4, <1>6, JobReplacedPlayers
    <2>2. \A p \in Players : Clean(p)' => Clean(p) /\ Returned(p)' = Returned(p)
        BY <1>6 DEF Returned
    <2>3. \A p \in Players : Clean(p)' /\ Granted(p, "seen") => Granted(p, "seen")'
        BY <1>5, <1>6
    <2>4. Returns'
        BY <1>0, <1>1, <1>2, <1>6, <2>2, <2>3, JobQuiet
    <2> QED
        BY <2>1, <2>4
<1>7. CASE Lists(s)
    <2> DEFINE r == [Idle EXCEPT !.pc = "listed", !.seen = presence]
    <2>1. r.pc = "listed" /\ r.player \notin Players
        BY IdlePlayer DEF Idle
    <2>2. /\ job' = [job EXCEPT ![s] = r] /\ given' = given /\ why' = why
          /\ UNCHANGED <<history, receipts, keeper>>
        BY <1>7 DEF Lists, files, ghosts
    <2> HIDE DEF r
    <2>3. \A p \in Players : Clean(p)' => Clean(p)
        BY <2>2 DEF Clean
    <2> QED
        BY <1>6, <2>1, <2>2, <2>3
<1>8. CASE Begins(s)
    <2> DEFINE j == [job[s] EXCEPT !.base = pending, !.pend = pending]
               r == Applies(j, "first")
    <2>1. j \in JobRecord /\ j.player \notin Players
        BY <1>1, <1>3 DEF JobRecord, Types, FilesOK
    <2>2. r.pc = "turn" /\ r.player \notin Players
        BY <2>1, Applied DEF Kits
    <2>3. /\ job' = [job EXCEPT ![s] = r] /\ given' = given /\ why' = why
          /\ UNCHANGED <<history, receipts, keeper>>
        BY <1>8 DEF Begins, files, ghosts
    <2> HIDE DEF r
    <2>4. \A p \in Players : Clean(p)' => Clean(p)
        BY <2>3 DEF Clean
    <2> QED
        BY <1>6, <2>2, <2>3, <2>4
<1>9. CASE NextRule(s)
    <2> DEFINE r == Applies(job[s], "seen")
    <2>1. r.pc = "turn" /\ r.player \notin Players
        BY <1>1, <1>3, Applied DEF Kits
    <2>2. /\ job' = [job EXCEPT ![s] = r] /\ given' = given /\ why' = why
          /\ UNCHANGED <<history, receipts, keeper>>
        BY <1>9 DEF NextRule, files, ghosts
    <2> HIDE DEF r
    <2>3. \A p \in Players : Clean(p)' => Clean(p)
        BY <2>2 DEF Clean
    <2> QED
        BY <1>6, <2>1, <2>2, <2>3
<1>10. CASE Ends(s)
    <2> DEFINE lost == (pending \ pending') \ job[s].base
    <2>1. /\ job' = [job EXCEPT ![s] = Idle] /\ given' = given /\ Excuse(lost, "overwritten")
          /\ UNCHANGED <<history, receipts, keeper>>
        BY <1>10 DEF Ends
    <2>2. \A p \in Players : Clean(p)' => Clean(p)
        BY <1>1, <2>1, Excused
    <2> QED
        BY <1>6, <2>1, <2>2, IdlePlayer
<1>11. CASE Refuses(s)
    <2>1. PICK p \in job[s].todo :
              /\ AppendGrant(Row(p, job[s].kit, FALSE, FALSE))
              /\ job' = [job EXCEPT ![s] = [job[s] EXCEPT !.todo = job[s].todo \ {p}]]
        BY <1>1, <1>11 DEF Refuses
    <2> DEFINE r == [job[s] EXCEPT !.todo = job[s].todo \ {p}]
               row == Row(p, job[s].kit, FALSE, FALSE)
    <2>2. r.pc = job[s].pc /\ r.player = job[s].player /\ row \in RowRecord
        BY <1>1, RowTyped DEF JobRecord
    <2>3. /\ job' = [job EXCEPT ![s] = r] /\ given' = given /\ AppendGrant(row)
          /\ UNCHANGED <<receipts, keeper>>
        BY <1>11, <2>1 DEF Refuses
    <2> HIDE DEF r, row
    <2>4. StoreOK' /\ \A q \in Players : "slid" \notin why'[q] => \A g \in Known : g.player = q => g \in Known'
        BY <1>1, <2>2, <2>3, KnownAppends
    <2>5. \A q \in Players : Clean(q)' => "slid" \notin why'[q]
        BY DEF Clean, Excuses
    <2>6. \A q \in Players : Clean(q)' => Clean(q) /\ Returned(q)' = Returned(q)
        BY <1>1, <2>3, Excused DEF AppendGrant, Returned
    <2>7. \A q \in Players : Clean(q)' /\ Granted(q, "seen") => Granted(q, "seen")'
        BY <2>4, <2>5, GrantedKept
    <2>8. JobPlayers'
        BY <1>0, <1>1, <1>2, <1>3, <2>2, <2>3, JobReplacedPlayers
    <2>9. Returns'
        BY <1>0, <1>1, <1>2, <2>2, <2>3, <2>6, <2>7, JobQuiet
    <2> QED
        BY <2>4, <2>8, <2>9
<1>12. CASE Reserves(s)
    <2>1. PICK p \in job[s].todo :
              /\ ~Refused(p, job[s].kit)
              /\ job' = [job EXCEPT ![s] = [job[s] EXCEPT !.pc = "deliver", !.player = p]]
              /\ Excuse(IF Overlapped(s, p, job[s].kit) THEN {p} ELSE {}, "overlap")
        BY <1>0, <1>1, <1>12 DEF Reserves, Types, JobsOK
    <2> DEFINE r == [job[s] EXCEPT !.pc = "deliver", !.player = p]
               others == IF Overlapped(s, p, job[s].kit) THEN {p} ELSE {}
    <2>2. p \in Players /\ r.pc = "deliver" /\ r.player = p /\ r.kit = job[s].kit
        BY <1>1 DEF JobRecord
    <2>3. job' = [job EXCEPT ![s] = r] /\ Excuse(others, "overlap")
        BY <2>1
    <2>4. given' = given /\ UNCHANGED <<history, receipts, keeper>>
        BY <1>12 DEF Reserves
    <2> HIDE DEF r
    <2>5. \A q \in Players : Clean(q)' => Clean(q)
        BY <1>1, <2>3, Excused
    <2>6. CASE job[s].kit = "seen"
        <3>1. ~Granted(p, "seen")
            BY <2>1, <2>6 DEF Refused
        <3>2. Clean(p)' => ~Overlapped(s, p, "seen")
            BY <1>1, <2>2, <2>3, <2>6, Excused DEF Excuses
        <3>3. Returns'
            BY <1>1, <1>2, <2>2, <2>3, <2>4, <2>5, <2>6, <3>1, <3>2, Turns
        <3> QED
            BY <1>0, <1>1, <1>4, <2>2, <2>3, <2>4, <3>3, JobReplacedPlayers
    <2>7. CASE job[s].kit # "seen"
        BY <1>6, <2>2, <2>3, <2>4, <2>5, <2>7
    <2> QED
        BY <2>6, <2>7
<1> QED
    BY <1>7, <1>8, <1>9, <1>10, <1>11, <1>12 DEF ScanGoesOn

LEMMA ManualReturns ==
    ASSUME Whole, NEW p \in Players, NEW kit \in Kits, Manual(p, kit)
    PROVE  StoreOK' /\ JobPlayers' /\ Returns'
<1> DEFINE r == [Idle EXCEPT !.pc = "deliver", !.player = p, !.kit = kit]
<1>1. "manual" \in Jobs /\ "manual" \notin Scans
    BY ScanAssumption DEF Jobs
<1>2. /\ job' = [job EXCEPT !["manual"] = r]
      /\ given' = given /\ why' = why /\ UNCHANGED <<history, receipts, keeper>>
    BY DEF Manual, ghosts
<1>3. r.pc = "deliver" /\ r.player = p
    BY DEF Idle
<1> HIDE DEF r
<1>4. StoreOK' /\ JobPlayers'
    BY <1>1, <1>2, <1>3, JobReplacedPlayers DEF Whole, StoreOK
<1>5. \A q \in Players : Clean(q)' => Clean(q) /\ Returned(q)' = Returned(q)
    BY <1>2 DEF Clean, Returned
<1>6. \A q \in Players : Clean(q)' /\ Granted(q, "seen") => Granted(q, "seen")'
    BY <1>2 DEF Granted, Known
<1>7. Returns'
    BY <1>1, <1>2, <1>5, <1>6, JobQuiet DEF Whole
<1> QED
    BY <1>4, <1>7

LEMMA GrantReturns ==
    ASSUME Whole, NEW j \in Jobs, GrantGoesOn(j)
    PROVE  StoreOK' /\ JobPlayers' /\ Returns'
<1>1. job[j] \in JobRecord /\ Types /\ StoreOK /\ JobPlayers /\ Returns
    BY DEF Whole, Types, JobsOK
<1>2. job[j].pc \in {"deliver", "record"} /\ job[j].player \in Players
    BY <1>1 DEF GrantGoesOn, Delivers, FailsToDeliver, Records, JobPlayers
<1>3. \A i \in Scans : i \in Jobs
    BY DEF Jobs
<1>4. CASE Delivers(j)
    <2> DEFINE r == [job[j] EXCEPT !.pc = "record", !.ok = TRUE]
    <2>1. r.pc = "record" /\ r.player = job[j].player /\ r.kit = job[j].kit /\ r.ok
        BY <1>1 DEF JobRecord
    <2>2. /\ job[j].pc = "deliver" /\ job' = [job EXCEPT ![j] = r] /\ given' = Delivered(j)
          /\ why' = why /\ UNCHANGED <<history, receipts, keeper>>
        BY <1>4 DEF Delivers, files
    <2> HIDE DEF r
    <2>3. StoreOK' /\ JobPlayers'
        BY <1>1, <1>2, <2>1, <2>2, JobReplacedPlayers DEF StoreOK
    <2>4. \A q \in Players : Clean(q)' => Clean(q)
        BY <2>2 DEF Clean
    <2>5. Returns'
        BY <1>1, <2>1, <2>2, <2>4, ReturnArrives
    <2> QED
        BY <2>3, <2>5
<1>5. CASE FailsToDeliver(j)
    <2> DEFINE r == [job[j] EXCEPT !.pc = "record", !.ok = FALSE]
    <2> PICK p \in Players : p = job[j].player
        BY <1>2
    <2>1. r.pc = "record" /\ r.player = p /\ r.kit = job[j].kit /\ ~r.ok
        BY <1>1 DEF JobRecord
    <2>2. /\ job[j].pc = "deliver" /\ job' = [job EXCEPT ![j] = r]
          /\ UNCHANGED <<history, receipts, keeper>>
        BY <1>5 DEF FailsToDeliver, files
    <2> HIDE DEF r
    <2>3. StoreOK' /\ JobPlayers'
        BY <1>1, <1>2, <2>1, <2>2, JobReplacedPlayers DEF StoreOK
    <2>4. CASE given' = given /\ Excuse({p}, "failed")
        <3>1. \A q \in Players : Clean(q)' => Clean(q) /\ Returned(q)' = Returned(q)
            BY <1>1, <2>4, Excused DEF Returned
        <3>2. \A q \in Players : Clean(q)' /\ Granted(q, "seen") => Granted(q, "seen")'
            BY <2>2 DEF Granted, Known
        <3>3. \A i \in Jobs : job'[i] = IF i = j THEN r ELSE job[i]
            BY <1>1, <2>2 DEF Types, JobsOK
        <3>4. \A q \in Players, i \in Scans : Seen(i, q)' => Seen(i, q) /\ (Empty(i)' => Empty(i))
            BY <1>3, <2>1, <2>2, <3>3 DEF Seen, Empty
        <3>5. \A q \in Players, i \in Scans : Seen(i, q) /\ ~Empty(i) => Seen(i, q)' /\ ~Empty(i)'
            BY <1>3, <2>1, <2>2, <3>3 DEF Seen, Empty
        <3> QED
            BY <1>1, <2>3, <3>1, <3>2, <3>4, <3>5, Quiet
    <2>5. CASE given' = Delivered(j) /\ Excuse({p}, "unverified")
        <3>1. \A q \in Players : Clean(q)' => Clean(q)
            BY <1>1, <2>5, Excused
        <3>2. ~Clean(p)'
            BY <1>1, <1>2, <2>5, Excused DEF Excuses
        <3>3. \A q \in Players : Seen(j, q) => ~Clean(q)'
            BY <3>2 DEF Seen
        <3>4. Returns'
            BY <1>1, <2>1, <2>2, <2>5, <3>1, <3>3, ReturnArrives
        <3> QED
            BY <2>3, <3>4
    <2> QED
        BY <1>5, <2>4, <2>5 DEF FailsToDeliver
<1>6. CASE Records(j)
    <2> DEFINE p == job[j].player
               kit == job[j].kit
               cleared == IF kit = "seen" THEN {p} ELSE {}
               first == (j = "manual" \/ kit = "first")
               row == Row(p, kit, first, job[j].ok)
               r == IF j = "manual" THEN Idle ELSE
                    [job[j] EXCEPT !.pc = "turn", !.todo = job[j].todo \ {p}, !.player = Nobody, !.ok = FALSE,
                                   !.pend = job[j].pend \ cleared,
                                   !.changed = job[j].changed \/ (cleared \cap job[j].pend # {})]
    <2>1. r.pc \notin {"deliver", "record"} /\ r.player \notin Players
        BY <1>1, IdlePlayer DEF JobRecord
    <2>2. /\ job[j].pc = "record" /\ job' = [job EXCEPT ![j] = r] /\ given' = given
          /\ AppendGrant(row) /\ UNCHANGED <<receipts, keeper>>
        BY <1>6 DEF Records
    <2>3. kit \in Kits /\ job[j].ok \in BOOLEAN /\ first \in BOOLEAN
        BY <1>1 DEF JobRecord
    <2> HIDE DEF first
    <2>4. row \in RowRecord /\ row.player = p /\ row.kit = kit /\ row.ok = job[j].ok
        BY <1>2, <2>3, RowTyped
    <2> HIDE DEF r, row
    <2>5. /\ StoreOK'
          /\ \A q \in Players : "slid" \notin why'[q] => \A g \in Known : g.player = q => g \in Known'
          /\ row.ok => row \in Known'
        BY <1>1, <2>2, <2>4, KnownAppends
    <2>6. \A q \in Players : Clean(q)' => "slid" \notin why'[q]
        BY DEF Clean, Excuses
    <2>7. \A q \in Players : Clean(q)' => Clean(q) /\ Returned(q)' = Returned(q)
        BY <1>1, <2>2, Excused DEF AppendGrant, Returned
    <2>8. \A q \in Players : Clean(q)' /\ Granted(q, "seen") => Granted(q, "seen")'
        BY <2>5, <2>6, GrantedKept
    <2>9. JobPlayers'
        BY <1>1, <2>1, <2>2, JobReplacedPlayers
    <2>10. \A i \in Jobs : job'[i] = IF i = j THEN r ELSE job[i]
        BY <1>1, <2>2 DEF Types, JobsOK
    <2>11. \A q \in Players, i \in Scans : Seen(i, q)' => Seen(i, q) /\ (Empty(i)' => Empty(i))
        BY <1>3, <2>1, <2>10 DEF Seen, Empty
    <2>12. ASSUME NEW q \in Players, NEW i \in Scans, Seen(i, q), ~Empty(i)
           PROVE  (Seen(i, q)' /\ ~Empty(i)') \/ Granted(q, "seen")'
        <3>1. CASE i = j
            <4>1. row.ok /\ q = p /\ kit = "seen"
                BY <2>4, <2>12, <3>1 DEF Seen, Empty
            <4> QED
                BY <2>4, <2>5, <4>1 DEF Granted
        <3>2. CASE i # j
            BY <1>3, <2>10, <2>12, <3>2 DEF Seen, Empty
        <3> QED
            BY <3>1, <3>2
    <2>13. Returns'
        BY <1>1, <2>7, <2>8, <2>11, <2>12, Quiet
    <2> QED
        BY <2>5, <2>9, <2>13
<1> QED
    BY <1>4, <1>5, <1>6 DEF GrantGoesOn

LEMMA OtherReturns ==
    ASSUME Whole,
           Compacts \/ Compacted \/ ClearHistory \/ Crash \/ (\E p \in Players : Moves(p)) \/ UNCHANGED vars
    PROVE  StoreOK' /\ JobPlayers' /\ Returns'
<1>1. Types /\ StoreOK /\ JobPlayers /\ Returns
    BY DEF Whole
<1>2. \A p \in Players : Clean(p)' => "cleared" \notin why'[p]
    BY DEF Clean, Excuses
<1>3. ASSUME job' = job, given' = given, \A p \in Players : Clean(p)' => Clean(p),
             \A p \in Players : Clean(p)' /\ Granted(p, "seen") => Granted(p, "seen")'
      PROVE  JobPlayers' /\ Returns'
    <2>1. \A p \in Players, j \in Scans : (Seen(j, p)' <=> Seen(j, p)) /\ (Empty(j)' <=> Empty(j))
        BY <1>3 DEF Seen, Empty
    <2>2. \A p \in Players : Clean(p)' => Clean(p) /\ Returned(p)' = Returned(p)
        BY <1>3 DEF Returned
    <2> QED
        BY <1>1, <1>3, <2>1, <2>2, Quiet DEF JobPlayers
<1>4. CASE Compacts \/ Compacted
    <2>1. job' = job /\ given' = given /\ why' = why
        BY <1>4 DEF Compacts, Compacted, ghosts
    <2>2. StoreOK' /\ \A p \in Players : "cleared" \notin why'[p] => \A r \in Known : r.player = p => r \in Known'
        BY <1>1, <1>4, KnownKept
    <2>3. \A p \in Players : Clean(p)' => Clean(p)
        BY <2>1 DEF Clean
    <2>4. \A p \in Players : Clean(p)' /\ Granted(p, "seen") => Granted(p, "seen")'
        BY <1>2, <2>2, GrantedKept
    <2> QED
        BY <1>3, <2>1, <2>2, <2>3, <2>4
<1>5. CASE ClearHistory
    <2> DEFINE who == {r.player : r \in Known \ receipts}
    <2>1. job' = job /\ given' = given /\ Excuse(who, "cleared")
        BY <1>5 DEF ClearHistory
    <2> HIDE DEF who
    <2>2. StoreOK' /\ \A p \in Players : "cleared" \notin why'[p] => \A r \in Known : r.player = p => r \in Known'
        BY <1>1, <1>5, KnownKept
    <2>3. \A p \in Players : Clean(p)' => Clean(p)
        BY <1>1, <2>1, Excused
    <2>4. \A p \in Players : Clean(p)' /\ Granted(p, "seen") => Granted(p, "seen")'
        BY <1>2, <2>2, GrantedKept
    <2> QED
        BY <1>3, <2>1, <2>2, <2>3, <2>4
<1>6. CASE Crash
    <2>1. job' = [j \in Jobs |-> Idle] /\ given' = given /\ Excuse(Underway, "crash")
        BY <1>6 DEF Crash
    <2>2. StoreOK' /\ \A p \in Players : "cleared" \notin why'[p] => \A r \in Known : r.player = p => r \in Known'
        BY <1>1, <1>6, KnownKept
    <2>3. \A p \in Players : (Clean(p)' => Clean(p)) /\ (p \in Underway => ~Clean(p)')
        BY <1>1, <2>1, Excused DEF Excuses
    <2>4. \A p \in Players : Clean(p)' /\ Granted(p, "seen") => Granted(p, "seen")'
        BY <1>2, <2>2, GrantedKept
    <2>5. \A p \in Players : Clean(p)' => Clean(p) /\ Returned(p)' = Returned(p)
        BY <2>1, <2>3 DEF Returned
    <2>6. \A j \in Scans : j \in Jobs
        BY DEF Jobs
    <2>7. \A p \in Players, j \in Scans : Seen(j, p) => p \in Underway
        BY <2>6 DEF Seen, Underway
    <2>8. \A p \in Players, j \in Scans : ~Seen(j, p)'
        BY <2>1, <2>6, IdlePlayer DEF Seen
    <2>9. Returns'
        BY <1>1, <2>3, <2>4, <2>5, <2>7, <2>8, Quiet
    <2>10. JobPlayers'
        BY <2>1, IdlePlayer DEF JobPlayers
    <2> QED
        BY <2>2, <2>9, <2>10
<1>7. CASE (\E p \in Players : Moves(p)) \/ UNCHANGED vars
    <2>1. /\ job' = job /\ given' = given /\ why' = why
          /\ UNCHANGED <<history, receipts, keeper>>
        BY <1>7 DEF Moves, vars, files, ghosts
    <2>2. StoreOK'
        BY <1>1, <2>1 DEF StoreOK
    <2>3. \A p \in Players : Clean(p)' => Clean(p)
        BY <2>1 DEF Clean
    <2>4. \A p \in Players : Clean(p)' /\ Granted(p, "seen") => Granted(p, "seen")'
        BY <2>1 DEF Granted, Known
    <2> QED
        BY <1>3, <2>1, <2>2, <2>3, <2>4
<1> QED
    BY <1>4, <1>5, <1>6, <1>7

LEMMA WholeHolds == Spec => []Whole
<1>1. Init => Whole
    <2>1. Init => Types
        BY InitTypes
    <2>2. Init => StoreOK
        BY DEF Init, StoreOK
    <2>3. Init => JobPlayers
        BY IdlePlayer DEF Init, JobPlayers
    <2>4. Init => Returns
        <3> SUFFICES ASSUME Init PROVE Returns
            OBVIOUS
        <3>1. \A p \in Players : Returned(p) = 0
            BY DEF Init, Returned, Kits
        <3>2. \A p \in Players, j \in Scans : ~Seen(j, p)
            BY IdlePlayer DEF Init, Seen, Jobs
        <3> QED
            BY <3>1, <3>2 DEF Returns, SeenAlone, SeenFirst, SeenOnce, SeenKnown
    <2> QED
        BY <2>1, <2>2, <2>3, <2>4 DEF Whole
<1>2. Spec => [](Types /\ Claims)
    <2>1. Init => Types
        BY InitTypes
    <2>2. Init => Claims
        BY DEF Init, Claims, HoldsClaim, HoldsAlone, NothingBefore, ClaimStays, AtMostOne, Grants, Given, Idle, Kits
    <2>3. (Types /\ Claims) /\ [Next]_vars => (Types /\ Claims)'
        BY ScanStep, GrantStep, ManualStep, OtherStep DEF Next
    <2> QED
        BY <2>1, <2>2, <2>3, PTL DEF Spec
<1>3. Whole /\ Types' /\ [Next]_vars => Whole'
    BY ScanReturns, ManualReturns, GrantReturns, OtherReturns DEF Whole, Next
<1> QED
    BY <1>1, <1>2, <1>3, PTL DEF Spec

\* A scan that read the history or a pending return earlier does not give the kit of the
\* last_seen rule again: every grant more than one has an excuse that is named.
THEOREM ReturnGivenOnce == Spec => []ReturnKitOnce
<1>1. Whole => ReturnKitOnce
    <2> SUFFICES ASSUME Whole, NEW p \in Players, given[p]["seen"] > 1
                 PROVE  ~Clean(p)
        BY DEF ReturnKitOnce, Clean, Excuses
    <2>1. Returned(p) \in Nat /\ Returned(p) > 1
        BY DEF Whole, Types, GhostsOK, Returned, Kits
    <2> QED
        BY <2>1 DEF Whole, Returns, SeenOnce
<1> QED
    BY <1>1, WholeHolds, PTL

\* The claims, the history with its receipts, and the jobs stay well-formed: a job has a
\* player when it is at a grant, and only then.
THEOREM CareTypes == Spec => []TypeOK
<1>1. Whole => TypeOK
    <2> SUFFICES ASSUME Whole PROVE TypeOK
        OBVIOUS
    <2>1. Known \subseteq RowRecord
        BY KnownTyped DEF Whole
    <2>2. \A j \in Jobs : job[j] \in JobRecord
        BY DEF Whole, Types, JobsOK
    <2> QED
        BY <2>1, <2>2 DEF Whole, Types, PresenceOK, FilesOK, GhostsOK, StoreOK, JobPlayers, JobRecord, RowRecord, TypeOK
<1> QED
    BY <1>1, WholeHolds, PTL
=============================================================================
