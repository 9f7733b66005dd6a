----------------------------- MODULE CarePackage -----------------------------
(***************************************************************************)
(* carePackage.js: a kit for everyone who comes online for the first time, *)
(* and one for those who return after a long absence.  The scan that runs  *)
(* every minute, the one an operator starts and single grants overlap;     *)
(* what was given is known from claims, from the newest rows of a history  *)
(* that may be cleared, and from the receipts its compaction leaves.  The  *)
(* bulk grant does what a manual scan does with nobody to return.          *)
(***************************************************************************)
EXTENDS Integers, Sequences, FiniteSets

CONSTANTS
    Players,
    Scans,      \* "auto", and "manual-scan" if there may be one
    Window,     \* rows of the history that are read, and that compaction keeps (500)
    Size,       \* rows that make the history due for compaction (8 MiB)
    MaxMoves,   \* bound: players that come and go
    MaxManual,  \* bound: grants by an operator
    MaxMishaps  \* bound: deliveries that fail, crashes, histories cleared

ASSUME ScanAssumption == "auto" \in Scans /\ Scans \subseteq {"auto", "manual-scan"}
ASSUME PlayerAssumption == "nobody" \notin Players
ASSUME BoundAssumption ==
    /\ Window \in Nat \ {0} /\ Size \in Nat /\ Size > Window
    /\ MaxMoves \in Nat /\ MaxManual \in Nat /\ MaxMishaps \in Nat

VARIABLES
    presence,  \* the game: player -> online, away, or gone (for lastSeenDays)
    claims,    \* care-package-first-online-claims.json
    history,   \* care-package-grants.jsonl, without the rows that are skips
    receipts,  \* care-package-grant-receipts.json
    pending,   \* care-package-pending-returns.json
    keeper,    \* maintainCarePackageHistory: idle, reading or cancelled
    job,       \* scan or manual grant -> where it is, and what it remembers
    given,     \* history: player -> kit -> deliveries (the seen kit: by scans)
    why,       \* history: player -> what may excuse a grant too many or too few
    budget     \* [moves, manual, mishaps] so far

files == <<claims, history, receipts, pending>>
ghosts == <<given, why>>
vars == <<presence, files, keeper, job, ghosts, budget>>

Jobs == Scans \cup {"manual"}
Kits == {"first", "seen"}  \* the kits of the first_online and of the last_seen rule
Nobody == "nobody"
Idle == [pc |-> "idle", seen |-> [p \in Players |-> "away"], base |-> {}, pend |-> {}, changed |-> FALSE,
         kit |-> "first", todo |-> {}, player |-> Nobody, ok |-> FALSE]

Init ==
    /\ presence \in [Players -> {"online", "gone"}]
    /\ claims = {} /\ history = <<>> /\ receipts = {} /\ pending = {}
    /\ keeper = "idle"
    /\ job = [j \in Jobs |-> Idle]
    /\ given = [p \in Players |-> [k \in Kits |-> 0]]
    /\ why = [p \in Players |-> {}]
    /\ budget = [moves |-> 0, manual |-> 0, mishaps |-> 0]

Spend(what, bound) ==
    /\ budget[what] < bound
    /\ budget' = [budget EXCEPT ![what] = @ + 1]

Excuse(who, reason) == why' = [p \in Players |-> IF p \in who THEN why[p] \cup {reason} ELSE why[p]]

-----------------------------------------------------------------------------
(* What was given *)

Newest(rows) == SubSeq(rows, IF Len(rows) > Window THEN Len(rows) - Window + 1 ELSE 1, Len(rows))
Successes(rows) == {r \in {rows[i] : i \in DOMAIN rows} : r.ok}

\* eligibilityHistory: receipts, and the newest rows.
Known == receipts \cup Successes(Newest(history))
Granted(p, kit) == \E r \in Known : r.player = p /\ r.kit = kit

\* The grantWhen of a single grant's row is that of the configuration, first_online
\* unless it was changed: whatever kit it gave, it counts for this.
FirstGranted(p) == \E r \in Known : r.player = p /\ r.first

\* A success that is known no longer, though no receipt was made of it.
Slid(row) ==
    LET rows == Append(history, row)
        known == receipts \cup Successes(Newest(rows))
    IN  {p \in Players : \E r \in Known \ known : r.player = p}

AppendGrant(row) ==
    /\ history' = Append(history, row)
    /\ Excuse(Slid(row), "slid")

\* maintainCarePackageHistory has nothing to do, or has done it.
Maintained == keeper = "idle" /\ Len(history) < Size

-----------------------------------------------------------------------------
(* A scan: its players are read first, then rule after rule is applied *)

Lists(s) ==
    /\ job[s].pc = "idle"
    /\ job' = [job EXCEPT ![s] = [Idle EXCEPT !.pc = "listed", !.seen = presence]]
    /\ UNCHANGED <<presence, files, keeper, ghosts, budget>>

\* Faulty: the return is for who is online and seen long ago, as nobody is.
EligibleStale(j, kit) ==
    IF kit = "first"
    THEN {p \in Players : j.seen[p] = "online" /\ p \notin claims /\ ~FirstGranted(p) /\ ~Granted(p, kit)}
    ELSE {p \in Players : j.seen[p] = "gone" /\ j.seen[p] = "online"}

\* eligibilityForPlayer, and lastSeenReturnEligibility for the seen kit: who is gone
\* waits for the return, in a copy of the file that is written when the scan ends.
Eligible(j, kit) ==
    IF kit = "first"
    THEN {p \in Players : j.seen[p] = "online" /\ p \notin claims /\ ~FirstGranted(p) /\ ~Granted(p, kit)}
    ELSE {p \in j.pend : j.seen[p] = "online" /\ ~Granted(p, kit)}

Marked(j) == {p \in Players : j.seen[p] = "gone" /\ ~Granted(p, "seen")}
Settled(j) == {p \in j.pend : j.seen[p] = "online" /\ Granted(p, "seen")}

Applies(j, kit) ==
    LET opened == [j EXCEPT !.pc = "turn", !.kit = kit, !.todo = Eligible(j, kit)]
        pend == (j.pend \cup Marked(j)) \ Settled(j)
    IN  IF kit = "first" THEN opened
        ELSE [opened EXCEPT !.pend = pend, !.changed = (pend # j.pend)]

Begins(s) ==
    /\ job[s].pc = "listed" /\ Maintained
    /\ job' = [job EXCEPT ![s] = Applies([@ EXCEPT !.base = pending, !.pend = pending], "first")]
    /\ UNCHANGED <<presence, files, keeper, ghosts, budget>>

NextRule(s) ==
    /\ job[s].pc = "turn" /\ job[s].todo = {} /\ job[s].kit = "first"
    /\ job' = [job EXCEPT ![s] = Applies(@, "seen")]
    /\ UNCHANGED <<presence, files, keeper, ghosts, budget>>

\* writePendingReturns, over what another scan wrote meanwhile.
Ends(s) ==
    /\ job[s].pc = "turn" /\ job[s].todo = {} /\ job[s].kit = "seen"
    /\ pending' = IF job[s].changed THEN job[s].pend ELSE pending
    /\ Excuse((pending \ pending') \ job[s].base, "overwritten")
    /\ job' = [job EXCEPT ![s] = Idle]
    /\ UNCHANGED <<presence, claims, history, receipts, keeper, given, budget>>

-----------------------------------------------------------------------------
(* grantCarePackage *)

Row(p, kit, first, ok) == [player |-> p, kit |-> kit, first |-> first, ok |-> ok]

\* Somebody else is about to give p this kit.
Overlapped(j, p, kit) ==
    \E i \in Jobs \ {j} : job[i].pc \in {"deliver", "record"} /\ job[i].player = p /\ job[i].kit = kit

\* Faulty: that a player was eligible when the scan began is enough.
RefusedByClaim(p, kit) == kit = "first" /\ p \in claims

\* reserveFirstOnlineClaim, before anything is delivered, and one look at the history.
Refused(p, kit) ==
    \/ kit = "first" /\ (p \in claims \/ FirstGranted(p))
    \/ Granted(p, kit)

Refuses(s) ==
    /\ job[s].pc = "turn" /\ Maintained
    /\ \E p \in job[s].todo :
        /\ Refused(p, job[s].kit)
        /\ AppendGrant(Row(p, job[s].kit, FALSE, FALSE))
        /\ job' = [job EXCEPT ![s] = [job[s] EXCEPT !.todo = job[s].todo \ {p}]]
    /\ UNCHANGED <<presence, claims, receipts, pending, keeper, given, budget>>

\* Faulty: the claim is made when the kit has been delivered.
ReservesLate(s) ==
    /\ job[s].pc = "turn" /\ Maintained
    /\ \E p \in job[s].todo :
        /\ ~Refused(p, job[s].kit)
        /\ claims' = claims
        /\ job' = [job EXCEPT ![s] = [@ EXCEPT !.pc = "deliver", !.player = p]]
        /\ Excuse(IF Overlapped(s, p, job[s].kit) THEN {p} ELSE {}, "overlap")
    /\ UNCHANGED <<presence, history, receipts, pending, keeper, given, budget>>

Reserves(s) ==
    /\ job[s].pc = "turn" /\ Maintained
    /\ \E p \in job[s].todo :
        /\ ~Refused(p, job[s].kit)
        /\ claims' = IF job[s].kit = "first" THEN claims \cup {p} ELSE claims
        /\ job' = [job EXCEPT ![s] = [@ EXCEPT !.pc = "deliver", !.player = p]]
        /\ Excuse(IF Overlapped(s, p, job[s].kit) THEN {p} ELSE {}, "overlap")
    /\ UNCHANGED <<presence, history, receipts, pending, keeper, given, budget>>

\* A single grant, or the retry of one that failed: the history is not looked at, and
\* a claim that exists makes it a skip.
Manual(p, kit) ==
    /\ job["manual"].pc = "idle" /\ Maintained
    /\ Spend("manual", MaxManual)
    /\ kit = "first" => p \notin claims
    /\ claims' = IF kit = "first" THEN claims \cup {p} ELSE claims
    /\ job' = [job EXCEPT !["manual"] = [Idle EXCEPT !.pc = "deliver", !.player = p, !.kit = kit]]
    /\ UNCHANGED <<presence, history, receipts, pending, keeper, ghosts>>

Delivered(j) ==
    LET p == job[j].player
        kit == job[j].kit
    IN  IF j = "manual" /\ kit = "seen" THEN given ELSE [given EXCEPT ![p][kit] = @ + 1]

\* Faulty: a grant that worked is not recorded.
DeliversUnrecorded(j) ==
    /\ job[j].pc = "deliver"
    /\ given' = Delivered(j)
    /\ job' = [job EXCEPT ![j] = [@ EXCEPT !.pc = "turn", !.todo = @ \ {job[j].player}]]
    /\ UNCHANGED <<presence, files, keeper, why, budget>>

Delivers(j) ==
    /\ job[j].pc = "deliver"
    /\ given' = Delivered(j)
    /\ job' = [job EXCEPT ![j] = [@ EXCEPT !.pc = "record", !.ok = TRUE]]
    /\ UNCHANGED <<presence, files, keeper, why, budget>>

\* No item and no XP arrives; or they do, and it cannot be verified.
FailsToDeliver(j) ==
    /\ job[j].pc = "deliver"
    /\ Spend("mishaps", MaxMishaps)
    /\ \/ given' = given /\ Excuse({job[j].player}, "failed")
       \/ given' = Delivered(j) /\ Excuse({job[j].player}, "unverified")
    /\ job' = [job EXCEPT ![j] = [@ EXCEPT !.pc = "record", !.ok = FALSE]]
    /\ UNCHANGED <<presence, files, keeper>>

\* Faulty: a claim is for good, delivered or not.
RecordsOnly(j) ==
    LET p == job[j].player
        kit == job[j].kit
        cleared == IF kit = "seen" THEN {p} ELSE {}
    IN
    /\ job[j].pc = "record"
    /\ AppendGrant(Row(p, kit, j = "manual" \/ kit = "first", job[j].ok))
    /\ claims' = claims
    /\ job' = [job EXCEPT ![j] = IF j = "manual" THEN Idle ELSE
                  [job[j] EXCEPT !.pc = "turn", !.todo = job[j].todo \ {p}, !.player = Nobody, !.ok = FALSE,
                                 !.pend = job[j].pend \ cleared,
                                 !.changed = job[j].changed \/ (cleared \cap job[j].pend # {})]]
    /\ UNCHANGED <<presence, receipts, pending, keeper, given, budget>>

\* appendGrant; the claim of a failure is released, while the return it was for is
\* cleared whatever came of it.
Records(j) ==
    LET p == job[j].player
        kit == job[j].kit
        cleared == IF kit = "seen" THEN {p} ELSE {}
    IN
    /\ job[j].pc = "record"
    /\ AppendGrant(Row(p, kit, j = "manual" \/ kit = "first", job[j].ok))
    /\ claims' = IF kit = "first" /\ ~job[j].ok THEN claims \ {p} ELSE claims
    /\ job' = [job EXCEPT ![j] = IF j = "manual" THEN Idle ELSE
                  [job[j] EXCEPT !.pc = "turn", !.todo = job[j].todo \ {p}, !.player = Nobody, !.ok = FALSE,
                                 !.pend = job[j].pend \ cleared,
                                 !.changed = job[j].changed \/ (cleared \cap job[j].pend # {})]]
    /\ UNCHANGED <<presence, receipts, pending, keeper, given, budget>>

-----------------------------------------------------------------------------
(* maintainCarePackageHistory, clearCarePackageHistory and crashes *)

\* Every scan and grant asks for it, and the tick of the scans.
Compacts ==
    /\ keeper = "idle" /\ Len(history) >= Size
    /\ keeper' = "reading"
    /\ UNCHANGED <<presence, files, job, ghosts, budget>>

\* The receipts are published before the rows they are made of are dropped; rows that
\* were appended during the reading are kept.
Compacted ==
    /\ keeper # "idle"
    /\ keeper' = "idle"
    /\ receipts' = IF keeper = "reading" THEN receipts \cup Successes(history) ELSE receipts
    /\ history' = IF keeper = "reading" THEN Newest(history) ELSE history
    /\ UNCHANGED <<presence, claims, pending, job, ghosts, budget>>

ClearHistory ==
    /\ Spend("mishaps", MaxMishaps)
    /\ history' = <<>>
    /\ keeper' = IF keeper = "reading" THEN "cancelled" ELSE keeper
    /\ Excuse({r.player : r \in Known \ receipts}, "cleared")
    /\ UNCHANGED <<presence, claims, receipts, pending, job, given>>

Underway == {job[j].player : j \in {i \in Jobs : job[i].pc \in {"deliver", "record"}}}

\* Compaction may have come as far as the receipts.
Crash ==
    /\ Spend("mishaps", MaxMishaps)
    /\ keeper' = "idle"
    /\ receipts' \in {receipts} \cup (IF keeper = "reading" THEN {receipts \cup Successes(history)} ELSE {})
    /\ job' = [j \in Jobs |-> Idle]
    /\ Excuse(Underway, "crash")
    /\ UNCHANGED <<presence, claims, history, pending, given>>

\* Players come and go; last_seen of who is online is now.
Moves(p) ==
    /\ Spend("moves", MaxMoves)
    /\ presence' = [presence EXCEPT ![p] = CASE @ = "online" -> "away"
                                             [] @ = "away" -> "gone"
                                             [] OTHER -> "online"]
    /\ UNCHANGED <<files, keeper, job, ghosts>>

ScanGoesOn(s) ==
    \/ Begins(s) \/ NextRule(s) \/ Ends(s)
    \/ Refuses(s) \/ Reserves(s)

GrantGoesOn(j) == Delivers(j) \/ FailsToDeliver(j) \/ Records(j)

Next ==
    \/ \E s \in Scans : Lists(s) \/ ScanGoesOn(s)
    \/ \E j \in Jobs : GrantGoesOn(j)
    \/ \E p \in Players, kit \in Kits : Manual(p, kit)
    \/ Compacts \/ Compacted \/ ClearHistory \/ Crash
    \/ \E p \in Players : Moves(p)

Spec == Init /\ [][Next]_vars

\* The interval fires, and what is awaited ends.
Fairness ==
    /\ WF_vars(Lists("auto"))
    /\ \A s \in Scans : WF_vars(ScanGoesOn(s))
    /\ \A j \in Jobs : WF_vars(GrantGoesOn(j))
    /\ WF_vars(Compacts) /\ WF_vars(Compacted)

FairSpec == Spec /\ Fairness

-----------------------------------------------------------------------------
(* Properties *)

TypeOK ==
    /\ presence \in [Players -> {"online", "away", "gone"}]
    /\ claims \subseteq Players /\ pending \subseteq Players
    /\ \A r \in Known : r \in [player : Players, kit : Kits, first : BOOLEAN, ok : BOOLEAN]
    /\ keeper \in {"idle", "reading", "cancelled"}
    /\ \A j \in Jobs :
        /\ job[j].pc \in {"idle", "listed", "turn", "deliver", "record"}
        /\ job[j].todo \cup job[j].base \cup job[j].pend \subseteq Players
        /\ job[j].pc \in {"deliver", "record"} <=> job[j].player \in Players
    /\ given \in [Players -> [Kits -> Nat]]

\* The kit of the first_online rule is delivered to a player once, whatever overlaps,
\* is cleared or crashes; unless a delivery that arrived was taken for a failure.
FirstOnlineOnce == \A p \in Players : given[p]["first"] > 1 => "unverified" \in why[p]

\* Scans give a player the kit of the last_seen rule once.  All the exceptions: two at
\* once, an unverified delivery, a crash before the grant was recorded, a history that
\* was cleared or that slid beyond its newest rows before it was compacted.
ReturnKitOnce ==
    \A p \in Players : given[p]["seen"] > 1 =>
        why[p] \cap {"overlap", "unverified", "crash", "cleared", "slid"} # {}

\* Who stays online gets the kit of the first_online rule, or gets none because the
\* Console stopped between claim and delivery or a single grant counts for it.
Welcomed ==
    \A p \in Players : <>[](presence[p] = "online") =>
        <>(given[p]["first"] > 0 \/ "crash" \in why[p] \/ FirstGranted(p))

\* Who is known to have been gone and stays online gets the kit of the last_seen rule.
\* The exceptions: a delivery failed (the return is cleared), or another scan's copy of
\* the pending returns overwrote it.
ReturnHonoured ==
    \A p \in Players : <>[](presence[p] = "online") /\ <>(p \in pending) =>
        <>(given[p]["seen"] > 0 \/ Granted(p, "seen") \/ why[p] \cap {"failed", "overwritten"} # {})
=============================================================================
