---------------------------- MODULE RestartQueue ----------------------------
(***************************************************************************)
(* The Restart Queue: a restart requested from the console while players   *)
(* are on the restart's target becomes a persisted countdown, warned at    *)
(* checkpoints and run at T-0.  The state file, the gate in front of every *)
(* restart route, the 10 s tick, the Cancel and Restart Now routes, the    *)
(* console dying at any point and the recovery it runs at boot.            *)
(*                                                                         *)
(* The console is one JavaScript thread: an action runs from one await to  *)
(* the next.  The one stretch split up is executeRestartEntry, because the *)
(* console can die between its two writes of the file; while it runs       *)
(* (exec, bootRun) no other handler does, which is what ThreadFree says.   *)
(* One unit of the clock is a minute of countdown.                         *)
(***************************************************************************)
EXTENDS Naturals, FiniteSets

CONSTANTS
    MapKeys,      \* the mapKey values classifyRestart gives to map and service restarts
    Battlegroup,  \* the target of a restart of all servers
    Partitions,   \* the server partitions players are on
    Scope,        \* the partitions the online check of a map key looks at
    Clients,      \* requests that can be inside the gate at once
    Countdown,    \* settings.defaultCountdownMinutes
    Checkpoints,  \* settings.broadcastCheckpoints
    Grace,        \* settings.recoveryGraceMinutes
    MaxId,        \* bound: restarts requested
    MaxClock,     \* bound: minutes that pass
    MaxCrashes    \* bound: times the console dies

ASSUME TargetAssumption == Battlegroup \notin MapKeys
ASSUME ScopeAssumption == Scope \in [MapKeys -> SUBSET Partitions]
ASSUME SettingsAssumption ==
    /\ Countdown \in Nat \ {0}
    /\ Checkpoints \subseteq Nat \ {0}
    /\ Grace \in Nat
ASSUME BoundAssumption == MaxId \in Nat /\ MaxClock \in Nat /\ MaxCrashes \in Nat

Ids == 1..MaxId
Target == MapKeys \cup {Battlegroup}
Reading == {"some", "none", "unknown"}

\* An entry of the state file, restart-queue-state.json.
Entry == [status: {"counting", "restarting"}, target: Target,
          restartAt: Nat, sent: SUBSET Checkpoints]

VARIABLES
    up,        \* the console process is running
    clock,     \* Date.now()
    online,    \* the partitions that have players
    queue,     \* the state file: id -> Entry, for the ids in it
    nextId,    \* ids are given out in order, so the file's order is theirs
    gate,      \* the requests inside maybeQueueRestart
    tick,      \* the run of restartQueueAutoTick, if any, with its copy of the file
               \* (todo) and the targets seen empty since it began (quiet)
    exec,      \* the executeRestartEntry call on the thread, if any
    bootRun,   \* entries recovery has still to execute in this turn
    tasks,     \* the targets restart tasks of the TaskManager are working on
    crashes,   \* times the console has died
    \* What has happened, for the properties:
    fired,     \* id -> restart tasks created for it
    cancelled, \* ids removed by the Cancel route
    aged,      \* ids recovery discarded as past the grace window
    dead,      \* ids that were dispatched, or persisted as restarting, before a crash
    warned     \* id -> checkpoint -> broadcasts made

file == <<queue, nextId>>
history == <<fired, cancelled, aged, dead, warned>>
vars == <<up, clock, online, queue, nextId, gate, tick, exec, bootRun, tasks,
          crashes, fired, cancelled, aged, dead, warned>>

NoFile == [i \in {} |-> 0]
IdleGate == [pc |-> "idle", target |-> Battlegroup, present |-> FALSE]
IdleTick == [pc |-> "idle", now |-> 0, todo |-> NoFile, cur |-> 0, bg |-> "unknown",
             online |-> "unknown", marks |-> {}, quiet |-> {}]
IdleExec == [stage |-> "idle", id |-> 0, target |-> Battlegroup, by |-> "nobody"]

Init ==
    /\ up = TRUE /\ clock = 0 /\ online \in SUBSET Partitions
    /\ queue = NoFile /\ nextId = 1
    /\ gate = [c \in Clients |-> IdleGate]
    /\ tick = IdleTick /\ exec = IdleExec /\ bootRun = {} /\ tasks = {}
    /\ crashes = 0
    /\ fired = [i \in Ids |-> 0]
    /\ cancelled = {} /\ aged = {} /\ dead = {}
    /\ warned = [i \in Ids |-> [m \in Checkpoints |-> 0]]

ThreadFree == up /\ exec = IdleExec /\ bootRun = {}

-----------------------------------------------------------------------------
(* The state file and the decisions taken on it *)

\* A player is on the target: anywhere for a battlegroup restart.
Present(t, on) == IF t = Battlegroup THEN on # {} ELSE on \cap Scope[t] # {}
Empty(on) == {t \in Target : ~Present(t, on)}
Sample(t) == IF Present(t, online) THEN "some" ELSE "none"

\* Faulty: a map is not told of a queued battlegroup restart.
CanQueueUnderBattlegroup(q, t) ==
    /\ \A i \in DOMAIN q : q[i].target # t
    /\ t = Battlegroup => DOMAIN q = {}

CanQueue(q, t) ==
    /\ \A i \in DOMAIN q : q[i].target # Battlegroup /\ q[i].target # t
    /\ t = Battlegroup => DOMAIN q = {}

AddEntry(q, id, e) == [i \in DOMAIN q \cup {id} |-> IF i = id THEN e ELSE q[i]]
RemoveEntry(q, id) == [i \in DOMAIN q \ {id} |-> q[i]]

\* Both rewrite the file as it is now; an id no longer in it changes nothing.
MarkRestarting(q, id) ==
    [i \in DOMAIN q |-> IF i = id THEN [q[i] EXCEPT !.status = "restarting"] ELSE q[i]]
\* Faulty: the record of a broadcast does not reach the file.
RecordSentNowhere(q, id, m) == q

RecordSent(q, id, m) ==
    [i \in DOMAIN q |-> IF i = id THEN [q[i] EXCEPT !.sent = @ \cup {m}] ELSE q[i]]

NewEntry(t) == [status |-> "counting", target |-> t,
                restartAt |-> clock + Countdown, sent |-> {}]

Counting(q) == {i \in DOMAIN q : q[i].status = "counting"}

\* The checkpoints to broadcast for an entry as a tick that began at now saw it.
Due(e, now) == {m \in Checkpoints : /\ now < e.restartAt
                                    /\ e.restartAt - now <= m
                                    /\ m \notin e.sent}

\* Faulty recoveries: a dispatched entry is kept, an elapsed one is not, and a
\* stale one is executed though it left the file.
KeptDispatched(q) == {i \in DOMAIN q : clock <= q[i].restartAt + Grace}
KeptUnexpired(q) == {i \in Counting(q) : clock < q[i].restartAt}
ExecuteStale(q) == {i \in Counting(q) : q[i].restartAt <= clock}

\* Boot recovery: what stays in the file, what of it has to run now, and what is
\* discarded as long stale.
Kept(q) == {i \in Counting(q) : clock <= q[i].restartAt + Grace}
Aged(q) == {i \in Counting(q) : q[i].restartAt + Grace < clock}
ExecuteNow(q) == {i \in Kept(q) : q[i].restartAt <= clock}

-----------------------------------------------------------------------------
(* The gate: maybeQueueRestart and the immediate restart it lets through *)

RunImmediately(t) ==
    /\ fired' = [fired EXCEPT ![nextId] = 1]
    /\ tasks' = tasks \cup {t}
    /\ nextId' = nextId + 1

\* The queue is switched off, or the request says restartQueue=immediate.
GateBypass(t) ==
    /\ ThreadFree /\ nextId <= MaxId
    /\ RunImmediately(t)
    /\ UNCHANGED <<up, clock, online, queue, gate, tick, exec, bootRun, crashes,
                   cancelled, aged, dead, warned>>

\* A restart request is in the gate and its count is taken: of the target, of the
\* battlegroup when the target cannot be resolved, and nobody when the query
\* fails or is not supported.
GateCount(c, t) ==
    /\ up /\ nextId <= MaxId /\ gate[c].pc = "idle"
    /\ \E p \in {Present(t, online), online # {}, FALSE} :
          gate' = [gate EXCEPT ![c] = [pc |-> "decide", target |-> t, present |-> p]]
    /\ UNCHANGED <<up, clock, online, file, tick, exec, bootRun, tasks, crashes, history>>

GateDecide(c) ==
    LET t == gate[c].target IN
    /\ ThreadFree /\ gate[c].pc = "decide" /\ nextId <= MaxId
    /\ gate' = [gate EXCEPT ![c] = IdleGate]
    /\ \/ /\ ~gate[c].present
          /\ RunImmediately(t)
          /\ UNCHANGED queue
       \/ /\ gate[c].present /\ CanQueue(queue, t)
          /\ clock + Countdown <= MaxClock
          /\ queue' = AddEntry(queue, nextId, NewEntry(t))
          /\ nextId' = nextId + 1
          /\ UNCHANGED <<fired, tasks>>
       \/ /\ gate[c].present /\ ~CanQueue(queue, t)   \* 409
          /\ UNCHANGED <<queue, nextId, fired, tasks>>
    /\ UNCHANGED <<up, clock, online, tick, exec, bootRun, crashes,
                   cancelled, aged, dead, warned>>

-----------------------------------------------------------------------------
(* executeRestartEntry, and the routes that act on one entry *)

StartExecute(id, t, who) ==
    exec' = [stage |-> "mark", id |-> id, target |-> t, by |-> who]

\* markEntryRestarting: the write-ahead marker reaches the file.
ExecMark ==
    /\ up /\ exec.stage = "mark"
    /\ queue' = MarkRestarting(queue, exec.id)
    /\ exec' = [exec EXCEPT !.stage = "finish"]
    /\ UNCHANGED <<up, clock, online, nextId, gate, tick, bootRun, tasks, crashes, history>>

\* tasks.create, whatever the file says of the entry by now, then removeEntry.
ExecFinish ==
    /\ up /\ exec.stage = "finish"
    /\ fired' = [fired EXCEPT ![exec.id] = @ + 1]
    /\ tasks' = tasks \cup {exec.target}
    /\ queue' = RemoveEntry(queue, exec.id)
    /\ exec' = IdleExec
    /\ UNCHANGED <<up, clock, online, nextId, gate, tick, bootRun, crashes,
                   cancelled, aged, dead, warned>>

Cancel(id) ==
    /\ ThreadFree /\ id \in DOMAIN queue
    /\ queue' = RemoveEntry(queue, id)
    /\ cancelled' = cancelled \cup {id}
    /\ UNCHANGED <<up, clock, online, nextId, gate, tick, exec, bootRun, tasks,
                   crashes, fired, aged, dead, warned>>

RestartNow(id) ==
    /\ ThreadFree /\ id \in DOMAIN queue
    /\ StartExecute(id, queue[id].target, "admin")
    /\ UNCHANGED <<up, clock, online, file, gate, tick, bootRun, tasks, crashes, history>>

\* TaskManager.run settles, as succeeded or failed.
TaskEnds(t) ==
    /\ up /\ t \in tasks
    /\ tasks' = tasks \ {t}
    /\ UNCHANGED <<up, clock, online, file, gate, tick, exec, bootRun, crashes, history>>

-----------------------------------------------------------------------------
(* restartQueueAutoTick *)

Current == tick.todo[tick.cur]

\* Turn to the first entry of what is left of the tick's copy of the file.  An
\* entry of a map awaits its own count; a battlegroup entry has its count already.
Advance(t, todo) ==
    \/ /\ DOMAIN todo = {}
       /\ tick' = IdleTick
    \/ \E i \in DOMAIN todo :
          /\ \A j \in DOMAIN todo : i <= j
          /\ tick' = [t EXCEPT !.todo = todo, !.cur = i, !.marks = {}, !.online = t.bg,
                               !.pc = IF todo[i].target = Battlegroup
                                      THEN "decide" ELSE "scope"]

TickStart ==
    /\ ThreadFree /\ tick.pc = "idle" /\ DOMAIN queue # {}
    /\ tick' = [IdleTick EXCEPT !.pc = "count", !.now = clock,
                                !.todo = [i \in Counting(queue) |-> queue[i]],
                                !.quiet = Empty(online)]
    /\ UNCHANGED <<up, clock, online, file, gate, exec, bootRun, tasks, crashes, history>>

\* Faulty: a count that failed is taken for nobody online.
TickCountFailsAsNone ==
    /\ up /\ tick.pc = "count"
    /\ \E r \in {Sample(Battlegroup), "none"} :
          Advance([tick EXCEPT !.bg = r], tick.todo)
    /\ UNCHANGED <<up, clock, online, file, gate, exec, bootRun, tasks, crashes, history>>

\* countOnlinePlayers is answered, or fails.
TickCount ==
    /\ up /\ tick.pc = "count"
    /\ \E r \in {Sample(Battlegroup), "unknown"} :
          Advance([tick EXCEPT !.bg = r], tick.todo)
    /\ UNCHANGED <<up, clock, online, file, gate, exec, bootRun, tasks, crashes, history>>

\* countOnlinePlayersForTarget is answered, or falls back to the battlegroup count.
TickScope ==
    /\ up /\ tick.pc = "scope"
    /\ \E r \in {Sample(Current.target), tick.bg} :
          tick' = [tick EXCEPT !.pc = "decide", !.online = r]
    /\ UNCHANGED <<up, clock, online, file, gate, exec, bootRun, tasks, crashes, history>>

\* Leave the current entry, executing it or not.
TickExecutes ==
    /\ StartExecute(tick.cur, Current.target, "tick")
    /\ Advance(tick, RemoveEntry(tick.todo, tick.cur))

TickLeaves ==
    /\ UNCHANGED exec
    /\ Advance(tick, RemoveEntry(tick.todo, tick.cur))

\* Faulty: an elapsed countdown waits until the players can be counted.
DeadlineNeedsCount ==
    \/ clock >= Current.restartAt /\ tick.online # "unknown" /\ TickExecutes
    \/ (clock < Current.restartAt \/ tick.online = "unknown") /\ TickLeaves

\* Done with the warnings of an entry: run it if its countdown has elapsed.
Deadline == \/ clock >= Current.restartAt /\ TickExecutes
            \/ clock < Current.restartAt /\ TickLeaves

TickDecide ==
    LET due == Due(Current, tick.now) IN
    /\ ThreadFree /\ tick.pc = "decide"
    /\ \/ tick.online = "none" /\ TickExecutes
       \/ /\ tick.online # "none" /\ due # {}
          /\ tick' = [tick EXCEPT !.pc = "send", !.marks = due]
          /\ UNCHANGED exec
       \/ tick.online # "none" /\ due = {} /\ Deadline
    /\ UNCHANGED <<up, clock, online, file, gate, bootRun, tasks, crashes, history>>

Highest(m, marks) == m \in marks /\ \A n \in marks : n <= m

\* sendWarning publishes the broadcast of the highest mark left.
TickSend ==
    /\ up /\ tick.pc = "send"
    /\ \E m \in tick.marks :
          /\ Highest(m, tick.marks)
          /\ warned' = [warned EXCEPT ![tick.cur][m] = @ + 1]
    /\ tick' = [tick EXCEPT !.pc = "record"]
    /\ UNCHANGED <<up, clock, online, file, gate, exec, bootRun, tasks, crashes,
                   fired, cancelled, aged, dead>>

\* What follows the await, with marks left of the entry or without.
AfterMark(rest) ==
    \/ /\ rest # {}
       /\ tick' = [tick EXCEPT !.pc = "send", !.marks = rest]
       /\ UNCHANGED exec
    \/ rest = {} /\ Deadline

\* The broadcast failed: the mark stays unrecorded for the next tick.
TickSendFails ==
    /\ ThreadFree /\ tick.pc = "send"
    /\ \E m \in tick.marks : Highest(m, tick.marks) /\ AfterMark(tick.marks \ {m})
    /\ UNCHANGED <<up, clock, online, file, gate, bootRun, tasks, crashes, history>>

\* recordCheckpointSent.
TickRecord ==
    /\ ThreadFree /\ tick.pc = "record"
    /\ \E m \in tick.marks :
          /\ Highest(m, tick.marks)
          /\ queue' = RecordSent(queue, tick.cur, m)
          /\ AfterMark(tick.marks \ {m})
    /\ UNCHANGED <<up, clock, online, nextId, gate, bootRun, tasks, crashes, history>>

-----------------------------------------------------------------------------
(* The console dies and boots; players come and go; time passes *)

Crash ==
    /\ up /\ crashes < MaxCrashes
    /\ up' = FALSE /\ crashes' = crashes + 1
    /\ gate' = [c \in Clients |-> IdleGate]
    /\ tick' = IdleTick /\ exec' = IdleExec /\ bootRun' = {} /\ tasks' = {}
    /\ dead' = dead \cup {i \in Ids : fired[i] > 0}
                    \cup {i \in DOMAIN queue : queue[i].status = "restarting"}
    /\ UNCHANGED <<clock, online, file, fired, cancelled, aged, warned>>

\* recoverRestartQueue: the file is reduced to the kept entries, and those that
\* elapsed within the grace window are executed, all in this turn.
Boot ==
    /\ ~up /\ up' = TRUE
    /\ queue' = [i \in Kept(queue) |-> queue[i]]
    /\ bootRun' = ExecuteNow(queue)
    /\ aged' = aged \cup Aged(queue)
    /\ UNCHANGED <<clock, online, nextId, gate, tick, exec, tasks, crashes,
                   fired, cancelled, dead, warned>>

BootExecute ==
    /\ up /\ exec = IdleExec
    /\ \E i \in bootRun :
          /\ \A j \in bootRun : i <= j
          /\ StartExecute(i, queue[i].target, "boot")
          /\ bootRun' = bootRun \ {i}
    /\ UNCHANGED <<up, clock, online, file, gate, tick, tasks, crashes, history>>

PlayersMove ==
    /\ online' \in (SUBSET Partitions) \ {online}
    /\ tick' = IF tick.pc = "idle" THEN tick
               ELSE [tick EXCEPT !.quiet = @ \cup Empty(online')]
    /\ UNCHANGED <<up, clock, file, gate, exec, bootRun, tasks, crashes, history>>

TimePasses ==
    /\ clock < MaxClock /\ clock' = clock + 1
    /\ UNCHANGED <<up, online, file, gate, tick, exec, bootRun, tasks, crashes, history>>

TickStep == \/ TickStart \/ TickCount \/ TickScope \/ TickDecide
            \/ TickSend \/ TickSendFails \/ TickRecord

ExecStep == ExecMark \/ ExecFinish \/ BootExecute

Next ==
    \/ \E c \in Clients : (\E t \in Target : GateCount(c, t)) \/ GateDecide(c)
    \/ \E t \in Target : GateBypass(t)
    \/ \E id \in Ids : Cancel(id) \/ RestartNow(id)
    \/ \E t \in tasks : TaskEnds(t)
    \/ TickStep
    \/ ExecStep
    \/ Crash
    \/ Boot
    \/ PlayersMove
    \/ TimePasses

Spec == Init /\ [][Next]_vars

\* The 10 s interval keeps calling the tick, every await in it is answered or
\* fails, the thread finishes what it started, the clock runs, and a console
\* that died is started again by its container's restart policy.
Fairness == /\ WF_vars(TickStep) /\ WF_vars(ExecStep)
            /\ WF_vars(TimePasses) /\ WF_vars(Boot)

FairSpec == Spec /\ Fairness

-----------------------------------------------------------------------------
(* Properties *)

IsFile(q) == DOMAIN q \subseteq Ids /\ q \in [DOMAIN q -> Entry]

IsTick(t) ==
    /\ t = [pc |-> t.pc, now |-> t.now, todo |-> t.todo, cur |-> t.cur, bg |-> t.bg,
            online |-> t.online, marks |-> t.marks, quiet |-> t.quiet]
    /\ t.pc \in {"idle", "count", "scope", "decide", "send", "record"}
    /\ t.now \in Nat /\ IsFile(t.todo)
    /\ t.pc \in {"scope", "decide", "send", "record"} => t.cur \in DOMAIN t.todo
    /\ t.bg \in Reading /\ t.online \in Reading /\ t.marks \subseteq Checkpoints
    /\ t.quiet \subseteq Target

\* Types of the file, of the handlers in progress and of the history; recovery has
\* entries of the file to run, and a console that is down runs nothing.
TypeOK ==
    /\ up \in BOOLEAN /\ clock \in Nat /\ crashes \in Nat
    /\ online \in SUBSET Partitions
    /\ IsFile(queue)
    /\ nextId \in 1..(MaxId + 1)
    /\ gate \in [Clients -> [pc: {"idle", "decide"}, target: Target,
                             present: BOOLEAN]]
    /\ IsTick(tick)
    /\ exec \in [stage: {"idle", "mark", "finish"}, id: Ids \cup {0},
                 target: Target, by: {"nobody", "tick", "admin", "boot"}]
    /\ bootRun \subseteq DOMAIN queue \ {exec.id}
    /\ ~up => exec = IdleExec /\ tick = IdleTick
    /\ tasks \in SUBSET Target
    /\ fired \in [Ids -> Nat]
    /\ cancelled \in SUBSET Ids /\ aged \in SUBSET Ids /\ dead \in SUBSET Ids
    /\ warned \in [Ids -> [Checkpoints -> Nat]]

\* One battlegroup countdown, XOR countdowns of distinct map keys: the answer of
\* canQueue still holds when its request, which has awaited a count, appends.
QueueExclusion ==
    \A i, j \in DOMAIN queue :
        i # j => /\ queue[i].target # queue[j].target
                 /\ queue[i].target # Battlegroup

\* "Already dispatched -> Cleared, never re-fired": an entry that was dispatched,
\* or whose write-ahead marker was on disk, before a crash is not run after it.
NeverRefiredAfterCrash == [][\A i \in dead : fired'[i] = fired[i]]_vars

\* A checkpoint of a countdown is broadcast once in a life of the console, however
\* many ticks see the entry and whatever else rewrites the file meanwhile.
OneWarningPerLife ==
    \A i \in Ids : \A m \in Checkpoints : warned[i][m] <= 1 + crashes

\* The tick ends a countdown early only if its target had no player at some
\* moment of that tick: never because a count failed, or of players elsewhere.
NoEarlyRestart ==
    [][\A i \in DOMAIN tick.todo :
          exec = IdleExec /\ exec' # IdleExec /\ exec'.by = "tick" /\ exec'.id = i
             => \/ tick.todo[i].target \in tick.quiet
                \/ clock >= tick.todo[i].restartAt]_vars

\* A restart that was asked for is still counting down, was dispatched, was
\* cancelled, aged out during an outage, or was in dispatch when the console died.
NoSilentDrop ==
    \A i \in 1..(nextId - 1) :
        i \in DOMAIN queue \cup cancelled \cup aged \cup dead \/ fired[i] > 0

\* What makes the two properties of recovery above inductive: an id is used once,
\* an entry leaves the file as its task is created, and what a crash makes dead is
\* found in the file only as restarting and by nothing that runs.
RecoveryInv ==
    /\ \A i \in DOMAIN queue \cup DOMAIN tick.todo \cup dead : i < nextId
    /\ \A i \in Ids : fired[i] > 0 => i < nextId /\ i \notin DOMAIN queue
    /\ exec.stage # "idle" => exec.id \in Ids /\ exec.id < nextId /\ exec.id \notin dead
    /\ dead \cap DOMAIN tick.todo = {}
    /\ up => dead \cap DOMAIN queue = {}
    /\ ~up => \A i \in DOMAIN queue : i \in dead <=> queue[i].status = "restarting"
    /\ NoSilentDrop

\* A countdown ends: failed counts, failed broadcasts and crashes do not leave an
\* entry in the queue for ever, where it would block every conflicting restart.
EveryCountdownEnds ==
    \A i \in Ids : i \in DOMAIN queue ~> i \notin DOMAIN queue

=============================================================================
