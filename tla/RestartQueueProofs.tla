------------------------- MODULE RestartQueueProofs -------------------------
(***************************************************************************)
(* Theorems about RestartQueue, for every value of its constants: its      *)
(* types, the exclusion rule of the queue, what crash recovery keeps of    *)
(* what was asked for and never runs again, that a life of the Console     *)
(* warns once, and that nobody is restarted early on a count that failed.  *)
(***************************************************************************)
EXTENDS RestartQueue, TLAPS

-----------------------------------------------------------------------------
(* The operators on the state file *)

\* Appending an entry leaves a file, and every entry under another id as it was.
LEMMA AddEntryFile ==
    ASSUME NEW q, IsFile(q), NEW id \in Ids, NEW e \in Entry
    PROVE  /\ IsFile(AddEntry(q, id, e))
           /\ DOMAIN AddEntry(q, id, e) = DOMAIN q \cup {id}
           /\ AddEntry(q, id, e)[id] = e
           /\ \A i \in DOMAIN q : i # id => AddEntry(q, id, e)[i] = q[i]
BY DEF IsFile, AddEntry

\* Keeping the entries of some ids of a file leaves a file.
LEMMA RestrictedFile ==
    ASSUME NEW q, IsFile(q), NEW S, S \subseteq DOMAIN q
    PROVE  IsFile([i \in S |-> q[i]])
BY DEF IsFile

LEMMA RemoveEntryFile ==
    ASSUME NEW q, IsFile(q), NEW id
    PROVE  /\ IsFile(RemoveEntry(q, id))
           /\ DOMAIN RemoveEntry(q, id) = DOMAIN q \ {id}
           /\ \A i \in DOMAIN q \ {id} : RemoveEntry(q, id)[i] = q[i]
BY DEF IsFile, RemoveEntry

\* The two rewrites of an entry keep the file's ids, targets and deadlines.
LEMMA MarkRestartingFile ==
    ASSUME NEW q, IsFile(q), NEW id
    PROVE  /\ IsFile(MarkRestarting(q, id))
           /\ DOMAIN MarkRestarting(q, id) = DOMAIN q
           /\ \A i \in DOMAIN q : MarkRestarting(q, id)[i].target = q[i].target
BY DEF IsFile, MarkRestarting, Entry

LEMMA RecordSentFile ==
    ASSUME NEW q, IsFile(q), NEW id, NEW m \in Checkpoints
    PROVE  /\ IsFile(RecordSent(q, id, m))
           /\ DOMAIN RecordSent(q, id, m) = DOMAIN q
           /\ \A i \in DOMAIN q : RecordSent(q, id, m)[i].target = q[i].target
           /\ \A i \in DOMAIN q : RecordSent(q, id, m)[i].status = q[i].status
BY DEF IsFile, RecordSent, Entry

LEMMA IdleTickTypes == IsTick(IdleTick)
BY DEF IsTick, IdleTick, IsFile, NoFile, Reading

\* A tick that moves on keeps its types, and of its copy what it is given.
LEMMA AdvanceTypes ==
    ASSUME NEW t, IsTick(t), NEW todo, IsFile(todo), Advance(t, todo)
    PROVE  IsTick(tick') /\ DOMAIN tick'.todo \subseteq DOMAIN todo
<1>1. CASE tick' = IdleTick
    BY <1>1, IdleTickTypes DEF IdleTick, NoFile
<1>2. CASE tick' # IdleTick
    <2>1. PICK i \in DOMAIN todo :
             tick' = [t EXCEPT !.todo = todo, !.cur = i, !.marks = {}, !.online = t.bg,
                               !.pc = IF todo[i].target = Battlegroup
                                      THEN "decide" ELSE "scope"]
        BY <1>2 DEF Advance
    <2>. QED  BY <2>1 DEF IsTick
<1>. QED  BY <1>1, <1>2

LEMMA SampleType == ASSUME NEW t PROVE Sample(t) \in Reading
BY DEF Sample, Reading

-----------------------------------------------------------------------------
(* Types *)

\* Ending or leaving the current entry, or going on to its next mark.
LEMMA DeadlineTypes ==
    ASSUME TypeOK, tick.cur \in DOMAIN tick.todo,
           Deadline \/ TickExecutes
    PROVE  /\ IsTick(tick') /\ DOMAIN tick'.todo \subseteq DOMAIN tick.todo
           /\ \/ exec' = exec
              \/ exec' = [stage |-> "mark", id |-> tick.cur,
                          target |-> Current.target, by |-> "tick"]
<1>1. IsTick(tick)
    BY DEF TypeOK
<1>2. IsFile(tick.todo)
    BY <1>1 DEF IsTick
<1>3. /\ IsFile(RemoveEntry(tick.todo, tick.cur))
      /\ DOMAIN RemoveEntry(tick.todo, tick.cur) = DOMAIN tick.todo \ {tick.cur}
    BY <1>2, RemoveEntryFile
<1>4. Advance(tick, RemoveEntry(tick.todo, tick.cur))
    BY DEF Deadline, TickExecutes, TickLeaves
<1>5. IsTick(tick') /\ DOMAIN tick'.todo \subseteq DOMAIN RemoveEntry(tick.todo, tick.cur)
    BY <1>1, <1>3, <1>4, AdvanceTypes
<1>. QED  BY <1>3, <1>5 DEF Deadline, TickExecutes, TickLeaves, StartExecute

LEMMA AfterMarkTypes ==
    ASSUME TypeOK, tick.cur \in DOMAIN tick.todo,
           NEW rest \in SUBSET Checkpoints, AfterMark(rest)
    PROVE  /\ IsTick(tick') /\ DOMAIN tick'.todo \subseteq DOMAIN tick.todo
           /\ \/ exec' = exec
              \/ exec' = [stage |-> "mark", id |-> tick.cur,
                          target |-> Current.target, by |-> "tick"]
<1>1. CASE rest = {}
    BY <1>1, DeadlineTypes DEF AfterMark
<1>2. CASE rest # {}
    BY <1>2 DEF AfterMark, TypeOK, IsTick
<1>. QED  BY <1>1, <1>2

\* The target of an entry the tick is at, and its id, are of their types.
LEMMA CurrentTypes ==
    ASSUME TypeOK, tick.cur \in DOMAIN tick.todo
    PROVE  tick.cur \in Ids /\ Current \in Entry /\ Current.target \in Target
BY DEF TypeOK, IsTick, IsFile, Current, Entry

LEMMA InitTypes == Init => TypeOK
<1>. SUFFICES ASSUME Init PROVE TypeOK
    OBVIOUS
<1>1. IsFile(queue)
    BY DEF Init, NoFile, IsFile
<1>2. IsTick(tick)
    BY IdleTickTypes DEF Init
<1>3. nextId \in 1..(MaxId + 1)
    BY BoundAssumption DEF Init
<1>. QED  BY <1>1, <1>2, <1>3 DEF Init, TypeOK, IdleGate, IdleExec, Target

LEMMA NextTypes == TypeOK /\ [Next]_vars => TypeOK'
<1>. SUFFICES ASSUME TypeOK, [Next]_vars PROVE TypeOK'
    OBVIOUS
<1>. USE DEF TypeOK
<1>1. CASE UNCHANGED vars
    BY <1>1 DEF vars, IsTick, IsFile
<1>2. ASSUME NEW c \in Clients, NEW t \in Target, GateCount(c, t) PROVE TypeOK'
    <2>1. PICK p \in BOOLEAN :
             gate' = [gate EXCEPT ![c] = [pc |-> "decide", target |-> t, present |-> p]]
        BY <1>2 DEF GateCount, Present
    <2>. QED  BY <1>2, <2>1 DEF GateCount, file, history, IsTick, IsFile
<1>3. ASSUME NEW c \in Clients, GateDecide(c) PROVE TypeOK'
    <2>1. nextId \in Ids /\ nextId + 1 \in 1..(MaxId + 1)
        BY <1>3, BoundAssumption DEF GateDecide, Ids
    <2>2. gate' \in [Clients -> [pc: {"idle", "decide"}, target: Target, present: BOOLEAN]]
        BY <1>3 DEF GateDecide, IdleGate, Target
    <2>3. gate[c].target \in Target
        BY DEF Target
    <2>4. CASE queue' = AddEntry(queue, nextId, NewEntry(gate[c].target))
               /\ nextId' = nextId + 1 /\ UNCHANGED <<fired, tasks>>
        <3>1. NewEntry(gate[c].target) \in Entry
            BY <2>3, SettingsAssumption DEF NewEntry, Entry
        <3>2. IsFile(queue')
            BY <2>1, <2>4, <3>1, AddEntryFile
        <3>. QED  BY <1>3, <2>1, <2>2, <2>4, <3>2, AddEntryFile DEF GateDecide, ThreadFree, IsTick, IsFile
    <2>5. CASE RunImmediately(gate[c].target) /\ UNCHANGED queue
        BY <1>3, <2>1, <2>2, <2>3, <2>5 DEF GateDecide, RunImmediately, IsTick, IsFile
    <2>6. CASE UNCHANGED <<queue, nextId, fired, tasks>>
        BY <1>3, <2>2, <2>6 DEF GateDecide, IsTick, IsFile
    <2>. QED  BY <1>3, <2>4, <2>5, <2>6 DEF GateDecide
<1>4. ASSUME NEW t \in Target, GateBypass(t) PROVE TypeOK'
    <2>1. nextId \in Ids /\ nextId + 1 \in 1..(MaxId + 1)
        BY <1>4, BoundAssumption DEF GateBypass, Ids
    <2>. QED  BY <1>4, <2>1 DEF GateBypass, RunImmediately, IsTick, IsFile
<1>5. ASSUME NEW id \in Ids, Cancel(id) PROVE TypeOK'
    <2>1. IsFile(queue')
        BY <1>5, RemoveEntryFile DEF Cancel
    <2>. QED  BY <1>5, <2>1 DEF Cancel, ThreadFree, IsTick, IsFile
<1>6. ASSUME NEW id \in Ids, RestartNow(id) PROVE TypeOK'
    <2>1. queue[id].target \in Target
        BY <1>6 DEF RestartNow, IsFile, Entry
    <2>. QED  BY <1>6, <2>1 DEF RestartNow, ThreadFree, StartExecute, file, history, IsTick, IsFile
<1>7. ASSUME NEW t \in tasks, TaskEnds(t) PROVE TypeOK'
    BY <1>7 DEF TaskEnds, file, history, IsTick, IsFile
<1>8. CASE TickStart
    <2>1. IsFile([i \in Counting(queue) |-> queue[i]])
        BY RestrictedFile DEF Counting
    <2>2. IsTick(tick')
        BY <1>8, <2>1 DEF TickStart, IsTick, IdleTick, Reading, Empty
    <2>. QED  BY <1>8, <2>2 DEF TickStart, ThreadFree, file, history, IsFile
<1>9. CASE TickCount
    <2>1. PICK r \in Reading : Advance([tick EXCEPT !.bg = r], tick.todo)
        BY <1>9, SampleType DEF TickCount, Reading
    <2>2. IsTick([tick EXCEPT !.bg = r]) /\ IsFile(tick.todo)
        BY DEF IsTick
    <2>3. IsTick(tick')
        BY <2>1, <2>2, AdvanceTypes
    <2>. QED  BY <1>9, <2>3 DEF TickCount, file, history, IsFile
<1>10. CASE TickScope
    <2>1. PICK r \in Reading : tick' = [tick EXCEPT !.pc = "decide", !.online = r]
        BY <1>10, SampleType DEF TickScope, IsTick
    <2>2. IsTick(tick')
        BY <1>10, <2>1 DEF TickScope, IsTick
    <2>. QED  BY <1>10, <2>2 DEF TickScope, file, history, IsFile
<1>11. CASE TickDecide
    <2>1. tick.cur \in DOMAIN tick.todo
        BY <1>11 DEF TickDecide, IsTick
    <2>2. CASE Deadline \/ TickExecutes
        <3>1. IsTick(tick') /\ \/ exec' = exec
                               \/ exec' = [stage |-> "mark", id |-> tick.cur,
                                           target |-> Current.target, by |-> "tick"]
            BY <2>1, <2>2, DeadlineTypes
        <3>. QED  BY <1>11, <2>1, <3>1, CurrentTypes DEF TickDecide, ThreadFree, file, history, IsFile
    <2>3. CASE tick' = [tick EXCEPT !.pc = "send", !.marks = Due(Current, tick.now)]
               /\ UNCHANGED exec
        <3>1. IsTick(tick')
            BY <2>1, <2>3 DEF IsTick, Due
        <3>. QED  BY <1>11, <2>3, <3>1 DEF TickDecide, ThreadFree, file, history, IsFile
    <2>. QED  BY <1>11, <2>2, <2>3 DEF TickDecide
<1>12. CASE TickSend
    <2>1. PICK m \in tick.marks : warned' = [warned EXCEPT ![tick.cur][m] = @ + 1]
        BY <1>12 DEF TickSend
    <2>2. tick.cur \in Ids /\ m \in Checkpoints
        BY <1>12, <2>1, CurrentTypes DEF TickSend, IsTick
    <2>3. IsTick(tick')
        BY <1>12 DEF TickSend, IsTick
    <2>4. warned' \in [Ids -> [Checkpoints -> Nat]]
        BY <2>1, <2>2
    <2>. QED  BY <1>12, <2>3, <2>4 DEF TickSend, file, IsFile
<1>13. CASE TickSendFails
    <2>1. PICK m \in tick.marks : AfterMark(tick.marks \ {m})
        BY <1>13 DEF TickSendFails
    <2>2. tick.cur \in DOMAIN tick.todo /\ tick.marks \ {m} \in SUBSET Checkpoints
        BY <1>13 DEF TickSendFails, IsTick
    <2>3. IsTick(tick') /\ \/ exec' = exec
                           \/ exec' = [stage |-> "mark", id |-> tick.cur,
                                       target |-> Current.target, by |-> "tick"]
        BY <2>1, <2>2, AfterMarkTypes
    <2>. QED  BY <1>13, <2>2, <2>3, CurrentTypes DEF TickSendFails, ThreadFree, file, history, IsFile
<1>14. CASE TickRecord
    <2>1. PICK m \in tick.marks : /\ queue' = RecordSent(queue, tick.cur, m)
                                  /\ AfterMark(tick.marks \ {m})
        BY <1>14 DEF TickRecord
    <2>2. /\ tick.cur \in DOMAIN tick.todo /\ m \in Checkpoints
          /\ tick.marks \ {m} \in SUBSET Checkpoints
        BY <1>14, <2>1 DEF TickRecord, IsTick
    <2>3. IsTick(tick') /\ \/ exec' = exec
                           \/ exec' = [stage |-> "mark", id |-> tick.cur,
                                       target |-> Current.target, by |-> "tick"]
        BY <2>1, <2>2, AfterMarkTypes
    <2>4. IsFile(queue') /\ DOMAIN queue' = DOMAIN queue
        BY <2>1, <2>2, RecordSentFile
    <2>. QED  BY <1>14, <2>2, <2>3, <2>4, CurrentTypes DEF TickRecord, ThreadFree, history
<1>15. CASE ExecMark
    <2>1. IsFile(queue') /\ DOMAIN queue' = DOMAIN queue
        BY <1>15, MarkRestartingFile DEF ExecMark
    <2>. QED  BY <1>15, <2>1 DEF ExecMark, history, IsTick, IsFile
<1>16. CASE ExecFinish
    <2>1. IsFile(queue') /\ DOMAIN queue' = DOMAIN queue \ {exec.id}
        BY <1>16, RemoveEntryFile DEF ExecFinish
    <2>2. bootRun' \subseteq DOMAIN queue' \ {exec'.id}
        BY <1>16, <2>1 DEF ExecFinish, IdleExec, Ids, IsFile
    <2>3. fired' \in [Ids -> Nat]
        <3>1. fired \in [Ids -> Nat] /\ fired' = [fired EXCEPT ![exec.id] = @ + 1]
            BY <1>16 DEF ExecFinish
        <3>2. \A i \in Ids : fired'[i] \in Nat
            BY <3>1
        <3>. QED  BY <3>1, <3>2
    <2>4. exec' = IdleExec /\ tasks' \in SUBSET Target /\ tick' = tick
        BY <1>16 DEF ExecFinish
    <2>. QED  BY <1>16, <2>1, <2>2, <2>3, <2>4 DEF ExecFinish, IdleExec, Target
<1>17. CASE BootExecute
    <2>1. PICK i \in bootRun : StartExecute(i, queue[i].target, "boot") /\ i \in Ids
                               /\ bootRun' = bootRun \ {i} /\ i \in DOMAIN queue
        BY <1>17 DEF BootExecute, IsFile
    <2>2. queue[i].target \in Target
        BY <2>1 DEF IsFile, Entry
    <2>. QED  BY <1>17, <2>1, <2>2 DEF BootExecute, StartExecute, file, history, IsTick, IsFile
<1>18. CASE Crash
    <2>1. IsTick(tick')
        BY <1>18, IdleTickTypes DEF Crash
    <2>2. dead' \in SUBSET Ids
        BY <1>18 DEF Crash, IsFile
    <2>3. /\ gate' \in [Clients -> [pc: {"idle", "decide"}, target: Target, present: BOOLEAN]]
          /\ exec' \in [stage: {"idle", "mark", "finish"}, id: Ids \cup {0},
                        target: Target, by: {"nobody", "tick", "admin", "boot"}]
        BY <1>18 DEF Crash, IdleGate, IdleExec, Target
    <2>4. IsFile(queue') /\ bootRun' \subseteq DOMAIN queue' \ {exec'.id}
        BY <1>18 DEF Crash, file, IsFile
    <2>5. crashes' \in Nat /\ up' = FALSE /\ tasks' = {} /\ tick' = IdleTick /\ exec' = IdleExec
        BY <1>18 DEF Crash
    <2>. QED  BY <1>18, <2>1, <2>2, <2>3, <2>4, <2>5 DEF Crash, file
<1>19. CASE Boot
    <2>1. IsFile(queue') /\ DOMAIN queue' = Kept(queue)
        BY <1>19, RestrictedFile DEF Boot, Kept, Counting
    <2>. QED  BY <1>19, <2>1 DEF Boot, Kept, Aged, ExecuteNow, Counting, IdleExec, Ids, IsTick, IsFile
<1>20. CASE PlayersMove
    <2>1. IsTick(tick')
        BY <1>20 DEF PlayersMove, IsTick, Empty
    <2>2. ~up => tick' = IdleTick
        BY <1>20 DEF PlayersMove, IdleTick
    <2>. QED  BY <1>20, <2>1, <2>2 DEF PlayersMove, file, history, IsFile
<1>21. CASE TimePasses
    BY <1>21 DEF TimePasses, file, history, IsTick, IsFile
<1>. QED
    BY <1>1, <1>2, <1>3, <1>4, <1>5, <1>6, <1>7, <1>8, <1>9, <1>10, <1>11, <1>12, <1>13,
       <1>14, <1>15, <1>16, <1>17, <1>18, <1>19, <1>20, <1>21 DEF Next, TickStep, ExecStep

\* The file, the handlers in progress and the history keep their types.
THEOREM TypeCorrect == Spec => []TypeOK
BY InitTypes, NextTypes, PTL DEF Spec

-----------------------------------------------------------------------------
(* The exclusion rule *)

\* What a step that is not the gate's does to the file.
FileShrinks ==
    /\ DOMAIN queue' \subseteq DOMAIN queue
    /\ \A i \in DOMAIN queue' : queue'[i].target = queue[i].target

\* Only the gate adds to the file or gives an entry a target.
LEMMA StepShrinksFile ==
    ASSUME TypeOK, [Next]_vars
    PROVE  \/ FileShrinks
           \/ \E c \in Clients : /\ GateDecide(c)
                                 /\ CanQueue(queue, gate[c].target)
                                 /\ queue' = AddEntry(queue, nextId, NewEntry(gate[c].target))
<1>. USE DEF FileShrinks
<1>1. IsFile(queue)
    BY DEF TypeOK
<1>2. CASE queue' = queue
    BY <1>2
<1>3. ASSUME NEW c \in Clients, GateDecide(c)
      PROVE  \/ queue' = queue
             \/ /\ CanQueue(queue, gate[c].target)
                /\ queue' = AddEntry(queue, nextId, NewEntry(gate[c].target))
    BY <1>3 DEF GateDecide
<1>4. ASSUME NEW id \in Ids, Cancel(id) PROVE FileShrinks
    <2>1. queue' = RemoveEntry(queue, id)
        BY <1>4 DEF Cancel
    <2>2. DOMAIN RemoveEntry(queue, id) = DOMAIN queue \ {id}
        BY <1>1, RemoveEntryFile
    <2>3. \A i \in DOMAIN queue \ {id} : RemoveEntry(queue, id)[i] = queue[i]
        BY <1>1, RemoveEntryFile
    <2>. QED  BY <2>1, <2>2, <2>3
<1>5. CASE ExecMark
    BY <1>1, <1>5, MarkRestartingFile DEF ExecMark
<1>6. CASE ExecFinish
    <2>1. queue' = RemoveEntry(queue, exec.id)
        BY <1>6 DEF ExecFinish
    <2>2. DOMAIN RemoveEntry(queue, exec.id) = DOMAIN queue \ {exec.id}
        BY <1>1, RemoveEntryFile
    <2>3. \A i \in DOMAIN queue \ {exec.id} : RemoveEntry(queue, exec.id)[i] = queue[i]
        BY <1>1, RemoveEntryFile
    <2>. QED  BY <2>1, <2>2, <2>3
<1>7. CASE TickRecord
    <2>1. PICK m \in tick.marks : queue' = RecordSent(queue, tick.cur, m)
        BY <1>7 DEF TickRecord
    <2>2. m \in Checkpoints
        BY DEF TypeOK, IsTick
    <2>. QED  BY <1>1, <2>1, <2>2, RecordSentFile
<1>8. CASE Boot
    BY <1>8 DEF Boot, Kept, Counting
<1>9. CASE \/ UNCHANGED vars \/ TickStart \/ TickCount \/ TickScope \/ TickDecide
           \/ TickSend \/ TickSendFails \/ BootExecute \/ Crash \/ PlayersMove \/ TimePasses
    BY <1>2, <1>9 DEF vars, TickStart, TickCount, TickScope, TickDecide, TickSend,
                      TickSendFails, BootExecute, Crash, PlayersMove, TimePasses, file
<1>10. ASSUME NEW c \in Clients, NEW t \in Target, GateCount(c, t) PROVE queue' = queue
    BY <1>10 DEF GateCount, file
<1>11. ASSUME NEW t \in Target, GateBypass(t) PROVE queue' = queue
    BY <1>11 DEF GateBypass
<1>12. ASSUME NEW id \in Ids, RestartNow(id) PROVE queue' = queue
    BY <1>12 DEF RestartNow, file
<1>13. ASSUME NEW t \in tasks, TaskEnds(t) PROVE queue' = queue
    BY <1>13 DEF TaskEnds, file
<1>. QED
    BY <1>2, <1>3, <1>4, <1>5, <1>6, <1>7, <1>8, <1>9, <1>10, <1>11, <1>12, <1>13
       DEF Next, TickStep, ExecStep

LEMMA NextExclusion == TypeOK /\ QueueExclusion /\ [Next]_vars => QueueExclusion'
<1>. SUFFICES ASSUME TypeOK, QueueExclusion, [Next]_vars PROVE QueueExclusion'
    OBVIOUS
<1>1. CASE FileShrinks
    BY <1>1 DEF FileShrinks, QueueExclusion
<1>2. ASSUME NEW c \in Clients, GateDecide(c), CanQueue(queue, gate[c].target),
             queue' = AddEntry(queue, nextId, NewEntry(gate[c].target))
      PROVE  QueueExclusion'
    <2>1. IsFile(queue) /\ nextId \in Ids
        BY <1>2, BoundAssumption DEF TypeOK, GateDecide, Ids
    <2>2. gate[c].target \in Target
        BY DEF TypeOK
    <2>3. NewEntry(gate[c].target) \in Entry
        BY <2>2, SettingsAssumption DEF TypeOK, NewEntry, Entry
    <2>4. NewEntry(gate[c].target).target = gate[c].target
        BY DEF NewEntry
    <2>5. /\ DOMAIN queue' = DOMAIN queue \cup {nextId}
          /\ queue'[nextId].target = gate[c].target
          /\ \A i \in DOMAIN queue : i # nextId => queue'[i] = queue[i]
        <3>. DEFINE e == NewEntry(gate[c].target)
        <3>1. /\ DOMAIN AddEntry(queue, nextId, e) = DOMAIN queue \cup {nextId}
              /\ AddEntry(queue, nextId, e)[nextId] = e
              /\ \A i \in DOMAIN queue : i # nextId => AddEntry(queue, nextId, e)[i] = queue[i]
            BY <2>1, <2>3, AddEntryFile
        <3>. QED  BY <1>2, <2>4, <3>1
    <2>. QED  BY <1>2, <2>5 DEF CanQueue, QueueExclusion
<1>. QED  BY <1>1, <1>2, StepShrinksFile

\* One battlegroup countdown, XOR countdowns of distinct map keys, whatever the
\* requests that await their counts together and whatever a crash leaves behind.
THEOREM Exclusion == Spec => []QueueExclusion
<1>1. Init => QueueExclusion
    BY DEF Init, QueueExclusion, NoFile
<1>. QED  BY <1>1, TypeCorrect, NextExclusion, PTL DEF Spec

-----------------------------------------------------------------------------
(* Crash recovery *)

LEMMA InitRecovery == Init => RecoveryInv
BY DEF Init, RecoveryInv, NoSilentDrop, NoFile, IdleTick, IdleExec, Ids

\* What the steps that change neither the file nor the history have in common.
RecoveryUntouched ==
    /\ UNCHANGED <<up, queue, nextId, fired, cancelled, aged, dead>>
    /\ DOMAIN tick'.todo \subseteq DOMAIN tick.todo \cup (DOMAIN queue \ dead)
    /\ \/ exec' = exec
       \/ exec'.id \in DOMAIN tick.todo
       \/ exec'.id \in DOMAIN queue \ dead

LEMMA UntouchedRecovery ==
    ASSUME TypeOK, RecoveryInv, RecoveryUntouched
    PROVE  RecoveryInv'
<1>1. DOMAIN tick.todo \subseteq Ids /\ DOMAIN queue \subseteq Ids
    BY DEF TypeOK, IsTick, IsFile
<1>. QED  BY <1>1 DEF RecoveryUntouched, RecoveryInv, NoSilentDrop

LEMMA NextRecovery == TypeOK /\ RecoveryInv /\ [Next]_vars => RecoveryInv'
<1>. SUFFICES ASSUME TypeOK, RecoveryInv, [Next]_vars PROVE RecoveryInv'
    OBVIOUS
<1>1. /\ IsTick(tick) /\ IsFile(queue)
      /\ DOMAIN tick.todo \subseteq Ids /\ DOMAIN queue \subseteq Ids
    BY DEF TypeOK, IsTick, IsFile
<1>2. CASE UNCHANGED vars
    <2>1. RecoveryUntouched
        BY <1>2 DEF vars, RecoveryUntouched
    <2>. QED  BY <2>1, UntouchedRecovery
<1>3. ASSUME NEW c \in Clients, NEW t \in Target, GateCount(c, t) PROVE RecoveryInv'
    <2>1. RecoveryUntouched
        BY <1>3 DEF GateCount, RecoveryUntouched, file, history
    <2>. QED  BY <2>1, UntouchedRecovery
<1>4. ASSUME NEW t \in Target, RunImmediately(t), nextId \in Ids, up,
             UNCHANGED <<up, queue, tick, exec, cancelled, aged, dead>>
      PROVE  RecoveryInv'
    <2>1. /\ nextId' = nextId + 1
          /\ \A i \in Ids : fired'[i] = IF i = nextId THEN 1 ELSE fired[i]
        BY <1>4 DEF RunImmediately, TypeOK
    <2>2. nextId \in Nat /\ Ids \subseteq Nat /\ dead \subseteq Ids /\ fired \in [Ids -> Nat]
        BY BoundAssumption DEF TypeOK, Ids
    <2>3. NoSilentDrop'
        <3>1. \A i \in 1..(nextId' - 1) : i \in 1..(nextId - 1) \/ i = nextId
            BY <2>1, <2>2
        <3>2. 1..(nextId - 1) \subseteq Ids
            BY BoundAssumption DEF TypeOK, Ids
        <3>. QED  BY <1>4, <2>1, <2>2, <3>1, <3>2 DEF RecoveryInv, NoSilentDrop
    <2>4. nextId \notin DOMAIN queue /\ nextId \notin dead
        BY <2>2 DEF RecoveryInv
    <2>5. \A i \in Ids : i < nextId => i < nextId'
        BY <2>1, <2>2
    <2>6. \A i \in Ids : fired'[i] > 0 => i < nextId' /\ i \notin DOMAIN queue
        <3>1. \A i \in Ids : fired[i] > 0 => i < nextId /\ i \notin DOMAIN queue
            BY DEF RecoveryInv
        <3>2. nextId < nextId'
            BY <2>1, <2>2
        <3>. QED  BY <2>1, <2>4, <2>5, <3>1, <3>2
    <2>7. \A i \in DOMAIN queue \cup DOMAIN tick.todo \cup dead : i < nextId'
        BY <1>1, <2>2, <2>5 DEF RecoveryInv
    <2>. QED  BY <1>4, <2>3, <2>4, <2>5, <2>6, <2>7 DEF RecoveryInv
<1>5. ASSUME NEW c \in Clients, GateDecide(c) PROVE RecoveryInv'
    <2>1. nextId \in Ids /\ gate[c].target \in Target
        BY <1>5, BoundAssumption DEF GateDecide, TypeOK, Ids
    <2>2. CASE RunImmediately(gate[c].target) /\ UNCHANGED queue
        BY <1>4, <1>5, <2>1, <2>2 DEF GateDecide, ThreadFree
    <2>3. CASE UNCHANGED <<queue, nextId, fired>>
        <3>1. RecoveryUntouched
            BY <1>5, <2>3 DEF GateDecide, RecoveryUntouched
        <3>. QED  BY <3>1, UntouchedRecovery
    <2>4. CASE queue' = AddEntry(queue, nextId, NewEntry(gate[c].target))
               /\ nextId' = nextId + 1 /\ UNCHANGED fired
        <3>1. DOMAIN queue' = DOMAIN queue \cup {nextId}
            BY <2>4 DEF AddEntry
        <3>2. up /\ UNCHANGED <<up, tick, exec, cancelled, aged, dead>>
            BY <1>5 DEF GateDecide, ThreadFree
        <3>. QED  BY <1>1, <2>1, <2>4, <3>1, <3>2 DEF RecoveryInv, NoSilentDrop, TypeOK, Ids
    <2>. QED  BY <1>5, <2>2, <2>3, <2>4 DEF GateDecide
<1>6. ASSUME NEW t \in Target, GateBypass(t) PROVE RecoveryInv'
    <2>1. nextId \in Ids
        BY <1>6, BoundAssumption DEF GateBypass, TypeOK, Ids
    <2>. QED  BY <1>4, <1>6, <2>1 DEF GateBypass, ThreadFree
<1>7. ASSUME NEW id \in Ids, Cancel(id) PROVE RecoveryInv'
    <2>1. DOMAIN queue' = DOMAIN queue \ {id} /\ cancelled' = cancelled \cup {id}
        BY <1>7 DEF Cancel, RemoveEntry
    <2>2. up /\ UNCHANGED <<up, nextId, fired, tick, exec, aged, dead>>
        BY <1>7 DEF Cancel, ThreadFree
    <2>. QED  BY <1>1, <2>1, <2>2 DEF RecoveryInv, NoSilentDrop
<1>8. ASSUME NEW id \in Ids, RestartNow(id) PROVE RecoveryInv'
    <2>1. RecoveryUntouched
        BY <1>8 DEF RestartNow, ThreadFree, StartExecute, RecoveryUntouched, RecoveryInv,
                    file, history
    <2>. QED  BY <2>1, UntouchedRecovery
<1>9. ASSUME NEW t \in tasks, TaskEnds(t) PROVE RecoveryInv'
    <2>1. RecoveryUntouched
        BY <1>9 DEF TaskEnds, RecoveryUntouched, file, history
    <2>. QED  BY <2>1, UntouchedRecovery
<1>10. CASE TickStart
    <2>1. DOMAIN tick'.todo \subseteq DOMAIN queue \ dead
        BY <1>10 DEF TickStart, ThreadFree, IdleTick, Counting, RecoveryInv
    <2>2. RecoveryUntouched
        BY <1>10, <2>1 DEF TickStart, RecoveryUntouched, file, history
    <2>. QED  BY <2>2, UntouchedRecovery
<1>11. CASE TickCount
    <2>1. PICK r \in Reading : Advance([tick EXCEPT !.bg = r], tick.todo)
        BY <1>11, SampleType DEF TickCount, Reading
    <2>2. IsTick([tick EXCEPT !.bg = r]) /\ IsFile(tick.todo)
        BY <1>1 DEF IsTick
    <2>3. DOMAIN tick'.todo \subseteq DOMAIN tick.todo
        BY <2>1, <2>2, AdvanceTypes
    <2>4. RecoveryUntouched
        BY <1>11, <2>3 DEF TickCount, RecoveryUntouched, file, history
    <2>. QED  BY <2>4, UntouchedRecovery
<1>12. CASE TickScope
    <2>1. DOMAIN tick'.todo \subseteq DOMAIN tick.todo
        BY <1>1, <1>12 DEF TickScope, IsTick
    <2>2. RecoveryUntouched
        BY <1>12, <2>1 DEF TickScope, RecoveryUntouched, file, history
    <2>. QED  BY <2>2, UntouchedRecovery
<1>13. CASE TickDecide
    <2>1. tick.cur \in DOMAIN tick.todo
        BY <1>1, <1>13 DEF TickDecide, IsTick
    <2>2. CASE Deadline \/ TickExecutes
        <3>1. DOMAIN tick'.todo \subseteq DOMAIN tick.todo
              /\ (exec' = exec \/ exec'.id = tick.cur)
            BY <2>1, <2>2, DeadlineTypes
        <3>2. RecoveryUntouched
            BY <1>13, <2>1, <3>1 DEF TickDecide, RecoveryUntouched, file, history
        <3>. QED  BY <3>2, UntouchedRecovery
    <2>3. CASE tick' = [tick EXCEPT !.pc = "send", !.marks = Due(Current, tick.now)]
               /\ UNCHANGED exec
        <3>1. tick'.todo = tick.todo
            BY <1>1, <2>3 DEF IsTick
        <3>2. RecoveryUntouched
            BY <1>13, <2>3, <3>1 DEF TickDecide, RecoveryUntouched, file, history
        <3>. QED  BY <3>2, UntouchedRecovery
    <2>. QED  BY <1>13, <2>2, <2>3 DEF TickDecide
<1>14. CASE TickSend
    <2>1. tick'.todo = tick.todo
        BY <1>1, <1>14 DEF TickSend, IsTick
    <2>2. RecoveryUntouched
        BY <1>14, <2>1 DEF TickSend, RecoveryUntouched, file
    <2>. QED  BY <2>2, UntouchedRecovery
<1>15. CASE TickSendFails
    <2>1. PICK m \in tick.marks : AfterMark(tick.marks \ {m})
        BY <1>15 DEF TickSendFails
    <2>2. tick.cur \in DOMAIN tick.todo /\ tick.marks \ {m} \in SUBSET Checkpoints
        BY <1>1, <1>15 DEF TickSendFails, IsTick
    <2>3. DOMAIN tick'.todo \subseteq DOMAIN tick.todo
          /\ (exec' = exec \/ exec'.id = tick.cur)
        BY <2>1, <2>2, AfterMarkTypes
    <2>4. RecoveryUntouched
        BY <1>15, <2>2, <2>3 DEF TickSendFails, RecoveryUntouched, file, history
    <2>. QED  BY <2>4, UntouchedRecovery
<1>16. CASE TickRecord
    <2>1. PICK m \in tick.marks : /\ queue' = RecordSent(queue, tick.cur, m)
                                  /\ AfterMark(tick.marks \ {m})
        BY <1>16 DEF TickRecord
    <2>2. /\ tick.cur \in DOMAIN tick.todo /\ m \in Checkpoints
          /\ tick.marks \ {m} \in SUBSET Checkpoints
        BY <1>1, <1>16, <2>1 DEF TickRecord, IsTick
    <2>3. DOMAIN tick'.todo \subseteq DOMAIN tick.todo
          /\ (exec' = exec \/ exec'.id = tick.cur)
        BY <2>1, <2>2, AfterMarkTypes
    <2>4. DOMAIN queue' = DOMAIN queue
        BY <2>1 DEF RecordSent
    <2>5. up /\ UNCHANGED <<up, nextId, fired, cancelled, aged, dead>>
        BY <1>16 DEF TickRecord, ThreadFree, history
    <2>. QED  BY <1>1, <2>2, <2>3, <2>4, <2>5 DEF RecoveryInv, NoSilentDrop
<1>17. CASE ExecMark
    <2>1. DOMAIN queue' = DOMAIN queue
        BY <1>17 DEF ExecMark, MarkRestarting
    <2>2. exec.stage # "idle" /\ exec'.id = exec.id
        BY <1>17 DEF ExecMark, TypeOK
    <2>3. up /\ UNCHANGED <<up, nextId, fired, tick, cancelled, aged, dead>>
        BY <1>17 DEF ExecMark, history
    <2>. QED  BY <1>1, <2>1, <2>2, <2>3 DEF RecoveryInv, NoSilentDrop
<1>18. CASE ExecFinish
    <2>1. DOMAIN queue' = DOMAIN queue \ {exec.id}
        BY <1>18 DEF ExecFinish, RemoveEntry
    <2>2. exec.stage # "idle" /\ exec'.stage = "idle" /\ exec.id \in Ids
        BY <1>18 DEF ExecFinish, IdleExec, RecoveryInv
    <2>3. \A i \in Ids : fired'[i] = IF i = exec.id THEN fired[i] + 1 ELSE fired[i]
        BY <1>18, <2>2 DEF ExecFinish, TypeOK
    <2>4. up /\ UNCHANGED <<up, nextId, tick, cancelled, aged, dead>>
        BY <1>18 DEF ExecFinish
    <2>5. NoSilentDrop'
        <3>1. fired'[exec.id] > 0 /\ \A i \in Ids : fired[i] > 0 => fired'[i] > 0
            BY <2>2, <2>3 DEF TypeOK
        <3>2. 1..(nextId - 1) \subseteq Ids
            BY BoundAssumption DEF TypeOK, Ids
        <3>. QED  BY <2>1, <2>2, <2>4, <3>1, <3>2 DEF RecoveryInv, NoSilentDrop
    <2>. QED  BY <1>1, <2>1, <2>2, <2>3, <2>4, <2>5 DEF RecoveryInv
<1>19. CASE BootExecute
    <2>1. PICK i \in bootRun : exec'.id = i
        BY <1>19 DEF BootExecute, StartExecute
    <2>2. i \in DOMAIN queue \ dead
        BY <1>19, <2>1 DEF BootExecute, TypeOK, RecoveryInv
    <2>3. RecoveryUntouched
        BY <1>19, <2>1, <2>2 DEF BootExecute, RecoveryUntouched, file, history
    <2>. QED  BY <2>3, UntouchedRecovery
<1>20. CASE Crash
    <2>1. up /\ up' = FALSE /\ exec'.stage = "idle" /\ DOMAIN tick'.todo = {}
        BY <1>20 DEF Crash, IdleExec, IdleTick, NoFile
    <2>2. UNCHANGED <<queue, nextId, fired, cancelled, aged>>
        BY <1>20 DEF Crash, file
    <2>3. dead' = dead \cup {i \in Ids : fired[i] > 0}
                       \cup {i \in DOMAIN queue : queue[i].status = "restarting"}
        BY <1>20 DEF Crash
    <2>. QED  BY <1>1, <2>1, <2>2, <2>3 DEF RecoveryInv, NoSilentDrop
<1>21. CASE Boot
    <2>1. /\ DOMAIN queue' = Kept(queue)
          /\ aged' = aged \cup Aged(queue)
          /\ ~up /\ up' = TRUE
          /\ UNCHANGED <<nextId, fired, tick, exec, cancelled, dead>>
        BY <1>21 DEF Boot
    <2>2. exec.stage = "idle" /\ DOMAIN tick.todo = {}
        BY <2>1 DEF TypeOK, IdleExec, IdleTick, NoFile
    <2>3. /\ Kept(queue) \subseteq Counting(queue) /\ Counting(queue) \subseteq DOMAIN queue
          /\ Counting(queue) \subseteq Kept(queue) \cup Aged(queue)
        BY <1>1, SettingsAssumption DEF Kept, Aged, Counting, TypeOK, IsFile, Entry
    <2>4. \A i \in DOMAIN queue : i \in dead <=> i \notin Counting(queue)
        BY <1>1, <2>1 DEF RecoveryInv, Counting, IsFile, Entry
    <2>. QED  BY <1>1, <2>1, <2>2, <2>3, <2>4 DEF RecoveryInv, NoSilentDrop
<1>22. CASE PlayersMove
    <2>1. tick'.todo = tick.todo
        BY <1>1, <1>22 DEF PlayersMove, IsTick
    <2>2. RecoveryUntouched
        BY <1>22, <2>1 DEF PlayersMove, RecoveryUntouched, file, history
    <2>. QED  BY <2>2, UntouchedRecovery
<1>23. CASE TimePasses
    <2>1. RecoveryUntouched
        BY <1>23 DEF TimePasses, RecoveryUntouched, file, history
    <2>. QED  BY <2>1, UntouchedRecovery
<1>. QED
    BY <1>2, <1>3, <1>5, <1>6, <1>7, <1>8, <1>9, <1>10, <1>11, <1>12, <1>13, <1>14, <1>15,
       <1>16, <1>17, <1>18, <1>19, <1>20, <1>21, <1>22, <1>23 DEF Next, TickStep, ExecStep

\* A restart that was asked for and is nowhere in the file was dispatched, was
\* cancelled, aged out, or was in dispatch when the console died.
THEOREM NothingDropsSilently == Spec => []NoSilentDrop
<1>1. RecoveryInv => NoSilentDrop
    BY DEF RecoveryInv
<1>. QED  BY <1>1, TypeCorrect, InitRecovery, NextRecovery, PTL DEF Spec

LEMMA DeadStayUnfired ==
    ASSUME TypeOK, RecoveryInv, [Next]_vars
    PROVE  [\A i \in dead : fired'[i] = fired[i]]_vars
<1>1. CASE fired' = fired
    BY <1>1
<1>2. CASE ExecFinish
    <2>1. exec.stage # "idle" /\ fired' = [fired EXCEPT ![exec.id] = @ + 1]
        BY <1>2 DEF ExecFinish
    <2>2. exec.id \notin dead /\ dead \subseteq Ids /\ fired \in [Ids -> Nat]
        BY <2>1 DEF RecoveryInv, TypeOK
    <2>. QED  BY <2>1, <2>2
<1>3. ASSUME NEW t, RunImmediately(t) PROVE \A i \in dead : fired'[i] = fired[i]
    <2>1. fired' = [fired EXCEPT ![nextId] = 1]
        BY <1>3 DEF RunImmediately
    <2>2. nextId \notin dead /\ dead \subseteq Ids /\ fired \in [Ids -> Nat]
        BY DEF RecoveryInv, TypeOK
    <2>. QED  BY <2>1, <2>2
<1>4. CASE \/ UNCHANGED vars \/ TickStart \/ TickCount \/ TickScope \/ TickDecide
           \/ TickSend \/ TickSendFails \/ TickRecord \/ ExecMark \/ BootExecute
           \/ Crash \/ Boot \/ PlayersMove \/ TimePasses
    BY <1>1, <1>4 DEF vars, history, TickStart, TickCount, TickScope, TickDecide, TickSend,
       TickSendFails, TickRecord, ExecMark, BootExecute, Crash, Boot, PlayersMove, TimePasses
<1>5. ASSUME NEW c \in Clients, GateDecide(c)
      PROVE  fired' = fired \/ RunImmediately(gate[c].target)
    BY <1>5 DEF GateDecide
<1>6. ASSUME NEW t \in Target, GateBypass(t) PROVE RunImmediately(t)
    BY <1>6 DEF GateBypass
<1>7. ASSUME NEW id \in Ids, Cancel(id) \/ RestartNow(id) PROVE fired' = fired
    BY <1>7 DEF Cancel, RestartNow, history
<1>8. ASSUME NEW t \in tasks, TaskEnds(t) PROVE fired' = fired
    BY <1>8 DEF TaskEnds, history
<1>9. ASSUME NEW c \in Clients, NEW t \in Target, GateCount(c, t) PROVE fired' = fired
    BY <1>9 DEF GateCount, history
<1>. QED
    BY <1>1, <1>2, <1>3, <1>4, <1>5, <1>6, <1>7, <1>8, <1>9 DEF Next, TickStep, ExecStep

\* What was dispatched, or marked restarting on disk, before a crash is never run
\* after it: not by recovery, by a tick, or by a Restart Now that comes later.
THEOREM RecoveryNeverRefires == Spec => NeverRefiredAfterCrash
BY TypeCorrect, InitRecovery, NextRecovery, DeadStayUnfired, PTL
   DEF Spec, NeverRefiredAfterCrash

-----------------------------------------------------------------------------
(* One warning in a life of the console *)

\* The tick in progress may still broadcast the mark: its copy of the entry, or what
\* is left of the marks it found due, has it.
Ahead(i, m) ==
    /\ i \in DOMAIN tick.todo /\ tick.pc # "idle"
    /\ IF i = tick.cur /\ tick.pc \in {"send", "record"}
       THEN m \in tick.marks /\ ~(tick.pc = "record" /\ Highest(m, tick.marks))
       ELSE m \notin tick.todo[i].sent

\* A later tick may: the file does not have it, and no record of it is under way.
InFile(i, m) ==
    /\ i \in DOMAIN queue /\ m \notin queue[i].sent
    /\ ~(tick.pc = "record" /\ i = tick.cur /\ Highest(m, tick.marks))

Live(i, m) == i >= nextId \/ Ahead(i, m) \/ InFile(i, m)

\* A mark that may still be broadcast in this life has not been in it.
WarnInv ==
    \A i \in Ids, m \in Checkpoints :
        warned[i][m] <= crashes + (IF Live(i, m) THEN 0 ELSE 1)

Quieter == \A i \in Ids, m \in Checkpoints : Live(i, m)' => Live(i, m)

LEMMA OneHighest ==
    ASSUME NEW marks \in SUBSET Checkpoints, NEW m, NEW n, Highest(m, marks), Highest(n, marks)
    PROVE  m = n
<1>1. m \in Nat /\ n \in Nat /\ m <= n /\ n <= m
    BY SettingsAssumption DEF Highest
<1>. QED  BY <1>1

\* A tick that moves on has in its copy what it is given, and has marked nothing yet.
LEMMA AdvanceCopies ==
    ASSUME NEW t, IsTick(t), NEW todo, Advance(t, todo)
    PROVE  \/ tick'.pc = "idle"
           \/ tick'.pc \in {"decide", "scope"} /\ tick'.todo = todo
<1>1. CASE tick' = IdleTick
    BY <1>1 DEF IdleTick
<1>2. ASSUME NEW i \in DOMAIN todo,
             tick' = [t EXCEPT !.todo = todo, !.cur = i, !.marks = {}, !.online = t.bg,
                               !.pc = IF todo[i].target = Battlegroup
                                      THEN "decide" ELSE "scope"]
      PROVE  tick'.pc \in {"decide", "scope"} /\ tick'.todo = todo
    BY <1>2 DEF IsTick
<1>. QED  BY <1>1, <1>2 DEF Advance

\* Leaving the current entry leaves the marks of the others as they were.
LEMMA LeavingIsQuiet ==
    ASSUME TypeOK, tick.pc # "idle", tick.cur \in DOMAIN tick.todo, Deadline \/ TickExecutes
    PROVE  /\ tick'.pc # "record"
           /\ \A i, m : Ahead(i, m)' => i # tick.cur /\ Ahead(i, m)
<1>1. IsTick(tick) /\ IsFile(tick.todo)
    BY DEF TypeOK, IsTick
<1>2. Advance(tick, RemoveEntry(tick.todo, tick.cur))
    BY DEF Deadline, TickExecutes, TickLeaves
<1>3. \/ tick'.pc = "idle"
      \/ tick'.pc \in {"decide", "scope"} /\ tick'.todo = RemoveEntry(tick.todo, tick.cur)
    BY <1>1, <1>2, AdvanceCopies
<1>4. /\ DOMAIN RemoveEntry(tick.todo, tick.cur) = DOMAIN tick.todo \ {tick.cur}
      /\ \A i \in DOMAIN tick.todo \ {tick.cur} :
            RemoveEntry(tick.todo, tick.cur)[i] = tick.todo[i]
    BY <1>1, RemoveEntryFile
<1>. QED  BY <1>3, <1>4 DEF Ahead

\* So does going on to the next mark of the current one.
LEMMA NextMarkIsQuiet ==
    ASSUME TypeOK, tick.pc \in {"send", "record"}, NEW m \in tick.marks, Highest(m, tick.marks),
           AfterMark(tick.marks \ {m})
    PROVE  /\ tick'.pc # "record"
           /\ \A i, n : Ahead(i, n)' => Ahead(i, n)
<1>1. IsTick(tick) /\ tick.cur \in DOMAIN tick.todo /\ tick.marks \in SUBSET Checkpoints
    BY DEF TypeOK, IsTick
<1>2. CASE tick' = [tick EXCEPT !.pc = "send", !.marks = tick.marks \ {m}]
    <2>1. /\ tick'.pc = "send" /\ tick'.marks = tick.marks \ {m}
          /\ tick'.todo = tick.todo /\ tick'.cur = tick.cur
        BY <1>1, <1>2 DEF IsTick
    <2>2. \A n \in tick.marks \ {m} : ~Highest(n, tick.marks)
        BY <1>1, OneHighest
    <2>. QED  BY <2>1, <2>2 DEF Ahead
<1>3. CASE Deadline
    BY <1>1, <1>3, LeavingIsQuiet
<1>. QED  BY <1>2, <1>3 DEF AfterMark

\* The steps away from the tick: at most the entry of a new id is added to the file.
LEMMA QuietFile ==
    ASSUME TypeOK, nextId <= nextId', nextId' \in Nat,
           \A i \in DOMAIN queue' : \/ i >= nextId
                                    \/ i \in DOMAIN queue /\ queue'[i].sent = queue[i].sent,
           tick'.pc = tick.pc, tick'.todo = tick.todo, tick'.cur = tick.cur,
           tick'.marks = tick.marks
    PROVE  Quieter
<1>. SUFFICES ASSUME NEW i \in Ids, NEW m \in Checkpoints, Live(i, m)' PROVE Live(i, m)
    BY DEF Quieter
<1>1. Ahead(i, m)' => Ahead(i, m)
    BY DEF Ahead, Highest
<1>2. InFile(i, m)' => InFile(i, m) \/ i >= nextId
    BY DEF InFile, Highest
<1>3. i >= nextId' => i >= nextId
    BY DEF TypeOK, Ids
<1>. QED  BY <1>1, <1>2, <1>3 DEF Live

\* The steps of the tick that leave the file alone.
LEMMA QuietTick ==
    ASSUME TypeOK, UNCHANGED <<queue, nextId>>, tick.pc # "record", tick'.pc # "record",
           \A i \in Ids, m \in Checkpoints : Ahead(i, m)' => Ahead(i, m) \/ InFile(i, m)
    PROVE  Quieter
BY DEF Quieter, Live, InFile

LEMMA CountedTick ==
    ASSUME IsTick(tick), NEW r \in Reading
    PROVE  IsTick([tick EXCEPT !.bg = r])
BY DEF IsTick

LEMMA InitWarn == Init => WarnInv
BY DEF Init, WarnInv, Live, Ahead, InFile, Ids

LEMMA NextWarn ==
    ASSUME TypeOK, TypeOK', RecoveryInv, WarnInv, [Next]_vars
    PROVE  WarnInv'
<1>. USE DEF TypeOK
<1>1. /\ IsTick(tick) /\ IsFile(queue) /\ IsFile(tick.todo) /\ nextId \in Nat
      /\ tick.pc \in {"scope", "decide", "send", "record"} => tick.cur \in DOMAIN tick.todo
      /\ tick.marks \in SUBSET Checkpoints
    BY DEF IsTick
<1>2. ASSUME Quieter, UNCHANGED <<warned, crashes>> PROVE WarnInv'
    <2>. SUFFICES ASSUME NEW i \in Ids, NEW m \in Checkpoints
                  PROVE  warned[i][m] <= crashes + (IF Live(i, m)' THEN 0 ELSE 1)
        BY <1>2 DEF WarnInv
    <2>1. warned[i][m] <= crashes + (IF Live(i, m) THEN 0 ELSE 1)
        BY DEF WarnInv
    <2>2. Live(i, m)' => Live(i, m)
        BY <1>2 DEF Quieter
    <2>3. warned[i][m] \in Nat /\ crashes \in Nat
        OBVIOUS
    <2>. QED  BY <2>1, <2>2, <2>3
<1>3. ASSUME UNCHANGED <<queue, nextId, tick, warned, crashes>> PROVE WarnInv'
    BY <1>1, <1>2, <1>3, QuietFile
<1>4. CASE UNCHANGED vars
    BY <1>3, <1>4 DEF vars
<1>5. ASSUME NEW c \in Clients, NEW t \in Target, GateCount(c, t) PROVE WarnInv'
    BY <1>3, <1>5 DEF GateCount, file, history
<1>6. ASSUME NEW c \in Clients, GateDecide(c) PROVE WarnInv'
    <2>1. UNCHANGED <<tick, warned, crashes>> /\ nextId' \in {nextId, nextId + 1}
        BY <1>6 DEF GateDecide, RunImmediately
    <2>2. CASE queue' = AddEntry(queue, nextId, NewEntry(gate[c].target))
        <3>1. \A i \in DOMAIN queue' : i = nextId \/ (i \in DOMAIN queue /\ queue'[i] = queue[i])
            BY <2>2 DEF AddEntry
        <3>. QED  BY <1>1, <1>2, <2>1, <3>1, QuietFile
    <2>3. CASE queue' = queue
        BY <1>1, <1>2, <2>1, <2>3, QuietFile
    <2>. QED  BY <1>6, <2>2, <2>3 DEF GateDecide
<1>7. ASSUME NEW t \in Target, GateBypass(t) PROVE WarnInv'
    <2>1. UNCHANGED <<queue, tick, warned, crashes>> /\ nextId' = nextId + 1
        BY <1>7 DEF GateBypass, RunImmediately
    <2>. QED  BY <1>1, <1>2, <2>1, QuietFile
<1>8. ASSUME NEW id \in Ids, Cancel(id) PROVE WarnInv'
    <2>1. UNCHANGED <<nextId, tick, warned, crashes>> /\ queue' = RemoveEntry(queue, id)
        BY <1>8 DEF Cancel
    <2>2. \A i \in DOMAIN queue' : i \in DOMAIN queue /\ queue'[i] = queue[i]
        BY <2>1 DEF RemoveEntry
    <2>. QED  BY <1>1, <1>2, <2>1, <2>2, QuietFile
<1>9. ASSUME NEW id \in Ids, RestartNow(id) PROVE WarnInv'
    BY <1>3, <1>9 DEF RestartNow, file, history
<1>10. ASSUME NEW t \in tasks, TaskEnds(t) PROVE WarnInv'
    BY <1>3, <1>10 DEF TaskEnds, file, history
<1>11. CASE TickStart
    <2>1. /\ tick.pc = "idle" /\ tick'.pc = "count" /\ tick'.todo = [i \in Counting(queue) |-> queue[i]]
          /\ UNCHANGED <<queue, nextId, warned, crashes>>
        BY <1>11 DEF TickStart, IdleTick, file, history
    <2>2. \A i, m : Ahead(i, m)' => InFile(i, m)
        BY <2>1 DEF Ahead, InFile, Counting
    <2>. QED  BY <1>2, <2>1, <2>2, QuietTick
<1>12. CASE TickCount
    <2>1. PICK r \in Reading : Advance([tick EXCEPT !.bg = r], tick.todo)
        BY <1>12, SampleType DEF TickCount, Reading
    <2>2. tick.pc = "count" /\ UNCHANGED <<queue, nextId, warned, crashes>>
        BY <1>12 DEF TickCount, file, history
    <2>3. IsTick([tick EXCEPT !.bg = r])
        BY <1>1, CountedTick
    <2>4. \/ tick'.pc = "idle"
          \/ tick'.pc \in {"decide", "scope"} /\ tick'.todo = tick.todo
        BY <2>1, <2>3, AdvanceCopies
    <2>5. \A i, m : Ahead(i, m)' => Ahead(i, m)
        BY <2>2, <2>4 DEF Ahead
    <2>. QED  BY <1>2, <2>2, <2>4, <2>5, QuietTick
<1>13. CASE TickScope
    <2>1. /\ tick.pc = "scope" /\ tick'.pc = "decide" /\ tick'.todo = tick.todo
          /\ UNCHANGED <<queue, nextId, warned, crashes>>
        BY <1>1, <1>13 DEF TickScope, IsTick, file, history
    <2>2. \A i, m : Ahead(i, m)' => Ahead(i, m)
        BY <2>1 DEF Ahead
    <2>. QED  BY <1>2, <2>1, <2>2, QuietTick
<1>14. CASE TickDecide
    <2>1. tick.pc = "decide" /\ UNCHANGED <<queue, nextId, warned, crashes>>
        BY <1>14 DEF TickDecide, file, history
    <2>2. CASE Deadline \/ TickExecutes
        BY <1>1, <1>2, <2>1, <2>2, LeavingIsQuiet, QuietTick
    <2>3. CASE tick' = [tick EXCEPT !.pc = "send", !.marks = Due(Current, tick.now)]
        <3>1. /\ tick'.pc = "send" /\ tick'.marks = Due(Current, tick.now)
              /\ tick'.todo = tick.todo /\ tick'.cur = tick.cur
            BY <1>1, <2>3 DEF IsTick
        <3>2. \A i, m : Ahead(i, m)' => Ahead(i, m)
            BY <2>1, <3>1 DEF Ahead, Due, Current
        <3>. QED  BY <1>2, <2>1, <3>1, <3>2, QuietTick
    <2>. QED  BY <1>14, <2>2, <2>3 DEF TickDecide
<1>15. CASE TickSend
    <2>1. PICK m \in tick.marks : Highest(m, tick.marks) /\ warned' = [warned EXCEPT ![tick.cur][m] = @ + 1]
        BY <1>15 DEF TickSend
    <2>2. /\ tick.pc = "send" /\ tick'.pc = "record" /\ tick'.todo = tick.todo
          /\ tick'.cur = tick.cur /\ tick'.marks = tick.marks
          /\ UNCHANGED <<queue, nextId, crashes>>
        BY <1>1, <1>15 DEF TickSend, IsTick, file
    <2>3. tick.cur \in DOMAIN tick.todo /\ tick.cur \in Ids /\ m \in Checkpoints
        BY <1>1, <2>2 DEF IsFile
    <2>4. Ahead(tick.cur, m)
        BY <2>1, <2>2, <2>3 DEF Ahead
    <2>5. ~Live(tick.cur, m)'
        <3>1. tick.cur < nextId
            BY <2>3 DEF RecoveryInv
        <3>2. ~(tick.cur >= nextId')
            BY <1>1, <2>2, <2>3, <3>1 DEF Ids
        <3>. QED  BY <2>1, <2>2, <3>2 DEF Live, Ahead, InFile, Highest
    <2>6. \A i \in Ids, n \in Checkpoints : Live(i, n)' => Live(i, n)
        BY <2>2 DEF Live, Ahead, InFile
    <2>. SUFFICES ASSUME NEW i \in Ids, NEW n \in Checkpoints
                  PROVE  warned'[i][n] <= crashes + (IF Live(i, n)' THEN 0 ELSE 1)
        BY <2>2 DEF WarnInv
    <2>7. warned[i][n] \in Nat /\ crashes \in Nat
        OBVIOUS
    <2>8. CASE i = tick.cur /\ n = m
        <3>1. warned'[i][n] = warned[i][n] + 1
            BY <2>1, <2>3, <2>8
        <3>2. warned[i][n] <= crashes
            BY <2>4, <2>7, <2>8 DEF WarnInv, Live
        <3>3. ~Live(i, n)'
            BY <2>2, <2>5, <2>8
        <3>. QED  BY <2>7, <3>1, <3>2, <3>3
    <2>9. CASE ~(i = tick.cur /\ n = m)
        <3>1. warned'[i][n] = warned[i][n]
            BY <2>1, <2>3, <2>9
        <3>2. warned[i][n] <= crashes + (IF Live(i, n) THEN 0 ELSE 1)
            BY DEF WarnInv
        <3>. QED  BY <2>6, <2>7, <3>1, <3>2
    <2>. QED  BY <2>8, <2>9
<1>16. CASE TickSendFails
    <2>1. PICK m \in tick.marks : Highest(m, tick.marks) /\ AfterMark(tick.marks \ {m})
        BY <1>16 DEF TickSendFails
    <2>2. tick.pc = "send" /\ UNCHANGED <<queue, nextId, warned, crashes>>
        BY <1>16 DEF TickSendFails, file, history
    <2>3. tick'.pc # "record" /\ \A i, n : Ahead(i, n)' => Ahead(i, n)
        BY <2>1, <2>2, NextMarkIsQuiet
    <2>. QED  BY <1>2, <2>2, <2>3, QuietTick
<1>17. CASE TickRecord
    <2>1. PICK m \in tick.marks : /\ Highest(m, tick.marks) /\ AfterMark(tick.marks \ {m})
                                  /\ queue' = RecordSent(queue, tick.cur, m)
        BY <1>17 DEF TickRecord
    <2>2. tick.pc = "record" /\ UNCHANGED <<nextId, warned, crashes>>
        BY <1>17 DEF TickRecord, history
    <2>3. tick'.pc # "record" /\ \A i, n : Ahead(i, n)' => Ahead(i, n)
        BY <2>1, <2>2, NextMarkIsQuiet
    <2>4. \A i, n : InFile(i, n)' => InFile(i, n)
        <3>1. DOMAIN queue' = DOMAIN queue
            BY <2>1 DEF RecordSent
        <3>2. \A i \in DOMAIN queue : i # tick.cur => queue'[i] = queue[i]
            BY <2>1 DEF RecordSent
        <3>3. tick.cur \in DOMAIN queue => queue'[tick.cur].sent = queue[tick.cur].sent \cup {m}
            BY <1>1, <2>1 DEF RecordSent, IsFile, Entry
        <3>4. \A n : Highest(n, tick.marks) => n = m
            BY <1>1, <2>1, OneHighest
        <3>. QED  BY <2>3, <3>1, <3>2, <3>3, <3>4 DEF InFile
    <2>5. Quieter
        BY <2>2, <2>3, <2>4 DEF Quieter, Live
    <2>. QED  BY <1>2, <2>2, <2>5
<1>18. CASE ExecMark
    <2>1. UNCHANGED <<nextId, tick, warned, crashes>> /\ queue' = MarkRestarting(queue, exec.id)
        BY <1>18 DEF ExecMark, history
    <2>2. \A i \in DOMAIN queue' : i \in DOMAIN queue /\ queue'[i].sent = queue[i].sent
        BY <1>1, <2>1 DEF MarkRestarting, IsFile, Entry
    <2>. QED  BY <1>1, <1>2, <2>1, <2>2, QuietFile
<1>19. CASE ExecFinish
    <2>1. UNCHANGED <<nextId, tick, warned, crashes>> /\ queue' = RemoveEntry(queue, exec.id)
        BY <1>19 DEF ExecFinish
    <2>2. \A i \in DOMAIN queue' : i \in DOMAIN queue /\ queue'[i] = queue[i]
        BY <2>1 DEF RemoveEntry
    <2>. QED  BY <1>1, <1>2, <2>1, <2>2, QuietFile
<1>20. CASE BootExecute
    BY <1>3, <1>20 DEF BootExecute, file, history
<1>21. CASE Crash
    <2>1. warned' = warned /\ crashes' = crashes + 1
        BY <1>21 DEF Crash
    <2>. SUFFICES ASSUME NEW i \in Ids, NEW n \in Checkpoints
                  PROVE  warned[i][n] <= crashes + 1 + (IF Live(i, n)' THEN 0 ELSE 1)
        BY <2>1 DEF WarnInv
    <2>2. warned[i][n] <= crashes + 1 /\ warned[i][n] \in Nat /\ crashes \in Nat
        BY DEF WarnInv
    <2>. QED  BY <2>2
<1>22. CASE Boot
    <2>1. UNCHANGED <<nextId, tick, warned, crashes>> /\ queue' = [i \in Kept(queue) |-> queue[i]]
        BY <1>22 DEF Boot
    <2>2. \A i \in DOMAIN queue' : i \in DOMAIN queue /\ queue'[i] = queue[i]
        BY <2>1 DEF Kept, Counting
    <2>. QED  BY <1>1, <1>2, <2>1, <2>2, QuietFile
<1>23. CASE PlayersMove
    <2>1. /\ tick'.pc = tick.pc /\ tick'.todo = tick.todo /\ tick'.cur = tick.cur
          /\ tick'.marks = tick.marks /\ UNCHANGED <<queue, nextId, warned, crashes>>
        BY <1>1, <1>23 DEF PlayersMove, IsTick, file, history
    <2>. QED  BY <1>1, <1>2, <2>1, QuietFile
<1>24. CASE TimePasses
    BY <1>3, <1>24 DEF TimePasses, file, history
<1>. QED
    BY <1>4, <1>5, <1>6, <1>7, <1>8, <1>9, <1>10, <1>11, <1>12, <1>13, <1>14, <1>15,
       <1>16, <1>17, <1>18, <1>19, <1>20, <1>21, <1>22, <1>23, <1>24 DEF Next, TickStep, ExecStep

\* A checkpoint of a countdown is broadcast once in a life of the console: the tick's
\* copy, the marks it has left and the file agree on what is still to be said.
THEOREM WarnsOncePerLife == Spec => []OneWarningPerLife
<1>1. TypeOK /\ WarnInv => OneWarningPerLife
    <2>. SUFFICES ASSUME TypeOK, WarnInv, NEW i \in Ids, NEW m \in Checkpoints
                  PROVE  warned[i][m] <= 1 + crashes
        BY DEF OneWarningPerLife
    <2>1. warned[i][m] <= crashes + (IF Live(i, m) THEN 0 ELSE 1)
        BY DEF WarnInv
    <2>2. warned[i][m] \in Nat /\ crashes \in Nat
        BY DEF TypeOK
    <2>. QED  BY <2>1, <2>2
<1>2. TypeOK /\ TypeOK' /\ RecoveryInv /\ WarnInv /\ [Next]_vars => WarnInv'
    BY NextWarn
<1>. QED  BY <1>1, <1>2, TypeCorrect, InitRecovery, NextRecovery, InitWarn, PTL DEF Spec

-----------------------------------------------------------------------------
(* No restart before its time *)

\* The tick has noted every target that was empty since it began; a count that says
\* nobody is there is of one of them.
QuietInv ==
    /\ tick.pc # "idle" => Empty(online) \subseteq tick.quiet
    /\ tick.bg = "none" => Target \subseteq tick.quiet
    /\ tick.pc \in {"decide", "send", "record"} /\ tick.online = "none"
          => Current.target \in tick.quiet

LEMMA SampleQuiet ==
    ASSUME NEW t \in Target, Sample(t) = "none"
    PROVE  t \in Empty(online) /\ (t = Battlegroup => Target = Empty(online))
BY TargetAssumption, ScopeAssumption DEF Sample, Present, Empty, Target

\* Going on to an entry takes over the count of the battlegroup.
LEMMA AdvanceQuiet ==
    ASSUME NEW t, IsTick(t), NEW todo, IsFile(todo), Advance(t, todo), online' = online,
           Empty(online) \subseteq t.quiet, t.bg = "none" => Target \subseteq t.quiet
    PROVE  QuietInv'
<1>1. CASE tick' = IdleTick
    BY <1>1 DEF IdleTick, QuietInv
<1>2. ASSUME NEW i \in DOMAIN todo,
             tick' = [t EXCEPT !.todo = todo, !.cur = i, !.marks = {}, !.online = t.bg,
                               !.pc = IF todo[i].target = Battlegroup
                                      THEN "decide" ELSE "scope"]
      PROVE  QuietInv'
    <2>1. /\ tick'.quiet = t.quiet /\ tick'.bg = t.bg /\ tick'.online = t.bg
          /\ tick'.todo = todo /\ tick'.cur = i
        BY <1>2 DEF IsTick
    <2>2. todo[i].target \in Target
        BY DEF IsFile, Entry
    <2>3. Empty(online)' = Empty(online)
        BY DEF Empty, Present
    <2>. QED  BY <2>1, <2>2, <2>3 DEF QuietInv, Current
<1>. QED  BY <1>1, <1>2 DEF Advance

\* Leaving an entry, or going on to its next mark.
LEMMA LeaveQuiet ==
    ASSUME TypeOK, QuietInv, tick.pc # "idle", tick.cur \in DOMAIN tick.todo, online' = online,
           Deadline \/ TickExecutes
    PROVE  QuietInv'
<1>1. IsTick(tick) /\ IsFile(tick.todo)
    BY DEF TypeOK, IsTick
<1>2. IsFile(RemoveEntry(tick.todo, tick.cur))
    BY <1>1, RemoveEntryFile
<1>3. Advance(tick, RemoveEntry(tick.todo, tick.cur))
    BY DEF Deadline, TickExecutes, TickLeaves
<1>4. Empty(online) \subseteq tick.quiet /\ (tick.bg = "none" => Target \subseteq tick.quiet)
    BY DEF QuietInv
<1>. QED  BY <1>1, <1>2, <1>3, <1>4, AdvanceQuiet

\* The tick stays at its entry.
LEMMA StayQuiet ==
    ASSUME QuietInv, tick.pc \in {"decide", "send", "record"}, online' = online,
           tick'.todo = tick.todo, tick'.cur = tick.cur, tick'.bg = tick.bg,
           tick'.online = tick.online, tick'.quiet = tick.quiet
    PROVE  QuietInv'
BY DEF QuietInv, Current, Empty, Present

LEMMA MarkQuiet ==
    ASSUME TypeOK, QuietInv, tick.pc \in {"send", "record"}, online' = online,
           NEW rest \in SUBSET Checkpoints, AfterMark(rest)
    PROVE  QuietInv'
<1>1. IsTick(tick) /\ tick.cur \in DOMAIN tick.todo
    BY DEF TypeOK, IsTick
<1>2. CASE tick' = [tick EXCEPT !.pc = "send", !.marks = rest]
    <2>1. /\ tick'.todo = tick.todo /\ tick'.cur = tick.cur /\ tick'.bg = tick.bg
          /\ tick'.online = tick.online /\ tick'.quiet = tick.quiet
        BY <1>1, <1>2 DEF IsTick
    <2>. QED  BY <2>1, StayQuiet
<1>3. CASE Deadline
    BY <1>1, <1>3, LeaveQuiet
<1>. QED  BY <1>2, <1>3 DEF AfterMark

LEMMA InitQuiet == Init => QuietInv
BY DEF Init, IdleTick, QuietInv

LEMMA NextQuiet == TypeOK /\ QuietInv /\ [Next]_vars => QuietInv'
<1>. SUFFICES ASSUME TypeOK, QuietInv, [Next]_vars PROVE QuietInv'
    OBVIOUS
<1>1. /\ IsTick(tick) /\ IsFile(tick.todo)
      /\ tick.pc \in {"scope", "decide", "send", "record"} => tick.cur \in DOMAIN tick.todo
      /\ tick.marks \in SUBSET Checkpoints
    BY DEF TypeOK, IsTick
<1>2. ASSUME UNCHANGED <<tick, online>> PROVE QuietInv'
    BY <1>2 DEF QuietInv, Current, Empty, Present
<1>3. CASE UNCHANGED vars
    BY <1>2, <1>3 DEF vars
<1>4. ASSUME NEW c \in Clients, (\E t \in Target : GateCount(c, t)) \/ GateDecide(c) PROVE QuietInv'
    BY <1>2, <1>4 DEF GateCount, GateDecide
<1>5. ASSUME NEW t \in Target, GateBypass(t) PROVE QuietInv'
    BY <1>2, <1>5 DEF GateBypass
<1>6. ASSUME NEW id \in Ids, Cancel(id) \/ RestartNow(id) PROVE QuietInv'
    BY <1>2, <1>6 DEF Cancel, RestartNow
<1>7. ASSUME NEW t \in tasks, TaskEnds(t) PROVE QuietInv'
    BY <1>2, <1>7 DEF TaskEnds
<1>8. CASE TickStart
    <2>1. tick'.quiet = Empty(online) /\ tick'.bg = "unknown" /\ tick'.pc = "count" /\ online' = online
        BY <1>8 DEF TickStart, IdleTick
    <2>. QED  BY <2>1 DEF QuietInv, Empty, Present
<1>9. CASE TickCount
    <2>1. PICK r \in {Sample(Battlegroup), "unknown"} : Advance([tick EXCEPT !.bg = r], tick.todo)
        BY <1>9 DEF TickCount
    <2>2. IsTick([tick EXCEPT !.bg = r])
        BY <1>1, CountedTick, SampleType DEF Reading
    <2>3. [tick EXCEPT !.bg = r].bg = r /\ [tick EXCEPT !.bg = r].quiet = tick.quiet
        BY <1>1 DEF IsTick
    <2>4. online' = online /\ tick.pc = "count"
        BY <1>9 DEF TickCount
    <2>5. Empty(online) \subseteq tick.quiet
        BY <2>4 DEF QuietInv
    <2>6. r = "none" => Target \subseteq tick.quiet
        BY <2>1, <2>5, SampleQuiet DEF Target
    <2>. QED  BY <1>1, <2>1, <2>2, <2>3, <2>4, <2>5, <2>6, AdvanceQuiet
<1>10. CASE TickScope
    <2>1. PICK r \in {Sample(Current.target), tick.bg} : tick' = [tick EXCEPT !.pc = "decide", !.online = r]
        BY <1>10 DEF TickScope
    <2>2. /\ tick'.pc = "decide" /\ tick'.online = r /\ tick'.todo = tick.todo
          /\ tick'.cur = tick.cur /\ tick'.bg = tick.bg /\ tick'.quiet = tick.quiet
        BY <1>1, <2>1 DEF IsTick
    <2>3. online' = online /\ tick.pc = "scope" /\ Current.target \in Target
        BY <1>1, <1>10, CurrentTypes DEF TickScope
    <2>4. r = "none" => Current.target \in tick.quiet
        BY <2>1, <2>3, SampleQuiet DEF QuietInv
    <2>. QED  BY <2>2, <2>3, <2>4 DEF QuietInv, Current, Empty, Present
<1>11. CASE TickDecide
    <2>1. tick.pc = "decide" /\ online' = online
        BY <1>11 DEF TickDecide
    <2>2. CASE Deadline \/ TickExecutes
        BY <1>1, <2>1, <2>2, LeaveQuiet
    <2>3. CASE tick' = [tick EXCEPT !.pc = "send", !.marks = Due(Current, tick.now)]
        <3>1. /\ tick'.todo = tick.todo /\ tick'.cur = tick.cur /\ tick'.bg = tick.bg
              /\ tick'.online = tick.online /\ tick'.quiet = tick.quiet
            BY <1>1, <2>3 DEF IsTick
        <3>. QED  BY <2>1, <3>1, StayQuiet
    <2>. QED  BY <1>11, <2>2, <2>3 DEF TickDecide
<1>12. CASE TickSend
    <2>1. /\ tick'.todo = tick.todo /\ tick'.cur = tick.cur /\ tick'.bg = tick.bg
          /\ tick'.online = tick.online /\ tick'.quiet = tick.quiet
        BY <1>1, <1>12 DEF TickSend, IsTick
    <2>. QED  BY <1>12, <2>1, StayQuiet DEF TickSend
<1>13. CASE TickSendFails \/ TickRecord
    <2>1. PICK m \in tick.marks : AfterMark(tick.marks \ {m})
        BY <1>13 DEF TickSendFails, TickRecord
    <2>2. tick.pc \in {"send", "record"} /\ online' = online /\ tick.marks \ {m} \in SUBSET Checkpoints
        BY <1>1, <1>13 DEF TickSendFails, TickRecord
    <2>. QED  BY <2>1, <2>2, MarkQuiet
<1>14. CASE ExecMark \/ ExecFinish \/ BootExecute \/ Boot \/ TimePasses
    BY <1>2, <1>14 DEF ExecMark, ExecFinish, BootExecute, Boot, TimePasses
<1>15. CASE Crash
    BY <1>15 DEF Crash, IdleTick, QuietInv
<1>16. CASE PlayersMove
    <2>1. CASE tick.pc = "idle"
        <3>1. tick' = tick
            BY <1>16, <2>1 DEF PlayersMove
        <3>. QED  BY <2>1, <3>1 DEF QuietInv
    <2>2. CASE tick.pc # "idle"
        <3>1. tick' = [tick EXCEPT !.quiet = @ \cup Empty(online')]
            BY <1>16, <2>2 DEF PlayersMove
        <3>2. /\ tick'.todo = tick.todo /\ tick'.cur = tick.cur /\ tick'.bg = tick.bg
              /\ tick'.pc = tick.pc /\ tick'.online = tick.online
              /\ tick'.quiet = tick.quiet \cup Empty(online')
            BY <1>1, <3>1 DEF IsTick
        <3>. QED  BY <3>2 DEF QuietInv, Current
    <2>. QED  BY <2>1, <2>2
<1>. QED
    BY <1>3, <1>4, <1>5, <1>6, <1>7, <1>8, <1>9, <1>10, <1>11, <1>12, <1>13, <1>14, <1>15,
       <1>16 DEF Next, TickStep, ExecStep

\* The tick ends a countdown early only if its target had no player at some moment of
\* that tick: not because a count failed, or of players who are elsewhere.
THEOREM TickNeverEarly == Spec => NoEarlyRestart
<1>. DEFINE Early == \A i \in DOMAIN tick.todo :
                        exec = IdleExec /\ exec' # IdleExec /\ exec'.by = "tick" /\ exec'.id = i
                          => \/ tick.todo[i].target \in tick.quiet
                             \/ clock >= tick.todo[i].restartAt
<1>1. ASSUME TypeOK, QuietInv, [Next]_vars PROVE [Early]_vars
    <2>. SUFFICES ASSUME NEW i \in DOMAIN tick.todo, exec = IdleExec, exec' # IdleExec,
                         exec'.by = "tick", exec'.id = i
                  PROVE  \/ tick.todo[i].target \in tick.quiet
                         \/ clock >= tick.todo[i].restartAt
        OBVIOUS
    <2>1. /\ TickExecutes
          /\ \/ tick.pc = "decide" /\ tick.online = "none"
             \/ clock >= Current.restartAt
        <3>1. CASE TickDecide
            BY <3>1 DEF TickDecide, Deadline, TickLeaves
        <3>2. CASE TickSendFails \/ TickRecord
            BY <3>2 DEF TickSendFails, TickRecord, AfterMark, Deadline, TickLeaves
        <3>3. ASSUME NEW id \in Ids, RestartNow(id) PROVE FALSE
            BY <3>3 DEF RestartNow, StartExecute
        <3>4. CASE BootExecute \/ ExecMark
            BY <3>4 DEF BootExecute, StartExecute, ExecMark, IdleExec
        <3>5. ASSUME exec' = exec PROVE FALSE
            BY <3>5
        <3>6. ASSUME NEW c \in Clients, (\E t \in Target : GateCount(c, t)) \/ GateDecide(c) PROVE FALSE
            BY <3>5, <3>6 DEF GateCount, GateDecide
        <3>7. ASSUME \/ \E t \in Target : GateBypass(t)
                     \/ \E id \in Ids : Cancel(id)
                     \/ \E t \in tasks : TaskEnds(t)
              PROVE  FALSE
            BY <3>5, <3>7 DEF GateBypass, Cancel, TaskEnds
        <3>8. CASE UNCHANGED vars \/ TickStart \/ TickCount \/ TickScope \/ TickSend \/ Boot
                   \/ PlayersMove \/ TimePasses
            BY <3>5, <3>8 DEF vars, TickStart, TickCount, TickScope, TickSend, Boot, PlayersMove,
                              TimePasses
        <3>9. CASE ExecFinish \/ Crash
            BY <3>9 DEF ExecFinish, Crash
        <3>. QED  BY <1>1, <3>1, <3>2, <3>3, <3>4, <3>6, <3>7, <3>8, <3>9 DEF Next, TickStep, ExecStep
    <2>2. i = tick.cur
        BY <2>1 DEF TickExecutes, StartExecute
    <2>. QED  BY <1>1, <2>1, <2>2 DEF QuietInv, Current
<1>2. Spec => []QuietInv
    BY TypeCorrect, InitQuiet, NextQuiet, PTL DEF Spec
<1>. QED  BY <1>1, <1>2, TypeCorrect, PTL DEF Spec, NoEarlyRestart
=============================================================================
