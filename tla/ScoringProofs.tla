--------------------------- MODULE ScoringProofs ---------------------------
(***************************************************************************)
(* Theorems about background scoring, for every value of the constants.    *)
(***************************************************************************)
EXTENDS Scoring, FiniteSetTheorems, SequenceTheorems, TLAPS

-----------------------------------------------------------------------------
(* Strengthenings.                                                         *)

\* A live coroutine and a sweep's backlog name rows that were inserted.
KnownComps ==
  /\ \A t \in Task : Live(t) => task[t].comp \in Comp /\ status[task[t].comp] # "absent"
  /\ \A s \in Sweep : \A c \in sweep[s].todo : status[c] # "absent"

\* A process that is down holds nothing in memory.
DownIsEmpty ==
  phase = "down" =>
    /\ \A t \in Task : task[t] = FreeTask
    /\ \A s \in Sweep : sweep[s] = IdleSweep
    /\ waiting = <<>>
    /\ permits = MaxWorkers

\* An empty read is explained by outputs that are still gone.
ReadFresh ==
  \A t \in Task :
    task[t].pc \in {"write", "inline_write"} /\ outputs[task[t].comp] => task[t].read

\* Without the admin endpoint only the startup sweep runs, before serving.
OnlyBootSweeps ==
  /\ \A s \in AdminSweep : sweep[s] = IdleSweep
  /\ phase = "serving" => sweep[Boot] = IdleSweep

\* What is being scored or recovered is not settled yet.
WorkIsUnsettled ==
  /\ \A t \in Task : Live(t) => status[task[t].comp] \notin Terminal
  /\ \A s \in Sweep : \A c \in sweep[s].todo : status[c] \notin Terminal
-----------------------------------------------------------------------------
(* Type correctness.                                                       *)

LEMMA FreeTaskType == FreeTask \in TaskRec
BY DEF TaskRec

\* Setting the program counter of a live coroutine keeps its type.
LEMMA PcType ==
  ASSUME NEW r \in TaskRec, r.pc # "free", NEW p \in {"wait", "mark", "read", "onerror"}
  PROVE  [r EXCEPT !.pc = p] \in TaskRec
BY DEF TaskRec, FreeTask

LEMMA TwoFields ==
  ASSUME NEW P, NEW C, NEW p \in P, NEW b \in BOOLEAN,
         NEW r \in [pc: P, comp: C, evals: BOOLEAN, read: BOOLEAN]
  PROVE  [r EXCEPT !.pc = p, !.read = b] \in
           [pc: P, comp: C, evals: BOOLEAN, read: BOOLEAN]
OBVIOUS

LEMMA ReadType ==
  ASSUME NEW r \in TaskRec, r.pc # "free", NEW p \in {"write", "inline_write"},
         NEW b \in BOOLEAN
  PROVE  [r EXCEPT !.pc = p, !.read = b] \in TaskRec
<1>1. r # FreeTask
  BY DEF FreeTask
<1>2. QED
  BY <1>1, TwoFields DEF TaskRec

\* A coroutine that starts is well typed.
LEMMA NewTaskType ==
  ASSUME NEW c \in Comp, NEW cfg \in BOOLEAN, NEW p \in {"enter", "inline_read"}
  PROVE  [pc |-> p, comp |-> c, evals |-> cfg, read |-> FALSE] \in TaskRec
BY DEF TaskRec

LEMMA LiveComp ==
  ASSUME TypeOK, NEW t \in Task, task[t].pc # "free"
  PROVE  task[t].comp \in Comp /\ task[t].evals \in BOOLEAN /\ task[t].read \in BOOLEAN
<1>1. task[t] \in TaskRec
  BY DEF TypeOK
<1>2. QED
  BY <1>1 DEF TaskRec, FreeTask

\* The coroutine at the head of the queue is suspended.
LEMMA HeadWaits ==
  ASSUME TypeOK, WaitersQueued, waiting # <<>>
  PROVE  /\ Head(waiting) \in Task
         /\ task[Head(waiting)].pc = "wait"
         /\ Tail(waiting) \in Seq(Task)
<1>1. 1 \in DOMAIN waiting /\ waiting[1] = Head(waiting) /\ Head(waiting) \in Task
  BY DEF TypeOK
<1>2. QED
  BY <1>1 DEF TypeOK, WaitersQueued

\* Leaving the semaphore keeps the types.
LEMMA ReleaseType ==
  ASSUME TypeOK, WaitersQueued, NEW t \in Task, task[t].pc \in InSemaphore, Release(t)
  PROVE  /\ task' \in [Task -> TaskRec]
         /\ waiting' \in Seq(Task)
         /\ permits' \in Nat
<1>1. CASE waiting = <<>>
  BY <1>1, FreeTaskType DEF Release, TypeOK
<1>2. CASE waiting # <<>>
  <2> DEFINE h == Head(waiting)
  <2>1. h \in Task /\ task[h].pc = "wait" /\ h # t /\ Tail(waiting) \in Seq(Task)
    BY <1>2, HeadWaits DEF InSemaphore
  <2>2. [task[h] EXCEPT !.pc = "mark"] \in TaskRec
    BY <2>1, PcType DEF TypeOK
  <2>3. QED
    BY <1>2, <2>1, <2>2, FreeTaskType DEF Release, TypeOK
<1>3. QED
  BY <1>1, <1>2

LEMMA SweepType ==
  ASSUME TypeOK, NEW s \in Sweep, NEW found \in SUBSET Comp, StartSweep(s, found)
  PROVE  sweep' \in [Sweep -> SweepRec]
<1>1. IdleSweep \in SweepRec /\ [pc |-> "reset", todo |-> found] \in SweepRec
  BY DEF IdleSweep, SweepRec
<1>2. QED
  BY <1>1 DEF StartSweep, TypeOK

\* The forms of UPDATE keep the columns' types.
LEMMA StatusType ==
  ASSUME TypeOK, NEW c, NEW st \in Status, SetStatus(c, st)
  PROVE  status' \in [Comp -> Status] /\ score' \in [Comp -> SUBSET ScorePart]
BY DEF TypeOK, SetStatus

LEMMA ScoresType ==
  ASSUME TypeOK, NEW c, NEW parts \in SUBSET ScorePart,
         SetScores(c, parts) \/ SetDivergence(c, parts)
  PROVE  status' \in [Comp -> Status] /\ score' \in [Comp -> SUBSET ScorePart]
<1>1. "completed" \in Status
  BY DEF Status
<1>2. CASE SetScores(c, parts)
  BY <1>1, <1>2 DEF TypeOK, SetScores, rows
<1>3. CASE SetDivergence(c, parts)
  BY <1>1, <1>3 DEF TypeOK, SetDivergence, rows
<1>4. QED
  BY <1>2, <1>3

LEMMA WorkType ==
  ASSUME TypeOK, WaitersQueued, NEW t \in Task, Work(t)
  PROVE  TypeOK'
<1>0. task[t] \in TaskRec /\ Produced(t) \in SUBSET ScorePart
  BY DEF TypeOK, Produced, ScorePart
<1>1. CASE Acquire(t)
  <2>1. [task[t] EXCEPT !.pc = "mark"] \in TaskRec /\ [task[t] EXCEPT !.pc = "wait"] \in TaskRec
    BY <1>0, <1>1, PcType DEF Acquire
  <2>2. CASE permits > 0 /\ waiting = <<>>
    BY <1>1, <2>1, <2>2 DEF Acquire, rows, TypeOK
  <2>3. CASE ~(permits > 0 /\ waiting = <<>>)
    <3>1. Append(waiting, t) \in Seq(Task)
      BY DEF TypeOK
    <3>2. QED
      BY <1>1, <2>1, <2>3, <3>1 DEF Acquire, rows, TypeOK
  <2>4. QED
    BY <2>2, <2>3
<1>2. CASE MarkRunning(t)
  <2>1. status' \in [Comp -> Status] /\ score' \in [Comp -> SUBSET ScorePart]
    BY <1>2, StatusType DEF MarkRunning, Status
  <2>2. [task[t] EXCEPT !.pc = "read"] \in TaskRec
    BY <1>0, <1>2, PcType DEF MarkRunning
  <2>3. QED
    BY <1>2, <2>1, <2>2 DEF MarkRunning, TypeOK
<1>3. CASE ReadOutputs(t) \/ InlineRead(t)
  <2>1. outputs[task[t].comp] \in BOOLEAN
    BY <1>3, LiveComp DEF ReadOutputs, InlineRead, TypeOK
  <2>2. \A p \in {"write", "inline_write"} :
          [task[t] EXCEPT !.pc = p, !.read = outputs[task[t].comp]] \in TaskRec
    BY <1>0, <1>3, <2>1, ReadType DEF ReadOutputs, InlineRead
  <2>3. QED
    BY <1>3, <2>2 DEF ReadOutputs, InlineRead, rows, TypeOK
<1>4. CASE WriteScores(t)
  <2>1. status' \in [Comp -> Status] /\ score' \in [Comp -> SUBSET ScorePart]
    BY <1>0, <1>4, ScoresType DEF WriteScores
  <2>2. QED
    BY <1>4, <2>1, ReleaseType DEF WriteScores, InSemaphore, TypeOK
<1>5. CASE Raise(t)
  <2>1. [task[t] EXCEPT !.pc = "onerror"] \in TaskRec
    BY <1>0, <1>5, PcType DEF Raise
  <2>2. QED
    BY <1>5, <2>1 DEF Raise, rows, TypeOK
<1>6. CASE MarkFailed(t)
  <2>1. status' \in [Comp -> Status] /\ score' \in [Comp -> SUBSET ScorePart]
    BY <1>6, StatusType DEF MarkFailed, Status
  <2>2. QED
    BY <1>6, <2>1, ReleaseType DEF MarkFailed, InSemaphore, TypeOK
<1>7. CASE LoseFailure(t)
  BY <1>7, ReleaseType DEF LoseFailure, InSemaphore, rows, TypeOK
<1>8. CASE InlineWrite(t)
  <2>1. status' \in [Comp -> Status] /\ score' \in [Comp -> SUBSET ScorePart]
    BY <1>8, ScoresType DEF InlineWrite, ScorePart
  <2>2. QED
    BY <1>8, <2>1, FreeTaskType DEF InlineWrite, TypeOK
<1>9. CASE InlineRaise(t)
  BY <1>9, FreeTaskType DEF InlineRaise, rows, TypeOK
<1>10. QED
  BY <1>1, <1>2, <1>3, <1>4, <1>5, <1>6, <1>7, <1>8, <1>9 DEF Work

LEMMA SweepStepType ==
  ASSUME TypeOK, NEW s \in Sweep, SweepStep(s)
  PROVE  TypeOK'
<1>1. ASSUME NEW c \in Comp, SweepReset(s, c)
      PROVE  TypeOK'
  <2>1. status' \in [Comp -> Status] /\ score' \in [Comp -> SUBSET ScorePart]
    BY <1>1, StatusType DEF SweepReset, Status, rows, TypeOK
  <2>2. [sweep[s] EXCEPT !.pc = "spawn"] \in SweepRec
    BY DEF TypeOK, SweepRec
  <2>3. QED
    BY <1>1, <2>1, <2>2 DEF SweepReset, TypeOK
<1>2. ASSUME NEW c \in Comp, NEW t \in Task, SweepSpawn(s, c, t)
      PROVE  TypeOK'
  <2>1. sweep[s].todo \ {c} \in SUBSET Comp
    BY DEF TypeOK, SweepRec
  <2>2. sweep' \in [Sweep -> SweepRec]
    BY <1>2, <2>1, SweepType DEF SweepSpawn
  <2>3. QED
    BY <1>2, <2>2, NewTaskType DEF SweepSpawn, rows, TypeOK
<1>3. QED
  BY <1>1, <1>2 DEF SweepStep

LEMMA OtherType ==
  ASSUME TypeOK,
         \/ Request \/ BootSweep \/ Crash
         \/ \E s \in AdminSweep : StartAdminSweep(s)
  PROVE  TypeOK'
<1>1. ASSUME NEW c \in Comp, Insert(c)
      PROVE  status' \in [Comp -> Status] /\ outputs' \in [Comp -> BOOLEAN]
  BY <1>1 DEF Insert, TypeOK, Status
<1>2. ASSUME NEW c \in Comp, NEW t \in Task, NEW cfg \in BOOLEAN, SdkCreate(c, t, cfg)
      PROVE  TypeOK'
  BY <1>1, <1>2, NewTaskType DEF SdkCreate, TypeOK
<1>3. ASSUME NEW c \in Comp, NEW t \in Task, RunnerCreate(c, t)
      PROVE  TypeOK'
  BY <1>1, <1>3, NewTaskType DEF RunnerCreate, TypeOK
<1>4. ASSUME NEW c \in Comp, DeleteComparison(c) \/ Prune(c)
      PROVE  TypeOK'
  BY <1>4 DEF DeleteComparison, Prune, rows, TypeOK, Status
<1>5. OldestUnscored \in SUBSET Comp
  BY DEF OldestUnscored, Unscored
<1>6. CASE BootSweep
  <2>1. sweep' \in [Sweep -> SweepRec]
    BY <1>5, <1>6, SweepType DEF BootSweep, Sweep
  <2>2. QED
    BY <1>6, <2>1 DEF BootSweep, rows, TypeOK
<1>7. ASSUME NEW s \in AdminSweep, StartAdminSweep(s)
      PROVE  TypeOK'
  <2>1. sweep' \in [Sweep -> SweepRec]
    BY <1>5, <1>7, SweepType DEF StartAdminSweep, Sweep
  <2>2. QED
    BY <1>7, <2>1, ScoringAssumption DEF StartAdminSweep, rows, TypeOK
<1>8. CASE Crash
  <2>1. IdleSweep \in SweepRec
    BY DEF IdleSweep, SweepRec
  <2>2. QED
    BY <1>8, <2>1, FreeTaskType, ScoringAssumption DEF Crash, rows, TypeOK
<1>9. QED
  BY <1>2, <1>3, <1>4, <1>6, <1>7, <1>8 DEF Request

-----------------------------------------------------------------------------
(* The semaphore.                                                          *)

SemaphoreInv == TypeOK /\ WaitersQueued /\ PermitsConserved

LEMMA ActiveFinite == IsFiniteSet(Active) /\ Cardinality(Active) \in Nat
BY FS_Subset, FS_CardinalityType, ScoringAssumption DEF Active

\* A step that suspends, admits and wakes no coroutine.
LEMMA SemaphoreUntouched ==
  ASSUME SemaphoreInv, waiting' = waiting, permits' = permits,
         \A t \in Task :
           /\ task'[t].pc = "wait" <=> task[t].pc = "wait"
           /\ task'[t].pc \in InSemaphore <=> task[t].pc \in InSemaphore
  PROVE  WaitersQueued' /\ PermitsConserved'
<1>1. Active' = Active
  BY DEF Active, InSemaphore
<1>2. PermitsConserved'
  BY <1>1 DEF SemaphoreInv, PermitsConserved
<1>3. WaitersQueued'
  <2>1. \A t \in Task : task'[t].pc = "wait" <=> \E i \in DOMAIN waiting' : waiting'[i] = t
    BY DEF SemaphoreInv, WaitersQueued
  <2>2. \A i, j \in DOMAIN waiting' : waiting'[i] = waiting'[j] => i = j
    BY DEF SemaphoreInv, WaitersQueued
  <2>3. QED
    BY <2>1, <2>2 DEF WaitersQueued
<1>4. QED
  BY <1>2, <1>3

LEMMA AcquireSemaphore ==
  ASSUME SemaphoreInv, NEW t \in Task, Acquire(t)
  PROVE  WaitersQueued' /\ PermitsConserved'
<1> USE DEF SemaphoreInv
<1>1. task[t].pc = "enter" /\ t \notin Active
  BY DEF Acquire, Active, InSemaphore
<1>2. CASE permits > 0 /\ waiting = <<>>
  <2>1. /\ task' = [task EXCEPT ![t].pc = "mark"] /\ waiting' = <<>>
        /\ permits' = permits - 1
    BY <1>2 DEF Acquire
  <2>2. Active' = Active \union {t}
    BY <2>1 DEF Active, InSemaphore, TypeOK
  <2>3. Cardinality(Active') = Cardinality(Active) + 1
    BY <1>1, <2>2, ActiveFinite, FS_AddElement
  <2>4. PermitsConserved'
    BY <1>2, <2>1, <2>3, ActiveFinite DEF PermitsConserved, TypeOK
  <2>5. WaitersQueued'
    BY <1>1, <1>2, <2>1 DEF WaitersQueued, TypeOK
  <2>6. QED
    BY <2>4, <2>5
<1>3. CASE ~(permits > 0 /\ waiting = <<>>)
  <2>1. /\ task' = [task EXCEPT ![t].pc = "wait"]
        /\ waiting' = Append(waiting, t)
        /\ permits' = permits
    BY <1>3 DEF Acquire
  <2>2. Active' = Active
    BY <1>1, <2>1 DEF Active, InSemaphore, TypeOK
  <2>3. PermitsConserved'
    BY <1>3, <2>1, <2>2 DEF PermitsConserved, TypeOK
  <2>4. /\ DOMAIN waiting = 1..Len(waiting) /\ Len(waiting) \in Nat
        /\ DOMAIN waiting' = 1..(Len(waiting) + 1)
        /\ \A i \in 1..Len(waiting) : waiting'[i] = waiting[i]
        /\ waiting'[Len(waiting) + 1] = t
    BY <2>1, AppendProperties DEF TypeOK
  <2>5. \A i \in DOMAIN waiting : waiting[i] # t
    BY <1>1 DEF WaitersQueued
  <2>6. \A u \in Task : task'[u].pc = "wait" <=> (u = t \/ task[u].pc = "wait")
    BY <2>1 DEF TypeOK
  <2>7. WaitersQueued'
    BY <2>4, <2>5, <2>6 DEF WaitersQueued
  <2>8. QED
    BY <2>3, <2>7
<1>4. QED
  BY <1>2, <1>3

LEMMA ReleaseSemaphore ==
  ASSUME SemaphoreInv, NEW t \in Task, task[t].pc \in InSemaphore, Release(t)
  PROVE  WaitersQueued' /\ PermitsConserved'
<1> USE DEF SemaphoreInv
<1>1. t \in Active /\ FreeTask.pc = "free"
  BY DEF Active, FreeTask
<1>2. Cardinality(Active \ {t}) = Cardinality(Active) - 1 /\ IsFiniteSet(Active \ {t})
  BY <1>1, ActiveFinite, FS_RemoveElement
<1>3. CASE waiting = <<>>
  <2>1. /\ task' = [task EXCEPT ![t] = FreeTask] /\ waiting' = <<>>
        /\ permits' = permits + 1
    BY <1>3 DEF Release
  <2>2. Active' = Active \ {t}
    BY <1>1, <2>1 DEF Active, InSemaphore, TypeOK
  <2>3. PermitsConserved'
    BY <1>2, <2>1, <2>2, ActiveFinite, ScoringAssumption DEF PermitsConserved, TypeOK
  <2>4. WaitersQueued'
    BY <1>1, <1>3, <2>1 DEF WaitersQueued, InSemaphore, TypeOK
  <2>5. QED
    BY <2>3, <2>4
<1>4. CASE waiting # <<>>
  <2> DEFINE h == Head(waiting)
  <2>1. h \in Task /\ task[h].pc = "wait" /\ h # t /\ h = waiting[1]
    BY <1>4, HeadWaits DEF InSemaphore, TypeOK
  <2>2. /\ waiting' = Tail(waiting) /\ permits' = permits
        /\ task' = [task EXCEPT ![t] = FreeTask, ![h].pc = "mark"]
    BY <1>4 DEF Release
  <2>3. /\ task'[t].pc = "free" /\ task'[h].pc = "mark"
        /\ \A u \in Task \ {t, h} : task'[u] = task[u]
    BY <1>1, <2>1, <2>2 DEF TypeOK
  <2>4. h \notin Active /\ Active' = (Active \ {t}) \union {h}
    BY <2>1, <2>3 DEF Active, InSemaphore
  <2>5. Cardinality(Active') = Cardinality(Active)
    <3>1. Cardinality((Active \ {t}) \union {h}) = Cardinality(Active \ {t}) + 1
      BY <1>2, <2>4, FS_AddElement
    <3>2. QED
      BY <1>2, <2>4, <3>1, ActiveFinite
  <2>6. PermitsConserved'
    BY <1>4, <2>2, <2>5 DEF PermitsConserved
  <2>7. /\ DOMAIN waiting = 1..Len(waiting) /\ Len(waiting) \in Nat \ {0}
        /\ DOMAIN waiting' = 1..(Len(waiting) - 1)
        /\ \A i \in 1..(Len(waiting) - 1) : waiting'[i] = waiting[i + 1]
    BY <1>4, <2>2, HeadTailProperties, EmptySeq DEF TypeOK
  <2>8. \A u \in Task : task'[u].pc = "wait" <=> (u # h /\ task[u].pc = "wait")
    BY <2>1, <2>3 DEF InSemaphore
  <2>9. \A i \in DOMAIN waiting : waiting[i] = h <=> i = 1
    BY <2>1, <2>7 DEF WaitersQueued
  <2>10. ASSUME NEW u \in Task
         PROVE  (\E i \in DOMAIN waiting' : waiting'[i] = u)
                  <=> (u # h /\ \E i \in DOMAIN waiting : waiting[i] = u)
    <3>1. ASSUME NEW i \in DOMAIN waiting', waiting'[i] = u
          PROVE  u # h /\ \E j \in DOMAIN waiting : waiting[j] = u
      BY <2>7, <2>9, <3>1
    <3>2. ASSUME NEW i \in DOMAIN waiting, waiting[i] = u, u # h
          PROVE  \E j \in DOMAIN waiting' : waiting'[j] = u
      <4>1. i - 1 \in DOMAIN waiting' /\ waiting'[i - 1] = u
        BY <2>7, <2>9, <3>2
      <4>2. QED
        BY <4>1
    <3>3. QED
      BY <3>1, <3>2
  <2>11. \A i, j \in DOMAIN waiting' : waiting'[i] = waiting'[j] => i = j
    BY <2>7 DEF WaitersQueued
  <2>12. WaitersQueued'
    BY <2>8, <2>10, <2>11 DEF WaitersQueued
  <2>13. QED
    BY <2>6, <2>12
<1>5. QED
  BY <1>3, <1>4

LEMMA WorkSemaphore ==
  ASSUME SemaphoreInv, NEW t \in Task, Work(t)
  PROVE  WaitersQueued' /\ PermitsConserved'
<1> USE DEF InSemaphore
<1>1. CASE Acquire(t)
  BY <1>1, AcquireSemaphore
<1>2. CASE WriteScores(t) \/ MarkFailed(t) \/ LoseFailure(t)
  BY <1>2, ReleaseSemaphore DEF WriteScores, MarkFailed, LoseFailure
<1>3. ASSUME NEW p \in {"read", "write", "onerror", "inline_write", "free"},
             \/ task[t].pc \in InSemaphore /\ p \in InSemaphore
             \/ task[t].pc \in {"inline_read", "inline_write"} /\ p \notin InSemaphore,
             task'[t].pc = p,
             \A u \in Task \ {t} : task'[u] = task[u],
             waiting' = waiting, permits' = permits
      PROVE  WaitersQueued' /\ PermitsConserved'
  BY <1>3, SemaphoreUntouched
<1>4. CASE MarkRunning(t)
  <2>1. task'[t].pc = "read" /\ \A u \in Task \ {t} : task'[u] = task[u]
    BY <1>4 DEF MarkRunning, SemaphoreInv, TypeOK
  <2>2. task[t].pc \in InSemaphore /\ waiting' = waiting /\ permits' = permits
    BY <1>4 DEF MarkRunning
  <2>3. QED
    BY <1>3, <2>1, <2>2
<1>5. CASE ReadOutputs(t)
  <2>1. task'[t].pc = "write" /\ \A u \in Task \ {t} : task'[u] = task[u]
    BY <1>5 DEF ReadOutputs, SemaphoreInv, TypeOK
  <2>2. task[t].pc \in InSemaphore /\ waiting' = waiting /\ permits' = permits
    BY <1>5 DEF ReadOutputs
  <2>3. QED
    BY <1>3, <2>1, <2>2
<1>6. CASE Raise(t)
  <2>1. task'[t].pc = "onerror" /\ \A u \in Task \ {t} : task'[u] = task[u]
    BY <1>6 DEF Raise, SemaphoreInv, TypeOK
  <2>2. task[t].pc \in InSemaphore /\ waiting' = waiting /\ permits' = permits
    BY <1>6 DEF Raise
  <2>3. QED
    BY <1>3, <2>1, <2>2
<1>7. CASE InlineRead(t)
  BY <1>3, <1>7 DEF InlineRead, SemaphoreInv, TypeOK
<1>8. CASE InlineWrite(t)
  BY <1>3, <1>8 DEF InlineWrite, FreeTask, SemaphoreInv, TypeOK
<1>9. CASE InlineRaise(t)
  BY <1>3, <1>9 DEF InlineRaise, FreeTask, SemaphoreInv, TypeOK
<1>10. QED
  BY <1>1, <1>2, <1>4, <1>5, <1>6, <1>7, <1>8, <1>9 DEF Work

\* Starting a coroutine, or touching no coroutine at all.
LEMMA StartSemaphore ==
  ASSUME SemaphoreInv, waiting' = waiting, permits' = permits,
         \/ task' = task
         \/ \E t \in Task, p \in {"enter", "inline_read"}, c \in Comp, cfg \in BOOLEAN :
              /\ ~Live(t)
              /\ task' = [task EXCEPT ![t] =
                            [pc |-> p, comp |-> c, evals |-> cfg, read |-> FALSE]]
  PROVE  WaitersQueued' /\ PermitsConserved'
<1>1. CASE task' = task
  BY <1>1, SemaphoreUntouched
<1>2. ASSUME NEW t \in Task, NEW p \in {"enter", "inline_read"},
             NEW c \in Comp, NEW cfg \in BOOLEAN, ~Live(t),
             task' = [task EXCEPT ![t] =
                       [pc |-> p, comp |-> c, evals |-> cfg, read |-> FALSE]]
      PROVE  WaitersQueued' /\ PermitsConserved'
  <2>1. task'[t].pc = p /\ task[t].pc = "free" /\ \A u \in Task \ {t} : task'[u] = task[u]
    BY <1>2 DEF Live, SemaphoreInv, TypeOK
  <2>2. QED
    BY <2>1, SemaphoreUntouched DEF InSemaphore
<1>3. QED
  BY <1>1, <1>2

LEMMA CrashSemaphore ==
  ASSUME SemaphoreInv, Crash
  PROVE  WaitersQueued' /\ PermitsConserved'
<1>1. \A t \in Task : task'[t].pc = "free"
  BY DEF Crash, FreeTask
<1>2. waiting' = <<>> /\ permits' = MaxWorkers
  BY DEF Crash
<1>3. Active' = {}
  BY <1>1 DEF Active, InSemaphore
<1>4. PermitsConserved'
  BY <1>2, <1>3, FS_EmptySet, ScoringAssumption DEF PermitsConserved
<1>5. WaitersQueued'
  BY <1>1, <1>2 DEF WaitersQueued
<1>6. QED
  BY <1>4, <1>5

LEMMA SemaphoreStep ==
  ASSUME SemaphoreInv, [Next]_vars
  PROVE  SemaphoreInv'
<1>1. ASSUME NEW t \in Task, Work(t)
      PROVE  SemaphoreInv'
  BY <1>1, WorkType, WorkSemaphore DEF SemaphoreInv
<1>2. CASE Request
  <2>1. TypeOK'
    BY <1>2, OtherType DEF SemaphoreInv
  <2>2. ASSUME NEW c \in Comp, DeleteComparison(c) \/ Prune(c)
        PROVE  waiting' = waiting /\ permits' = permits /\ task' = task
    BY <2>2 DEF DeleteComparison, Prune
  <2>3. ASSUME NEW c \in Comp, NEW t \in Task, NEW cfg \in BOOLEAN,
               SdkCreate(c, t, cfg) \/ RunnerCreate(c, t)
        PROVE  WaitersQueued' /\ PermitsConserved'
    BY <2>3, StartSemaphore DEF SdkCreate, RunnerCreate
  <2>4. QED
    BY <1>2, <2>1, <2>2, <2>3, StartSemaphore DEF Request, SemaphoreInv
<1>3. CASE BootSweep \/ \E s \in AdminSweep : StartAdminSweep(s)
  <2>1. TypeOK'
    BY <1>3, OtherType DEF SemaphoreInv
  <2>2. waiting' = waiting /\ permits' = permits /\ task' = task
    BY <1>3 DEF BootSweep, StartAdminSweep
  <2>3. QED
    BY <2>1, <2>2, StartSemaphore DEF SemaphoreInv
<1>4. ASSUME NEW s \in Sweep, SweepStep(s)
      PROVE  SemaphoreInv'
  <2>1. TypeOK'
    BY <1>4, SweepStepType DEF SemaphoreInv
  <2>2. ASSUME NEW c \in Comp, SweepReset(s, c)
        PROVE  WaitersQueued' /\ PermitsConserved'
    BY <2>2, StartSemaphore DEF SweepReset
  <2>3. ASSUME NEW c \in Comp, NEW t \in Task, SweepSpawn(s, c, t)
        PROVE  WaitersQueued' /\ PermitsConserved'
    BY <2>3, StartSemaphore DEF SweepSpawn
  <2>4. QED
    BY <1>4, <2>1, <2>2, <2>3 DEF SweepStep, SemaphoreInv
<1>5. CASE Crash
  BY <1>5, OtherType, CrashSemaphore DEF SemaphoreInv
<1>6. CASE UNCHANGED vars
  <2>1. TypeOK'
    BY <1>6 DEF vars, SemaphoreInv, TypeOK
  <2>2. QED
    BY <1>6, <2>1, StartSemaphore DEF vars, SemaphoreInv
<1>7. QED
  BY <1>1, <1>2, <1>3, <1>4, <1>5, <1>6 DEF Next

LEMMA SemaphoreInit == Init => SemaphoreInv
<1> SUFFICES ASSUME Init PROVE SemaphoreInv
  OBVIOUS
<1>1. TypeOK
  <2>1. IdleSweep \in SweepRec
    BY DEF IdleSweep, SweepRec
  <2>2. QED
    BY <2>1, FreeTaskType, ScoringAssumption DEF Init, TypeOK, Status
<1>2. \A t \in Task : task[t].pc = "free"
  BY DEF Init, FreeTask
<1>3. Active = {}
  BY <1>2 DEF Active, InSemaphore
<1>4. PermitsConserved
  BY <1>3, FS_EmptySet, ScoringAssumption DEF Init, PermitsConserved
<1>5. WaitersQueued
  BY <1>2 DEF Init, WaitersQueued
<1>6. QED
  BY <1>1, <1>4, <1>5 DEF SemaphoreInv

\* The state of the scoring queue and of the rows stays well typed.
THEOREM TypeCorrect == Spec => []TypeOK
<1>1. SemaphoreInv /\ [Next]_vars => SemaphoreInv'
  BY SemaphoreStep
<1>2. SemaphoreInv => TypeOK
  BY DEF SemaphoreInv
<1>3. QED
  BY SemaphoreInit, <1>1, <1>2, PTL DEF Spec

\* FM_BACKGROUND_WORKERS is the concurrency of scoring at every moment: no error
\* path, crash or hand-over leaks a permit or admits one coroutine too many.
THEOREM ConcurrencyLimit == Spec => [](PermitsConserved /\ WaitersQueued)
<1>1. SemaphoreInv /\ [Next]_vars => SemaphoreInv'
  BY SemaphoreStep
<1>2. SemaphoreInv => PermitsConserved /\ WaitersQueued
  BY DEF SemaphoreInv
<1>3. QED
  BY SemaphoreInit, <1>1, <1>2, PTL DEF Spec

-----------------------------------------------------------------------------
(* What a step of a coroutine may change.                                  *)

\* Coroutine t is the only one whose life or comparison may change.
OthersKeep(t) ==
  \A u \in Task \ {t} :
    /\ task'[u].comp = task[u].comp
    /\ task'[u].read = task[u].read
    /\ \/ task'[u].pc = task[u].pc
       \/ task[u].pc = "wait" /\ task'[u].pc = "mark"

LEMMA ReleaseShape ==
  ASSUME SemaphoreInv, NEW t \in Task, task[t].pc \in InSemaphore, Release(t)
  PROVE  OthersKeep(t) /\ task'[t] = FreeTask
<1>1. CASE waiting = <<>>
  BY <1>1 DEF Release, OthersKeep, SemaphoreInv, TypeOK
<1>2. CASE waiting # <<>>
  <2> DEFINE h == Head(waiting)
  <2>1. h \in Task /\ task[h].pc = "wait" /\ h # t
    BY <1>2, HeadWaits DEF InSemaphore, SemaphoreInv
  <2>2. task' = [task EXCEPT ![t] = FreeTask, ![h].pc = "mark"]
    BY <1>2 DEF Release
  <2>3. task'[t] = FreeTask /\ \A u \in Task \ {t, h} : task'[u] = task[u]
    BY <2>1, <2>2 DEF SemaphoreInv, TypeOK
  <2>4. task'[h].pc = "mark" /\ task'[h].comp = task[h].comp /\ task'[h].read = task[h].read
    BY <2>1, <2>2 DEF SemaphoreInv, TypeOK
  <2>5. QED
    BY <2>1, <2>3, <2>4 DEF OthersKeep
<1>3. QED
  BY <1>1, <1>2

\* A coroutine keeps its comparison until it ends.
LEMMA WorkShape ==
  ASSUME SemaphoreInv, NEW t \in Task, Work(t)
  PROVE  /\ task[t].pc # "free"
         /\ OthersKeep(t)
         /\ \/ task'[t] = FreeTask
            \/ task'[t].pc # "free" /\ task'[t].comp = task[t].comp
         /\ phase' = phase /\ outputs' = outputs /\ sweep' = sweep
<1> USE DEF SemaphoreInv, TypeOK, OthersKeep
<1>1. CASE Acquire(t)
  <2>1. PICK p \in {"mark", "wait"} : task' = [task EXCEPT ![t].pc = p]
    BY <1>1 DEF Acquire
  <2>2. task'[t].pc # "free" /\ task'[t].comp = task[t].comp
    BY <2>1
  <2>3. \A u \in Task \ {t} : task'[u] = task[u]
    BY <2>1
  <2>4. QED
    BY <1>1, <2>2, <2>3 DEF Acquire
<1>2. CASE MarkRunning(t)
  BY <1>2 DEF MarkRunning
<1>3. CASE ReadOutputs(t)
  BY <1>3 DEF ReadOutputs
<1>4. CASE WriteScores(t)
  BY <1>4, ReleaseShape DEF WriteScores, InSemaphore
<1>5. CASE Raise(t)
  BY <1>5 DEF Raise
<1>6. CASE MarkFailed(t)
  BY <1>6, ReleaseShape DEF MarkFailed, InSemaphore
<1>7. CASE LoseFailure(t)
  BY <1>7, ReleaseShape DEF LoseFailure, InSemaphore
<1>8. CASE InlineRead(t)
  BY <1>8 DEF InlineRead
<1>9. CASE InlineWrite(t)
  BY <1>9 DEF InlineWrite
<1>10. CASE InlineRaise(t)
  BY <1>10 DEF InlineRaise
<1>11. QED
  BY <1>1, <1>2, <1>3, <1>4, <1>5, <1>6, <1>7, <1>8, <1>9, <1>10 DEF Work

\* It writes to its own row only, never brings a deleted one back, and is done
\* once it has settled the row.
LEMMA WorkRow ==
  ASSUME SemaphoreInv, NEW t \in Task, Work(t), NEW c \in Comp
  PROVE  \/ status'[c] = status[c] /\ score'[c] = score[c]
         \/ /\ c = task[t].comp /\ RowExists(c)
            /\ \/ status'[c] = "running" /\ score'[c] = score[c]
               \/ status'[c] = "failed" /\ score'[c] = score[c] /\ task'[t] = FreeTask
               \/ /\ status'[c] = "completed" /\ task'[t] = FreeTask
                  /\ task[t].pc \in {"write", "inline_write"}
                  /\ task[t].read => "divergence" \in score'[c]
<1> USE DEF SemaphoreInv, TypeOK
<1>1. CASE MarkRunning(t)
  BY <1>1 DEF MarkRunning, SetStatus, RowExists
<1>2. CASE MarkFailed(t)
  BY <1>2, ReleaseShape DEF MarkFailed, SetStatus, RowExists, InSemaphore
<1>3. CASE WriteScores(t)
  <2>1. task'[t] = FreeTask
    BY <1>3, ReleaseShape DEF WriteScores, InSemaphore
  <2>2. task[t].read => "divergence" \in Produced(t)
    BY DEF Produced
  <2>3. QED
    BY <1>3, <2>1, <2>2 DEF WriteScores, SetScores, RowExists, rows
<1>4. CASE InlineWrite(t)
  BY <1>4 DEF InlineWrite, SetDivergence, RowExists, rows
<1>5. CASE \/ Acquire(t) \/ ReadOutputs(t) \/ Raise(t) \/ LoseFailure(t)
           \/ InlineRead(t) \/ InlineRaise(t)
  BY <1>5 DEF Acquire, ReadOutputs, Raise, LoseFailure, InlineRead, InlineRaise, rows
<1>6. QED
  BY <1>1, <1>2, <1>3, <1>4, <1>5 DEF Work

-----------------------------------------------------------------------------
(* A comparison that completed with its outputs in place was scored.       *)

ScoredInv == SemaphoreInv /\ KnownComps /\ ReadFresh /\ CompletedIsScored

LEMMA ScoredWork ==
  ASSUME ScoredInv, NEW t \in Task, Work(t)
  PROVE  KnownComps' /\ ReadFresh' /\ CompletedIsScored'
<1>0. SemaphoreInv
  BY DEF ScoredInv
<1>1. /\ task[t].pc # "free"
      /\ OthersKeep(t)
      /\ task'[t] = FreeTask \/ (task'[t].pc # "free" /\ task'[t].comp = task[t].comp)
      /\ outputs' = outputs /\ sweep' = sweep
  BY <1>0, WorkShape
<1>2. \A c \in Comp : status[c] # "absent" => status'[c] # "absent"
  BY <1>0, WorkRow DEF RowExists
<1>3. KnownComps'
  <2>1. ASSUME NEW u \in Task, task'[u].pc # "free"
        PROVE  task'[u].comp = task[u].comp /\ task[u].pc # "free"
    BY <1>1, <2>1 DEF OthersKeep, FreeTask
  <2>2. \A s \in Sweep : sweep[s].todo \subseteq Comp
    BY <1>0 DEF SemaphoreInv, TypeOK, SweepRec
  <2>3. QED
    BY <1>1, <1>2, <2>1, <2>2 DEF ScoredInv, KnownComps, Live
<1>4. ReadFresh'
  <2>1. ASSUME NEW u \in Task \ {t}, task'[u].pc \in {"write", "inline_write"}
        PROVE  task[u].pc = task'[u].pc /\ task'[u].comp = task[u].comp
               /\ task'[u].read = task[u].read
    BY <1>1, <2>1 DEF OthersKeep
  <2>2. ASSUME task'[t].pc \in {"write", "inline_write"}, outputs'[task'[t].comp]
        PROVE  task'[t].read
    <3>1. CASE ReadOutputs(t)
      BY <1>0, <1>1, <2>2, <3>1 DEF ReadOutputs, FreeTask, SemaphoreInv, TypeOK
    <3>2. CASE InlineRead(t)
      BY <1>0, <1>1, <2>2, <3>2 DEF InlineRead, FreeTask, SemaphoreInv, TypeOK
    <3>3. CASE Acquire(t) \/ MarkRunning(t) \/ Raise(t)
      <4>1. PICK p \in {"mark", "wait", "read", "onerror"} : task' = [task EXCEPT ![t].pc = p]
        BY <3>3 DEF Acquire, MarkRunning, Raise
      <4>2. task'[t].pc = p
        BY <1>0, <4>1 DEF SemaphoreInv, TypeOK
      <4>3. QED
        BY <2>2, <4>2
    <3>4. CASE WriteScores(t) \/ MarkFailed(t) \/ LoseFailure(t)
      BY <1>0, <2>2, <3>4, ReleaseShape
         DEF WriteScores, MarkFailed, LoseFailure, InSemaphore, FreeTask
    <3>5. CASE InlineWrite(t) \/ InlineRaise(t)
      BY <1>0, <2>2, <3>5 DEF InlineWrite, InlineRaise, FreeTask, SemaphoreInv, TypeOK
    <3>6. QED
      BY <3>1, <3>2, <3>3, <3>4, <3>5 DEF Work
  <2>3. QED
    BY <1>1, <2>1, <2>2 DEF ScoredInv, ReadFresh
<1>5. CompletedIsScored'
  <2> SUFFICES ASSUME NEW c \in Comp, status'[c] = "completed", outputs'[c]
               PROVE  "divergence" \in score'[c]
    BY DEF CompletedIsScored
  <2>1. CASE status'[c] = status[c] /\ score'[c] = score[c]
    BY <1>1, <2>1 DEF ScoredInv, CompletedIsScored
  <2>2. CASE ~(status'[c] = status[c] /\ score'[c] = score[c])
    <3>1. /\ c = task[t].comp /\ task[t].pc \in {"write", "inline_write"}
          /\ task[t].read => "divergence" \in score'[c]
      BY <1>0, <2>2, WorkRow
    <3>2. QED
      BY <1>1, <3>1 DEF ScoredInv, ReadFresh
  <2>3. QED
    BY <2>1, <2>2
<1>6. QED
  BY <1>3, <1>4, <1>5

LEMMA ScoredCreate ==
  ASSUME ScoredInv, NEW c \in Comp, NEW t \in Task, NEW cfg \in BOOLEAN,
         SdkCreate(c, t, cfg) \/ RunnerCreate(c, t)
  PROVE  KnownComps' /\ ReadFresh' /\ CompletedIsScored'
<1> USE DEF ScoredInv, SemaphoreInv, TypeOK
<1>1. /\ status[c] = "absent" /\ status' = [status EXCEPT ![c] = "pending"]
      /\ outputs' = [outputs EXCEPT ![c] = TRUE]
      /\ score' = score /\ sweep' = sweep
  BY DEF SdkCreate, RunnerCreate, Insert
<1>2. /\ task'[t].comp = c /\ task'[t].pc \in {"enter", "inline_read"}
      /\ \A u \in Task \ {t} : task'[u] = task[u]
  BY DEF SdkCreate, RunnerCreate
<1>3. \A s \in Sweep : sweep[s].todo \subseteq Comp
  BY DEF SweepRec
<1>4. KnownComps'
  BY <1>1, <1>2, <1>3 DEF KnownComps, Live
<1>5. ReadFresh'
  <2>1. ASSUME NEW u \in Task \ {t}, task[u].pc \in {"write", "inline_write"}
        PROVE  outputs'[task[u].comp] = outputs[task[u].comp]
    BY <1>1, <2>1 DEF KnownComps, Live
  <2>2. QED
    BY <1>2, <2>1 DEF ReadFresh
<1>6. CompletedIsScored'
  BY <1>1 DEF CompletedIsScored
<1>7. QED
  BY <1>4, <1>5, <1>6

LEMMA ScoredData ==
  ASSUME ScoredInv, NEW c \in Comp, DeleteComparison(c) \/ Prune(c)
  PROVE  KnownComps' /\ ReadFresh' /\ CompletedIsScored'
<1> USE DEF ScoredInv, SemaphoreInv, TypeOK
<1>1. /\ task' = task /\ sweep' = sweep
      /\ \A d \in Comp : outputs'[d] => outputs[d]
      /\ \A d \in Comp : \/ status'[d] = status[d] /\ score'[d] = score[d]
                        \/ status'[d] = "deleted"
  BY DEF DeleteComparison, Prune, rows
<1>2. \A s \in Sweep : sweep[s].todo \subseteq Comp
  BY DEF SweepRec
<1>3. KnownComps'
  BY <1>1, <1>2 DEF KnownComps, Live
<1>4. ReadFresh'
  <2>1. ASSUME NEW u \in Task, task[u].pc \in {"write", "inline_write"}
        PROVE  task[u].comp \in Comp
    BY <2>1 DEF KnownComps, Live
  <2>2. QED
    BY <1>1, <2>1 DEF ReadFresh
<1>5. CompletedIsScored'
  BY <1>1 DEF CompletedIsScored
<1>6. QED
  BY <1>3, <1>4, <1>5

LEMMA ScoredSweep ==
  ASSUME ScoredInv,
         \/ BootSweep
         \/ \E s \in AdminSweep : StartAdminSweep(s)
         \/ \E s \in Sweep : SweepStep(s)
  PROVE  KnownComps' /\ ReadFresh' /\ CompletedIsScored'
<1> USE DEF ScoredInv, SemaphoreInv, TypeOK
<1>0. \A s \in Sweep : sweep[s].todo \subseteq Comp
  BY DEF SweepRec
<1>1. ASSUME NEW s \in Sweep, NEW found \in SUBSET Unscored, StartSweep(s, found),
             task' = task, rows' = rows, outputs' = outputs
      PROVE  KnownComps' /\ ReadFresh' /\ CompletedIsScored'
  <2>1. sweep'[s].todo = found /\ \A r \in Sweep \ {s} : sweep'[r] = sweep[r]
    BY <1>1 DEF StartSweep, IdleSweep
  <2>2. status' = status /\ score' = score
    BY <1>1 DEF rows
  <2>3. \A c \in found : status[c] # "absent"
    BY <1>1 DEF Unscored
  <2>4. KnownComps'
    BY <1>0, <1>1, <2>1, <2>2, <2>3 DEF KnownComps, Live
  <2>5. QED
    BY <1>1, <2>2, <2>4 DEF ReadFresh, CompletedIsScored
<1>2. CASE BootSweep
  <2>1. PICK found \in {OldestUnscored} \union (IF DbFaults THEN {{}} ELSE {}) :
          StartSweep(Boot, found)
    BY <1>2 DEF BootSweep
  <2>2. found \in SUBSET Unscored
    BY <2>1 DEF OldestUnscored
  <2>3. QED
    BY <1>1, <1>2, <2>1, <2>2 DEF BootSweep, Sweep
<1>3. ASSUME NEW s \in AdminSweep, StartAdminSweep(s)
      PROVE  KnownComps' /\ ReadFresh' /\ CompletedIsScored'
  BY <1>1, <1>3 DEF StartAdminSweep, Sweep, OldestUnscored
<1>4. ASSUME NEW s \in Sweep, NEW c \in Comp, SweepReset(s, c)
      PROVE  KnownComps' /\ ReadFresh' /\ CompletedIsScored'
  <2>1. /\ task' = task /\ outputs' = outputs /\ score' = score
        /\ \A d \in Comp : status'[d] = status[d]
                           \/ (status[d] # "absent" /\ status'[d] = "pending")
    BY <1>4 DEF SweepReset, SetStatus, RowExists, rows
  <2>2. \A r \in Sweep : sweep'[r].todo = sweep[r].todo
    BY <1>4 DEF SweepReset
  <2>3. KnownComps'
    BY <1>0, <2>1, <2>2 DEF KnownComps, Live
  <2>4. QED
    BY <2>1, <2>3 DEF ReadFresh, CompletedIsScored
<1>5. ASSUME NEW s \in Sweep, NEW c \in Comp, NEW t \in Task, SweepSpawn(s, c, t)
      PROVE  KnownComps' /\ ReadFresh' /\ CompletedIsScored'
  <2>1. /\ outputs' = outputs /\ score' = score /\ status' = status
        /\ task'[t].comp = c /\ task'[t].pc = "enter"
        /\ \A u \in Task \ {t} : task'[u] = task[u]
    BY <1>5 DEF SweepSpawn, rows
  <2>2. \A r \in Sweep : sweep'[r].todo \subseteq sweep[r].todo
    BY <1>5 DEF SweepSpawn, StartSweep, IdleSweep
  <2>3. status[c] # "absent"
    BY <1>5 DEF SweepSpawn, Oldest, KnownComps
  <2>4. KnownComps'
    BY <1>0, <2>1, <2>2, <2>3 DEF KnownComps, Live
  <2>5. QED
    BY <2>1, <2>4 DEF ReadFresh, CompletedIsScored
<1>6. QED
  BY <1>2, <1>3, <1>4, <1>5 DEF SweepStep

LEMMA ScoredStep ==
  ASSUME ScoredInv, [Next]_vars
  PROVE  ScoredInv'
<1>1. SemaphoreInv'
  BY SemaphoreStep DEF ScoredInv
<1>2. CASE Crash
  <2>1. \A t \in Task : task'[t] = FreeTask
    BY <1>2 DEF Crash
  <2>2. \A s \in Sweep : sweep'[s].todo = {}
    BY <1>2 DEF Crash, IdleSweep
  <2>3. KnownComps' /\ ReadFresh'
    BY <2>1, <2>2 DEF KnownComps, ReadFresh, Live, FreeTask
  <2>4. CompletedIsScored'
    BY <1>2 DEF Crash, rows, ScoredInv, CompletedIsScored
  <2>5. QED
    BY <1>1, <2>3, <2>4 DEF ScoredInv
<1>3. CASE UNCHANGED vars
  <2>1. KnownComps' /\ ReadFresh' /\ CompletedIsScored'
    BY <1>3 DEF vars, ScoredInv, KnownComps, ReadFresh, CompletedIsScored, Live
  <2>2. QED
    BY <1>1, <2>1 DEF ScoredInv
<1>4. QED
  BY <1>1, <1>2, <1>3, ScoredWork, ScoredCreate, ScoredData, ScoredSweep
     DEF Next, Request, ScoredInv

LEMMA ScoredInit == Init => ScoredInv
<1> SUFFICES ASSUME Init PROVE KnownComps /\ ReadFresh /\ CompletedIsScored
  BY SemaphoreInit DEF ScoredInv
<1>1. QED
  BY DEF Init, KnownComps, ReadFresh, CompletedIsScored, Live, FreeTask, IdleSweep

\* No interleaving of requests, coroutines, sweeps, prunes and crashes completes a
\* comparison without a divergence while the outputs to score are there.
THEOREM CompletedScored == Spec => []CompletedIsScored
<1>1. ScoredInv /\ [Next]_vars => ScoredInv'
  BY ScoredStep
<1>2. ScoredInv => CompletedIsScored
  BY DEF ScoredInv
<1>3. QED
  BY ScoredInit, <1>1, <1>2, PTL DEF Spec

-----------------------------------------------------------------------------
(* Without the admin endpoint a comparison is scored by one coroutine.     *)

SettledInv ==
  ScoredInv /\ DownIsEmpty /\ OnlyBootSweeps /\ WorkIsUnsettled /\ SingleScorer

SettledParts == DownIsEmpty /\ OnlyBootSweeps /\ WorkIsUnsettled /\ SingleScorer

LEMMA SettledTypes ==
  ASSUME SettledInv
  PROVE  /\ ScoredInv /\ SemaphoreInv /\ TypeOK /\ SettledParts
         /\ \A s \in Sweep : sweep[s].todo \subseteq Comp
BY DEF SettledInv, SettledParts, ScoredInv, SemaphoreInv, TypeOK, SweepRec

LEMMA SettledWork ==
  ASSUME SettledInv, NEW t \in Task, Work(t)
  PROVE  SettledParts'
<1> USE SettledTypes DEF SettledParts
<1>1. /\ task[t].pc # "free"
      /\ OthersKeep(t)
      /\ task'[t] = FreeTask \/ (task'[t].pc # "free" /\ task'[t].comp = task[t].comp)
      /\ phase' = phase /\ sweep' = sweep
  BY WorkShape
<1>2. ASSUME NEW u \in Task, task'[u].pc # "free"
      PROVE  task[u].pc # "free" /\ task'[u].comp = task[u].comp
  BY <1>1, <1>2 DEF OthersKeep, FreeTask
<1>3. phase # "down"
  BY <1>1 DEF DownIsEmpty, FreeTask
<1>4. ASSUME NEW c \in Comp, status[c] \notin Terminal, status'[c] \in Terminal
      PROVE  c = task[t].comp /\ task'[t] = FreeTask
  BY <1>4, WorkRow DEF Terminal
<1>5. WorkIsUnsettled'
  <2>1. ASSUME NEW u \in Task, task'[u].pc # "free"
        PROVE  status'[task'[u].comp] \notin Terminal
    <3>1. /\ task[u].pc # "free" /\ task'[u].comp = task[u].comp
          /\ task[u].comp \in Comp /\ status[task[u].comp] \notin Terminal
      BY <1>2, <2>1 DEF ScoredInv, KnownComps, WorkIsUnsettled, Live
    <3>2. status'[task[u].comp] \in Terminal => u = t /\ task'[t].pc = "free"
      BY <1>1, <1>4, <3>1 DEF SingleScorer, Live, FreeTask
    <3>3. QED
      BY <2>1, <3>1, <3>2
  <2>2. ASSUME NEW s \in Sweep, NEW c \in sweep[s].todo
        PROVE  status'[c] \notin Terminal
    BY <1>1, <1>4 DEF WorkIsUnsettled, SingleScorer, Live
  <2>3. QED
    BY <1>1, <2>1, <2>2 DEF WorkIsUnsettled, Live
<1>6. SingleScorer'
  BY <1>1, <1>2 DEF SingleScorer, Live
<1>7. DownIsEmpty' /\ OnlyBootSweeps'
  BY <1>1, <1>3 DEF DownIsEmpty, OnlyBootSweeps
<1>8. QED
  BY <1>5, <1>6, <1>7

LEMMA SettledCreate ==
  ASSUME SettledInv, NEW c \in Comp, NEW t \in Task, NEW cfg \in BOOLEAN,
         SdkCreate(c, t, cfg) \/ RunnerCreate(c, t)
  PROVE  SettledParts'
<1> USE SettledTypes DEF SettledParts, TypeOK
<1>1. /\ status[c] = "absent" /\ status' = [status EXCEPT ![c] = "pending"]
      /\ phase = "serving" /\ phase' = phase /\ sweep' = sweep
  BY DEF SdkCreate, RunnerCreate, Insert
<1>2. /\ task'[t].comp = c /\ task[t].pc = "free"
      /\ \A u \in Task \ {t} : task'[u] = task[u]
  BY DEF SdkCreate, RunnerCreate, Live
<1>3. \A u \in Task : task[u].pc # "free" => task[u].comp # c /\ task[u].comp \in Comp
  BY <1>1 DEF ScoredInv, KnownComps, Live
<1>4. \A s \in Sweep : c \notin sweep[s].todo
  BY <1>1 DEF ScoredInv, KnownComps
<1>5. WorkIsUnsettled'
  BY <1>1, <1>2, <1>3, <1>4 DEF WorkIsUnsettled, Live, Terminal
<1>6. SingleScorer'
  BY <1>1, <1>2, <1>3, <1>4 DEF SingleScorer, Live
<1>7. QED
  BY <1>1, <1>5, <1>6 DEF DownIsEmpty, OnlyBootSweeps

LEMMA SettledData ==
  ASSUME SettledInv, NEW c \in Comp, DeleteComparison(c) \/ Prune(c)
  PROVE  SettledParts'
<1> USE SettledTypes DEF SettledParts, TypeOK
<1>1. /\ task' = task /\ sweep' = sweep /\ phase' = phase /\ phase = "serving"
      /\ \A d \in Comp : status'[d] = status[d] \/ status'[d] = "deleted"
  BY DEF DeleteComparison, Prune, rows
<1>2. \A u \in Task : task[u].pc # "free" => task[u].comp \in Comp
  BY DEF ScoredInv, KnownComps, Live
<1>3. WorkIsUnsettled'
  BY <1>1, <1>2 DEF WorkIsUnsettled, Live, Terminal
<1>4. SingleScorer'
  BY <1>1 DEF SingleScorer, Live
<1>5. QED
  BY <1>1, <1>3, <1>4 DEF DownIsEmpty, OnlyBootSweeps

LEMMA SettledBoot ==
  ASSUME SettledInv, BootSweep
  PROVE  SettledParts'
<1> USE SettledTypes DEF SettledParts, TypeOK
<1>1. PICK found \in SUBSET Unscored :
        StartSweep(Boot, found) /\ phase' = IF found = {} THEN "serving" ELSE "booting"
  BY DEF BootSweep, OldestUnscored
<1>2. /\ task' = task /\ status' = status
      /\ \A t \in Task : task[t].pc = "free"
  BY DEF BootSweep, rows, DownIsEmpty, FreeTask
<1>3. /\ \A s \in AdminSweep : sweep'[s] = sweep[s]
      /\ sweep'[Boot].todo = found
      /\ found = {} => sweep'[Boot] = IdleSweep
      /\ \A s \in Sweep \ {Boot} : sweep'[s] = sweep[s]
  BY <1>1, ScoringAssumption DEF StartSweep, IdleSweep, Sweep
<1>4. \A c \in found : status[c] \notin Terminal
  BY <1>1 DEF Unscored, Terminal
<1>5. WorkIsUnsettled'
  BY <1>2, <1>3, <1>4 DEF WorkIsUnsettled, Live
<1>6. SingleScorer'
  BY <1>2 DEF SingleScorer, Live
<1>7. QED
  BY <1>1, <1>3, <1>5, <1>6 DEF DownIsEmpty, OnlyBootSweeps

LEMMA SettledSweep ==
  ASSUME SettledInv, NEW s \in Sweep, SweepStep(s)
  PROVE  SettledParts'
<1> USE SettledTypes DEF SettledParts, TypeOK
<1>1. s = Boot /\ phase = "booting"
  <2>1. sweep[s].pc \in {"reset", "spawn"}
    BY DEF SweepStep, SweepReset, SweepSpawn
  <2>2. sweep[s] # IdleSweep
    BY <2>1 DEF IdleSweep
  <2>3. QED
    BY <2>2 DEF OnlyBootSweeps, DownIsEmpty, Sweep
<1>2. \A u \in Task : task[u].pc # "free" => task[u].comp \in Comp
  BY DEF ScoredInv, KnownComps, Live
<1>3. ASSUME NEW c \in Comp, SweepReset(s, c)
      PROVE  SettledParts'
  <2>1. /\ task' = task /\ phase' = phase
        /\ \A d \in Comp : status'[d] = status[d] \/ status'[d] = "pending"
    BY <1>3 DEF SweepReset, SetStatus, rows
  <2>2. /\ \A r \in Sweep : sweep'[r].todo = sweep[r].todo
        /\ \A r \in AdminSweep : sweep'[r] = sweep[r]
    BY <1>1, <1>3, ScoringAssumption DEF SweepReset, Sweep
  <2>3. WorkIsUnsettled'
    BY <1>2, <2>1, <2>2 DEF WorkIsUnsettled, Live, Terminal
  <2>4. SingleScorer'
    BY <2>1, <2>2 DEF SingleScorer, Live
  <2>5. QED
    BY <1>1, <2>1, <2>2, <2>3, <2>4 DEF DownIsEmpty, OnlyBootSweeps
<1>4. ASSUME NEW c \in Comp, NEW t \in Task, SweepSpawn(s, c, t)
      PROVE  SettledParts'
  <2>1. /\ c \in sweep[s].todo /\ status' = status
        /\ task'[t].comp = c /\ task'[t].pc = "enter" /\ task[t].pc = "free"
        /\ \A u \in Task \ {t} : task'[u] = task[u]
    BY <1>4 DEF SweepSpawn, Oldest, rows, Live
  <2>2. /\ sweep'[s].todo = sweep[s].todo \ {c}
        /\ \A r \in Sweep \ {s} : sweep'[r] = sweep[r]
        /\ sweep[s].todo = {c} => sweep'[s] = IdleSweep
    BY <1>4 DEF SweepSpawn, StartSweep, IdleSweep
  <2>3. \A r \in AdminSweep : r \in Sweep \ {s} /\ sweep[r].todo = {}
    BY <1>1, ScoringAssumption DEF OnlyBootSweeps, IdleSweep, Sweep
  <2>4. WorkIsUnsettled'
    BY <1>2, <2>1, <2>2 DEF WorkIsUnsettled, Live
  <2>5. SingleScorer'
    <3>1. \A r \in Sweep : c \notin sweep'[r].todo
      BY <1>1, <2>2, <2>3 DEF Sweep
    <3>2. \A r \in Sweep : sweep'[r].todo \subseteq sweep[r].todo
      BY <2>2
    <3>3. QED
      BY <2>1, <3>1, <3>2 DEF SingleScorer, Live
  <2>6. phase' = IF sweep[s].todo = {c} THEN "serving" ELSE phase
    BY <1>1, <1>4 DEF SweepSpawn
  <2>7. QED
    BY <1>1, <2>2, <2>3, <2>4, <2>5, <2>6 DEF DownIsEmpty, OnlyBootSweeps
<1>5. QED
  BY <1>3, <1>4 DEF SweepStep

LEMMA SettledStep ==
  ASSUME MaxAdminSweeps = 0, SettledInv, [Next]_vars
  PROVE  SettledInv'
<1> USE SettledTypes
<1>1. ScoredInv'
  BY ScoredStep
<1>2. CASE Crash
  <2>1. /\ \A t \in Task : task'[t] = FreeTask
        /\ \A s \in Sweep : sweep'[s] = IdleSweep
        /\ waiting' = <<>> /\ permits' = MaxWorkers
    BY <1>2 DEF Crash
  <2>2. DownIsEmpty' /\ OnlyBootSweeps'
    BY <2>1 DEF DownIsEmpty, OnlyBootSweeps, Sweep
  <2>3. /\ \A t \in Task : task'[t].pc = "free"
        /\ \A s \in Sweep : sweep'[s].todo = {}
    BY <2>1 DEF FreeTask, IdleSweep
  <2>4. WorkIsUnsettled' /\ SingleScorer'
    BY <2>3 DEF WorkIsUnsettled, SingleScorer, Live
  <2>5. QED
    BY <1>1, <2>2, <2>4 DEF SettledInv
<1>3. CASE UNCHANGED vars
  BY <1>1, <1>3 DEF vars, SettledInv, DownIsEmpty, OnlyBootSweeps, WorkIsUnsettled,
                    SingleScorer, Live
<1>4. ASSUME NEW s \in AdminSweep, StartAdminSweep(s)
      PROVE  FALSE
  BY <1>4 DEF StartAdminSweep, TypeOK
<1>5. SettledParts' => SettledInv'
  BY <1>1 DEF SettledParts, SettledInv
<1>6. QED
  BY <1>2, <1>3, <1>4, <1>5, SettledWork, SettledCreate, SettledData, SettledBoot,
     SettledSweep DEF Next, Request

LEMMA SettledInit == Init => SettledInv
<1> SUFFICES ASSUME Init PROVE SettledInv
  OBVIOUS
<1>1. QED
  BY ScoredInit DEF Init, SettledInv, DownIsEmpty, OnlyBootSweeps, WorkIsUnsettled,
                    SingleScorer, Live, FreeTask, IdleSweep, Sweep

\* Unless the admin endpoint is called, no two coroutines ever score the same
\* comparison, across crashes and startup sweeps.
THEOREM OneScorer ==
  ASSUME MaxAdminSweeps = 0
  PROVE  Spec => []SingleScorer
<1>1. SettledInv /\ [Next]_vars => SettledInv'
  BY SettledStep
<1>2. SettledInv => SingleScorer
  BY DEF SettledInv
<1>3. QED
  BY SettledInit, <1>1, <1>2, PTL DEF Spec

-----------------------------------------------------------------------------
(* Rows change the way the lifecycle says.                                 *)

div == [c \in Comp |-> "divergence" \in score[c]]

\* A step that leaves every row's status and divergence alone.
LEMMA SameRows ==
  ASSUME TypeOK, status' = status, \A c \in Comp : score'[c] = score[c]
  PROVE  UNCHANGED <<status, div>>
BY DEF div

\* A step that changes one row.
LEMMA OneRow ==
  ASSUME TypeOK, TypeOK', NEW c \in Comp,
         \A d \in Comp \ {c} : status'[d] = status[d] /\ score'[d] = score[d]
  PROVE  /\ status' = [status EXCEPT ![c] = status'[c]]
         /\ div' = [div EXCEPT ![c] = "divergence" \in score'[c]]
         /\ score'[c] = score[c] => div' = div
<1>1. status' = [status EXCEPT ![c] = status'[c]]
  BY DEF TypeOK
<1>2. div' = [div EXCEPT ![c] = "divergence" \in score'[c]]
  BY DEF div
<1>3. score'[c] = score[c] => div' = div
  BY DEF div
<1>4. QED
  BY <1>1, <1>2, <1>3

LEMMA WorkLifecycle ==
  ASSUME SettledInv, NEW t \in Task, Work(t)
  PROVE  [Lifecycle!Next]_<<status, div>>
<1> USE SettledTypes
<1>1. TypeOK'
  BY SemaphoreStep DEF SemaphoreInv, Next
<1>c. task[t].comp \in Comp /\ status[task[t].comp] \in {"pending", "running", "deleted"}
  BY WorkShape DEF SettledParts, WorkIsUnsettled, ScoredInv, KnownComps, Live,
                   TypeOK, Status, Terminal
<1> PICK c \in Comp : c = task[t].comp
  BY <1>c
<1>2. c \in Comp /\ status[c] \in {"pending", "running", "deleted"}
  BY <1>c
<1>3. \A d \in Comp \ {c} : status'[d] = status[d] /\ score'[d] = score[d]
  BY WorkRow
<1>4. CASE status'[c] = status[c] /\ score'[c] = score[c]
  <2>1. status' = status
    BY <1>1, <1>2, <1>3, <1>4 DEF TypeOK
  <2>2. QED
    BY <1>3, <1>4, <2>1, SameRows
<1>5. CASE ~(status'[c] = status[c] /\ score'[c] = score[c])
  <2>1. /\ status[c] \in {"pending", "running"}
        /\ \/ status'[c] = "running" /\ score'[c] = score[c]
           \/ status'[c] = "failed" /\ score'[c] = score[c]
           \/ status'[c] = "completed"
    BY <1>2, <1>5, WorkRow DEF RowExists
  <2>2. /\ status' = [status EXCEPT ![c] = status'[c]]
        /\ div' = [div EXCEPT ![c] = "divergence" \in score'[c]]
        /\ score'[c] = score[c] => div' = div
    BY <1>1, <1>2, <1>3, OneRow
  <2>3. CASE status'[c] = "running" /\ score'[c] = score[c]
    BY <1>2, <1>5, <2>1, <2>2, <2>3 DEF Lifecycle!Next, Lifecycle!Start, div
  <2>4. CASE status'[c] = "failed" /\ score'[c] = score[c]
    BY <1>2, <2>1, <2>2, <2>4 DEF Lifecycle!Next, Lifecycle!Fail, div
  <2>5. CASE status'[c] = "completed"
    <3>1. SUFFICES Lifecycle!Complete(c)
      BY <1>2 DEF Lifecycle!Next
    <3>2. SUFFICES \E scored \in BOOLEAN : div' = [div EXCEPT ![c] = scored]
      BY <2>1, <2>2, <2>5 DEF Lifecycle!Complete, div
    <3>3. CASE "divergence" \in score'[c]
      <4>1. div' = [div EXCEPT ![c] = TRUE]
        BY <1>3, <3>3 DEF div
      <4>2. QED
        BY <4>1
    <3>4. CASE ~("divergence" \in score'[c])
      <4>1. div' = [div EXCEPT ![c] = FALSE]
        <5>1. ("divergence" \in score'[c]) = FALSE
          BY <3>4
        <5>2. QED
          BY <2>2, <5>1
      <4>2. QED
        BY <4>1
    <3>5. QED
      BY <3>3, <3>4
  <2>6. QED
    BY <2>1, <2>3, <2>4, <2>5
<1>6. QED
  BY <1>4, <1>5

\* A lifecycle step takes a status in the set its guard names.
LEMMA OneRowStep ==
  ASSUME TypeOK, TypeOK', NEW c \in Comp, score' = score,
         \A d \in Comp \ {c} : status'[d] = status[d],
         \/ status[c] = "absent" /\ status'[c] = "pending"
         \/ status[c] = "running" /\ status'[c] = "pending"
         \/ status'[c] = status[c]
  PROVE  [Lifecycle!Next]_<<status, div>>
<1>1. /\ status' = [status EXCEPT ![c] = status'[c]]
      /\ div' = div
  BY OneRow
<1>2. CASE status[c] = "absent" /\ status'[c] = "pending"
  BY <1>1, <1>2 DEF Lifecycle!Next, Lifecycle!Submit, div
<1>3. CASE status[c] = "running" /\ status'[c] = "pending"
  BY <1>1, <1>3 DEF Lifecycle!Next, Lifecycle!Requeue, div
<1>4. CASE status'[c] = status[c]
  BY <1>1, <1>4 DEF TypeOK
<1>5. QED
  BY <1>2, <1>3, <1>4

LEMMA DataLifecycle ==
  ASSUME TypeOK, TypeOK', NEW c \in Comp, DeleteComparison(c) \/ Prune(c)
  PROVE  [Lifecycle!Next]_<<status, div>>
<1>1. CASE Prune(c)
  BY <1>1, SameRows DEF Prune, rows
<1>2. CASE DeleteComparison(c)
  <2>1. /\ status[c] \notin {"absent", "deleted"}
        /\ status' = [status EXCEPT ![c] = "deleted"]
        /\ ("divergence" \in score'[c]) = FALSE
        /\ \A d \in Comp \ {c} : status'[d] = status[d] /\ score'[d] = score[d]
    BY <1>2 DEF DeleteComparison, RowExists, TypeOK
  <2>2. div' = [div EXCEPT ![c] = FALSE]
    BY <2>1, OneRow
  <2>3. QED
    BY <2>1, <2>2 DEF Lifecycle!Next, Lifecycle!Delete, div
<1>3. QED
  BY <1>1, <1>2

LEMMA SweepLifecycle ==
  ASSUME SettledInv, TypeOK', NEW s \in Sweep, SweepStep(s)
  PROVE  [Lifecycle!Next]_<<status, div>>
<1> USE SettledTypes
<1>1. ASSUME NEW c \in Comp, SweepReset(s, c)
      PROVE  [Lifecycle!Next]_<<status, div>>
  <2>1. /\ status[c] \in {"pending", "running", "deleted"}
        /\ score' = score
        /\ \A d \in Comp \ {c} : status'[d] = status[d]
        /\ \/ status'[c] = status[c]
           \/ status'[c] = "pending" /\ status[c] # "deleted"
    BY <1>1 DEF SweepReset, Oldest, SetStatus, RowExists, rows, TypeOK, Status,
                SettledParts, WorkIsUnsettled, Terminal, ScoredInv, KnownComps
  <2>2. QED
    BY <2>1, OneRowStep
<1>2. ASSUME NEW c \in Comp, NEW t \in Task, SweepSpawn(s, c, t)
      PROVE  [Lifecycle!Next]_<<status, div>>
  BY <1>2, SameRows DEF SweepSpawn, rows
<1>3. QED
  BY <1>1, <1>2 DEF SweepStep

LEMMA LifecycleStep ==
  ASSUME MaxAdminSweeps = 0, SettledInv, [Next]_vars
  PROVE  [Lifecycle!Next]_<<status, div>>
<1> USE SettledTypes
<1>1. TypeOK'
  BY SettledStep, SettledTypes DEF SettledInv, ScoredInv, SemaphoreInv
<1>2. ASSUME NEW c \in Comp, NEW t \in Task, NEW cfg \in BOOLEAN,
             SdkCreate(c, t, cfg) \/ RunnerCreate(c, t)
      PROVE  [Lifecycle!Next]_<<status, div>>
  <2>1. Insert(c) /\ score' = score
    BY <1>2 DEF SdkCreate, RunnerCreate
  <2>2. QED
    BY <1>1, <2>1, OneRowStep DEF Insert, TypeOK
<1>3. CASE Crash
  BY <1>3, SameRows DEF Crash, rows
<1>4. CASE BootSweep
  BY <1>4, SameRows DEF BootSweep, rows
<1>5. ASSUME NEW s \in AdminSweep, StartAdminSweep(s)
      PROVE  FALSE
  BY <1>5 DEF StartAdminSweep, TypeOK
<1>6. CASE UNCHANGED vars
  BY <1>6, SameRows DEF vars
<1>7. QED
  BY <1>1, <1>2, <1>3, <1>4, <1>5, <1>6, WorkLifecycle, DataLifecycle, SweepLifecycle
     DEF Next, Request

\* Unless the admin endpoint is called, the coroutines, sweeps and crashes are
\* invisible: the rows change as the lifecycle allows and in no other way.
THEOREM RowsFollowLifecycle ==
  ASSUME MaxAdminSweeps = 0
  PROVE  Spec => ImplementsLifecycle
<1>1. Init => Lifecycle!Init
  <2>1. ASSUME Init PROVE div = [c \in Comp |-> FALSE]
    <3>1. \A c \in Comp : ("divergence" \in score[c]) = FALSE
      BY <2>1 DEF Init
    <3>2. QED
      BY <3>1 DEF div
  <2>2. QED
    BY <2>1 DEF Init, Lifecycle!Init, div
<1>2. SettledInv /\ [Next]_vars => [Lifecycle!Next]_<<status, div>>
  BY LifecycleStep
<1>3. SettledInv /\ [Next]_vars => [Lifecycle!Next]_Lifecycle!lifecycleVars
  BY <1>2 DEF Lifecycle!lifecycleVars, div
<1>4. SettledInv /\ [Next]_vars => SettledInv'
  BY SettledStep
<1>5. QED
  BY SettledInit, <1>1, <1>3, <1>4, PTL DEF Spec, ImplementsLifecycle, Lifecycle!Spec

LEMMA FinalStep ==
  ASSUME MaxAdminSweeps = 0, SettledInv, [Next]_vars, NEW c \in Comp,
         status[c] \in Terminal, status'[c] # "deleted"
  PROVE  status'[c] = status[c] /\ score'[c] = score[c]
<1> USE SettledTypes
<1>1. ASSUME NEW t \in Task, Work(t)
      PROVE  status'[c] = status[c] /\ score'[c] = score[c]
  BY <1>1, WorkRow, WorkShape DEF SettledParts, WorkIsUnsettled, Live
<1>2. ASSUME NEW d \in Comp, NEW t \in Task, NEW cfg \in BOOLEAN,
             SdkCreate(d, t, cfg) \/ RunnerCreate(d, t)
      PROVE  status'[c] = status[c] /\ score'[c] = score[c]
  <2>1. Insert(d) /\ score' = score
    BY <1>2 DEF SdkCreate, RunnerCreate
  <2>2. QED
    BY <2>1 DEF Insert, TypeOK, Terminal
<1>3. ASSUME NEW d \in Comp, DeleteComparison(d) \/ Prune(d)
      PROVE  status'[c] = status[c] /\ score'[c] = score[c]
  BY <1>3 DEF DeleteComparison, Prune, rows, TypeOK
<1>4. ASSUME NEW s \in Sweep, SweepStep(s)
      PROVE  status'[c] = status[c] /\ score'[c] = score[c]
  <2>1. ASSUME NEW d \in Comp, SweepReset(s, d)
        PROVE  status'[c] = status[c] /\ score'[c] = score[c]
    BY <2>1 DEF SweepReset, Oldest, SetStatus, rows, TypeOK,
                SettledParts, WorkIsUnsettled
  <2>2. ASSUME NEW d \in Comp, NEW t \in Task, SweepSpawn(s, d, t)
        PROVE  status'[c] = status[c] /\ score'[c] = score[c]
    BY <2>2 DEF SweepSpawn, rows
  <2>3. QED
    BY <1>4, <2>1, <2>2 DEF SweepStep
<1>5. CASE Crash \/ BootSweep \/ UNCHANGED vars
  BY <1>5 DEF Crash, BootSweep, rows, vars
<1>6. ASSUME NEW s \in AdminSweep, StartAdminSweep(s)
      PROVE  FALSE
  BY <1>6 DEF StartAdminSweep, TypeOK
<1>7. QED
  BY <1>1, <1>2, <1>3, <1>4, <1>5, <1>6 DEF Next, Request

\* Unless the admin endpoint is called, a status the client saw settled stays.
THEOREM SettledIsFinal ==
  ASSUME MaxAdminSweeps = 0
  PROVE  Spec => TerminalIsFinal
<1>1. SettledInv /\ [Next]_vars
        => [\A c \in Comp : status[c] \in Terminal /\ status'[c] # "deleted" =>
              status'[c] = status[c] /\ score'[c] = score[c]]_vars
  BY FinalStep
<1>2. SettledInv /\ [Next]_vars => SettledInv'
  BY SettledStep
<1>3. QED
  BY SettledInit, <1>1, <1>2, PTL DEF Spec, TerminalIsFinal

-----------------------------------------------------------------------------
(* Nothing unscored is forgotten while the process lives.                  *)

\* An idle sweep has no backlog, and none is under way in a process that is down.
SweepsOrderly ==
  /\ \A s \in Sweep : sweep[s].pc = "idle" => sweep[s].todo = {}
  /\ phase = "down" => \A s \in Sweep : sweep[s].pc = "idle"

\* From the startup sweep's query on, what is unscored has its coroutine or its turn.
Covered ==
  phase # "down" =>
    \A c \in Unscored :
      \/ \E t \in Task : task[t].pc # "free" /\ task[t].comp = c
      \/ \E s \in Sweep : c \in sweep[s].todo

CoveredInv == ScoredInv /\ SweepsOrderly /\ Covered

\* A query whose limit is not reached lists every unscored comparison.
LEMMA ListsAll ==
  ASSUME IsFiniteSet(Comp), Cardinality(Comp) <= RecoveryLimit
  PROVE  OldestUnscored = Unscored
<1>1. ASSUME NEW c \in Unscored
      PROVE  Cardinality({d \in Unscored : d < c}) < RecoveryLimit
  <2>1. c \in Comp /\ Comp \subseteq Nat /\ RecoveryLimit \in Nat
    BY ScoringAssumption DEF Unscored
  <2>2. {d \in Unscored : d < c} \subseteq Comp \ {c}
    BY <2>1 DEF Unscored
  <2>3. /\ IsFiniteSet(Comp \ {c})
        /\ Cardinality(Comp \ {c}) = Cardinality(Comp) - 1
    BY <2>1, FS_RemoveElement
  <2>4. /\ IsFiniteSet({d \in Unscored : d < c})
        /\ Cardinality({d \in Unscored : d < c}) <= Cardinality(Comp \ {c})
    BY <2>2, <2>3, FS_Subset
  <2>5. /\ Cardinality({d \in Unscored : d < c}) \in Nat
        /\ Cardinality(Comp) \in Nat
    BY <2>4, FS_CardinalityType
  <2>6. QED
    BY <2>1, <2>3, <2>4, <2>5
<1>2. QED
  BY <1>1 DEF OldestUnscored

\* The steps after which a coroutine is still there.
LEMMA GoesOn ==
  ASSUME SemaphoreInv, NEW t \in Task,
         \/ Acquire(t) \/ MarkRunning(t) \/ Raise(t)
         \/ ReadOutputs(t) \/ InlineRead(t)
  PROVE  task'[t].pc # "free"
<1> USE DEF SemaphoreInv, TypeOK
<1>1. CASE Acquire(t) \/ MarkRunning(t) \/ Raise(t)
  <2>1. PICK p \in {"mark", "wait", "read", "onerror"} : task' = [task EXCEPT ![t].pc = p]
    BY <1>1 DEF Acquire, MarkRunning, Raise
  <2>2. QED
    BY <2>1
<1>2. CASE ReadOutputs(t)
  BY <1>2 DEF ReadOutputs
<1>3. CASE InlineRead(t)
  BY <1>3 DEF InlineRead
<1>4. QED
  BY <1>1, <1>2, <1>3

\* Without a database fault a coroutine only ends with its row settled.
LEMMA EndsSettled ==
  ASSUME ~DbFaults, SemaphoreInv, NEW t \in Task, Work(t), task'[t] = FreeTask
  PROVE  status'[task[t].comp] \notin {"pending", "running"}
<1> USE DEF SemaphoreInv, TypeOK
<1>1. task[t].comp \in Comp
  BY WorkShape, LiveComp
<1>2. CASE WriteScores(t)
  BY <1>1, <1>2 DEF WriteScores, SetScores, RowExists, rows
<1>3. CASE MarkFailed(t)
  BY <1>1, <1>3 DEF MarkFailed, SetStatus, RowExists
<1>4. CASE InlineWrite(t)
  BY <1>1, <1>4 DEF InlineWrite, SetDivergence, RowExists, rows
<1>5. CASE \/ Acquire(t) \/ MarkRunning(t) \/ Raise(t)
           \/ ReadOutputs(t) \/ InlineRead(t)
  BY <1>5, GoesOn DEF FreeTask
<1>6. CASE LoseFailure(t) \/ InlineRaise(t)
  BY <1>6 DEF LoseFailure, InlineRaise
<1>7. QED
  BY <1>2, <1>3, <1>4, <1>5, <1>6 DEF Work

LEMMA CoveredWork ==
  ASSUME ~DbFaults, CoveredInv, NEW t \in Task, Work(t)
  PROVE  SweepsOrderly' /\ Covered'
<1> USE DEF CoveredInv, ScoredInv
<1>1. /\ OthersKeep(t)
      /\ task'[t] = FreeTask \/ (task'[t].pc # "free" /\ task'[t].comp = task[t].comp)
      /\ phase' = phase /\ sweep' = sweep
  BY WorkShape
<1>2. SweepsOrderly'
  BY <1>1 DEF SweepsOrderly
<1>3. ASSUME phase' # "down", NEW c \in Comp, status'[c] \in {"pending", "running"}
      PROVE  \/ \E u \in Task : task'[u].pc # "free" /\ task'[u].comp = c
             \/ \E s \in Sweep : c \in sweep'[s].todo
  <2>1. CASE c = task[t].comp
    BY <1>1, <1>3, <2>1, EndsSettled
  <2>2. CASE c # task[t].comp
    <3>1. status'[c] = status[c]
      BY <2>2, WorkRow
    <3>2. \A u \in Task : task[u].pc # "free" /\ task[u].comp = c
                         => task'[u].pc # "free" /\ task'[u].comp = c
      BY <1>1, <2>2 DEF OthersKeep
    <3>3. QED
      BY <1>1, <1>3, <3>1, <3>2 DEF Covered, Unscored
  <2>3. QED
    BY <2>1, <2>2
<1>4. QED
  BY <1>2, <1>3 DEF Covered, Unscored

LEMMA CoveredRequest ==
  ASSUME CoveredInv, Request
  PROVE  SweepsOrderly' /\ Covered'
<1> USE DEF CoveredInv, ScoredInv, SemaphoreInv, TypeOK
<1>1. sweep' = sweep /\ phase' = phase
  BY DEF Request, SdkCreate, RunnerCreate, DeleteComparison, Prune, Insert
<1>2. ASSUME NEW c \in Comp, NEW t \in Task, NEW cfg \in BOOLEAN,
             SdkCreate(c, t, cfg) \/ RunnerCreate(c, t)
      PROVE  Covered'
  <2>1. /\ status' = [status EXCEPT ![c] = "pending"]
        /\ task'[t].comp = c /\ task'[t].pc # "free" /\ task[t].pc = "free"
        /\ \A u \in Task \ {t} : task'[u] = task[u]
    BY <1>2 DEF SdkCreate, RunnerCreate, Insert, Live
  <2>2. QED
    BY <1>1, <2>1 DEF Covered, Unscored
<1>3. ASSUME NEW c \in Comp, DeleteComparison(c) \/ Prune(c)
      PROVE  Covered'
  <2>1. /\ task' = task
        /\ \A d \in Comp : status'[d] = status[d] \/ status'[d] = "deleted"
    BY <1>3 DEF DeleteComparison, Prune, rows
  <2>2. QED
    BY <1>1, <2>1 DEF Covered, Unscored
<1>4. QED
  BY <1>1, <1>2, <1>3 DEF Request, SweepsOrderly

LEMMA CoveredStart ==
  ASSUME ~DbFaults, IsFiniteSet(Comp), Cardinality(Comp) <= RecoveryLimit, CoveredInv,
         BootSweep \/ \E s \in AdminSweep : StartAdminSweep(s)
  PROVE  SweepsOrderly' /\ Covered'
<1> USE DEF CoveredInv, ScoredInv, SemaphoreInv, TypeOK
<1>1. PICK s \in Sweep :
        /\ sweep[s].pc = "idle" /\ StartSweep(s, Unscored)
        /\ phase' # "down"
        /\ \/ phase = "down"
           \/ phase # "down" /\ Covered
  BY ListsAll DEF BootSweep, StartAdminSweep, Sweep, SweepsOrderly
<1>2. status' = status /\ task' = task
  BY DEF BootSweep, StartAdminSweep, rows
<1>3. /\ sweep'[s].todo = Unscored
      /\ sweep'[s].pc = "idle" => Unscored = {}
      /\ \A r \in Sweep \ {s} : sweep'[r] = sweep[r]
  BY <1>1 DEF StartSweep, IdleSweep
<1>4. SweepsOrderly'
  BY <1>1, <1>3 DEF SweepsOrderly
<1>5. Covered'
  BY <1>2, <1>3 DEF Covered, Unscored
<1>6. QED
  BY <1>4, <1>5

LEMMA CoveredSweep ==
  ASSUME CoveredInv, NEW s \in Sweep, SweepStep(s)
  PROVE  SweepsOrderly' /\ Covered'
<1> USE DEF CoveredInv, ScoredInv, SemaphoreInv, TypeOK
<1>0. phase # "down"
  BY DEF SweepStep, SweepReset, SweepSpawn, SweepsOrderly
<1>1. ASSUME NEW c \in Comp, SweepReset(s, c)
      PROVE  SweepsOrderly' /\ Covered'
  <2>1. /\ task' = task /\ phase' = phase
        /\ \A d \in Comp \ {c} : status'[d] = status[d]
        /\ c \in sweep[s].todo
    BY <1>1 DEF SweepReset, SetStatus, Oldest, rows
  <2>2. /\ \A r \in Sweep : sweep'[r].todo = sweep[r].todo
        /\ \A r \in Sweep \ {s} : sweep'[r] = sweep[r]
        /\ sweep'[s].pc = "spawn"
    BY <1>1 DEF SweepReset
  <2>3. SweepsOrderly'
    BY <1>0, <2>1, <2>2 DEF SweepsOrderly
  <2>4. Covered'
    BY <1>0, <2>1, <2>2 DEF Covered, Unscored
  <2>5. QED
    BY <2>3, <2>4
<1>2. ASSUME NEW c \in Comp, NEW t \in Task, SweepSpawn(s, c, t)
      PROVE  SweepsOrderly' /\ Covered'
  <2>1. /\ status' = status /\ phase' # "down"
        /\ task'[t].comp = c /\ task'[t].pc = "enter" /\ task[t].pc = "free"
        /\ \A u \in Task \ {t} : task'[u] = task[u]
    BY <1>0, <1>2 DEF SweepSpawn, rows, Live
  <2>2. /\ sweep'[s].todo = sweep[s].todo \ {c}
        /\ sweep'[s].pc = "idle" => sweep'[s].todo = {}
        /\ \A r \in Sweep \ {s} : sweep'[r] = sweep[r]
    BY <1>2 DEF SweepSpawn, StartSweep, IdleSweep
  <2>3. SweepsOrderly'
    BY <2>1, <2>2 DEF SweepsOrderly
  <2>4. ASSUME NEW d \in Comp, status'[d] \in {"pending", "running"}
        PROVE  \/ \E u \in Task : task'[u].pc # "free" /\ task'[u].comp = d
               \/ \E r \in Sweep : d \in sweep'[r].todo
    <3>1. CASE d = c
      BY <2>1, <3>1
    <3>2. CASE d # c
      <4>1. \/ \E u \in Task \ {t} : task[u].pc # "free" /\ task[u].comp = d
            \/ \E r \in Sweep : d \in sweep[r].todo
        BY <1>0, <2>1, <2>4 DEF Covered, Unscored
      <4>2. \A r \in Sweep : d \in sweep[r].todo => d \in sweep'[r].todo
        BY <2>2, <3>2
      <4>3. QED
        BY <2>1, <4>1, <4>2
    <3>3. QED
      BY <3>1, <3>2
  <2>5. QED
    BY <2>3, <2>4 DEF Covered, Unscored
<1>3. QED
  BY <1>1, <1>2 DEF SweepStep

LEMMA CoveredStep ==
  ASSUME ~DbFaults, IsFiniteSet(Comp), Cardinality(Comp) <= RecoveryLimit,
         CoveredInv, [Next]_vars
  PROVE  CoveredInv'
<1>1. ScoredInv'
  BY ScoredStep DEF CoveredInv
<1>2. CASE Crash
  BY <1>1, <1>2 DEF Crash, IdleSweep, CoveredInv, SweepsOrderly, Covered
<1>3. CASE UNCHANGED vars
  BY <1>1, <1>3 DEF vars, CoveredInv, SweepsOrderly, Covered, Unscored
<1>4. QED
  BY <1>1, <1>2, <1>3, CoveredWork, CoveredRequest, CoveredStart, CoveredSweep
     DEF Next, CoveredInv

LEMMA CoveredInit == Init => CoveredInv
BY ScoredInit DEF Init, CoveredInv, SweepsOrderly, Covered, IdleSweep

\* While the database answers and a sweep's query is not cut by its limit, nothing
\* stays unscored without a coroutine, a request or a sweep that will come to it:
\* no order of requests, deletions, sweeps and crashes loses a comparison.
THEOREM NoneForgotten ==
  ASSUME ~DbFaults, IsFiniteSet(Comp), Cardinality(Comp) <= RecoveryLimit
  PROVE  Spec => []NoOrphan
<1>1. CoveredInv /\ [Next]_vars => CoveredInv'
  BY CoveredStep
<1>2. CoveredInv => NoOrphan
  BY DEF CoveredInv, Covered, NoOrphan, Live
<1>3. QED
  BY CoveredInit, <1>1, <1>2, PTL DEF Spec

-----------------------------------------------------------------------------
(* A divergence, once written, stays.                                      *)

LEMMA WorkKeepsDivergence ==
  ASSUME SemaphoreInv, NEW t \in Task, Work(t), NEW c \in Comp,
         "divergence" \in score[c]
  PROVE  "divergence" \in score'[c]
<1> USE DEF SemaphoreInv, TypeOK
<1>1. CASE MarkRunning(t) \/ MarkFailed(t)
  BY <1>1 DEF MarkRunning, MarkFailed, SetStatus
<1>2. CASE WriteScores(t)
  BY <1>2 DEF WriteScores, SetScores, rows
<1>3. CASE InlineWrite(t)
  BY <1>3 DEF InlineWrite, SetDivergence, rows
<1>4. CASE \/ Acquire(t) \/ ReadOutputs(t) \/ Raise(t) \/ LoseFailure(t)
           \/ InlineRead(t) \/ InlineRaise(t)
  BY <1>4 DEF Acquire, ReadOutputs, Raise, LoseFailure, InlineRead, InlineRaise, rows
<1>5. QED
  BY <1>1, <1>2, <1>3, <1>4 DEF Work

LEMMA DivergenceStep ==
  ASSUME SemaphoreInv, [Next]_vars, NEW c \in Comp,
         "divergence" \in score[c], status'[c] # "deleted"
  PROVE  "divergence" \in score'[c]
<1> USE DEF SemaphoreInv, TypeOK
<1>1. ASSUME NEW d \in Comp, NEW t \in Task, NEW cfg \in BOOLEAN,
             SdkCreate(d, t, cfg) \/ RunnerCreate(d, t)
      PROVE  score' = score
  BY <1>1 DEF SdkCreate, RunnerCreate
<1>2. ASSUME NEW d \in Comp, DeleteComparison(d) \/ Prune(d)
      PROVE  "divergence" \in score'[c]
  BY <1>2 DEF DeleteComparison, Prune, rows
<1>3. ASSUME NEW s \in Sweep, SweepStep(s)
      PROVE  score' = score
  BY <1>3 DEF SweepStep, SweepReset, SweepSpawn, SetStatus, rows
<1>4. CASE Crash \/ BootSweep \/ (\E s \in AdminSweep : StartAdminSweep(s))
           \/ UNCHANGED vars
  BY <1>4 DEF Crash, BootSweep, StartAdminSweep, rows, vars
<1>5. QED
  BY <1>1, <1>2, <1>3, <1>4, WorkKeepsDivergence DEF Next, Request

\* No rescoring, failure, sweep, prune or crash loses a divergence once it is in the
\* row, though an empty read rewrites the other score columns.
THEOREM DivergenceStays == Spec => DivergenceKept
<1>1. SemaphoreInv /\ [Next]_vars
        => [\A c \in Comp : "divergence" \in score[c] /\ status'[c] # "deleted" =>
              "divergence" \in score'[c]]_vars
  BY DivergenceStep
<1>2. SemaphoreInv /\ [Next]_vars => SemaphoreInv'
  BY SemaphoreStep
<1>3. QED
  BY SemaphoreInit, <1>1, <1>2, PTL DEF Spec, DivergenceKept

=============================================================================
