------------------------------ MODULE Scoring ------------------------------
(***************************************************************************)
(* Background scoring of comparisons (core/background.py).                 *)
(*                                                                         *)
(* A comparison row is inserted 'pending' and scored later by a coroutine  *)
(* of the server's event loop.  An asyncio.Semaphore admits MaxWorkers of  *)
(* them at a time; a coroutine marks the row 'running', reads the branch   *)
(* outputs, and writes the scores and 'completed' in one UPDATE, or        *)
(* 'failed' when anything raised.  The queue lives in memory: a crash      *)
(* loses it, and a sweep at startup re-enqueues what it left unscored.     *)
(* The admin endpoint runs the same sweep while the server is serving.     *)
(*                                                                         *)
(* Comparisons are numbered in the order of their created_at.              *)
(***************************************************************************)
EXTENDS Naturals, FiniteSets, Sequences

CONSTANTS
  Comp,            \* comparison ids, numbered by creation order
  Task,            \* slots for scoring coroutines (bounds how many are alive)
  Boot,            \* the sweep run by the application's lifespan
  AdminSweep,      \* slots for concurrent POST /api/admin/rescore-pending
  MaxWorkers,      \* FM_BACKGROUND_WORKERS
  RecoveryLimit,   \* the limit of list_unscored_comparisons
  MaxCrashes,      \* bound: crashes of the server process
  MaxAdminSweeps,  \* bound: calls of the admin endpoint
  DbFaults         \* whether a database call may raise

ASSUME ScoringAssumption ==
  /\ Comp \subseteq Nat \ {0}
  /\ IsFiniteSet(Task)
  /\ Boot \notin AdminSweep
  /\ MaxWorkers \in Nat \ {0}
  /\ RecoveryLimit \in Nat
  /\ MaxCrashes \in Nat
  /\ MaxAdminSweeps \in Nat
  /\ DbFaults \in BOOLEAN

VARIABLES
  phase,      \* "down", "booting" (lifespan not yet yielded) or "serving"
  status,     \* comparisons.scoring_status, "absent" before the INSERT
  score,      \* the score columns that hold a value
  outputs,    \* whether the branches still have step outputs to score
  task,       \* the scoring coroutines and the runner's inline scorings
  waiting,    \* the semaphore's waiters, oldest first
  permits,    \* the semaphore's counter
  sweep,      \* the recovery sweeps under way
  crashes,    \* crashes so far
  adminCalls  \* admin sweeps so far

vars == <<phase, status, score, outputs, task, waiting, permits, sweep,
          crashes, adminCalls>>

rows == <<status, score>>

-----------------------------------------------------------------------------

NoComp == 0

Sweep == AdminSweep \union {Boot}

Status == {"absent", "pending", "running", "completed", "failed", "deleted"}

Terminal == {"completed", "failed"}

ScorePart == {"divergence", "steps", "evals"}

FreeTask == [pc |-> "free", comp |-> NoComp, evals |-> FALSE, read |-> FALSE]

TaskRec ==
  {FreeTask} \union
  [pc: {"enter", "wait", "mark", "read", "write", "onerror",
        "inline_read", "inline_write"},
   comp: Comp,
   evals: BOOLEAN,    \* the request named evaluators
   read: BOOLEAN]     \* the outputs it read were not empty

SweepRec == [pc: {"idle", "reset", "spawn"}, todo: SUBSET Comp]

IdleSweep == [pc |-> "idle", todo |-> {}]

InSemaphore == {"mark", "read", "write", "onerror"}

\* Coroutines inside "async with sem".
Active == {t \in Task : task[t].pc \in InSemaphore}

Live(t) == task[t].pc # "free"

TypeOK ==
  /\ phase \in {"down", "booting", "serving"}
  /\ status \in [Comp -> Status]
  /\ score \in [Comp -> SUBSET ScorePart]
  /\ outputs \in [Comp -> BOOLEAN]
  /\ task \in [Task -> TaskRec]
  /\ waiting \in Seq(Task)
  /\ permits \in Nat
  /\ sweep \in [Sweep -> SweepRec]
  /\ crashes \in 0..MaxCrashes
  /\ adminCalls \in 0..MaxAdminSweeps

Init ==
  /\ phase = "down"
  /\ status = [c \in Comp |-> "absent"]
  /\ score = [c \in Comp |-> {}]
  /\ outputs = [c \in Comp |-> FALSE]
  /\ task = [t \in Task |-> FreeTask]
  /\ waiting = <<>>
  /\ permits = MaxWorkers
  /\ sweep = [s \in Sweep |-> IdleSweep]
  /\ crashes = 0
  /\ adminCalls = 0

-----------------------------------------------------------------------------
(* The row.                                                                *)

\* A row the UPDATE ... WHERE id=? finds.
RowExists(c) == status[c] \notin {"absent", "deleted"}

\* update_comparison_scoring(comp_id, scoring_status=st)
SetStatus(c, st) ==
  /\ status' = IF RowExists(c) THEN [status EXCEPT ![c] = st] ELSE status
  /\ UNCHANGED score

\* update_comparison_scoring with every column: a divergence of None leaves the
\* column alone, the step scores and the evaluator results are always replaced.
Produced(t) ==
  IF ~task[t].read THEN {}
  ELSE {"divergence", "steps"} \union (IF task[t].evals THEN {"evals"} ELSE {})

\* Faulty: a divergence of None is written as NULL.
SetScoresNull(c, parts) ==
  IF RowExists(c)
  THEN /\ status' = [status EXCEPT ![c] = "completed"]
       /\ score' = [score EXCEPT ![c] = parts]
  ELSE UNCHANGED rows

\* Faulty: the status is left to a second UPDATE.
SetScoresOnly(c, parts) ==
  /\ score' = IF RowExists(c) THEN [score EXCEPT ![c] = @ \union parts] ELSE score
  /\ UNCHANGED status

SetScores(c, parts) ==
  IF RowExists(c)
  THEN /\ status' = [status EXCEPT ![c] = "completed"]
       /\ score' = [score EXCEPT ![c] = (@ \intersect {"divergence"}) \union parts]
  ELSE UNCHANGED rows

\* The runner's UPDATE names only the divergence.
SetDivergence(c, parts) ==
  IF RowExists(c)
  THEN /\ status' = [status EXCEPT ![c] = "completed"]
       /\ score' = [score EXCEPT ![c] = @ \union parts]
  ELSE UNCHANGED rows

-----------------------------------------------------------------------------
(* Requests that create and delete comparisons.                            *)

Insert(c) ==
  /\ phase = "serving"
  /\ status[c] = "absent"
  /\ \A d \in Comp : d < c => status[d] # "absent"
  /\ status' = [status EXCEPT ![c] = "pending"]
  /\ outputs' = [outputs EXCEPT ![c] = TRUE]

\* POST /api/sdk/comparisons: the row, then a background task for the response.
SdkCreate(c, t, cfg) ==
  /\ Insert(c)
  /\ ~Live(t)
  /\ task' = [task EXCEPT ![t] =
                [pc |-> "enter", comp |-> c, evals |-> cfg, read |-> FALSE]]
  /\ UNCHANGED <<phase, score, waiting, permits, sweep, crashes, adminCalls>>

\* POST /api/runner runs in a threadpool thread, where get_running_loop raises:
\* the comparison is scored inline by the request itself.
RunnerCreate(c, t) ==
  /\ Insert(c)
  /\ ~Live(t)
  /\ task' = [task EXCEPT ![t] =
                [pc |-> "inline_read", comp |-> c, evals |-> FALSE, read |-> FALSE]]
  /\ UNCHANGED <<phase, score, waiting, permits, sweep, crashes, adminCalls>>

InlineRead(t) ==
  /\ task[t].pc = "inline_read"
  /\ task' = [task EXCEPT ![t].pc = "inline_write",
                          ![t].read = outputs[task[t].comp]]
  /\ UNCHANGED <<phase, rows, outputs, waiting, permits, sweep, crashes, adminCalls>>

InlineWrite(t) ==
  /\ task[t].pc = "inline_write"
  /\ SetDivergence(task[t].comp, IF task[t].read THEN {"divergence"} ELSE {})
  /\ task' = [task EXCEPT ![t] = FreeTask]
  /\ UNCHANGED <<phase, outputs, waiting, permits, sweep, crashes, adminCalls>>

\* An exception ends the runner's request with a 500 and nothing marks the row.
InlineRaise(t) ==
  /\ DbFaults
  /\ task[t].pc \in {"inline_read", "inline_write"}
  /\ task' = [task EXCEPT ![t] = FreeTask]
  /\ UNCHANGED <<phase, rows, outputs, waiting, permits, sweep, crashes, adminCalls>>

\* DELETE of the workflow cascades to its comparisons, branches and outputs.
DeleteComparison(c) ==
  /\ phase = "serving"
  /\ RowExists(c)
  /\ status' = [status EXCEPT ![c] = "deleted"]
  /\ score' = [score EXCEPT ![c] = {}]
  /\ outputs' = [outputs EXCEPT ![c] = FALSE]
  /\ UNCHANGED <<phase, task, waiting, permits, sweep, crashes, adminCalls>>

\* DELETE /api/admin/prune drops the step outputs older than a cutoff.
Prune(cutoff) ==
  /\ phase = "serving"
  /\ outputs' = [c \in Comp |-> outputs[c] /\ c > cutoff]
  /\ outputs' # outputs
  /\ UNCHANGED <<phase, rows, task, waiting, permits, sweep, crashes, adminCalls>>

-----------------------------------------------------------------------------
(* The semaphore: asyncio.Semaphore hands a released permit to the waiter  *)
(* at the head of its queue.                                               *)

Acquire(t) ==
  /\ task[t].pc = "enter"
  /\ IF permits > 0 /\ waiting = <<>>
     THEN /\ permits' = permits - 1
          /\ task' = [task EXCEPT ![t].pc = "mark"]
          /\ UNCHANGED waiting
     ELSE /\ waiting' = Append(waiting, t)
          /\ task' = [task EXCEPT ![t].pc = "wait"]
          /\ UNCHANGED permits
  /\ UNCHANGED <<phase, rows, outputs, sweep, crashes, adminCalls>>

\* The coroutine t returns and leaves "async with sem".
Release(t) ==
  IF waiting = <<>>
  THEN /\ permits' = permits + 1
       /\ task' = [task EXCEPT ![t] = FreeTask]
       /\ UNCHANGED waiting
  ELSE /\ waiting' = Tail(waiting)
       /\ task' = [task EXCEPT ![t] = FreeTask, ![Head(waiting)].pc = "mark"]
       /\ UNCHANGED permits

-----------------------------------------------------------------------------
(* _score_comparison_async, one action per database call.                  *)

MarkRunning(t) ==
  /\ task[t].pc = "mark"
  /\ SetStatus(task[t].comp, "running")
  /\ task' = [task EXCEPT ![t].pc = "read"]
  /\ UNCHANGED <<phase, outputs, waiting, permits, sweep, crashes, adminCalls>>

ReadOutputs(t) ==
  /\ task[t].pc = "read"
  /\ task' = [task EXCEPT ![t].pc = "write", ![t].read = outputs[task[t].comp]]
  /\ UNCHANGED <<phase, rows, outputs, waiting, permits, sweep, crashes, adminCalls>>

WriteScores(t) ==
  /\ task[t].pc = "write"
  /\ SetScores(task[t].comp, Produced(t))
  /\ Release(t)
  /\ UNCHANGED <<phase, outputs, sweep, crashes, adminCalls>>

\* A database call, divergence_score or an evaluator raises: the except branch.
\* Scoring raises without a database fault too.
Raise(t) ==
  /\ \/ task[t].pc \in {"mark", "read"} /\ DbFaults
     \/ task[t].pc = "write"
  /\ task' = [task EXCEPT ![t].pc = "onerror"]
  /\ UNCHANGED <<phase, rows, outputs, waiting, permits, sweep, crashes, adminCalls>>

\* Faulty: acquire() and release() without "async with": an error keeps the permit.
MarkFailedLeak(t) ==
  /\ task[t].pc = "onerror"
  /\ SetStatus(task[t].comp, "failed")
  /\ task' = [task EXCEPT ![t] = FreeTask]
  /\ UNCHANGED <<phase, outputs, waiting, permits, sweep, crashes, adminCalls>>

\* Faulty: a status the rest of the program does not know.
MarkFailedError(t) ==
  /\ task[t].pc = "onerror"
  /\ SetStatus(task[t].comp, "error")
  /\ Release(t)
  /\ UNCHANGED <<phase, outputs, sweep, crashes, adminCalls>>

\* Faulty: "completed" in a finally clause.
MarkFailedCompletes(t) ==
  /\ task[t].pc = "onerror"
  /\ SetStatus(task[t].comp, "completed")
  /\ Release(t)
  /\ UNCHANGED <<phase, outputs, sweep, crashes, adminCalls>>

MarkFailed(t) ==
  /\ task[t].pc = "onerror"
  /\ SetStatus(task[t].comp, "failed")
  /\ Release(t)
  /\ UNCHANGED <<phase, outputs, sweep, crashes, adminCalls>>

\* The best-effort status update itself raises and is swallowed.
LoseFailure(t) ==
  /\ DbFaults
  /\ task[t].pc = "onerror"
  /\ Release(t)
  /\ UNCHANGED <<phase, rows, outputs, sweep, crashes, adminCalls>>

-----------------------------------------------------------------------------
(* recover_pending_scoring.                                                *)

Unscored == {c \in Comp : status[c] \in {"pending", "running"}}

\* Faulty: only 'pending' rows are recovered.
OldestPending == {c \in Comp : status[c] = "pending"}

\* ORDER BY created_at ASC LIMIT RecoveryLimit
OldestUnscored ==
  {c \in Unscored : Cardinality({d \in Unscored : d < c}) < RecoveryLimit}

Oldest(S, c) == c \in S /\ \A d \in S : c <= d

StartSweep(s, found) ==
  sweep' = [sweep EXCEPT ![s] =
              IF found = {} THEN IdleSweep ELSE [pc |-> "reset", todo |-> found]]

\* Faulty: the sweep is run again while the server serves.
BootSweepAnytime ==
  /\ phase \in {"down", "serving"}
  /\ sweep[Boot].pc = "idle"
  /\ StartSweep(Boot, OldestUnscored)
  /\ phase' = IF OldestUnscored = {} THEN "serving" ELSE "booting"
  /\ UNCHANGED <<rows, outputs, task, waiting, permits, crashes, adminCalls>>

\* The lifespan sweeps before the first request is served; when the list call
\* raises the server starts without recovering anything.
BootSweep ==
  /\ phase = "down"
  /\ \E found \in {OldestUnscored} \union (IF DbFaults THEN {{}} ELSE {}) :
       /\ StartSweep(Boot, found)
       /\ phase' = IF found = {} THEN "serving" ELSE "booting"
  /\ UNCHANGED <<rows, outputs, task, waiting, permits, crashes, adminCalls>>

StartAdminSweep(s) ==
  /\ phase = "serving"
  /\ adminCalls < MaxAdminSweeps
  /\ sweep[s].pc = "idle"
  /\ StartSweep(s, OldestUnscored)
  /\ adminCalls' = adminCalls + 1
  /\ UNCHANGED <<phase, rows, outputs, task, waiting, permits, crashes>>

\* The row is put back to 'pending' on the list's word: what it holds now is not
\* read again.  An exception of this update is swallowed.
SweepReset(s, c) ==
  /\ sweep[s].pc = "reset"
  /\ Oldest(sweep[s].todo, c)
  /\ \/ SetStatus(c, "pending")
     \/ DbFaults /\ UNCHANGED rows
  /\ sweep' = [sweep EXCEPT ![s].pc = "spawn"]
  /\ UNCHANGED <<phase, outputs, task, waiting, permits, crashes, adminCalls>>

\* create_task(async_enqueue_scoring(..., [])): without evaluators.
SweepSpawn(s, c, t) ==
  /\ sweep[s].pc = "spawn"
  /\ Oldest(sweep[s].todo, c)
  /\ ~Live(t)
  /\ task' = [task EXCEPT ![t] =
                [pc |-> "enter", comp |-> c, evals |-> FALSE, read |-> FALSE]]
  /\ StartSweep(s, sweep[s].todo \ {c})
  /\ phase' = IF s = Boot /\ sweep[s].todo = {c} THEN "serving" ELSE phase
  /\ UNCHANGED <<rows, outputs, waiting, permits, crashes, adminCalls>>

-----------------------------------------------------------------------------

\* The process dies: everything in memory is gone, the database stays.
Crash ==
  /\ phase # "down"
  /\ crashes < MaxCrashes
  /\ phase' = "down"
  /\ task' = [t \in Task |-> FreeTask]
  /\ waiting' = <<>>
  /\ permits' = MaxWorkers
  /\ sweep' = [s \in Sweep |-> IdleSweep]
  /\ crashes' = crashes + 1
  /\ UNCHANGED <<rows, outputs, adminCalls>>

Request ==
  \/ \E c \in Comp, t \in Task, cfg \in BOOLEAN : SdkCreate(c, t, cfg)
  \/ \E c \in Comp, t \in Task : RunnerCreate(c, t)
  \/ \E c \in Comp : DeleteComparison(c)
  \/ \E c \in Comp : Prune(c)

Work(t) ==
  \/ Acquire(t)
  \/ MarkRunning(t)
  \/ ReadOutputs(t)
  \/ WriteScores(t)
  \/ Raise(t)
  \/ MarkFailed(t)
  \/ LoseFailure(t)
  \/ InlineRead(t)
  \/ InlineWrite(t)
  \/ InlineRaise(t)

SweepStep(s) ==
  \/ \E c \in Comp : SweepReset(s, c)
  \/ \E c \in Comp, t \in Task : SweepSpawn(s, c, t)

Next ==
  \/ Request
  \/ \E t \in Task : Work(t)
  \/ BootSweep
  \/ \E s \in AdminSweep : StartAdminSweep(s)
  \/ \E s \in Sweep : SweepStep(s)
  \/ Crash

Spec == Init /\ [][Next]_vars

\* The event loop runs every runnable coroutine, the threadpool every request,
\* and the supervisor restarts the process; requests and crashes are not forced.
Fairness ==
  /\ \A t \in Task : WF_vars(Work(t))
  /\ \A s \in Sweep : WF_vars(SweepStep(s))
  /\ WF_vars(BootSweep)

FairSpec == Spec /\ Fairness
-----------------------------------------------------------------------------
(* Safety.                                                                 *)

\* A permit is held by exactly one coroutine inside the semaphore or is free,
\* whatever path a coroutine leaves by, and none stays free while a coroutine
\* waits: the concurrency limit of background.py neither leaks nor idles.
PermitsConserved ==
  /\ permits + Cardinality(Active) = MaxWorkers
  /\ waiting # <<>> => permits = 0

\* The semaphore's queue holds each suspended coroutine once and no other.
WaitersQueued ==
  /\ \A t \in Task : task[t].pc = "wait" <=> \E i \in DOMAIN waiting : waiting[i] = t
  /\ \A i, j \in DOMAIN waiting : waiting[i] = waiting[j] => i = j

\* No two coroutines score the same comparison, and a sweep never re-enqueues one
\* that is already being scored.  Only the admin endpoint can break this.
SingleScorer ==
  /\ \A t, u \in Task :
       Live(t) /\ Live(u) /\ task[t].comp = task[u].comp => t = u
  /\ \A s \in Sweep, t \in Task :
       Live(t) /\ task[t].comp \in sweep[s].todo => FALSE

\* While the server serves, every unscored comparison still has something that
\* will score it: a coroutine, a request, or its turn in a sweep.  What is not
\* covered stays 'pending' or 'running' until the next restart.
NoOrphan ==
  phase = "serving" =>
    \A c \in Unscored :
      \/ \E t \in Task : Live(t) /\ task[t].comp = c
      \/ \E s \in Sweep : c \in sweep[s].todo

\* A comparison that completed while its outputs were there (and they still are)
\* was scored from them: no interleaving completes it on an empty read.
CompletedIsScored ==
  \A c \in Comp : status[c] = "completed" /\ outputs[c] => "divergence" \in score[c]

\* "Comparisons already cache divergence_score and step_divergence_scores so stats
\* are unaffected" (prune_step_outputs): a completed comparison has its divergence.
CompletedHasDivergence ==
  \A c \in Comp : status[c] = "completed" => "divergence" \in score[c]

\* What the client's wait_for_scoring returned as "the final score-status dict"
\* stays what it was until the comparison is deleted.
TerminalIsFinal ==
  [][\A c \in Comp : status[c] \in Terminal /\ status'[c] # "deleted" =>
       status'[c] = status[c] /\ score'[c] = score[c]]_vars

\* A recorded divergence survives every rescoring, crash and prune.
DivergenceKept ==
  [][\A c \in Comp : "divergence" \in score[c] /\ status'[c] # "deleted" =>
       "divergence" \in score'[c]]_vars

-----------------------------------------------------------------------------
(* Liveness.                                                               *)

\* Every comparison is scored, marked failed or deleted in the end, across
\* crashes: "without this sweep such comparisons would stay unscored forever".
EventuallySettled ==
  \A c \in Comp : c \in Unscored ~> [](c \notin Unscored)

-----------------------------------------------------------------------------
(* The lifecycle a client of the API relies on.                            *)

Lifecycle == INSTANCE ComparisonLifecycle WITH
  divergence <- [c \in Comp |-> "divergence" \in score[c]]

ImplementsLifecycle == Lifecycle!Spec
=============================================================================
