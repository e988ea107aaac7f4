------------------------------ MODULE SdkBatch -------------------------------
(***************************************************************************)
(* A batch of the SDK: EvalRunContext (sdk/forkmark/evalrun.py) over its   *)
(* WorkflowContexts (workflow.py), and the rows its requests make on the   *)
(* server (backend/routes/sdk.py, core/store_impl/{evalruns,workflows,     *)
(* branches}.py).  Every case starts a run, makes branches and steps, logs *)
(* them, completes the run and asks for a comparison; an exception on the  *)
(* way counts the case as failed.                                          *)
(***************************************************************************)
EXTENDS SdkRequests

CONSTANTS
  Case,         \* inputs of the batch
  MaxWorkers    \* max_workers of run()

ASSUME SdkBatchAssumption == IsFiniteSet(Case) /\ MaxWorkers \in Nat \ {0}

VARIABLES
  batch,      \* EvalRunContext
  caseOf,     \* caseOf[c]: the WorkflowContext of the case
  evalRuns,   \* rows of eval_runs made for the batch
  runsOf      \* runsOf[c]: rows of workflow_runs made for the case

batchVars == <<faults, batch, caseOf, evalRuns, runsOf>>

-----------------------------------------------------------------------------

EvalRunRec == [status: {"pending", "running", "completed", "failed", "deleted"},
               total: 0..Cardinality(Case)]

RunRec == [status: {"running", "completed", "failed"},
           branches: Nat, steps: Nat, comparisons: Nat]

BatchTypeOK ==
  /\ faults \in 0..MaxFaults
  /\ batch \in [mode: {"sequential", "parallel"},
                pc: {"enter", "cases", "exit", "closed", "raised"},
                row: Nat, tries: 0..RetryAttempts,
                completed: Nat, failed: Nat,
                aborted: BOOLEAN]   \* the body of the with statement has raised
  /\ caseOf \in [Case -> [pc: {"waiting", "start", "work", "branch", "log", "complete",
                               "compare", "done", "failed", "left"},
                          run: Nat, tries: 0..RetryAttempts,
                          made: 0..2,          \* branches: baseline, then challenger
                          raised: BOOLEAN]]    \* the caller's function has raised
  /\ evalRuns \in Seq(EvalRunRec)
  /\ runsOf \in [Case -> Seq(RunRec)]

BatchInit ==
  /\ faults = 0
  /\ batch \in [mode: {"sequential", "parallel"}, pc: {"enter"}, row: {0}, tries: {0},
                completed: {0}, failed: {0}, aborted: {FALSE}]
  /\ caseOf = [c \in Case |-> [pc |-> "waiting", run |-> 0, tries |-> 0, made |-> 0,
                               raised |-> FALSE]]
  /\ evalRuns = <<>>
  /\ runsOf = [c \in Case |-> <<>>]

-----------------------------------------------------------------------------
(* The requests on the server. *)

\* create_eval_run, then update_eval_run_status(RUNNING), in two transactions.
InsertEvalRun(status) ==
  /\ evalRuns' = Append(evalRuns, [status |-> status, total |-> Cardinality(Case)])
  /\ UNCHANGED runsOf

\* update_eval_run_status: 404 when the row is gone.
UpdateEvalRun(row, status, total) ==
  /\ evalRuns' = [evalRuns EXCEPT ![row] = [status |-> status, total |-> total]]
  /\ UNCHANGED runsOf

InsertRun(c) ==
  /\ runsOf' = [runsOf EXCEPT ![c] =
       Append(@, [status |-> "running", branches |-> 0, steps |-> 0, comparisons |-> 0])]
  /\ UNCHANGED evalRuns

\* The case's run as the request leaves it.
UpdateRun(c, rec) ==
  /\ runsOf' = [runsOf EXCEPT ![c][caseOf[c].run] = rec]
  /\ UNCHANGED evalRuns

Deleted == evalRuns[batch.row].status = "deleted"

RunOf(c) == runsOf[c][caseOf[c].run]

Served(c, pc) ==
  CASE pc = "start"    -> InsertRun(c)
    [] pc = "branch"   -> UpdateRun(c, [RunOf(c) EXCEPT !.branches = @ + 1])
    [] pc = "log"      -> UpdateRun(c, [RunOf(c) EXCEPT !.steps = @ + 1])
    [] pc = "complete" -> UpdateRun(c, [RunOf(c) EXCEPT !.status =
                                          IF caseOf[c].raised THEN "failed" ELSE "completed"])
    [] pc = "compare"  -> UpdateRun(c, [RunOf(c) EXCEPT !.comparisons = @ + 1])

NotServed == UNCHANGED <<evalRuns, runsOf>>

-----------------------------------------------------------------------------
(* EvalRunContext. *)

EnterBatch ==
  /\ batch.pc = "enter"
  /\ \/ Answered(InsertEvalRun("running"),
                 batch' = [batch EXCEPT !.pc = "cases", !.tries = 0, !.row = Len(evalRuns) + 1])
     \/ NoAnswer(\E status \in {"pending", "running"} : InsertEvalRun(status), NotServed,
                 batch.tries,
                 batch' = [batch EXCEPT !.tries = @ + 1],
                 batch' = [batch EXCEPT !.pc = "raised"])
  /\ UNCHANGED caseOf

Active(c) == caseOf[c].pc \notin {"waiting", "done", "failed", "left"}

\* A worker takes the next case: one at a time in "for case in er", MaxWorkers at
\* a time in run().
TakeCase(c) ==
  /\ batch.pc = "cases" /\ caseOf[c].pc = "waiting"
  /\ Cardinality({o \in Case : Active(o)}) <
       (IF batch.mode = "sequential" THEN 1 ELSE MaxWorkers)
  /\ batch.aborted =>   \* the generator goes on when closing it fails
       /\ \E o \in Case : caseOf[o].pc = "failed" /\ caseOf[o].raised
       /\ \A o \in Case : caseOf[o].pc # "left"
  /\ caseOf' = [caseOf EXCEPT ![c].pc = "start"]
  /\ UNCHANGED <<faults, batch, evalRuns, runsOf>>

\* __exit__: the body is over when every case is, or when an exception left it.
LeaveBody ==
  /\ batch.pc = "cases"
  /\ \A c \in Case : ~Active(c)
  /\ \/ \A c \in Case : caseOf[c].pc # "waiting"
     \/ \E c \in Case : caseOf[c].pc = "left"
  /\ batch' = [batch EXCEPT !.pc = "exit"]
  /\ UNCHANGED <<faults, caseOf, evalRuns, runsOf>>

CloseBatch ==
  LET status == IF batch.aborted THEN "failed" ELSE "completed"
      close == UpdateEvalRun(batch.row, status, batch.completed + batch.failed)
  IN
  /\ batch.pc = "exit"
  /\ IF Deleted
     THEN batch' = [batch EXCEPT !.pc = "raised"] /\ NotServed /\ UNCHANGED faults
     ELSE \/ Answered(close, batch' = [batch EXCEPT !.pc = "closed", !.tries = 0])
          \/ NoAnswer(close, NotServed, batch.tries,
                      batch' = [batch EXCEPT !.tries = @ + 1],
                      batch' = [batch EXCEPT !.pc = "raised"])
  /\ UNCHANGED caseOf

-----------------------------------------------------------------------------
(* WorkflowContext. *)

\* The case has ended with or without an exception in the context's own code.
CountCase(c, pc) ==
  /\ caseOf' = [caseOf EXCEPT ![c].pc = pc, ![c].tries = 0]
  /\ batch' = CASE pc = "done" -> [batch EXCEPT !.completed = @ + 1]
                [] pc = "failed" -> [batch EXCEPT !.failed = @ + 1]
                [] pc = "left" -> batch

GoOn(c, pc) ==
  /\ caseOf' = [caseOf EXCEPT ![c].pc = pc, ![c].tries = 0]
  /\ UNCHANGED batch

\* After the last request: the exception of the caller's function goes on.  run()
\* counts it; in "for case in er" it never was the generator's, which is closed.
EndCase(c) ==
  IF ~caseOf[c].raised THEN CountCase(c, "done")
  ELSE CountCase(c, IF batch.mode = "sequential" THEN "left" ELSE "failed")

\* The next request of a case whose request has been answered.
Continue(c) ==
  LET q == caseOf[c] IN
  CASE q.pc = "start" ->
         /\ caseOf' = [caseOf EXCEPT ![c].pc = "work", ![c].tries = 0,
                                     ![c].run = Len(runsOf[c]) + 1]
         /\ UNCHANGED batch
    [] q.pc = "branch" ->
         /\ caseOf' = [caseOf EXCEPT ![c].pc = "work", ![c].tries = 0, ![c].made = @ + 1]
         /\ UNCHANGED batch
    [] q.pc = "log" -> GoOn(c, "complete")
    [] q.pc = "complete" -> IF ~q.raised /\ q.made = 2 THEN GoOn(c, "compare") ELSE EndCase(c)
    [] q.pc = "compare" -> EndCase(c)

\* The with statement ends: steps are pending when there is a branch.
ExitFrom(c) == IF caseOf[c].made > 0 THEN "log" ELSE "complete"

\* The caller's function raises.  In "for case in er" the loop is over.
RaiseInBody(c) ==
  /\ caseOf' = [caseOf EXCEPT ![c].pc = ExitFrom(c), ![c].tries = 0, ![c].raised = TRUE]
  /\ batch' = [batch EXCEPT !.aborted = @ \/ batch.mode = "sequential"]

\* Faulty: an exception of create_comparison is swallowed.
SwallowGivingUp(c) ==
  IF caseOf[c].pc = "branch" THEN RaiseInBody(c)
  ELSE IF caseOf[c].pc = "compare" THEN CountCase(c, "done")
  ELSE CountCase(c, "failed")

\* The request has had all of its attempts.  A branch's is made by the caller's
\* function; the others are the context's own.
GiveUp(c) ==
  IF caseOf[c].pc = "branch" THEN RaiseInBody(c) ELSE CountCase(c, "failed")

Request(c) ==
  LET q == caseOf[c] IN
  /\ q.pc \in {"start", "branch", "log", "complete", "compare"}
  /\ IF q.pc = "start" /\ Deleted
     THEN NotServed /\ GiveUp(c) /\ UNCHANGED faults   \* the foreign key: 500 each time
     ELSE \/ Answered(Served(c, q.pc), Continue(c))
          \/ NoAnswer(Served(c, q.pc), NotServed, q.tries,
                      caseOf' = [caseOf EXCEPT ![c].tries = @ + 1] /\ UNCHANGED batch,
                      GiveUp(c))

\* The caller's function: step and branch_step make their branch when it is the
\* first of it; it may return with one branch or none, and raise at any time.
Work(c) ==
  /\ caseOf[c].pc = "work"
  /\ IF batch.aborted
     THEN CountCase(c, "left")   \* started while the generator was being closed
     ELSE \/ caseOf[c].made < 2 /\ GoOn(c, "branch")
          \/ GoOn(c, ExitFrom(c))
          \/ RaiseInBody(c)
  /\ UNCHANGED <<faults, evalRuns, runsOf>>

\* DELETE /api/eval-runs/{id} of the user interface.
DeleteEvalRun ==
  /\ batch.row # 0
  /\ ~Deleted
  /\ Fault
  /\ evalRuns' = [evalRuns EXCEPT ![batch.row].status = "deleted"]
  /\ UNCHANGED <<batch, caseOf, runsOf>>

BatchNext ==
  \/ EnterBatch \/ LeaveBody \/ CloseBatch \/ DeleteEvalRun
  \/ \E c \in Case : TakeCase(c) \/ Request(c) \/ Work(c)

BatchSpec == BatchInit /\ [][BatchNext]_batchVars

-----------------------------------------------------------------------------

\* What er.stats and the eval run's total say is what happened, however often
\* requests were repeated: a case counts as completed only when its run is complete
\* and, if it had two branches, its steps and a comparison are on the server; a
\* batch that was closed normally has counted every case, and the row says so.
BatchAccounted ==
  /\ \A c \in Case : caseOf[c].pc = "done" =>
       /\ RunOf(c).status = "completed"
       /\ caseOf[c].made = 2 => RunOf(c).steps > 0 /\ RunOf(c).comparisons > 0
  /\ batch.completed = Cardinality({c \in Case : caseOf[c].pc = "done"})
  /\ batch.pc = "closed" =>
       LET counted == batch.completed + batch.failed IN
       /\ batch.aborted \/ counted = Cardinality(Case)
       /\ Deleted \/ evalRuns[batch.row].total = counted
=============================================================================
