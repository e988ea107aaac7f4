------------------------------- MODULE Demos ---------------------------------
(***************************************************************************)
(* Seeding and resetting a demo (backend/routes/demos.py).  A seed clears  *)
(* what earlier seeds left and then makes a workflow, an eval run and a    *)
(* run, branches, outputs and a comparison for every case, each in a       *)
(* transaction of its own; requests overlap, and the errors of clearing    *)
(* are swallowed.  Foreign keys delete the rows of a workflow with it, but *)
(* trace events hold on to their runs.                                     *)
(***************************************************************************)
EXTENDS Server

CONSTANTS
  DemoRequest,   \* requests, each served once
  DemoCases      \* cases of the fixture

ASSUME DemosAssumption == IsFiniteSet(DemoRequest) /\ DemoCases \in Nat \ {0}

VARIABLES
  demo,       \* the fixture: "llm" or "agent"
  workflow,   \* id of the demo's workflow, 0 when there is none
  lastId,     \* ids given out
  rows,       \* rows[r]: what the seed of request r has made and is still there
  demoReq,    \* the requests
  latest      \* the request that came last, as a set

demoVars == <<demo, workflow, lastId, rows, demoReq, latest>>

-----------------------------------------------------------------------------

NoRows == [workflow |-> 0, evalRun |-> "none", runs |-> 0, traced |-> FALSE,
           compared |-> 0, decided |-> FALSE]

RowsRec == [workflow: Nat, evalRun: {"none", "pending", "running", "completed"},
            runs: 0..DemoCases, traced: BOOLEAN, compared: 0..DemoCases, decided: BOOLEAN]

NewRequest == [pc |-> "new", asked |-> "none", alone |-> TRUE, seen |-> 0, found |-> {}]

DemosTypeOK ==
  /\ demo \in {"llm", "agent"}
  /\ lastId \in 0..Cardinality(DemoRequest)
  /\ workflow \in 0..lastId
  /\ rows \in [DemoRequest -> RowsRec]
  /\ latest \subseteq DemoRequest
  /\ demoReq \in [DemoRequest ->
       [pc: {"new", "find", "unTrace", "list", "unlist", "drop", "upsert", "evalRun", "start",
             "run", "trace", "compare", "complete", "lifecycle", "ok", "error"},
        asked: {"none", "seed", "reset"},
        alone: BOOLEAN,              \* no other request has been served meanwhile
        seen: Nat,                   \* the workflow's id as it was read
        found: SUBSET DemoRequest]]  \* eval runs that were listed

DemosInit ==
  /\ demo \in {"llm", "agent"}
  /\ workflow = 0
  /\ lastId = 0
  /\ rows = [r \in DemoRequest |-> NoRows]
  /\ latest = {}
  /\ demoReq = [r \in DemoRequest |-> NewRequest]

-----------------------------------------------------------------------------

DemoAt(r, pc) == demoReq[r].pc = pc

DemoGo(r, pc) == demoReq' = [demoReq EXCEPT ![r].pc = pc]

Over == {"new", "ok", "error"}

Serving == {r \in DemoRequest : demoReq[r].pc \notin Over}

\* seed_demos and reset_demos.
AskDemo(r) ==
  /\ DemoAt(r, "new")
  /\ \E asked \in {"seed", "reset"} :
       demoReq' = [o \in DemoRequest |->
         IF o = r THEN [NewRequest EXCEPT !.pc = "find", !.asked = asked,
                                          !.alone = Serving = {}]
         ELSE IF o \in Serving THEN [demoReq[o] EXCEPT !.alone = FALSE]
         ELSE demoReq[o]]
  /\ latest' = {r}
  /\ UNCHANGED <<demo, workflow, lastId, rows>>

\* What follows the clearing.
Cleared(r) == IF demoReq[r].asked = "seed" THEN "upsert" ELSE "ok"

\* list_workflows.
FindWorkflow(r) ==
  /\ DemoAt(r, "find")
  /\ demoReq' = [demoReq EXCEPT
       ![r].pc = IF workflow = 0 THEN Cleared(r)
                 ELSE IF demo = "agent" THEN "unTrace" ELSE "list",
       ![r].seen = workflow]
  /\ UNCHANGED <<demo, workflow, lastId, rows, latest>>

DemoRowsOf(w) == {r \in DemoRequest : rows[r].workflow = w /\ w # 0}

\* Faulty: the trace events are left to the foreign keys.
KeepTraces(r) ==
  /\ DemoAt(r, "unTrace")
  /\ DemoGo(r, "list")
  /\ UNCHANGED <<demo, workflow, lastId, rows, latest>>

\* _clear_agent_demo_data: the trace events and trajectory outcomes, which the
\* foreign keys do not delete.
DeleteTraces(r) ==
  /\ DemoAt(r, "unTrace")
  /\ rows' = [o \in DemoRequest |-> IF o \in DemoRowsOf(demoReq[r].seen)
                                    THEN [rows[o] EXCEPT !.traced = FALSE] ELSE rows[o]]
  /\ DemoGo(r, "list")
  /\ UNCHANGED <<demo, workflow, lastId, latest>>

\* list_eval_runs, then delete_eval_run of each: its runs and comparisons lose their
\* eval run and stay.
ListEvalRuns(r) ==
  /\ DemoAt(r, "list")
  /\ demoReq' = [demoReq EXCEPT ![r].pc = "unlist",
       ![r].found = {o \in DemoRowsOf(demoReq[r].seen) : rows[o].evalRun # "none"}]
  /\ UNCHANGED <<demo, workflow, lastId, rows, latest>>

DeleteEvalRuns(r) ==
  /\ DemoAt(r, "unlist")
  /\ \/ \E o \in demoReq[r].found :
          /\ rows' = [rows EXCEPT ![o].evalRun = "none"]
          /\ demoReq' = [demoReq EXCEPT ![r].found = @ \ {o}]
     \/ /\ demoReq[r].found = {}
        /\ DemoGo(r, "drop")
        /\ UNCHANGED rows
  /\ UNCHANGED <<demo, workflow, lastId, latest>>

\* delete_workflow: everything below goes with it, unless trace events refer to its
\* runs; that error is swallowed.
DropWorkflow(r) ==
  LET seen == demoReq[r].seen
      below == DemoRowsOf(seen)
  IN
  /\ DemoAt(r, "drop")
  /\ IF \E o \in below : rows[o].traced
     THEN UNCHANGED <<workflow, rows>>
     ELSE /\ workflow' = IF workflow = seen THEN 0 ELSE workflow
          /\ rows' = [o \in DemoRequest |-> IF o \in below THEN NoRows ELSE rows[o]]
  /\ DemoGo(r, Cleared(r))
  /\ UNCHANGED <<demo, lastId, latest>>

-----------------------------------------------------------------------------
(* Seeding: rows[r].workflow is 0 once the workflow has been deleted, and  *)
(* whatever refers to it then fails on its foreign key.                    *)

UpsertWorkflow(r) ==
  /\ DemoAt(r, "upsert")
  /\ IF workflow = 0
     THEN workflow' = lastId + 1 /\ lastId' = lastId + 1
     ELSE UNCHANGED <<workflow, lastId>>
  /\ demoReq' = [demoReq EXCEPT ![r].pc = "evalRun", ![r].seen = workflow']
  /\ UNCHANGED <<demo, rows, latest>>

\* Insert a row, or end with the error of a foreign key.
InsertDemo(r, mayInsert, rec, pc) ==
  /\ IF mayInsert
     THEN rows' = [rows EXCEPT ![r] = rec] /\ DemoGo(r, pc)
     ELSE UNCHANGED rows /\ DemoGo(r, "error")
  /\ UNCHANGED <<demo, workflow, lastId, latest>>

CreateEvalRun(r) ==
  /\ DemoAt(r, "evalRun")
  /\ InsertDemo(r, demoReq[r].seen = workflow,
            [NoRows EXCEPT !.workflow = workflow, !.evalRun = "pending"], "start")

\* update_eval_run_status: finds nothing when the row is gone.
SetStatus(r, status, pc) ==
  /\ rows' = [rows EXCEPT ![r].evalRun = IF @ = "none" THEN @ ELSE status]
  /\ DemoGo(r, pc)
  /\ UNCHANGED <<demo, workflow, lastId, latest>>

StartEvalRun(r) == DemoAt(r, "start") /\ SetStatus(r, "running", "run")

\* The case's run and branches, its step outputs or trace events, and complete_run.
CreateRun(r) ==
  LET q == rows[r] IN
  /\ DemoAt(r, "run")
  /\ InsertDemo(r, q.workflow # 0 /\ q.evalRun # "none", [q EXCEPT !.runs = @ + 1], "trace")

RecordOutputs(r) ==
  LET q == rows[r] IN
  /\ DemoAt(r, "trace")
  /\ InsertDemo(r, q.runs > 0, [q EXCEPT !.traced = demo = "agent"], "compare")

\* create_comparison, and create_trajectory_outcome.
CompareCase(r) ==
  LET q == rows[r]
      last == q.compared + 1 = DemoCases
  IN
  /\ DemoAt(r, "compare")
  /\ InsertDemo(r, q.runs > 0 /\ q.evalRun # "none", [q EXCEPT !.compared = @ + 1],
            IF last THEN "complete" ELSE "run")

CompleteEvalRun(r) ==
  /\ DemoAt(r, "complete")
  /\ SetStatus(r, "completed", IF demo = "llm" THEN "lifecycle" ELSE "ok")

\* lifecycle_demo: a test set of the workflow, and the decisions of the fixture on
\* the comparisons that are found by their eval run.
Lifecycle(r) ==
  LET q == rows[r] IN
  /\ DemoAt(r, "lifecycle")
  /\ InsertDemo(r, q.workflow # 0, [q EXCEPT !.decided = q.evalRun # "none"], "ok")

DemosNext ==
  \E r \in DemoRequest :
    \/ AskDemo(r) \/ FindWorkflow(r) \/ DeleteTraces(r) \/ ListEvalRuns(r)
    \/ DeleteEvalRuns(r) \/ DropWorkflow(r) \/ UpsertWorkflow(r) \/ CreateEvalRun(r)
    \/ StartEvalRun(r) \/ CreateRun(r) \/ RecordOutputs(r) \/ CompareCase(r)
    \/ CompleteEvalRun(r) \/ Lifecycle(r)

DemosSpec == DemosInit /\ [][DemosNext]_demoVars

-----------------------------------------------------------------------------

\* Every case compared, and decided where the fixture has decisions.
Whole(r) ==
  /\ rows[r].evalRun = "completed"
  /\ rows[r].compared = DemoCases
  /\ demo = "llm" => rows[r].decided

\* A seed that answers without an error has made the whole demo, unless another
\* request has deleted its eval run.  And whatever overlapping requests have left
\* behind, the next one that is served alone puts the demo in order, although
\* clearing never reports an error: there is nothing after a reset, and nothing but
\* its own whole demo after a seed.
DemosAsAsked ==
  \A r \in DemoRequest : DemoAt(r, "ok") =>
    LET seeded == demoReq[r].asked = "seed" IN
    /\ seeded => Whole(r) \/ rows[r].evalRun = "none"
    /\ latest = {r} /\ demoReq[r].alone =>
         /\ \A o \in DemoRequest \ {r} : rows[o] = NoRows
         /\ IF seeded THEN Whole(r) ELSE workflow = 0
=============================================================================
