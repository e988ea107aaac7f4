------------------------------ MODULE SdkAgent -------------------------------
(***************************************************************************)
(* An agent run of the SDK (sdk/forkmark/agent.py): two branches, each     *)
(* with trace events that are sent in one batch when it ends, then a       *)
(* comparison of the trajectories (backend/routes/agent.py,                *)
(* core/store_impl/trajectories.py).  Every exception of a request is      *)
(* swallowed.  A request the client has given up on may still be served.   *)
(***************************************************************************)
EXTENDS SdkRequests

VARIABLES
  feature,     \* config.ENABLE_AGENT_COMPARISON
  agent,       \* AgentRunContext and its recorders
  agentRun,    \* rows of workflow_runs made for it: how many, and its own's status
  stored,      \* stored[b]: how often each event of branch b is in trace_events
  late,        \* branches with a batch of events that is still being served
  compares     \* requests for the comparison on the server, and what came of them

agentVars == <<faults, feature, agent, agentRun, stored, late, compares>>

-----------------------------------------------------------------------------

Side == 1..2

ServedCompare == {"readA", "readB", "insert", "outcome", "done", "failed"}

AgentTypeOK ==
  /\ faults \in 0..MaxFaults
  /\ feature \in BOOLEAN
  /\ agent \in [pc: {"start", "body", "branch", "events", "flush", "compare", "await",
                     "complete", "over"},
                tries: 0..RetryAttempts,
                hasRun: BOOLEAN,             \* the run id is the server's, not made up
                branches: Seq(BOOLEAN),      \* of each branch id, the same
                raised: BOOLEAN]
  /\ Len(agent.branches) <= 2
  /\ agentRun \in [rows: Nat, status: {"none", "running", "completed", "failed"}]
  /\ stored \in [Side -> Nat]
  /\ late \subseteq Side
  /\ compares \in Seq([pc: ServedCompare, seen: [Side -> Nat],
                       comparison: BOOLEAN, outcome: BOOLEAN])

AgentInit ==
  /\ faults = 0
  /\ feature \in BOOLEAN
  /\ agent = [pc |-> "start", tries |-> 0, hasRun |-> FALSE, branches |-> <<>>,
              raised |-> FALSE]
  /\ agentRun = [rows |-> 0, status |-> "none"]
  /\ stored = [b \in Side |-> 0]
  /\ late = {}
  /\ compares = <<>>

-----------------------------------------------------------------------------

Agent(pc) == agent' = [agent EXCEPT !.pc = pc, !.tries = 0]

TryAgain == agent' = [agent EXCEPT !.tries = @ + 1]

\* The branch in hand: the last one made.
Now == Len(agent.branches)

\* start_run.  Without an answer the context goes on with an id of its own making.
StartAgentRun ==
  LET insert == agentRun' = [rows |-> agentRun.rows + 1, status |-> "running"] IN
  /\ agent.pc = "start"
  /\ \/ Answered(insert, agent' = [agent EXCEPT !.pc = "body", !.tries = 0, !.hasRun = TRUE])
     \/ NoAnswer(insert, UNCHANGED agentRun, agent.tries, TryAgain, Agent("body"))
  /\ UNCHANGED <<feature, stored, late, compares>>

\* The caller's code opens a branch, ends, or raises.
AgentBody ==
  /\ agent.pc = "body"
  /\ \/ Now < 2 /\ Agent("branch")
     \/ \E raised \in BOOLEAN :
          agent' = [agent EXCEPT !.pc = IF Now = 2 THEN "compare" ELSE "complete",
                                 !.raised = raised]
  /\ UNCHANGED <<faults, feature, agentRun, stored, late, compares>>

\* branch(): create_branch, or an id of its own making: the server answers 404 when
\* the run is not one of its own.
OpenBranch ==
  LET with(known) == agent' = [agent EXCEPT !.pc = "events", !.tries = 0,
                                            !.branches = Append(@, known)]
  IN
  /\ agent.pc = "branch"
  /\ IF ~agent.hasRun
     THEN with(FALSE) /\ UNCHANGED faults
     ELSE \/ Answered(TRUE, with(TRUE))
          \/ NoAnswer(TRUE, TRUE, agent.tries, TryAgain, with(FALSE))
  /\ UNCHANGED <<feature, agentRun, stored, late, compares>>

\* The branch's block is over, with events or without; the recorder flushes.
RecordEvents ==
  /\ agent.pc = "events"
  /\ Agent("flush") \/ Agent("body")
  /\ UNCHANGED <<faults, feature, agentRun, stored, late, compares>>

\* Faulty: the server gives every event an id of its own.
StoreUnderNewIds(b) == stored' = [stored EXCEPT ![b] = @ + 1]

\* create_trace_events_batch, in one transaction: the events have the ids that the
\* client gave them, and a second insert of the batch violates the primary key.
StoreEvents(b) ==
  /\ stored[b] = 0
  /\ stored' = [stored EXCEPT ![b] = 1]

\* What every attempt is refused for: the feature is off (403), more than 500
\* events (422), an id that the server does not know (500, the foreign key).
MayBeStored == feature /\ agent.hasRun /\ agent.branches[Now]

Flush ==
  /\ agent.pc = "flush"
  /\ \/ Agent("body") /\ UNCHANGED <<faults, stored, late>>     \* refused
     \/ /\ MayBeStored
        /\ \/ Answered(StoreEvents(Now), Agent("body")) /\ UNCHANGED late
           \/ NoAnswer(StoreEvents(Now), UNCHANGED stored, agent.tries,
                       TryAgain, Agent("body")) /\ UNCHANGED late
           \/ NoAnswer(UNCHANGED stored, UNCHANGED stored, agent.tries,
                       TryAgain, Agent("body")) /\ late' = late \union {Now}
  /\ UNCHANGED <<feature, agentRun, compares>>

\* A batch whose sender has given up on it is served after all.
ServeLate(b) ==
  /\ b \in late
  /\ late' = late \ {b}
  /\ \/ StoreEvents(b)
     \/ stored[b] # 0 /\ UNCHANGED stored
  /\ UNCHANGED <<faults, feature, agent, agentRun, compares>>

-----------------------------------------------------------------------------
(* The comparison. *)

\* _create_comparison: one more request on the server, which answers 403 when the
\* feature is off.
AskCompare ==
  /\ agent.pc = "compare"
  /\ IF ~feature
     THEN Agent("complete") /\ UNCHANGED <<faults, compares>>
     ELSE LET served == compares' = Append(compares,
                [pc |-> "readA", seen |-> [b \in Side |-> 0],
                 comparison |-> FALSE, outcome |-> FALSE])
          IN \/ served /\ agent' = [agent EXCEPT !.pc = "await"] /\ UNCHANGED faults
             \/ NoAnswer(UNCHANGED compares, UNCHANGED compares, agent.tries,
                         TryAgain, Agent("complete"))
  /\ UNCHANGED <<feature, agentRun, stored, late>>

\* The answer to the latest request, or the client's timeout, after which the
\* server goes on with it.
AwaitCompare ==
  /\ agent.pc = "await"
  /\ \/ /\ compares[Len(compares)].pc \in {"done", "failed"}
        /\ Agent("complete") /\ UNCHANGED faults
     \/ NoAnswer(TRUE, TRUE, agent.tries,
                 agent' = [agent EXCEPT !.pc = "compare", !.tries = @ + 1],
                 Agent("complete"))
  /\ UNCHANGED <<feature, agentRun, stored, late, compares>>

\* create_agent_comparison: the events of both branches are read one after the
\* other, the comparison and the outcome are inserted in transactions of their own.
\* The comparison needs a run of the server's; an outcome that fails is logged.
ServeCompare(k) ==
  LET q == compares[k]
      become(rec) == compares' = [compares EXCEPT ![k] = rec]
  IN
  /\ \/ q.pc = "readA" /\ become([q EXCEPT !.pc = "readB", !.seen[1] = stored[1]])
     \/ q.pc = "readB" /\ become([q EXCEPT !.pc = "insert", !.seen[2] = stored[2]])
     \/ /\ q.pc = "insert"
        /\ become(IF agent.hasRun THEN [q EXCEPT !.pc = "outcome", !.comparison = TRUE]
                  ELSE [q EXCEPT !.pc = "failed"])
     \/ /\ q.pc = "outcome"
        /\ \E ok \in BOOLEAN : become([q EXCEPT !.pc = "done", !.outcome = ok])
  /\ UNCHANGED <<faults, feature, agent, agentRun, stored, late>>

\* complete_run: an UPDATE, which finds nothing when the id is made up.
CompleteAgentRun ==
  LET status == IF agent.raised THEN "failed" ELSE "completed"
      update == IF agent.hasRun THEN agentRun' = [agentRun EXCEPT !.status = status]
                ELSE UNCHANGED agentRun
  IN
  /\ agent.pc = "complete"
  /\ \/ Answered(update, Agent("over"))
     \/ NoAnswer(update, UNCHANGED agentRun, agent.tries, TryAgain, Agent("over"))
  /\ UNCHANGED <<feature, stored, late, compares>>

AgentNext ==
  \/ StartAgentRun \/ AgentBody \/ OpenBranch \/ RecordEvents \/ Flush
  \/ AskCompare \/ AwaitCompare \/ CompleteAgentRun
  \/ \E b \in Side : ServeLate(b)
  \/ \E k \in DOMAIN compares : ServeCompare(k)

AgentSpec == AgentInit /\ [][AgentNext]_agentVars

-----------------------------------------------------------------------------

\* A batch of events that was sent again, or was served after its sender had given
\* up on it, never counts twice in a trajectory: the tools called, the latency and
\* the cost that are compared are those of one execution.
EventsCountOnce ==
  \A k \in DOMAIN compares :
    compares[k].comparison => \A b \in Side : compares[k].seen[b] <= 1
=============================================================================
