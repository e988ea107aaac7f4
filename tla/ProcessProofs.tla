---------------------------- MODULE ProcessProofs ------------------------------
(***************************************************************************)
(* Theorems about processes that lose answers, die or overlap: the SDK's   *)
(* agent runs and batches (SdkAgent, SdkBatch), the migrations that every  *)
(* starting server process runs (Migrations), and the demos that requests  *)
(* seed and reset (Demos), for every value of the constants.               *)
(***************************************************************************)
EXTENDS SdkAgent, SdkBatch, Migrations, Demos, Integers, WellFoundedInduction,
        FiniteSetTheorems, SequenceTheorems, TLAPS

-----------------------------------------------------------------------------
(* Agent runs: no event is stored twice, so none is seen twice. *)

AgentPc == {"start", "body", "branch", "events", "flush", "compare", "await", "complete", "over"}

AgentRec == [pc: AgentPc, tries: 0..RetryAttempts, hasRun: BOOLEAN, branches: Seq(BOOLEAN),
             raised: BOOLEAN]

\* The context of an agent run: a branch is in hand while its events are recorded and
\* sent, and the caller opens two at most.
SoundAgent ==
  {a \in AgentRec :
     /\ Len(a.branches) <= 2
     /\ a.pc \in {"events", "flush"} => Len(a.branches) # 0
     /\ a.pc = "branch" => Len(a.branches) < 2}

\* A comparison that has seen every event at most once.
CountedOnce == [pc: ServedCompare, seen: [Side -> 0..1], comparison: BOOLEAN, outcome: BOOLEAN]

AgentInv ==
  /\ faults \in 0..MaxFaults
  /\ feature \in BOOLEAN
  /\ agent \in SoundAgent
  /\ agentRun \in [rows: Nat, status: {"none", "running", "completed", "failed"}]
  /\ stored \in [Side -> 0..1]
  /\ late \subseteq Side
  /\ compares \in Seq(CountedOnce)

LEMMA AgentTypes == AgentInv => AgentTypeOK
<1> SUFFICES ASSUME AgentInv PROVE AgentTypeOK
  OBVIOUS
<1> DEFINE R == [pc: ServedCompare, seen: [Side -> Nat], comparison: BOOLEAN, outcome: BOOLEAN]
<1>1. CountedOnce \subseteq R
  BY DEF CountedOnce
<1>2. compares \in Seq(R)
  <2> HIDE DEF R
  <2> QED
    BY <1>1, SeqMonotonic DEF AgentInv
<1>3. agent \in AgentRec /\ Len(agent.branches) <= 2
  BY DEF AgentInv, SoundAgent
<1>4. stored \in [Side -> Nat]
  BY DEF AgentInv
<1> QED
  BY <1>2, <1>3, <1>4 DEF AgentInv, AgentTypeOK, AgentRec, AgentPc

LEMMA AgentIs ==
  ASSUME NEW a \in SoundAgent
  PROVE  /\ a \in AgentRec /\ Len(a.branches) \in Nat /\ Len(a.branches) <= 2
         /\ a.branches \in Seq(BOOLEAN) /\ a.tries \in Nat
<1>1. a \in AgentRec /\ Len(a.branches) <= 2
  BY DEF SoundAgent
<1>2. a.branches \in Seq(BOOLEAN) /\ a.tries \in 0..RetryAttempts
  BY <1>1 DEF AgentRec
<1>3. Len(a.branches) \in Nat
  BY <1>2, LenProperties
<1> QED
  BY <1>1, <1>2, <1>3, SdkRequestsAssumption

\* The context goes on: what was said of its branches and run stays.
LEMMA AgentGoesOn ==
  ASSUME NEW a \in SoundAgent, NEW b \in AgentRec, b.branches = a.branches,
         b.pc \in {"events", "flush"} => Len(a.branches) # 0,
         b.pc = "branch" => Len(a.branches) < 2
  PROVE  b \in SoundAgent
BY DEF SoundAgent

LEMMA AgentSteps ==
  ASSUME NEW a \in SoundAgent, NEW pc \in AgentPc,
         pc \in {"events", "flush"} => Len(a.branches) # 0,
         pc = "branch" => Len(a.branches) < 2
  PROVE  [a EXCEPT !.pc = pc, !.tries = 0] \in SoundAgent
<1> DEFINE b == [a EXCEPT !.pc = pc, !.tries = 0]
<1>1. a \in AgentRec /\ 0 \in 0..RetryAttempts
  BY AgentIs, SdkRequestsAssumption
<1>2. b \in AgentRec /\ b.pc = pc /\ b.branches = a.branches
  BY <1>1 DEF AgentRec
<1> HIDE DEF b
<1> QED
  BY <1>2, AgentGoesOn DEF b

LEMMA AgentTriesAgain ==
  ASSUME NEW a \in SoundAgent, a.tries + 1 < RetryAttempts, NEW pc \in AgentPc,
         pc \notin {"events", "flush", "branch"} \/ pc = a.pc
  PROVE  [a EXCEPT !.pc = pc, !.tries = a.tries + 1] \in SoundAgent
<1> DEFINE n == a.tries + 1
           b == [a EXCEPT !.pc = pc, !.tries = n]
<1>1. a \in AgentRec /\ n \in 0..RetryAttempts
  BY AgentIs, SdkRequestsAssumption
<1> HIDE DEF n
<1>2. b \in AgentRec /\ b.pc = pc /\ b.branches = a.branches
  BY <1>1 DEF AgentRec
<1> HIDE DEF b
<1>3. /\ pc \in {"events", "flush"} => Len(a.branches) # 0
      /\ pc = "branch" => Len(a.branches) < 2
  BY DEF SoundAgent
<1> QED
  BY <1>2, <1>3, AgentGoesOn DEF b, n

\* TryAgain, as it is written in the model.
LEMMA TryAgainSound ==
  ASSUME NEW a \in SoundAgent, a.tries + 1 < RetryAttempts
  PROVE  [a EXCEPT !.tries = a.tries + 1] \in SoundAgent
<1>1. a \in AgentRec
  BY AgentIs
<1>2. [a EXCEPT !.tries = a.tries + 1] = [a EXCEPT !.pc = a.pc, !.tries = a.tries + 1]
  BY <1>1 DEF AgentRec
<1>3. a.pc \in AgentPc
  BY <1>1 DEF AgentRec
<1> QED
  BY <1>2, <1>3, AgentTriesAgain

LEMMA FaultCounts ==
  ASSUME faults \in 0..MaxFaults, Fault
  PROVE  faults' \in 0..MaxFaults
BY SdkRequestsAssumption DEF Fault

LEMMA AgentInit1 == AgentInit => AgentInv
<1> SUFFICES ASSUME AgentInit PROVE AgentInv
  OBVIOUS
<1>1. <<>> \in Seq(BOOLEAN) /\ <<>> \in Seq(CountedOnce) /\ Len(<<>>) = 0
  BY EmptySeq
<1>2. 0 \in 0..MaxFaults /\ 0 \in 0..RetryAttempts
  BY SdkRequestsAssumption
<1>3. agent \in AgentRec /\ agent.pc = "start" /\ agent.branches = <<>>
  BY <1>1, <1>2 DEF AgentInit, AgentRec, AgentPc
<1>4. agent \in SoundAgent
  BY <1>1, <1>3 DEF SoundAgent
<1> QED
  BY <1>1, <1>2, <1>4 DEF AgentInit, AgentInv, Side

\* What the client does to its own context.
LEMMA ClientSteps ==
  ASSUME AgentInv, agent' \in SoundAgent, faults' \in 0..MaxFaults,
         agentRun' \in [rows: Nat, status: {"none", "running", "completed", "failed"}],
         stored' \in [Side -> 0..1], late' \subseteq Side, compares' \in Seq(CountedOnce),
         feature' = feature
  PROVE  AgentInv'
BY DEF AgentInv, SoundAgent, AgentRec, AgentPc, CountedOnce, ServedCompare, Side

LEMMA AgentStep == AgentInv /\ [AgentNext]_agentVars => AgentInv'
<1> SUFFICES ASSUME AgentInv, [AgentNext]_agentVars PROVE AgentInv'
  OBVIOUS
<1> DEFINE Runs == [rows: Nat, status: {"none", "running", "completed", "failed"}]
<1>0. /\ faults \in 0..MaxFaults /\ feature \in BOOLEAN /\ agent \in SoundAgent
      /\ agentRun \in Runs /\ stored \in [Side -> 0..1] /\ late \subseteq Side
      /\ compares \in Seq(CountedOnce) /\ agent \in AgentRec
      /\ Len(agent.branches) \in Nat /\ Len(agent.branches) <= 2
  BY AgentIs DEF AgentInv
<1>1. ASSUME Agent("body") \/ Agent("complete") \/ Agent("over")
      PROVE  agent' \in SoundAgent
  BY <1>0, <1>1, AgentSteps DEF Agent, AgentPc
<1>2. ASSUME TryAgain, agent.tries + 1 < RetryAttempts
      PROVE  agent' \in SoundAgent
  <2>1. agent' = [agent EXCEPT !.tries = agent.tries + 1]
    BY <1>2 DEF TryAgain
  <2> QED
    BY <1>0, <1>2, <2>1, TryAgainSound
<1>3. ASSUME Fault PROVE faults' \in 0..MaxFaults
  BY <1>0, <1>3, FaultCounts
<1>4. CASE StartAgentRun
  <2>1. agentRun' \in Runs
    BY <1>0, <1>4 DEF StartAgentRun, Answered, NoAnswer
  <2>2. faults' \in 0..MaxFaults
    BY <1>0, <1>3, <1>4 DEF StartAgentRun, Answered, NoAnswer
  <2>3. agent' \in SoundAgent
    <3>1. CASE agent' = [agent EXCEPT !.pc = "body", !.tries = 0, !.hasRun = TRUE]
      <4>1. 0 \in 0..RetryAttempts /\ agent \in AgentRec
        BY <1>0, SdkRequestsAssumption
      <4>2. agent' \in AgentRec /\ agent'.pc = "body" /\ agent'.branches = agent.branches
        BY <3>1, <4>1 DEF AgentRec, AgentPc
      <4> QED
        BY <1>0, <4>2, AgentGoesOn
    <3>2. CASE IF agent.tries + 1 < RetryAttempts THEN TryAgain ELSE Agent("body")
      BY <1>1, <1>2, <3>2
    <3> QED
      BY <1>4, <3>1, <3>2 DEF StartAgentRun, Answered, NoAnswer
  <2>4. UNCHANGED <<feature, stored, late, compares>>
    BY <1>4 DEF StartAgentRun
  <2> QED
    BY <1>0, <2>1, <2>2, <2>3, <2>4, ClientSteps
<1>5. CASE AgentBody
  <2>1. agent' \in SoundAgent
    <3>1. CASE Now < 2 /\ Agent("branch")
      BY <1>0, <3>1, AgentSteps DEF Agent, AgentPc, Now
    <3>2. CASE \E raised \in BOOLEAN :
                 agent' = [agent EXCEPT !.pc = IF Now = 2 THEN "compare" ELSE "complete",
                                        !.raised = raised]
      <4>1. PICK raised \in BOOLEAN :
              agent' = [agent EXCEPT !.pc = IF Now = 2 THEN "compare" ELSE "complete",
                                     !.raised = raised]
        BY <3>2
      <4>2. PICK pc \in AgentPc : /\ pc \in {"compare", "complete"}
                                  /\ agent' = [agent EXCEPT !.pc = pc, !.raised = raised]
        BY <4>1 DEF AgentPc
      <4>3. agent \in AgentRec
        BY <1>0
      <4>4. agent' \in AgentRec /\ agent'.pc = pc /\ agent'.branches = agent.branches
        BY <4>2, <4>3 DEF AgentRec
      <4> QED
        BY <1>0, <4>2, <4>4, AgentGoesOn
    <3> QED
      BY <1>5, <3>1, <3>2 DEF AgentBody
  <2> QED
    BY <1>0, <1>5, <2>1, ClientSteps DEF AgentBody
<1>6. CASE OpenBranch
  <2>1. ASSUME NEW known \in BOOLEAN, agent.pc = "branch",
               agent' = [agent EXCEPT !.pc = "events", !.tries = 0,
                                      !.branches = Append(agent.branches, known)]
        PROVE  agent' \in SoundAgent
    <3> DEFINE bs == Append(agent.branches, known)
    <3>1. agent.branches \in Seq(BOOLEAN) /\ Len(agent.branches) < 2
      BY <1>0, <2>1 DEF SoundAgent, AgentRec
    <3>2. bs \in Seq(BOOLEAN) /\ Len(bs) = Len(agent.branches) + 1
      BY <3>1, AppendProperties
    <3>3. Len(bs) <= 2 /\ Len(bs) # 0
      BY <1>0, <3>1, <3>2
    <3>4. agent' = [agent EXCEPT !.pc = "events", !.tries = 0, !.branches = bs]
      BY <2>1
    <3> HIDE DEF bs
    <3>5. agent' \in AgentRec /\ agent'.pc = "events" /\ agent'.branches = bs
      <4>1. 0 \in 0..RetryAttempts /\ agent \in AgentRec
        BY <1>0, SdkRequestsAssumption
      <4> QED
        BY <3>2, <3>4, <4>1 DEF AgentRec, AgentPc
    <3> QED
      BY <3>3, <3>5 DEF SoundAgent
  <2>2. agent.pc = "branch" /\ UNCHANGED <<feature, agentRun, stored, late, compares>>
    BY <1>6 DEF OpenBranch
  <2>3. faults' \in 0..MaxFaults
    BY <1>0, <1>3, <1>6 DEF OpenBranch, Answered, NoAnswer
  <2>4. \/ \E known \in BOOLEAN :
             agent' = [agent EXCEPT !.pc = "events", !.tries = 0,
                                    !.branches = Append(agent.branches, known)]
        \/ TryAgain /\ agent.tries + 1 < RetryAttempts
    BY <1>6 DEF OpenBranch, Answered, NoAnswer
  <2>5. agent' \in SoundAgent
    BY <1>2, <2>1, <2>2, <2>4
  <2> QED
    BY <1>0, <2>2, <2>3, <2>5, ClientSteps
<1>7. CASE RecordEvents
  <2>1. Len(agent.branches) # 0
    BY <1>0, <1>7 DEF RecordEvents, SoundAgent
  <2>2. agent' \in SoundAgent
    BY <1>0, <1>1, <1>7, <2>1, AgentSteps DEF RecordEvents, Agent, AgentPc
  <2> QED
    BY <1>0, <1>7, <2>2, ClientSteps DEF RecordEvents
<1>8. CASE Flush
  <2>1. Now \in Side
    <3>1. Len(agent.branches) # 0
      BY <1>0, <1>8 DEF Flush, SoundAgent
    <3>2. PICK n \in Nat : n = Len(agent.branches)
      BY <1>0
    <3>3. n <= 2 /\ n # 0
      BY <1>0, <3>1, <3>2
    <3>4. n \in Side
      <4>1. \A m \in Nat : m <= 2 /\ m # 0 => m \in 1..2
        OBVIOUS
      <4> QED
        BY <3>2, <3>3, <4>1 DEF Side
    <3> QED
      BY <3>2, <3>4 DEF Now
  <2>2. agent' \in SoundAgent
    BY <1>1, <1>2, <1>8 DEF Flush, Answered, NoAnswer
  <2>3. stored' \in [Side -> 0..1]
    BY <1>0, <1>8, <2>1 DEF Flush, Answered, NoAnswer, StoreEvents
  <2>4. late' \subseteq Side
    BY <1>0, <1>8, <2>1 DEF Flush
  <2>5. faults' \in 0..MaxFaults
    BY <1>0, <1>3, <1>8 DEF Flush, Answered, NoAnswer
  <2> QED
    BY <1>0, <1>8, <2>2, <2>3, <2>4, <2>5, ClientSteps DEF Flush
<1>9. CASE AskCompare
  <2> DEFINE e == [pc |-> "readA", seen |-> [b \in Side |-> 0], comparison |-> FALSE,
                   outcome |-> FALSE]
  <2>1. e \in CountedOnce
    BY DEF CountedOnce, ServedCompare
  <2>2. compares' \in {compares, Append(compares, e)}
    BY <1>9 DEF AskCompare, NoAnswer
  <2> HIDE DEF e
  <2>3. compares' \in Seq(CountedOnce)
    BY <1>0, <2>1, <2>2, AppendProperties
  <2>4. faults' \in 0..MaxFaults
    BY <1>0, <1>3, <1>9 DEF AskCompare, NoAnswer
  <2>5. \/ Agent("complete")
        \/ agent' = [agent EXCEPT !.pc = "await"]
        \/ TryAgain /\ agent.tries + 1 < RetryAttempts
    BY <1>9 DEF AskCompare, NoAnswer
  <2>6. ASSUME agent' = [agent EXCEPT !.pc = "await"] PROVE agent' \in SoundAgent
    <3>1. agent \in AgentRec
      BY <1>0
    <3>2. agent' \in AgentRec /\ agent'.pc = "await" /\ agent'.branches = agent.branches
      BY <2>6, <3>1 DEF AgentRec, AgentPc
    <3> QED
      BY <1>0, <3>2, AgentGoesOn
  <2>7. agent' \in SoundAgent
    BY <1>1, <1>2, <2>5, <2>6
  <2> QED
    BY <1>0, <1>9, <2>3, <2>4, <2>7, ClientSteps DEF AskCompare
<1>10. CASE AwaitCompare
  <2>1. faults' \in 0..MaxFaults
    BY <1>0, <1>3, <1>10 DEF AwaitCompare, NoAnswer
  <2>2. \/ Agent("complete")
        \/ /\ agent' = [agent EXCEPT !.pc = "compare", !.tries = agent.tries + 1]
           /\ agent.tries + 1 < RetryAttempts
    BY <1>10 DEF AwaitCompare, NoAnswer
  <2>3. agent' \in SoundAgent
    BY <1>0, <1>1, <2>2, AgentTriesAgain DEF AgentPc
  <2> QED
    BY <1>0, <1>10, <2>1, <2>3, ClientSteps DEF AwaitCompare
<1>11. CASE CompleteAgentRun
  <2>1. agentRun' \in Runs
    BY <1>0, <1>11 DEF CompleteAgentRun, Answered, NoAnswer
  <2>2. faults' \in 0..MaxFaults
    BY <1>0, <1>3, <1>11 DEF CompleteAgentRun, Answered, NoAnswer
  <2>3. agent' \in SoundAgent
    BY <1>1, <1>2, <1>11 DEF CompleteAgentRun, Answered, NoAnswer
  <2> QED
    BY <1>0, <1>11, <2>1, <2>2, <2>3, ClientSteps DEF CompleteAgentRun
<1>12. ASSUME NEW b \in Side, ServeLate(b) PROVE AgentInv'
  <2>1. stored' \in [Side -> 0..1] /\ late' \subseteq Side
    BY <1>0, <1>12 DEF ServeLate, StoreEvents
  <2> QED
    BY <1>0, <1>12, <2>1, ClientSteps DEF ServeLate
<1>13. ASSUME NEW k \in DOMAIN compares, ServeCompare(k) PROVE AgentInv'
  <2>1. k \in 1..Len(compares) /\ compares[k] \in CountedOnce
    BY <1>0, LenProperties, ElementOfSeq
  <2>2. PICK rec \in CountedOnce : compares' = [compares EXCEPT ![k] = rec]
    <3> DEFINE q == compares[k]
    <3>1. CASE q.pc = "readA" /\ compares' = [compares EXCEPT ![k] =
                 [q EXCEPT !.pc = "readB", !.seen[1] = stored[1]]]
      <4>1. [q EXCEPT !.pc = "readB", !.seen[1] = stored[1]] \in CountedOnce
        BY <1>0, <2>1 DEF CountedOnce, ServedCompare, Side
      <4> QED
        BY <3>1, <4>1
    <3>2. CASE q.pc = "readB" /\ compares' = [compares EXCEPT ![k] =
                 [q EXCEPT !.pc = "insert", !.seen[2] = stored[2]]]
      <4>1. [q EXCEPT !.pc = "insert", !.seen[2] = stored[2]] \in CountedOnce
        BY <1>0, <2>1 DEF CountedOnce, ServedCompare, Side
      <4> QED
        BY <3>2, <4>1
    <3>3. CASE q.pc = "insert" /\ compares' = [compares EXCEPT ![k] =
                 IF agent.hasRun THEN [q EXCEPT !.pc = "outcome", !.comparison = TRUE]
                 ELSE [q EXCEPT !.pc = "failed"]]
      <4>1. /\ [q EXCEPT !.pc = "outcome", !.comparison = TRUE] \in CountedOnce
            /\ [q EXCEPT !.pc = "failed"] \in CountedOnce
        BY <2>1 DEF CountedOnce, ServedCompare
      <4> QED
        BY <3>3, <4>1
    <3>4. CASE q.pc = "outcome" /\ \E ok \in BOOLEAN : compares' = [compares EXCEPT ![k] =
                 [q EXCEPT !.pc = "done", !.outcome = ok]]
      <4>1. PICK ok \in BOOLEAN : compares' = [compares EXCEPT ![k] =
                 [q EXCEPT !.pc = "done", !.outcome = ok]]
        BY <3>4
      <4>2. [q EXCEPT !.pc = "done", !.outcome = ok] \in CountedOnce
        BY <2>1 DEF CountedOnce, ServedCompare
      <4> QED
        BY <4>1, <4>2
    <3> QED
      BY <1>13, <3>1, <3>2, <3>3, <3>4 DEF ServeCompare
  <2>3. compares' \in Seq(CountedOnce)
    BY <1>0, <2>1, <2>2, ExceptSeq
  <2> QED
    BY <1>0, <1>13, <2>3, ClientSteps DEF ServeCompare
<1>14. CASE UNCHANGED agentVars
  BY <1>0, <1>14, ClientSteps DEF agentVars
<1> QED
  BY <1>4, <1>5, <1>6, <1>7, <1>8, <1>9, <1>10, <1>11, <1>12, <1>13, <1>14 DEF AgentNext

\* No event of an agent's run counts twice in a comparison, however often its batch is
\* sent and however late it is served.
THEOREM EventsNeverDoubled == AgentSpec => [](AgentTypeOK /\ EventsCountOnce)
<1>1. AgentInv => EventsCountOnce
  <2> SUFFICES ASSUME AgentInv, NEW k \in DOMAIN compares, NEW b \in Side
               PROVE  compares[k].seen[b] <= 1
    BY DEF EventsCountOnce
  <2>1. compares[k] \in CountedOnce
    BY LenProperties, ElementOfSeq DEF AgentInv
  <2>2. compares[k].seen[b] \in 0..1
    BY <2>1 DEF CountedOnce
  <2> QED
    BY <2>2
<1> QED
  BY <1>1, AgentTypes, AgentInit1, AgentStep, PTL DEF AgentSpec

-----------------------------------------------------------------------------
(* Batches. *)

CasePc == {"waiting", "start", "work", "branch", "log", "complete", "compare", "done",
           "failed", "left"}

CaseRec == [pc: CasePc, run: Nat, tries: 0..RetryAttempts, made: 0..2, raised: BOOLEAN]

BatchRec == [mode: {"sequential", "parallel"}, pc: {"enter", "cases", "exit", "closed", "raised"},
             row: Nat, tries: 0..RetryAttempts, completed: Nat, failed: Nat, aborted: BOOLEAN]

\* A case and the rows of its runs: it knows a row once its start was answered, and what
\* its requests were answered for is on that row.
CaseOk(q, runs, b) ==
  /\ q.pc \in {"work", "branch", "log", "complete", "compare", "done"} => q.run \in DOMAIN runs
  /\ q.pc = "branch" => q.made < 2
  /\ q.pc = "complete" /\ q.made > 0 => runs[q.run].steps > 0
  /\ q.pc = "compare" => runs[q.run].status = "completed" /\ runs[q.run].steps > 0
  /\ q.pc = "done" =>
       /\ runs[q.run].status = "completed"
       /\ q.made = 2 => runs[q.run].steps > 0 /\ runs[q.run].comparisons > 0
  /\ q.raised /\ b.mode = "sequential" => b.aborted
  /\ q.pc = "left" => b.aborted

\* The cases that ended so.
Ended(pc) == {c \in Case : caseOf[c].pc = pc}

\* The batch and its row.
RowOk(b, table) ==
  /\ b.row # 0 => b.row \in DOMAIN table
  /\ b.pc \in {"cases", "exit", "closed"} => b.row # 0
  /\ b.pc = "closed" =>
       table[b.row].status = "deleted" \/ table[b.row].total = b.completed + b.failed

\* Nothing goes on outside of the body, and a body that was not aborted ends when every
\* case has.
BodyOver(b) ==
  /\ b.pc # "cases" => \A c \in Case : ~ Active(c)
  /\ b.pc \in {"exit", "closed"} /\ ~ b.aborted =>
       \A c \in Case : caseOf[c].pc \in {"done", "failed"}

BatchTypes ==
  /\ faults \in 0..MaxFaults
  /\ batch \in BatchRec
  /\ caseOf \in [Case -> CaseRec]
  /\ evalRuns \in Seq(EvalRunRec)
  /\ runsOf \in [Case -> Seq(RunRec)]

Counted ==
  /\ batch.completed = Cardinality(Ended("done"))
  /\ batch.failed = Cardinality(Ended("failed"))

BatchInv ==
  /\ BatchTypes
  /\ \A c \in Case : CaseOk(caseOf[c], runsOf[c], batch)
  /\ RowOk(batch, evalRuns)
  /\ BodyOver(batch)
  /\ Counted

LEMMA BatchTypesAre == BatchTypes <=> BatchTypeOK
BY DEF BatchTypes, BatchTypeOK, BatchRec, CaseRec, CasePc

\* Cases that ended are at most as many as there are, and all of them when each did.
LEMMA EndedCount ==
  /\ Cardinality(Case) \in Nat
  /\ Cardinality(Ended("done")) \in Nat /\ Cardinality(Ended("failed")) \in Nat
  /\ Cardinality(Ended("done")) + Cardinality(Ended("failed")) <= Cardinality(Case)
  /\ (\A c \in Case : caseOf[c].pc \in {"done", "failed"}) =>
       Cardinality(Ended("done")) + Cardinality(Ended("failed")) = Cardinality(Case)
<1> DEFINE D == Ended("done")
           F == Ended("failed")
<1>1. D \subseteq Case /\ F \subseteq Case /\ D \intersect F = {} /\ IsFiniteSet(Case)
  BY SdkBatchAssumption DEF Ended
<1>2. (\A c \in Case : caseOf[c].pc \in {"done", "failed"}) => D \union F = Case
  BY DEF Ended
<1> HIDE DEF D, F
<1>3. IsFiniteSet(D) /\ IsFiniteSet(F) /\ Cardinality(D) \in Nat /\ Cardinality(F) \in Nat
      /\ Cardinality(Case) \in Nat
  BY <1>1, FS_Subset, FS_CardinalityType
<1>4. Cardinality(D \union F) = Cardinality(D) + Cardinality(F) - Cardinality(D \intersect F)
  BY <1>3, FS_Union
<1>5. Cardinality(D \intersect F) = 0
  BY <1>1, FS_EmptySet
<1>6. Cardinality(D \union F) <= Cardinality(Case)
  BY <1>1, FS_Subset
<1>7. Cardinality(D) + Cardinality(F) = Cardinality(D \union F)
  BY <1>3, <1>4, <1>5
<1> QED
  BY <1>2, <1>3, <1>6, <1>7 DEF D, F

\* A set of cases, and one case that was not of them.
LEMMA OneMore ==
  ASSUME NEW S \in SUBSET Case, NEW c \in Case, c \notin S
  PROVE  Cardinality(S) \in Nat /\ Cardinality(S \union {c}) = Cardinality(S) + 1
<1>1. IsFiniteSet(S)
  BY SdkBatchAssumption, FS_Subset
<1> QED
  BY <1>1, FS_CardinalityType, FS_AddElement

\* One case moves.
LEMMA CaseMoves ==
  ASSUME BatchInv, NEW c \in Case, caseOf[c].pc \notin {"done", "failed"}, batch.pc = "cases",
         NEW q \in CaseRec, NEW rs \in Seq(RunRec), NEW b \in BatchRec,
         caseOf' = [caseOf EXCEPT ![c] = q], runsOf' = [runsOf EXCEPT ![c] = rs],
         batch' = b, evalRuns' = evalRuns, faults' \in 0..MaxFaults,
         b.pc = "cases", b.row = batch.row, b.mode = batch.mode, batch.aborted => b.aborted,
         b.completed = batch.completed + (IF q.pc = "done" THEN 1 ELSE 0),
         b.failed = batch.failed + (IF q.pc = "failed" THEN 1 ELSE 0),
         CaseOk(q, rs, b)
  PROVE  BatchInv'
<1>1. BatchTypes'
  BY DEF BatchInv, BatchTypes, EvalRunRec, RunRec, BatchRec, CaseRec, CasePc
<1>2. ASSUME NEW d \in Case PROVE CaseOk(caseOf'[d], runsOf'[d], batch')
  <2>1. CASE d = c
    BY <2>1 DEF BatchInv, BatchTypes
  <2>2. CASE d # c
    <3>1. caseOf'[d] = caseOf[d] /\ runsOf'[d] = runsOf[d] /\ CaseOk(caseOf[d], runsOf[d], batch)
      BY <2>2 DEF BatchInv, BatchTypes
    <3> QED
      BY <3>1 DEF CaseOk
  <2> QED
    BY <2>1, <2>2
<1>3. RowOk(batch, evalRuns)'
  BY DEF BatchInv, RowOk
<1>4. BodyOver(batch)'
  BY DEF BodyOver
<1>5. Counted'
  <2>1. BatchTypes /\ Counted
    BY DEF BatchInv
  <2>2. Cardinality(Ended("done"))' = Cardinality(Ended("done")) + (IF q.pc = "done" THEN 1 ELSE 0)
    <3>1. Ended("done") \in SUBSET Case /\ c \notin Ended("done")
      BY DEF Ended
    <3>2. Ended("done")' = IF q.pc = "done" THEN Ended("done") \union {c} ELSE Ended("done")
      BY <2>1 DEF Ended, BatchTypes
    <3>3. /\ Cardinality(Ended("done")) \in Nat
          /\ Cardinality(Ended("done") \union {c}) = Cardinality(Ended("done")) + 1
      BY <3>1, OneMore
    <3>4. CASE q.pc = "done"
      BY <3>2, <3>3, <3>4
    <3>5. CASE q.pc # "done"
      BY <3>2, <3>3, <3>5
    <3> QED
      BY <3>4, <3>5
  <2>3. Cardinality(Ended("failed"))' = Cardinality(Ended("failed")) + (IF q.pc = "failed" THEN 1 ELSE 0)
    <3>1. Ended("failed") \in SUBSET Case /\ c \notin Ended("failed")
      BY DEF Ended
    <3>2. Ended("failed")' = IF q.pc = "failed" THEN Ended("failed") \union {c} ELSE Ended("failed")
      BY <2>1 DEF Ended, BatchTypes
    <3>3. /\ Cardinality(Ended("failed")) \in Nat
          /\ Cardinality(Ended("failed") \union {c}) = Cardinality(Ended("failed")) + 1
      BY <3>1, OneMore
    <3>4. CASE q.pc = "failed"
      BY <3>2, <3>3, <3>4
    <3>5. CASE q.pc # "failed"
      BY <3>2, <3>3, <3>5
    <3> QED
      BY <3>4, <3>5
  <2>4. b.completed = Cardinality(Ended("done"))' /\ b.failed = Cardinality(Ended("failed"))'
    BY <2>1, <2>2, <2>3 DEF Counted
  <2> QED
    BY <2>4 DEF Counted
<1>6. (\A d \in Case : CaseOk(caseOf[d], runsOf[d], batch))'
  BY <1>2
<1> QED
  BY <1>1, <1>3, <1>4, <1>5, <1>6 DEF BatchInv

\* The batch moves, and no case does.
LEMMA BatchMoves ==
  ASSUME BatchInv, NEW b \in BatchRec, batch' = b, UNCHANGED <<caseOf, runsOf>>,
         faults' \in 0..MaxFaults, evalRuns' \in Seq(EvalRunRec),
         b.mode = batch.mode, b.aborted = batch.aborted, b.completed = batch.completed,
         b.failed = batch.failed, RowOk(b, evalRuns'), BodyOver(b)
  PROVE  BatchInv'
<1>1. BatchTypes'
  BY DEF BatchInv, BatchTypes, EvalRunRec, RunRec, BatchRec, CaseRec, CasePc
<1>2. (\A d \in Case : CaseOk(caseOf[d], runsOf[d], batch))'
  <2>1. ASSUME NEW d \in Case PROVE CaseOk(caseOf[d], runsOf[d], b)
    BY DEF BatchInv, CaseOk
  <2> QED
    BY <2>1 DEF CaseOk
<1>3. RowOk(batch, evalRuns)' /\ BodyOver(batch)'
  BY DEF RowOk, BodyOver, Active
<1>4. Counted'
  BY DEF BatchInv, Counted, Ended
<1> QED
  BY <1>1, <1>2, <1>3, <1>4 DEF BatchInv

LEMMA BatchInit1 == BatchInit => BatchInv
<1> SUFFICES ASSUME BatchInit PROVE BatchInv
  OBVIOUS
<1>1. /\ batch.mode \in {"sequential", "parallel"} /\ batch.pc = "enter" /\ batch.row = 0
      /\ batch.completed = 0 /\ batch.failed = 0 /\ batch \in BatchRec
  <2>1. batch \in [mode: {"sequential", "parallel"}, pc: {"enter"}, row: {0}, tries: {0},
                   completed: {0}, failed: {0}, aborted: {FALSE}]
    BY DEF BatchInit
  <2>2. 0 \in 0..RetryAttempts
    BY SdkRequestsAssumption
  <2>3. PICK m \in {"sequential", "parallel"} :
          batch = [mode |-> m, pc |-> "enter", row |-> 0, tries |-> 0, completed |-> 0,
                   failed |-> 0, aborted |-> FALSE]
    BY <2>1
  <2>4. batch \in BatchRec
    BY <2>2, <2>3 DEF BatchRec
  <2> QED
    BY <2>3, <2>4
<1>2. /\ \A c \in Case : /\ caseOf[c].pc = "waiting" /\ ~ caseOf[c].raised
                         /\ caseOf[c] \in CaseRec
      /\ caseOf \in [Case -> CaseRec]
  BY SdkRequestsAssumption DEF BatchInit, CaseRec, CasePc
<1>3. BatchTypes
  BY <1>1, <1>2, SdkRequestsAssumption DEF BatchInit, BatchTypes
<1>4. \A c \in Case : CaseOk(caseOf[c], runsOf[c], batch)
  BY <1>2 DEF CaseOk
<1>5. Ended("done") = {} /\ Ended("failed") = {}
  BY <1>2 DEF Ended
<1>6. Counted
  BY <1>1, <1>5, FS_EmptySet DEF Counted
<1>7. RowOk(batch, evalRuns) /\ BodyOver(batch)
  BY <1>1, <1>2 DEF RowOk, BodyOver, Active
<1> QED
  BY <1>3, <1>4, <1>6, <1>7 DEF BatchInv

\* The rows of a case's runs after a request of it: nothing is lost on them.
Keeps(q, runs, rs) ==
  /\ DOMAIN runs \subseteq DOMAIN rs
  /\ \A r \in DOMAIN runs : /\ runs[r].steps > 0 => rs[r].steps > 0
                            /\ runs[r].comparisons > 0 => rs[r].comparisons > 0
                            /\ q.pc # "complete" => rs[r].status = runs[r].status

\* What an answer says of them.
Does(q, runs, rs) ==
  /\ q.pc = "start" => Len(runs) + 1 \in DOMAIN rs
  /\ q.pc = "log" => rs[q.run].steps > 0
  /\ q.pc = "complete" => rs[q.run].status = IF q.raised THEN "failed" ELSE "completed"
  /\ q.pc = "compare" => rs[q.run].comparisons > 0

Requests == {"start", "branch", "log", "complete", "compare"}

LEMMA ServedRuns ==
  ASSUME BatchInv, NEW c \in Case, caseOf[c].pc \in Requests, Served(c, caseOf[c].pc)
  PROVE  \E rs \in Seq(RunRec) :
           /\ runsOf' = [runsOf EXCEPT ![c] = rs] /\ evalRuns' = evalRuns
           /\ Keeps(caseOf[c], runsOf[c], rs) /\ Does(caseOf[c], runsOf[c], rs)
<1> DEFINE q == caseOf[c]
           runs == runsOf[c]
<1>1. runs \in Seq(RunRec) /\ q \in CaseRec /\ CaseOk(q, runs, batch)
      /\ runsOf \in [Case -> Seq(RunRec)]
  BY DEF BatchInv, BatchTypes
<1>2. CASE q.pc = "start"
  <2> DEFINE new == [status |-> "running", branches |-> 0, steps |-> 0, comparisons |-> 0]
             rs == Append(runs, new)
  <2>1. new \in RunRec
    BY DEF RunRec
  <2>2. runsOf' = [runsOf EXCEPT ![c] = rs] /\ evalRuns' = evalRuns
    BY <1>2 DEF Served, InsertRun
  <2> HIDE DEF new
  <2>3. rs \in Seq(RunRec) /\ DOMAIN rs = 1..(Len(runs) + 1) /\ DOMAIN runs = 1..Len(runs)
        /\ Len(runs) \in Nat
    BY <1>1, <2>1, AppendProperties, LenProperties
  <2>4. \A r \in DOMAIN runs : rs[r] = runs[r]
    BY <1>1, <2>1, <2>3, AppendProperties
  <2>5. Keeps(q, runs, rs) /\ Does(q, runs, rs)
    <3> HIDE DEF rs, runs, q
    <3>1. DOMAIN runs \subseteq DOMAIN rs /\ Len(runs) + 1 \in DOMAIN rs
      BY <2>3
    <3> QED
      BY <1>2, <2>4, <3>1 DEF Keeps, Does
  <2> QED
    BY <2>2, <2>3, <2>5
<1>3. ASSUME q.pc # "start", NEW rec \in RunRec, UpdateRun(c, rec),
             runs[q.run].steps > 0 => rec.steps > 0,
             runs[q.run].comparisons > 0 => rec.comparisons > 0,
             q.pc # "complete" => rec.status = runs[q.run].status,
             q.pc = "log" => rec.steps > 0,
             q.pc = "complete" => rec.status = IF q.raised THEN "failed" ELSE "completed",
             q.pc = "compare" => rec.comparisons > 0
      PROVE  \E rs \in Seq(RunRec) :
               /\ runsOf' = [runsOf EXCEPT ![c] = rs] /\ evalRuns' = evalRuns
               /\ Keeps(q, runs, rs) /\ Does(q, runs, rs)
  <2> DEFINE rs == [runs EXCEPT ![q.run] = rec]
  <2>1. q.run \in DOMAIN runs
    BY <1>1, <1>3 DEF CaseOk, Requests
  <2>2. rs \in Seq(RunRec)
    BY <1>1, <1>3, <2>1, LenProperties, ExceptSeq
  <2>3. runsOf' = [runsOf EXCEPT ![c] = rs] /\ evalRuns' = evalRuns
    BY <1>1, <1>3 DEF UpdateRun
  <2>4. /\ DOMAIN rs = DOMAIN runs /\ rs[q.run] = rec
        /\ \A r \in DOMAIN runs : r # q.run => rs[r] = runs[r]
    BY <2>1
  <2> HIDE DEF rs, q, runs
  <2>5. Keeps(q, runs, rs)
    BY <1>3, <2>4 DEF Keeps
  <2>6. Does(q, runs, rs)
    BY <1>3, <2>4 DEF Does
  <2> QED
    BY <2>2, <2>3, <2>5, <2>6
<1>4. ASSUME q.pc # "start" PROVE runs[q.run] \in RunRec
  BY <1>1, <1>4, ElementOfSeq, LenProperties DEF CaseOk, Requests
<1>5. CASE q.pc = "branch"
  <2> DEFINE rec == [runs[q.run] EXCEPT !.branches = @ + 1]
  <2>1. rec \in RunRec /\ rec.steps = runs[q.run].steps /\ rec.status = runs[q.run].status
        /\ rec.comparisons = runs[q.run].comparisons
    BY <1>4, <1>5 DEF RunRec
  <2>2. UpdateRun(c, rec)
    BY <1>5 DEF Served, RunOf
  <2> QED
    BY <1>3, <1>5, <2>1, <2>2
<1>6. CASE q.pc = "log"
  <2> DEFINE rec == [runs[q.run] EXCEPT !.steps = @ + 1]
  <2>1. rec \in RunRec /\ rec.steps > 0 /\ rec.status = runs[q.run].status
        /\ rec.comparisons = runs[q.run].comparisons
    BY <1>4, <1>6 DEF RunRec
  <2>2. UpdateRun(c, rec)
    BY <1>6 DEF Served, RunOf
  <2> QED
    BY <1>3, <1>6, <2>1, <2>2
<1>7. CASE q.pc = "complete"
  <2> DEFINE rec == [runs[q.run] EXCEPT !.status = IF q.raised THEN "failed" ELSE "completed"]
  <2>1. rec \in RunRec /\ rec.steps = runs[q.run].steps
        /\ rec.comparisons = runs[q.run].comparisons
        /\ rec.status = IF q.raised THEN "failed" ELSE "completed"
    BY <1>4, <1>7 DEF RunRec
  <2>2. UpdateRun(c, rec)
    BY <1>7 DEF Served, RunOf
  <2> QED
    BY <1>3, <1>7, <2>1, <2>2
<1>8. CASE q.pc = "compare"
  <2> DEFINE rec == [runs[q.run] EXCEPT !.comparisons = @ + 1]
  <2>1. rec \in RunRec /\ rec.comparisons > 0 /\ rec.status = runs[q.run].status
        /\ rec.steps = runs[q.run].steps
    BY <1>4, <1>8 DEF RunRec
  <2>2. UpdateRun(c, rec)
    BY <1>8 DEF Served, RunOf
  <2> QED
    BY <1>3, <1>8, <2>1, <2>2
<1> QED
  BY <1>2, <1>5, <1>6, <1>7, <1>8 DEF Requests

\* What a step of case c leaves to be shown of it: the next case, its rows and the batch.
CaseGoes(c, q, rs, b) ==
  /\ q \in CaseRec /\ rs \in Seq(RunRec) /\ b \in BatchRec
  /\ caseOf' = [caseOf EXCEPT ![c] = q]
  /\ runsOf' = [runsOf EXCEPT ![c] = rs]
  /\ batch' = b /\ evalRuns' = evalRuns /\ faults' \in 0..MaxFaults
  /\ b.pc = "cases" /\ b.row = batch.row /\ b.mode = batch.mode
  /\ batch.aborted => b.aborted
  /\ b.completed = batch.completed + (IF q.pc = "done" THEN 1 ELSE 0)
  /\ b.failed = batch.failed + (IF q.pc = "failed" THEN 1 ELSE 0)
  /\ CaseOk(q, rs, b)

LEMMA CaseWent ==
  ASSUME BatchInv, NEW c \in Case, caseOf[c].pc \notin {"done", "failed"}, batch.pc = "cases",
         NEW q, NEW rs, NEW b, CaseGoes(c, q, rs, b)
  PROVE  BatchInv'
BY CaseMoves DEF CaseGoes

\* Rows that the step keeps, and the case stays where it is or goes to another request.
LEMMA CaseGoesOn ==
  ASSUME BatchInv, NEW c \in Case, caseOf[c].pc \notin {"done", "failed"}, batch.pc = "cases",
         NEW rs \in Seq(RunRec), runsOf' = [runsOf EXCEPT ![c] = rs],
         evalRuns' = evalRuns, faults' \in 0..MaxFaults, UNCHANGED batch,
         NEW q \in CaseRec, caseOf' = [caseOf EXCEPT ![c] = q],
         q.pc \notin {"done", "failed", "left"},
         q.raised => caseOf[c].raised,
         q.pc \in {"work", "branch", "log", "complete", "compare"} => q.run \in DOMAIN rs,
         q.pc = "branch" => q.made < 2,
         q.pc = "complete" /\ q.made > 0 => rs[q.run].steps > 0,
         q.pc = "compare" => rs[q.run].status = "completed" /\ rs[q.run].steps > 0
  PROVE  BatchInv'
<1>1. CaseOk(caseOf[c], runsOf[c], batch) /\ batch \in BatchRec
  BY DEF BatchInv, BatchTypes
<1>2. CaseOk(q, rs, batch)
  BY <1>1 DEF CaseOk
<1>3. batch.completed \in Nat /\ batch.failed \in Nat
  BY <1>1 DEF BatchRec
<1>4. CaseGoes(c, q, rs, batch)
  BY <1>1, <1>2, <1>3 DEF CaseGoes
<1> QED
  BY <1>4, CaseWent

\* The case ends.
LEMMA CaseEnds ==
  ASSUME BatchInv, NEW c \in Case, caseOf[c].pc \notin {"done", "failed"}, batch.pc = "cases",
         NEW rs \in Seq(RunRec), runsOf' = [runsOf EXCEPT ![c] = rs],
         evalRuns' = evalRuns, faults' \in 0..MaxFaults,
         NEW pc \in {"done", "failed", "left"}, CountCase(c, pc),
         pc = "left" => batch.aborted,
         pc = "done" =>
           /\ caseOf[c].run \in DOMAIN rs
           /\ rs[caseOf[c].run].status = "completed"
           /\ caseOf[c].made = 2 =>
                rs[caseOf[c].run].steps > 0 /\ rs[caseOf[c].run].comparisons > 0
  PROVE  BatchInv'
<1> DEFINE q == [caseOf[c] EXCEPT !.pc = pc, !.tries = 0]
<1>1. CaseOk(caseOf[c], runsOf[c], batch) /\ batch \in BatchRec
      /\ caseOf \in [Case -> CaseRec] /\ caseOf[c] \in CaseRec
  BY DEF BatchInv, BatchTypes
<1>2. caseOf' = [caseOf EXCEPT ![c] = q]
  BY <1>1 DEF CountCase
<1>3. /\ q \in CaseRec /\ q.pc = pc /\ q.raised = caseOf[c].raised /\ q.run = caseOf[c].run
      /\ q.made = caseOf[c].made
  <2>1. 0 \in 0..RetryAttempts
    BY SdkRequestsAssumption
  <2> QED
    BY <1>1, <2>1 DEF CaseRec, CasePc
<1> HIDE DEF q
<1>4. PICK b \in BatchRec :
        /\ batch' = b /\ b.pc = batch.pc /\ b.row = batch.row /\ b.mode = batch.mode
        /\ b.aborted = batch.aborted
        /\ b.completed = batch.completed + (IF pc = "done" THEN 1 ELSE 0)
        /\ b.failed = batch.failed + (IF pc = "failed" THEN 1 ELSE 0)
  <2>1. CASE pc = "done"
    <3> DEFINE b == [batch EXCEPT !.completed = @ + 1]
    <3>1. /\ b \in BatchRec /\ b.pc = batch.pc /\ b.row = batch.row /\ b.mode = batch.mode
          /\ b.aborted = batch.aborted /\ b.completed = batch.completed + 1
          /\ b.failed = batch.failed /\ batch.failed \in Nat
      BY <1>1 DEF BatchRec
    <3>2. batch' = b
      BY <2>1 DEF CountCase
    <3> HIDE DEF b
    <3>3. /\ b.completed = batch.completed + (IF pc = "done" THEN 1 ELSE 0)
          /\ b.failed = batch.failed + (IF pc = "failed" THEN 1 ELSE 0)
      BY <1>1, <2>1, <3>1 DEF BatchRec
    <3> QED
      BY <3>1, <3>2, <3>3
  <2>2. CASE pc = "failed"
    <3> DEFINE b == [batch EXCEPT !.failed = @ + 1]
    <3>1. /\ b \in BatchRec /\ b.pc = batch.pc /\ b.row = batch.row /\ b.mode = batch.mode
          /\ b.aborted = batch.aborted /\ b.failed = batch.failed + 1
          /\ b.completed = batch.completed /\ batch.completed \in Nat
      BY <1>1 DEF BatchRec
    <3>2. batch' = b
      BY <2>2 DEF CountCase
    <3> HIDE DEF b
    <3>3. /\ b.completed = batch.completed + (IF pc = "done" THEN 1 ELSE 0)
          /\ b.failed = batch.failed + (IF pc = "failed" THEN 1 ELSE 0)
      BY <1>1, <2>2, <3>1 DEF BatchRec
    <3> QED
      BY <3>1, <3>2, <3>3
  <2>3. CASE pc = "left"
    <3>1. batch' = batch /\ batch.failed \in Nat /\ batch.completed \in Nat
      BY <1>1, <2>3 DEF CountCase, BatchRec
    <3> QED
      BY <1>1, <2>3, <3>1
  <2> QED
    BY <2>1, <2>2, <2>3
<1>5. CaseOk(q, rs, b)
  BY <1>1, <1>3, <1>4 DEF CaseOk
<1>6. CaseGoes(c, q, rs, b)
  BY <1>2, <1>3, <1>4, <1>5 DEF CaseGoes
<1> QED
  BY <1>6, CaseWent

\* The caller's function raises.
LEMMA CaseRaises ==
  ASSUME BatchInv, NEW c \in Case, caseOf[c].pc \in {"work", "branch"}, batch.pc = "cases",
         NEW rs \in Seq(RunRec), runsOf' = [runsOf EXCEPT ![c] = rs],
         DOMAIN runsOf[c] \subseteq DOMAIN rs,
         evalRuns' = evalRuns, faults' \in 0..MaxFaults, RaiseInBody(c)
  PROVE  BatchInv'
<1> DEFINE q == [caseOf[c] EXCEPT !.pc = ExitFrom(c), !.tries = 0, !.raised = TRUE]
           a == batch.aborted \/ batch.mode = "sequential"
           b == [batch EXCEPT !.aborted = a]
<1>1. CaseOk(caseOf[c], runsOf[c], batch) /\ batch \in BatchRec
      /\ caseOf \in [Case -> CaseRec] /\ caseOf[c] \in CaseRec
  BY DEF BatchInv, BatchTypes
<1>2. caseOf' = [caseOf EXCEPT ![c] = q] /\ batch' = b
  BY <1>1 DEF RaiseInBody
<1>3. /\ q \in CaseRec /\ q.pc \in {"log", "complete"} /\ q.run = caseOf[c].run
      /\ q.made = caseOf[c].made /\ (q.pc = "complete" => ~ (q.made > 0))
  <2>1. 0 \in 0..RetryAttempts
    BY SdkRequestsAssumption
  <2> QED
    BY <1>1, <2>1 DEF CaseRec, CasePc, ExitFrom
<1> HIDE DEF q
<1>4. a \in BOOLEAN
  BY <1>1 DEF BatchRec
<1>5. (batch.aborted => a) /\ (batch.mode = "sequential" => a)
  OBVIOUS
<1> HIDE DEF a
<1>6. /\ b \in BatchRec /\ b.pc = "cases" /\ b.row = batch.row /\ b.mode = batch.mode
      /\ b.aborted = a /\ b.completed = batch.completed /\ b.failed = batch.failed
      /\ batch.completed \in Nat /\ batch.failed \in Nat
  BY <1>1, <1>4 DEF BatchRec
<1> HIDE DEF b
<1>7. caseOf[c].run \in DOMAIN rs
  BY <1>1 DEF CaseOk
<1>8. CaseOk(q, rs, b)
  BY <1>3, <1>5, <1>6, <1>7 DEF CaseOk
<1>9. CaseGoes(c, q, rs, b)
  BY <1>2, <1>3, <1>5, <1>6, <1>8 DEF CaseGoes
<1> QED
  BY <1>1, <1>9, CaseWent

\* The case's request is answered, or it is not.
LEMMA RequestStep ==
  ASSUME BatchInv, NEW c \in Case, Request(c)
  PROVE  BatchInv'
<1> DEFINE q == caseOf[c]
<1>0. /\ q.pc \in Requests /\ q \in CaseRec /\ CaseOk(q, runsOf[c], batch)
      /\ runsOf[c] \in Seq(RunRec) /\ caseOf \in [Case -> CaseRec]
      /\ runsOf \in [Case -> Seq(RunRec)] /\ faults \in 0..MaxFaults /\ batch \in BatchRec
  BY DEF Request, Requests, BatchInv, BatchTypes
<1>1. q.pc \notin {"done", "failed"} /\ batch.pc = "cases"
  BY <1>0 DEF Requests, BatchInv, BodyOver, Active
<1>2. 0 \in 0..RetryAttempts /\ MaxFaults \in Nat /\ RetryAttempts \in Nat
  BY SdkRequestsAssumption
<1>3. ASSUME NEW rs \in Seq(RunRec), runsOf' = [runsOf EXCEPT ![c] = rs], evalRuns' = evalRuns,
             faults' \in 0..MaxFaults, Keeps(q, runsOf[c], rs), GiveUp(c)
      PROVE  BatchInv'
  <2>1. CASE q.pc = "branch"
    <3>1. RaiseInBody(c) /\ DOMAIN runsOf[c] \subseteq DOMAIN rs
      BY <1>3, <2>1 DEF GiveUp, Keeps
    <3> QED
      BY <1>1, <1>3, <2>1, <3>1, CaseRaises
  <2>2. CASE q.pc # "branch"
    <3>1. CountCase(c, "failed")
      BY <1>3, <2>2 DEF GiveUp
    <3> QED
      BY <1>1, <1>3, <3>1, CaseEnds
  <2> QED
    BY <2>1, <2>2
<1>4. CASE NotServed /\ GiveUp(c) /\ UNCHANGED faults
  <2>1. runsOf' = [runsOf EXCEPT ![c] = runsOf[c]] /\ evalRuns' = evalRuns
        /\ faults' \in 0..MaxFaults
    BY <1>0, <1>4 DEF NotServed
  <2>2. Keeps(q, runsOf[c], runsOf[c])
    BY DEF Keeps
  <2> QED
    BY <1>0, <1>3, <1>4, <2>1, <2>2
<1>5. CASE NoAnswer(Served(c, q.pc), NotServed, q.tries,
                    caseOf' = [caseOf EXCEPT ![c].tries = @ + 1] /\ UNCHANGED batch, GiveUp(c))
  <2>1. faults' \in 0..MaxFaults
    BY <1>0, <1>2, <1>5 DEF NoAnswer, Fault
  <2>2. PICK rs \in Seq(RunRec) : /\ runsOf' = [runsOf EXCEPT ![c] = rs]
                                  /\ evalRuns' = evalRuns /\ Keeps(q, runsOf[c], rs)
    <3>1. CASE Served(c, q.pc)
      BY <1>0, <3>1, ServedRuns
    <3>2. CASE NotServed
      <4>1. runsOf' = [runsOf EXCEPT ![c] = runsOf[c]] /\ evalRuns' = evalRuns
        BY <1>0, <3>2 DEF NotServed
      <4>2. Keeps(q, runsOf[c], runsOf[c])
        BY DEF Keeps
      <4> QED
        BY <1>0, <4>1, <4>2
    <3> QED
      BY <1>5, <3>1, <3>2 DEF NoAnswer
  <2>3. CASE GiveUp(c)
    BY <1>3, <2>1, <2>2, <2>3
  <2>4. CASE /\ q.tries + 1 < RetryAttempts /\ UNCHANGED batch
             /\ caseOf' = [caseOf EXCEPT ![c].tries = @ + 1]
    <3> DEFINE r == [q EXCEPT !.tries = q.tries + 1]
    <3>1. caseOf' = [caseOf EXCEPT ![c] = r]
      BY <1>0, <2>4
    <3>2. /\ r \in CaseRec /\ r.pc = q.pc /\ r.run = q.run /\ r.made = q.made
          /\ r.raised = q.raised
      <4>1. q.tries \in Nat /\ q.tries + 1 \in 0..RetryAttempts
        BY <1>0, <1>2, <2>4 DEF CaseRec
      <4> QED
        BY <1>0, <4>1 DEF CaseRec
    <3> HIDE DEF r
    <3>3. q.pc # "start" => q.run \in DOMAIN runsOf[c] /\ q.run \in DOMAIN rs
      BY <1>0, <2>2 DEF CaseOk, Requests, Keeps
    <3>4. /\ r.pc = "branch" => r.made < 2
          /\ r.pc = "complete" /\ r.made > 0 => rs[r.run].steps > 0
          /\ r.pc = "compare" => rs[r.run].status = "completed" /\ rs[r.run].steps > 0
      BY <1>0, <2>2, <3>2, <3>3 DEF CaseOk, Keeps
    <3>5. r.pc \notin {"done", "failed", "left"}
      BY <1>0, <3>2 DEF Requests
    <3>6. r.pc \in {"work", "branch", "log", "complete", "compare"} => r.run \in DOMAIN rs
      BY <3>2, <3>3
    <3>7. r.raised => caseOf[c].raised
      BY <3>2
    <3>8. UNCHANGED batch /\ caseOf[c].pc \notin {"done", "failed"}
      BY <1>1, <2>4
    <3> HIDE DEF q
    <3> QED
      BY <1>1, <2>1, <2>2, <3>1, <3>2, <3>4, <3>5, <3>6, <3>7, <3>8, CaseGoesOn
  <2> QED
    BY <1>5, <2>3, <2>4 DEF NoAnswer
<1>6. CASE Answered(Served(c, q.pc), Continue(c))
  <2>1. faults' \in 0..MaxFaults /\ Continue(c) /\ Served(c, q.pc)
    BY <1>0, <1>6 DEF Answered
  <2>2. PICK rs \in Seq(RunRec) :
          /\ runsOf' = [runsOf EXCEPT ![c] = rs] /\ evalRuns' = evalRuns
          /\ Keeps(q, runsOf[c], rs) /\ Does(q, runsOf[c], rs)
    BY <1>0, <2>1, ServedRuns
  <2>3. ASSUME NEW r \in CaseRec, caseOf' = [caseOf EXCEPT ![c] = r], UNCHANGED batch,
               r.pc \in {"work", "complete", "compare"}, r.run \in DOMAIN rs,
               r.raised => q.raised, r.pc = "complete" => rs[r.run].steps > 0,
               r.pc = "compare" => rs[r.run].status = "completed" /\ rs[r.run].steps > 0
        PROVE  BatchInv'
    BY <1>1, <2>1, <2>2, <2>3, CaseGoesOn
  <2>4. q.pc # "start" => q.run \in DOMAIN runsOf[c] /\ q.run \in DOMAIN rs
    BY <1>0, <2>2 DEF CaseOk, Requests, Keeps
  <2>5. ASSUME EndCase(c),
               ~ q.raised =>
                 /\ q.run \in DOMAIN rs
                 /\ rs[q.run].status = "completed"
                 /\ q.made = 2 => rs[q.run].steps > 0 /\ rs[q.run].comparisons > 0
        PROVE  BatchInv'
    <3>1. PICK pc \in {"done", "failed", "left"} :
            /\ CountCase(c, pc) /\ (pc = "done" => ~ q.raised)
            /\ (pc = "left" => batch.aborted)
      BY <1>0, <2>5 DEF EndCase, CaseOk
    <3> QED
      BY <1>1, <2>1, <2>2, <2>5, <3>1, CaseEnds
  <2>6. CASE q.pc = "start"
    <3> DEFINE r == [q EXCEPT !.pc = "work", !.tries = 0, !.run = Len(runsOf[c]) + 1]
    <3>1. caseOf' = [caseOf EXCEPT ![c] = r] /\ UNCHANGED batch
      BY <1>0, <2>1, <2>6 DEF Continue
    <3>2. Len(runsOf[c]) + 1 \in Nat
      BY <1>0, LenProperties
    <3>3. r \in CaseRec /\ r.pc = "work" /\ r.run = Len(runsOf[c]) + 1 /\ r.raised = q.raised
      BY <1>0, <1>2, <3>2 DEF CaseRec, CasePc
    <3>4. r.run \in DOMAIN rs
      BY <2>2, <2>6, <3>3 DEF Does
    <3> HIDE DEF r
    <3> QED
      BY <2>3, <3>1, <3>3, <3>4
  <2>7. CASE q.pc = "branch"
    <3> DEFINE r == [q EXCEPT !.pc = "work", !.tries = 0, !.made = q.made + 1]
    <3>1. caseOf' = [caseOf EXCEPT ![c] = r] /\ UNCHANGED batch
      BY <1>0, <2>1, <2>7 DEF Continue
    <3>2. q.made + 1 \in 0..2
      <4>1. q.made \in 0..2 /\ q.made < 2
        BY <1>0, <2>7 DEF CaseOk, CaseRec
      <4> QED
        BY <4>1
    <3>3. r \in CaseRec /\ r.pc = "work" /\ r.run = q.run /\ r.raised = q.raised
      BY <1>0, <1>2, <3>2 DEF CaseRec, CasePc
    <3> HIDE DEF r
    <3> QED
      BY <2>3, <2>4, <2>7, <3>1, <3>3
  <2>8. ASSUME NEW pc \in {"complete", "compare"}, GoOn(c, pc), q.pc # "start",
               rs[q.run].steps > 0, pc = "compare" => rs[q.run].status = "completed"
        PROVE  BatchInv'
    <3> DEFINE r == [q EXCEPT !.pc = pc, !.tries = 0]
    <3>1. caseOf' = [caseOf EXCEPT ![c] = r] /\ UNCHANGED batch
      BY <1>0, <2>8 DEF GoOn
    <3>2. r \in CaseRec /\ r.pc = pc /\ r.run = q.run /\ r.raised = q.raised
      BY <1>0, <1>2 DEF CaseRec, CasePc
    <3> HIDE DEF r
    <3> QED
      BY <2>3, <2>4, <2>8, <3>1, <3>2
  <2>9. CASE q.pc = "log"
    <3>1. GoOn(c, "complete") /\ rs[q.run].steps > 0
      BY <2>1, <2>2, <2>9 DEF Continue, Does
    <3> QED
      BY <2>8, <2>9, <3>1
  <2>10. CASE q.pc = "complete"
    <3>1. rs[q.run].status = IF q.raised THEN "failed" ELSE "completed"
      BY <2>2, <2>10 DEF Does
    <3>2. q.made = 2 => rs[q.run].steps > 0
      <4>1. q.made = 2 => runsOf[c][q.run].steps > 0
        BY <1>0, <2>10 DEF CaseOk
      <4> QED
        BY <2>2, <2>4, <2>10, <4>1 DEF Keeps
    <3>3. CASE ~ q.raised /\ q.made = 2
      <4>1. GoOn(c, "compare")
        BY <2>1, <2>10, <3>3 DEF Continue
      <4> QED
        BY <2>8, <2>10, <3>1, <3>2, <3>3, <4>1
    <3>4. CASE ~ (~ q.raised /\ q.made = 2)
      <4>1. EndCase(c)
        BY <2>1, <2>10, <3>4 DEF Continue
      <4> QED
        BY <2>4, <2>5, <2>10, <3>1, <3>4, <4>1
    <3> QED
      BY <3>3, <3>4
  <2>11. CASE q.pc = "compare"
    <3>1. EndCase(c) /\ rs[q.run].comparisons > 0
      BY <2>1, <2>2, <2>11 DEF Continue, Does
    <3>2. rs[q.run].status = "completed" /\ rs[q.run].steps > 0
      <4>1. runsOf[c][q.run].status = "completed" /\ runsOf[c][q.run].steps > 0
        BY <1>0, <2>11 DEF CaseOk
      <4> QED
        BY <2>2, <2>4, <2>11, <4>1 DEF Keeps
    <3> QED
      BY <2>4, <2>5, <2>11, <3>1, <3>2
  <2> QED
    BY <1>0, <2>6, <2>7, <2>9, <2>10, <2>11 DEF Requests
<1> QED
  BY <1>4, <1>5, <1>6 DEF Request

LEMMA WorkStep ==
  ASSUME BatchInv, NEW c \in Case, Work(c)
  PROVE  BatchInv'
<1> DEFINE q == caseOf[c]
<1>0. /\ q.pc = "work" /\ q \in CaseRec /\ CaseOk(q, runsOf[c], batch)
      /\ runsOf[c] \in Seq(RunRec) /\ caseOf \in [Case -> CaseRec]
      /\ runsOf \in [Case -> Seq(RunRec)] /\ faults \in 0..MaxFaults
  BY DEF Work, BatchInv, BatchTypes
<1>1. batch.pc = "cases" /\ q.run \in DOMAIN runsOf[c]
  BY <1>0 DEF BatchInv, BodyOver, Active, CaseOk
<1>2. runsOf' = [runsOf EXCEPT ![c] = runsOf[c]] /\ evalRuns' = evalRuns
      /\ faults' \in 0..MaxFaults
  BY <1>0 DEF Work
<1>3. CASE batch.aborted /\ CountCase(c, "left")
  BY <1>0, <1>1, <1>2, <1>3, CaseEnds
<1>4. ASSUME NEW pc \in {"branch", "log", "complete"}, GoOn(c, pc),
             pc = "branch" => q.made < 2, pc = "complete" => ~ (q.made > 0)
      PROVE  BatchInv'
  <2> DEFINE r == [q EXCEPT !.pc = pc, !.tries = 0]
  <2>1. caseOf' = [caseOf EXCEPT ![c] = r] /\ UNCHANGED batch
    BY <1>0, <1>4 DEF GoOn
  <2>2. 0 \in 0..RetryAttempts
    BY SdkRequestsAssumption
  <2>3. /\ r \in CaseRec /\ r.pc = pc /\ r.run = q.run /\ r.made = q.made
        /\ r.raised = q.raised
    BY <1>0, <2>2 DEF CaseRec, CasePc
  <2> HIDE DEF r
  <2>4. r.pc = "complete" => ~ (r.made > 0)
    BY <1>4, <2>3
  <2>5. r.raised => caseOf[c].raised
    BY <2>3
  <2> QED
    BY <1>0, <1>1, <1>2, <1>4, <2>1, <2>3, <2>4, <2>5, CaseGoesOn
<1>5. CASE RaiseInBody(c)
  BY <1>0, <1>1, <1>2, <1>5, CaseRaises
<1>6. CASE q.made < 2 /\ GoOn(c, "branch")
  BY <1>4, <1>6
<1>7. CASE GoOn(c, ExitFrom(c))
  BY <1>4, <1>7 DEF ExitFrom
<1> QED
  BY <1>3, <1>5, <1>6, <1>7 DEF Work

LEMMA TakeStep ==
  ASSUME BatchInv, NEW c \in Case, TakeCase(c)
  PROVE  BatchInv'
<1> DEFINE q == caseOf[c]
           r == [q EXCEPT !.pc = "start"]
<1>0. /\ q.pc = "waiting" /\ q \in CaseRec /\ batch.pc = "cases"
      /\ runsOf[c] \in Seq(RunRec) /\ caseOf \in [Case -> CaseRec]
      /\ runsOf \in [Case -> Seq(RunRec)] /\ faults \in 0..MaxFaults
  BY DEF TakeCase, BatchInv, BatchTypes
<1>1. /\ caseOf' = [caseOf EXCEPT ![c] = r] /\ UNCHANGED batch
      /\ runsOf' = [runsOf EXCEPT ![c] = runsOf[c]] /\ evalRuns' = evalRuns
      /\ faults' \in 0..MaxFaults
  BY <1>0 DEF TakeCase
<1>2. r \in CaseRec /\ r.pc = "start" /\ r.raised = q.raised
  BY <1>0 DEF CaseRec, CasePc
<1> HIDE DEF r
<1>3. r.raised => caseOf[c].raised
  BY <1>2
<1> QED
  BY <1>0, <1>1, <1>2, <1>3, CaseGoesOn

\* The context opens and closes the batch.
LEMMA ContextStep ==
  ASSUME BatchInv, EnterBatch \/ LeaveBody \/ CloseBatch \/ DeleteEvalRun
  PROVE  BatchInv'
<1>0. /\ batch \in BatchRec /\ evalRuns \in Seq(EvalRunRec) /\ faults \in 0..MaxFaults
      /\ RowOk(batch, evalRuns) /\ BodyOver(batch) /\ Counted
      /\ Cardinality(Case) \in Nat /\ MaxFaults \in Nat /\ RetryAttempts \in Nat
      /\ 0 \in 0..RetryAttempts /\ batch.tries \in 0..RetryAttempts
  BY SdkRequestsAssumption, EndedCount DEF BatchInv, BatchTypes, BatchRec
<1>1. Fault => faults' \in 0..MaxFaults
  BY <1>0 DEF Fault
<1>2. batch.completed + batch.failed \in 0..Cardinality(Case)
  <2>1. /\ batch.completed \in Nat /\ batch.failed \in Nat
        /\ batch.completed + batch.failed <= Cardinality(Case)
    BY <1>0, EndedCount DEF Counted
  <2> QED
    BY <1>0, <2>1
<1>3. ASSUME batch' = [batch EXCEPT !.tries = @ + 1], batch.tries + 1 < RetryAttempts
      PROVE  /\ batch' \in BatchRec /\ batch'.pc = batch.pc /\ batch'.mode = batch.mode
             /\ batch'.aborted = batch.aborted /\ batch'.completed = batch.completed
             /\ batch'.failed = batch.failed /\ batch'.row = batch.row
  <2>1. batch.tries + 1 \in 0..RetryAttempts
    BY <1>0, <1>3
  <2> QED
    BY <1>0, <1>3, <2>1 DEF BatchRec
<1>4. ASSUME NEW pc \in {"raised", "exit"}, batch' = [batch EXCEPT !.pc = pc]
      PROVE  /\ batch' \in BatchRec /\ batch'.pc = pc /\ batch'.mode = batch.mode
             /\ batch'.aborted = batch.aborted /\ batch'.completed = batch.completed
             /\ batch'.failed = batch.failed /\ batch'.row = batch.row
  BY <1>0, <1>4 DEF BatchRec
<1>5. CASE EnterBatch
  <2>1. batch.pc = "enter" /\ UNCHANGED <<caseOf, runsOf>> /\ faults' \in 0..MaxFaults
    BY <1>0, <1>1, <1>5 DEF EnterBatch, Answered, NoAnswer, InsertEvalRun, NotServed
  <2>2. /\ evalRuns' \in Seq(EvalRunRec)
        /\ \/ evalRuns' = evalRuns
           \/ Len(evalRuns') = Len(evalRuns) + 1
    <3>1. \A status \in {"pending", "running"} :
            [status |-> status, total |-> Cardinality(Case)] \in EvalRunRec
      BY <1>0 DEF EvalRunRec
    <3>2. \/ NotServed
          \/ \E status \in {"pending", "running"} : InsertEvalRun(status)
      BY <1>5 DEF EnterBatch, Answered, NoAnswer
    <3>3. ASSUME NEW status \in {"pending", "running"}, InsertEvalRun(status)
          PROVE  evalRuns' \in Seq(EvalRunRec) /\ Len(evalRuns') = Len(evalRuns) + 1
      <4> DEFINE row == [status |-> status, total |-> Cardinality(Case)]
      <4>1. row \in EvalRunRec /\ evalRuns' = Append(evalRuns, row)
        BY <3>1, <3>3 DEF InsertEvalRun
      <4> HIDE DEF row
      <4> QED
        BY <1>0, <4>1, AppendProperties
    <3> QED
      BY <1>0, <3>2, <3>3 DEF NotServed
  <2>3. DOMAIN evalRuns \subseteq DOMAIN evalRuns'
    BY <1>0, <2>2, LenProperties
  <2>4. CASE /\ batch' = [batch EXCEPT !.pc = "cases", !.tries = 0, !.row = Len(evalRuns) + 1]
             /\ InsertEvalRun("running")
    <3>1. Len(evalRuns) + 1 \in Nat /\ Len(evalRuns) + 1 \in DOMAIN evalRuns'
      <4>1. Len(evalRuns') = Len(evalRuns) + 1 /\ Len(evalRuns) \in Nat
        BY <1>0, <2>4, AppendProperties, LenProperties DEF InsertEvalRun
      <4>2. DOMAIN evalRuns' = 1..Len(evalRuns')
        BY <2>2, LenProperties
      <4> QED
        BY <4>1, <4>2
    <3>2. /\ batch' \in BatchRec /\ batch'.pc = "cases" /\ batch'.mode = batch.mode
          /\ batch'.aborted = batch.aborted /\ batch'.completed = batch.completed
          /\ batch'.failed = batch.failed /\ batch'.row = Len(evalRuns) + 1
      BY <1>0, <2>4, <3>1 DEF BatchRec
    <3>3. RowOk(batch', evalRuns') /\ BodyOver(batch')
      BY <3>1, <3>2 DEF RowOk, BodyOver
    <3> QED
      BY <2>1, <2>2, <3>2, <3>3, BatchMoves
  <2>5. ASSUME batch' \in BatchRec, batch'.pc \in {"enter", "raised"}, batch'.mode = batch.mode,
               batch'.aborted = batch.aborted, batch'.completed = batch.completed,
               batch'.failed = batch.failed, batch'.row = batch.row
        PROVE  BatchInv'
    <3>1. RowOk(batch', evalRuns')
      BY <1>0, <2>3, <2>5 DEF RowOk
    <3>2. BodyOver(batch')
      BY <1>0, <2>1, <2>5 DEF BodyOver
    <3> QED
      BY <2>1, <2>2, <2>5, <3>1, <3>2, BatchMoves
  <2>6. CASE batch' = [batch EXCEPT !.tries = @ + 1] /\ batch.tries + 1 < RetryAttempts
    BY <1>3, <2>1, <2>5, <2>6
  <2>7. CASE batch' = [batch EXCEPT !.pc = "raised"]
    BY <1>4, <2>5, <2>7
  <2> QED
    BY <1>5, <2>4, <2>6, <2>7 DEF EnterBatch, Answered, NoAnswer
<1>6. CASE LeaveBody
  <2>1. /\ batch.pc = "cases" /\ UNCHANGED <<caseOf, runsOf, evalRuns, faults>>
        /\ batch' = [batch EXCEPT !.pc = "exit"]
    BY <1>6 DEF LeaveBody
  <2>2. /\ batch' \in BatchRec /\ batch'.pc = "exit" /\ batch'.mode = batch.mode
        /\ batch'.aborted = batch.aborted /\ batch'.completed = batch.completed
        /\ batch'.failed = batch.failed /\ batch'.row = batch.row
    BY <1>4, <2>1
  <2>3. RowOk(batch', evalRuns')
    BY <1>0, <2>1, <2>2 DEF RowOk
  <2>4. BodyOver(batch')
    <3>1. \A c \in Case : caseOf[c].pc = "left" => batch.aborted
      BY DEF BatchInv, CaseOk
    <3>2. \A c \in Case : caseOf[c].pc \in {"waiting", "done", "failed", "left"}
      BY <1>6 DEF LeaveBody, Active
    <3>3. (\A c \in Case : caseOf[c].pc # "waiting") \/ (\E c \in Case : caseOf[c].pc = "left")
      BY <1>6 DEF LeaveBody
    <3> QED
      BY <2>2, <3>1, <3>2, <3>3 DEF BodyOver, Active
  <2> QED
    BY <1>0, <2>1, <2>2, <2>3, <2>4, BatchMoves
<1>7. CASE CloseBatch
  <2> DEFINE total == batch.completed + batch.failed
             status == IF batch.aborted THEN "failed" ELSE "completed"
             rec == [status |-> status, total |-> total]
  <2>1. batch.pc = "exit" /\ UNCHANGED <<caseOf, runsOf>> /\ faults' \in 0..MaxFaults
    BY <1>0, <1>1, <1>7 DEF CloseBatch, Answered, NoAnswer, UpdateEvalRun, NotServed
  <2>2. batch.row \in DOMAIN evalRuns /\ batch.row # 0
    BY <1>0, <2>1 DEF RowOk
  <2>3. rec \in EvalRunRec
    BY <1>2 DEF EvalRunRec
  <2>4. \/ evalRuns' = evalRuns
        \/ evalRuns' = [evalRuns EXCEPT ![batch.row] = rec]
    BY <1>7 DEF CloseBatch, Answered, NoAnswer, UpdateEvalRun, NotServed
  <2>5. evalRuns' \in Seq(EvalRunRec) /\ DOMAIN evalRuns' = DOMAIN evalRuns
    BY <1>0, <2>2, <2>3, <2>4, ExceptSeq, LenProperties
  <2>6. ASSUME batch' \in BatchRec, batch'.pc \in {"exit", "raised", "closed"},
               batch'.mode = batch.mode,
               batch'.aborted = batch.aborted, batch'.completed = batch.completed,
               batch'.failed = batch.failed, batch'.row = batch.row,
               batch'.pc = "closed" => evalRuns' = [evalRuns EXCEPT ![batch.row] = rec]
        PROVE  BatchInv'
    <3>1. batch'.pc = "closed" => evalRuns'[batch'.row].total = batch'.completed + batch'.failed
      BY <2>2, <2>6
    <3>2. RowOk(batch', evalRuns')
      BY <2>2, <2>5, <2>6, <3>1 DEF RowOk
    <3>3. BodyOver(batch')
      BY <1>0, <2>1, <2>6 DEF BodyOver
    <3> QED
      BY <2>1, <2>5, <2>6, <3>2, <3>3, BatchMoves
  <2>7. CASE batch' = [batch EXCEPT !.tries = @ + 1] /\ batch.tries + 1 < RetryAttempts
    BY <1>3, <2>1, <2>6, <2>7
  <2>8. CASE batch' = [batch EXCEPT !.pc = "raised"]
    BY <1>4, <2>6, <2>8
  <2>9. CASE /\ batch' = [batch EXCEPT !.pc = "closed", !.tries = 0]
             /\ evalRuns' = [evalRuns EXCEPT ![batch.row] = rec]
    <3>1. /\ batch' \in BatchRec /\ batch'.pc = "closed" /\ batch'.mode = batch.mode
          /\ batch'.aborted = batch.aborted /\ batch'.completed = batch.completed
          /\ batch'.failed = batch.failed /\ batch'.row = batch.row
      BY <1>0, <2>9 DEF BatchRec
    <3> QED
      BY <2>6, <2>9, <3>1
  <2> QED
    BY <1>7, <2>7, <2>8, <2>9 DEF CloseBatch, Answered, NoAnswer, UpdateEvalRun
<1>8. CASE DeleteEvalRun
  <2> DEFINE rec == [evalRuns[batch.row] EXCEPT !.status = "deleted"]
  <2>1. UNCHANGED <<batch, caseOf, runsOf>> /\ faults' \in 0..MaxFaults /\ batch.row # 0
        /\ evalRuns' = [evalRuns EXCEPT ![batch.row] = rec]
    BY <1>1, <1>8 DEF DeleteEvalRun
  <2>2. batch.row \in DOMAIN evalRuns
    BY <1>0, <2>1 DEF RowOk
  <2>3. rec \in EvalRunRec /\ rec.status = "deleted"
    <3>1. evalRuns[batch.row] \in EvalRunRec
      BY <1>0, <2>2, ElementOfSeq, LenProperties
    <3> QED
      BY <3>1 DEF EvalRunRec
  <2> HIDE DEF rec
  <2>4. evalRuns' \in Seq(EvalRunRec) /\ DOMAIN evalRuns' = DOMAIN evalRuns
        /\ evalRuns'[batch.row] = rec
    BY <1>0, <2>1, <2>2, <2>3, ExceptSeq, LenProperties
  <2>5. RowOk(batch, evalRuns')
    BY <1>0, <2>3, <2>4 DEF RowOk
  <2> QED
    BY <1>0, <2>1, <2>4, <2>5, BatchMoves
<1> QED
  BY <1>5, <1>6, <1>7, <1>8

LEMMA BatchStep == BatchInv /\ [BatchNext]_batchVars => BatchInv'
<1> SUFFICES ASSUME BatchInv, [BatchNext]_batchVars PROVE BatchInv'
  OBVIOUS
<1>1. CASE UNCHANGED batchVars
  <2>1. UNCHANGED <<faults, batch, caseOf, evalRuns, runsOf>>
    BY <1>1 DEF batchVars
  <2>2. batch \in BatchRec /\ faults \in 0..MaxFaults /\ evalRuns \in Seq(EvalRunRec)
        /\ RowOk(batch, evalRuns) /\ BodyOver(batch)
    BY DEF BatchInv, BatchTypes
  <2> QED
    BY <2>1, <2>2, BatchMoves
<1> QED
  BY <1>1, ContextStep, TakeStep, WorkStep, RequestStep DEF BatchNext

\* Whatever the network loses, a batch of the SDK has counted what happened: a case as
\* completed only when its run is complete with its steps and its comparison on the server,
\* every case when the batch was closed normally, and the row's total is what was counted.
THEOREM BatchesAccounted == BatchSpec => [](BatchTypeOK /\ BatchAccounted)
<1>1. BatchInv => BatchAccounted
  <2> SUFFICES ASSUME BatchInv PROVE BatchAccounted
    OBVIOUS
  <2>1. /\ \A c \in Case : CaseOk(caseOf[c], runsOf[c], batch)
        /\ RowOk(batch, evalRuns) /\ BodyOver(batch) /\ Counted
    BY DEF BatchInv
  <2>2. \A c \in Case : caseOf[c].pc = "done" =>
          /\ RunOf(c).status = "completed"
          /\ caseOf[c].made = 2 => RunOf(c).steps > 0 /\ RunOf(c).comparisons > 0
    BY <2>1 DEF CaseOk, RunOf
  <2>3. batch.completed = Cardinality({c \in Case : caseOf[c].pc = "done"})
    BY <2>1 DEF Counted, Ended
  <2>4. batch.pc = "closed" =>
          batch.aborted \/ batch.completed + batch.failed = Cardinality(Case)
    BY <2>1, EndedCount DEF BodyOver, Counted
  <2>5. batch.pc = "closed" =>
          Deleted \/ evalRuns[batch.row].total = batch.completed + batch.failed
    BY <2>1 DEF RowOk, Deleted
  <2> QED
    BY <2>2, <2>3, <2>4, <2>5 DEF BatchAccounted
<1>2. BatchInv => BatchTypeOK
  BY BatchTypesAre DEF BatchInv
<1> QED
  BY <1>1, <1>2, BatchInit1, BatchStep, PTL DEF BatchSpec

-----------------------------------------------------------------------------
(* Migrations. *)

Working == {"ask", "add", "record", "tolerate"}

Begun == [pc: Working, version: Version, next: 1..10, pending: SUBSET Item, poisoned: BOOLEAN]

\* A process on a database whose items are S and whose recorded versions are R: what it has
\* done of its migration is there or pending, unless a statement has failed on PostgreSQL,
\* and the migrations before its own are recorded.
ProcessOk(q, d, S, R) ==
  q.pc \in Working =>
    /\ 1..(q.version - 1) \subseteq R
    /\ q.pending \subseteq ItemsOf(q.version)
    /\ d = "sqlite" => q.pending = {}
    /\ q.pc \in {"ask", "add"} => q.next <= Statements[q.version]
    /\ q.pc = "record" => q.next = Statements[q.version] + 1
    /\ q.pc # "tolerate" /\ ~ q.poisoned =>
         \A i \in 1..(q.next - 1) : <<q.version, i>> \in S \union q.pending
    /\ q.pc = "add" => ~ q.poisoned /\ <<q.version, q.next>> \notin BaseItems
    /\ q.pc = "tolerate" => ItemsOf(q.version) \subseteq S

\* What is recorded has been applied, in order.
Applied(S, R) == \A v \in R : ItemsOf(v) \subseteq S /\ 1..v \subseteq R

\* On PostgreSQL an item that a migration has added comes with the row of its version.
Atomic(d, S, R) ==
  d = "postgresql" =>
    \A v \in Version, i \in 1..9 : <<v, i>> \in S /\ <<v, i>> \notin BaseItems => v \in R

MigrationsInv ==
  /\ MigrationsTypeOK
  /\ BaseItems \subseteq schema
  /\ Applied(schema, recorded)
  /\ Atomic(dialect, schema, recorded)
  /\ \A p \in Process : ProcessOk(process[p], dialect, schema, recorded)

LEMMA Versions ==
  /\ Len(Statements) \in Nat /\ Version = 1..Len(Statements)
  /\ \A v \in Version : /\ v \in Nat /\ v # 0 /\ Statements[v] \in 1..9
                        /\ ItemsOf(v) \subseteq Item
<1>1. Len(Statements) \in Nat /\ Version = 1..Len(Statements)
  BY MigrationsAssumption, LenProperties DEF Version
<1>2. \A v \in Version : Statements[v] \in 1..9
  BY MigrationsAssumption, ElementOfSeq, LenProperties DEF Version
<1>3. ASSUME NEW v \in Version PROVE ItemsOf(v) \subseteq Item
  BY <1>2 DEF ItemsOf, Item
<1> QED
  BY <1>1, <1>2, <1>3

\* MAX(version) is one of the recorded versions.
LEMMA GreatestVersion ==
  ASSUME NEW R \in SUBSET Version, R # {}
  PROVE  \E v \in R : \A w \in R : w <= v
<1> DEFINE T == {n \in Nat : \A w \in R : w <= n}
           L == OpToRel(<, Nat)
<1>1. R \subseteq Nat /\ Len(Statements) \in T
  BY Versions
<1>2. IsWellFoundedOn(L, Nat)
  BY NatLessThanWellFounded
<1>3. \A n, m \in Nat : m < n => <<m, n>> \in L
  BY DEF OpToRel
<1> HIDE DEF L
<1>4. T \subseteq Nat /\ T # {}
  BY <1>1
<1>5. \E n \in T : \A m \in T : ~ (<<m, n>> \in L)
  BY <1>2, <1>4, WFMin
<1>6. PICK n \in T : \A m \in T : ~ (m < n)
  BY <1>3, <1>4, <1>5
<1>7. n \in R
  <2> SUFFICES ASSUME n \notin R PROVE FALSE
    OBVIOUS
  <2>1. \A w \in R : w \in Nat /\ w # 0 /\ w < n
    BY <1>1, <1>6, Versions
  <2>2. n - 1 \in T
    BY <1>6, <2>1
  <2> QED
    BY <1>4, <1>6, <2>2
<1> QED
  BY <1>6, <1>7

\* The next migration begins with nothing done of it.
LEMMA FromSound ==
  ASSUME NEW v \in Nat, NEW S, NEW R, NEW d, 1..v \subseteq R
  PROVE  From(v) \in ProcessRec /\ ProcessOk(From(v), d, S, R)
<1>1. CASE v + 1 \in Version
  <2> DEFINE q == [pc |-> "ask", version |-> v + 1, next |-> 1, pending |-> {},
                   poisoned |-> FALSE]
  <2>1. From(v) = q
    BY <1>1 DEF From
  <2>2. q \in Begun
    BY <1>1 DEF Begun, Working
  <2>3. q \in ProcessRec
    BY <2>2 DEF Begun, Working, ProcessRec
  <2>4. 1..(v + 1 - 1) \subseteq R /\ 1 <= Statements[v + 1] /\ 1..(1 - 1) = {}
    BY <1>1, Versions
  <2>5. ProcessOk(q, d, S, R)
    BY <2>4 DEF ProcessOk, Working
  <2> QED
    BY <2>1, <2>3, <2>5
<1>2. CASE v + 1 \notin Version
  BY <1>2 DEF From, ProcessRec, ProcessOk, Working
<1> QED
  BY <1>1, <1>2

\* One process moves, and the database only grows.
LEMMA ProcessMoves ==
  ASSUME MigrationsInv, NEW p \in Process, NEW q \in ProcessRec,
         process' = [process EXCEPT ![p] = q], dialect' = dialect,
         schema \subseteq schema', schema' \subseteq Item,
         recorded \subseteq recorded', recorded' \subseteq Version, starts' \in 0..MaxStarts,
         Applied(schema', recorded'), Atomic(dialect, schema', recorded'),
         ProcessOk(q, dialect, schema', recorded')
  PROVE  MigrationsInv'
<1>1. MigrationsTypeOK'
  BY DEF MigrationsInv, MigrationsTypeOK, ProcessRec, Version, Item
<1>2. ASSUME NEW o \in Process
      PROVE  ProcessOk(process'[o], dialect', schema', recorded')
  <2>1. CASE o = p
    BY <2>1 DEF MigrationsInv, MigrationsTypeOK
  <2>2. CASE o # p
    <3>1. process'[o] = process[o] /\ ProcessOk(process[o], dialect, schema, recorded)
      BY <2>2 DEF MigrationsInv, MigrationsTypeOK
    <3> HIDE DEF MigrationsInv
    <3> QED
      BY <3>1 DEF ProcessOk
  <2> QED
    BY <2>1, <2>2
<1>3. (\A o \in Process : ProcessOk(process[o], dialect, schema, recorded))'
  <2>1. \A o \in Process : ProcessOk(process'[o], dialect', schema', recorded')
    BY <1>2
  <2> QED
    BY <2>1 DEF ProcessOk, ItemsOf
<1>4. (BaseItems \subseteq schema)'
  BY DEF MigrationsInv
<1>5. Applied(schema, recorded)' /\ Atomic(dialect, schema, recorded)'
  BY DEF Applied, Atomic, ItemsOf, Version
<1> QED
  BY <1>1, <1>3, <1>4, <1>5 DEF MigrationsInv

LEMMA MigrationsInit1 == MigrationsInit => MigrationsInv
<1> SUFFICES ASSUME MigrationsInit PROVE MigrationsInv
  OBVIOUS
<1>1. MigrationsTypeOK
  BY MigrationsAssumption DEF MigrationsInit, MigrationsTypeOK, ProcessRec, Down
<1>2. Applied(schema, recorded)
  BY DEF MigrationsInit, Applied
<1>3. Atomic(dialect, schema, recorded)
  BY DEF MigrationsInit, Atomic
<1>4. \A p \in Process : ProcessOk(process[p], dialect, schema, recorded)
  BY DEF MigrationsInit, ProcessOk, Down, Working
<1> QED
  BY <1>1, <1>2, <1>3, <1>4 DEF MigrationsInv, MigrationsInit

\* A process whose migration has not failed.
LEMMA WorkingIs ==
  ASSUME MigrationsInv, NEW p \in Process, process[p].pc \in Working
  PROVE  /\ process[p] \in Begun /\ process[p].version \in Version /\ process[p].version \in Nat
         /\ process[p].next \in 1..10 /\ process[p].pending \subseteq Item
         /\ Statements[process[p].version] \in 1..9
         /\ 1..(process[p].version - 1) \subseteq recorded
         /\ process[p].pending \subseteq ItemsOf(process[p].version)
         /\ dialect = "sqlite" => process[p].pending = {}
<1>1. process[p] \in ProcessRec /\ ProcessOk(process[p], dialect, schema, recorded)
  BY DEF MigrationsInv, MigrationsTypeOK
<1>2. process[p] \in Begun
  BY <1>1 DEF ProcessRec, Begun, Working
<1>3. process[p].version \in Version /\ process[p].next \in 1..10
      /\ process[p].pending \subseteq Item
  BY <1>2 DEF Begun
<1> QED
  BY <1>1, <1>2, <1>3, Versions DEF ProcessOk

\* The statement was executed, was not needed, or fails for an item that is there.
LEMMA Advanced ==
  ASSUME MigrationsInv, NEW p \in Process, process[p].pc \in {"ask", "add"},
         ~ process[p].poisoned,
         NEW added, NEW poisoned \in BOOLEAN, Advance(p, added, poisoned),
         added \subseteq {<<process[p].version, process[p].next>>},
         dialect = "sqlite" => added = {},
         ~ poisoned =>
           <<process[p].version, process[p].next>> \in schema' \union process[p].pending \union added,
         dialect' = dialect, schema \subseteq schema', schema' \subseteq Item,
         UNCHANGED <<recorded, starts>>, Applied(schema', recorded),
         Atomic(dialect, schema', recorded)
  PROVE  MigrationsInv'
<1> DEFINE q == process[p]
           pc == IF q.next = Statements[q.version] THEN "record" ELSE "ask"
           pend == q.pending \union added
           r == [q EXCEPT !.pc = pc, !.next = q.next + 1, !.pending = pend,
                          !.poisoned = poisoned]
<1>1. /\ q \in Begun /\ q.version \in Version /\ q.version \in Nat /\ q.next \in 1..10
      /\ q.pending \subseteq Item /\ Statements[q.version] \in 1..9
      /\ 1..(q.version - 1) \subseteq recorded /\ q.pending \subseteq ItemsOf(q.version)
      /\ dialect = "sqlite" => q.pending = {}
  BY WorkingIs DEF Working
<1>2. ProcessOk(q, dialect, schema, recorded) /\ starts \in 0..MaxStarts
      /\ recorded \subseteq Version
  BY DEF MigrationsInv, MigrationsTypeOK
<1>3. q.next <= Statements[q.version] /\ q.next \in Nat
      /\ \A i \in 1..(q.next - 1) : <<q.version, i>> \in schema \union q.pending
  BY <1>1, <1>2 DEF ProcessOk, Working
<1>4. process' = [process EXCEPT ![p] = r]
  BY DEF Advance, Become
<1>5. <<q.version, q.next>> \in ItemsOf(q.version)
  BY <1>1, <1>3 DEF ItemsOf
<1>6. pend \subseteq ItemsOf(q.version) /\ pend \subseteq Item
  BY <1>1, <1>5, Versions
<1>7. q.next + 1 \in 1..10
  BY <1>1, <1>3
<1>8. pc \in {"ask", "record"}
  OBVIOUS
<1>9. /\ pc = "record" => q.next + 1 = Statements[q.version] + 1
      /\ pc = "ask" => q.next + 1 <= Statements[q.version]
  BY <1>1, <1>3
<1>10. ~ poisoned => \A i \in 1..q.next : <<q.version, i>> \in schema' \union pend
  BY <1>3
<1> HIDE DEF pc, pend
<1>11. /\ r \in Begun /\ r.pc = pc /\ r.version = q.version /\ r.next = q.next + 1
       /\ r.pending = pend /\ r.poisoned = poisoned
  BY <1>1, <1>6, <1>7, <1>8 DEF Begun, Working
<1> HIDE DEF r
<1>12. r \in ProcessRec
  BY <1>11 DEF Begun, Working, ProcessRec
<1>13. dialect = "sqlite" => pend = {}
  BY <1>1 DEF pend
<1>14. q.next + 1 - 1 = q.next
  BY <1>3
<1>15. ProcessOk(r, dialect, schema', recorded')
  BY <1>1, <1>6, <1>8, <1>9, <1>10, <1>11, <1>13, <1>14 DEF ProcessOk
<1> QED
  BY <1>2, <1>4, <1>12, <1>15, ProcessMoves

\* A process that is not in a migration, or fails.
LEMMA Halts ==
  ASSUME MigrationsInv, NEW p \in Process, NEW pc \in {"down", "current", "up", "failed"},
         Become(p, [pc |-> pc]), UNCHANGED <<dialect, schema, recorded>>,
         starts' \in 0..MaxStarts
  PROVE  MigrationsInv'
<1>1. [pc |-> pc] \in ProcessRec
  BY DEF ProcessRec
<1>2. ProcessOk([pc |-> pc], dialect, schema', recorded')
  BY DEF ProcessOk, Working
<1> QED
  BY <1>1, <1>2, ProcessMoves DEF Become, MigrationsInv, MigrationsTypeOK

\* The error is to be tolerated, of a migration that another process has applied.
LEMMA Tolerates ==
  ASSUME MigrationsInv, NEW p \in Process, process[p].pc \in {"add", "record"},
         Become(p, [process[p] EXCEPT !.pc = "tolerate", !.pending = {}]),
         UNCHANGED <<dialect, schema, recorded, starts>>, process[p].version \in recorded
  PROVE  MigrationsInv'
<1> DEFINE q == process[p]
           r == [q EXCEPT !.pc = "tolerate", !.pending = {}]
<1>1. q \in Begun /\ q.version \in Version /\ 1..(q.version - 1) \subseteq recorded
  BY WorkingIs DEF Working
<1>2. r \in Begun /\ r.pc = "tolerate" /\ r.version = q.version /\ r.pending = {}
  BY <1>1 DEF Begun, Working
<1>3. ItemsOf(q.version) \subseteq schema
  BY DEF MigrationsInv, Applied
<1>4. process' = [process EXCEPT ![p] = r]
  BY DEF Become
<1> HIDE DEF r
<1>5. r \in ProcessRec
  BY <1>2 DEF Begun, Working, ProcessRec
<1>6. ProcessOk(r, dialect, schema', recorded')
  BY <1>1, <1>2, <1>3 DEF ProcessOk
<1> QED
  BY <1>4, <1>5, <1>6, ProcessMoves DEF MigrationsInv, MigrationsTypeOK

\* The version's row, with the items of the migration.
LEMMA Records ==
  ASSUME MigrationsInv, NEW p \in Process, process[p].pc \in Working,
         recorded' = recorded \union {process[p].version},
         schema' = schema \union process[p].pending,
         ItemsOf(process[p].version) \subseteq schema',
         Become(p, From(process[p].version)), UNCHANGED <<dialect, starts>>
  PROVE  MigrationsInv'
<1> DEFINE w == process[p].version
<1>1. /\ w \in Version /\ w \in Nat /\ w # 0 /\ 1..(w - 1) \subseteq recorded
      /\ process[p].pending \subseteq ItemsOf(w) /\ process[p].pending \subseteq Item
  BY WorkingIs, Versions
<1>2. /\ recorded \subseteq Version /\ schema \subseteq Item /\ starts \in 0..MaxStarts
      /\ Applied(schema, recorded) /\ Atomic(dialect, schema, recorded)
  BY DEF MigrationsInv, MigrationsTypeOK
<1>3. recorded' = recorded \union {w} /\ ItemsOf(w) \subseteq schema'
  OBVIOUS
<1> HIDE DEF w
<1>4. 1..w \subseteq recorded'
  BY <1>1, <1>3
<1>5. Applied(schema', recorded')
  <2> SUFFICES ASSUME NEW v \in recorded'
               PROVE  ItemsOf(v) \subseteq schema' /\ 1..v \subseteq recorded'
    BY DEF Applied
  <2>1. CASE v = w
    BY <1>3, <1>4, <2>1
  <2>2. CASE v # w
    BY <1>2, <1>3, <2>2 DEF Applied
  <2> QED
    BY <2>1, <2>2
<1>6. Atomic(dialect, schema', recorded')
  <2> SUFFICES ASSUME dialect = "postgresql", NEW v \in Version, NEW i \in 1..9,
                      <<v, i>> \in schema', <<v, i>> \notin BaseItems
               PROVE  v \in recorded'
    BY DEF Atomic
  <2>1. CASE <<v, i>> \in schema
    BY <1>2, <1>3, <2>1 DEF Atomic
  <2>2. CASE <<v, i>> \in process[p].pending
    <3>1. <<v, i>> \in ItemsOf(w)
      BY <1>1, <2>2
    <3>2. v = w
      BY <3>1 DEF ItemsOf
    <3> QED
      BY <1>3, <3>2
  <2> QED
    BY <2>1, <2>2
<1>7. From(w) \in ProcessRec /\ ProcessOk(From(w), dialect, schema', recorded')
  BY <1>1, <1>4, FromSound
<1>8. process' = [process EXCEPT ![p] = From(w)]
  BY DEF Become, w
<1> QED
  BY <1>1, <1>2, <1>3, <1>5, <1>6, <1>7, <1>8, ProcessMoves

LEMMA MigrationsStep == MigrationsInv /\ [MigrationsNext]_migrationVars => MigrationsInv'
<1> SUFFICES ASSUME MigrationsInv, [MigrationsNext]_migrationVars PROVE MigrationsInv'
  OBVIOUS
<1>0. /\ recorded \subseteq Version /\ schema \subseteq Item /\ starts \in 0..MaxStarts
      /\ Applied(schema, recorded) /\ Atomic(dialect, schema, recorded) /\ MaxStarts \in Nat
      /\ dialect \in {"sqlite", "postgresql"}
      /\ \A p \in Process : ProcessOk(process[p], dialect, schema, recorded)
  BY MigrationsAssumption DEF MigrationsInv, MigrationsTypeOK
<1>1. CASE UNCHANGED migrationVars
  <2>1. UNCHANGED <<dialect, schema, recorded, process, starts>>
    BY <1>1 DEF migrationVars
  <2>2. MigrationsTypeOK'
    BY <2>1 DEF MigrationsInv, MigrationsTypeOK, ProcessRec, Version, Item
  <2>3. Applied(schema, recorded)' /\ Atomic(dialect, schema, recorded)'
    BY <1>0, <2>1 DEF Applied, Atomic, ItemsOf, Version
  <2>4. (\A p \in Process : ProcessOk(process[p], dialect, schema, recorded))'
    BY <1>0, <2>1 DEF ProcessOk, ItemsOf
  <2>5. (BaseItems \subseteq schema)'
    BY <2>1 DEF MigrationsInv
  <2> QED
    BY <2>2, <2>3, <2>4, <2>5 DEF MigrationsInv
<1>2. ASSUME NEW p \in Process, StartProcess(p) PROVE MigrationsInv'
  <2>1. starts' \in 0..MaxStarts
    BY <1>0, <1>2 DEF StartProcess
  <2> QED
    BY <1>2, <2>1, Halts DEF StartProcess
<1>3. ASSUME NEW p \in Process, ReadVersion(p) PROVE MigrationsInv'
  <2> DEFINE v == IF recorded = {} THEN 0
                  ELSE CHOOSE v \in recorded : \A w \in recorded : w <= v
  <2>1. v \in Nat /\ 1..v \subseteq recorded
    <3>1. CASE recorded = {}
      BY <3>1
    <3>2. CASE recorded # {}
      <4>1. v \in recorded
        BY <1>0, <3>2, GreatestVersion
      <4> HIDE DEF v
      <4> QED
        BY <1>0, <4>1, Versions DEF Applied
    <3> QED
      BY <3>1, <3>2
  <2>2. process' = [process EXCEPT ![p] = From(v)]
        /\ UNCHANGED <<dialect, schema, recorded, starts>>
    BY <1>3 DEF ReadVersion, Become
  <2> HIDE DEF v
  <2>3. From(v) \in ProcessRec /\ ProcessOk(From(v), dialect, schema', recorded')
    BY <2>1, <2>2, FromSound
  <2> QED
    BY <1>0, <2>2, <2>3, ProcessMoves
<1>4. ASSUME NEW p \in Process, PoisonedFails(p) PROVE MigrationsInv'
  BY <1>0, <1>4, Halts DEF PoisonedFails
<1>5. ASSUME NEW p \in Process, AskItem(p) PROVE MigrationsInv'
  <2> DEFINE q == process[p]
             item == <<q.version, q.next>>
  <2>1. q.pc = "ask" /\ ~ q.poisoned /\ UNCHANGED <<dialect, schema, recorded, starts>>
    BY <1>5 DEF AskItem
  <2>2. CASE item \in schema \union q.pending /\ Advance(p, {}, FALSE)
    BY <1>0, <2>1, <2>2, Advanced
  <2>3. CASE item \notin schema \union q.pending /\ Become(p, [q EXCEPT !.pc = "add"])
    <3> DEFINE r == [q EXCEPT !.pc = "add"]
    <3>1. q \in Begun
      BY <2>1, WorkingIs DEF Working
    <3>2. /\ r \in Begun /\ r.pc = "add" /\ r.version = q.version /\ r.next = q.next
          /\ r.pending = q.pending /\ r.poisoned = q.poisoned
      BY <3>1 DEF Begun, Working
    <3>3. process' = [process EXCEPT ![p] = r]
      BY <2>3 DEF Become
    <3> HIDE DEF r
    <3>4. r \in ProcessRec
      BY <3>2 DEF Begun, Working, ProcessRec
    <3>5. item \notin BaseItems
      BY <2>3 DEF MigrationsInv
    <3>6. ProcessOk(q, dialect, schema, recorded)
      BY <1>0
    <3> HIDE DEF q
    <3>7. ProcessOk(r, dialect, schema', recorded')
      BY <2>1, <3>2, <3>5, <3>6 DEF ProcessOk, Working
    <3> QED
      BY <1>0, <2>1, <3>3, <3>4, <3>7, ProcessMoves
  <2> QED
    BY <1>5, <2>2, <2>3 DEF AskItem
<1>6. ASSUME NEW p \in Process, AddItem(p) PROVE MigrationsInv'
  <2> DEFINE q == process[p]
             item == <<q.version, q.next>>
  <2>1. q.pc = "add" /\ UNCHANGED <<dialect, recorded, starts>>
    BY <1>6 DEF AddItem
  <2>2. /\ q.version \in Version /\ q.next \in 1..9 /\ ~ q.poisoned /\ item \notin BaseItems
        /\ item \in ItemsOf(q.version) /\ item \in Item
    <3>1. /\ q.version \in Version /\ q.next \in 1..10 /\ Statements[q.version] \in 1..9
      BY <2>1, WorkingIs DEF Working
    <3>2. q.next <= Statements[q.version] /\ ~ q.poisoned /\ item \notin BaseItems
      BY <1>0, <2>1 DEF ProcessOk, Working
    <3>3. q.next \in 1..9 /\ q.next \in 1..Statements[q.version]
      BY <3>1, <3>2
    <3> QED
      BY <3>1, <3>2, <3>3 DEF ItemsOf, Item
  <2>3. CASE dialect = "sqlite" /\ schema' = schema \union {item} /\ Advance(p, {}, FALSE)
    <3>1. Applied(schema', recorded) /\ Atomic(dialect, schema', recorded)
      BY <1>0, <2>3 DEF Applied, Atomic
    <3> QED
      BY <1>0, <2>1, <2>2, <2>3, <3>1, Advanced
  <2>4. CASE dialect = "postgresql" /\ UNCHANGED schema /\ Advance(p, {item}, FALSE)
    BY <1>0, <2>1, <2>2, <2>4, Advanced
  <2>5. CASE item \in schema /\ UNCHANGED schema /\ Advance(p, {}, FALSE)
    BY <1>0, <2>1, <2>2, <2>5, Advanced
  <2>6. CASE item \in schema /\ UNCHANGED schema /\ Advance(p, {}, TRUE)
    BY <1>0, <2>1, <2>2, <2>6, Advanced
  <2>7. CASE /\ dialect = "postgresql" /\ item \in schema /\ UNCHANGED schema
             /\ Become(p, [q EXCEPT !.pc = "tolerate", !.pending = {}])
    <3>1. q.version \in recorded
      BY <1>0, <2>2, <2>7 DEF Atomic
    <3> QED
      BY <2>1, <2>7, <3>1, Tolerates
  <2> QED
    BY <1>0, <1>6, <2>3, <2>4, <2>5, <2>6, <2>7 DEF AddItem
<1>7. ASSUME NEW p \in Process, RecordVersion(p) PROVE MigrationsInv'
  <2> DEFINE q == process[p]
  <2>1. q.pc = "record" /\ ~ q.poisoned /\ UNCHANGED <<dialect, starts>>
    BY <1>7 DEF RecordVersion
  <2>2. CASE /\ recorded' = recorded \union {q.version} /\ schema' = schema \union q.pending
             /\ Become(p, From(q.version))
    <3>1. ItemsOf(q.version) \subseteq schema'
      <4>1. q.next = Statements[q.version] + 1 /\ Statements[q.version] \in 1..9
            /\ \A i \in 1..(q.next - 1) : <<q.version, i>> \in schema \union q.pending
        BY <1>0, <2>1, WorkingIs DEF ProcessOk, Working
      <4>2. q.next - 1 = Statements[q.version]
        BY <4>1
      <4> QED
        BY <2>2, <4>1, <4>2 DEF ItemsOf
    <3> QED
      BY <2>1, <2>2, <3>1, Records DEF Working
  <2>3. CASE /\ q.version \in recorded /\ UNCHANGED <<schema, recorded>>
             /\ Become(p, [pc |-> "failed"])
    BY <1>0, <2>1, <2>3, Halts
  <2>4. CASE /\ q.version \in recorded /\ UNCHANGED <<schema, recorded>>
             /\ Become(p, [q EXCEPT !.pc = "tolerate", !.pending = {}])
    BY <2>1, <2>4, Tolerates
  <2> QED
    BY <1>7, <2>2, <2>3, <2>4 DEF RecordVersion
<1>8. ASSUME NEW p \in Process, Tolerate(p) PROVE MigrationsInv'
  <2> DEFINE q == process[p]
  <2>1. /\ q.pc = "tolerate" /\ UNCHANGED <<dialect, schema, starts>>
        /\ recorded' = recorded \union {q.version} /\ Become(p, From(q.version))
    BY <1>8 DEF Tolerate
  <2>2. q.version \in Version /\ q.version \in Nat /\ 1..(q.version - 1) \subseteq recorded
        /\ ItemsOf(q.version) \subseteq schema
    BY <1>0, <2>1, WorkingIs DEF ProcessOk, Working
  <2>3. 1..q.version \subseteq recorded'
    BY <2>1, <2>2
  <2>4. Applied(schema', recorded')
    BY <1>0, <2>1, <2>2, <2>3 DEF Applied
  <2>5. Atomic(dialect, schema', recorded')
    BY <1>0, <2>1 DEF Atomic
  <2>6. /\ From(q.version) \in ProcessRec
        /\ ProcessOk(From(q.version), dialect, schema', recorded')
    BY <2>2, <2>3, FromSound
  <2>7. process' = [process EXCEPT ![p] = From(q.version)] /\ recorded' \subseteq Version
    BY <1>0, <2>1, <2>2 DEF Become
  <2> QED
    BY <1>0, <2>1, <2>4, <2>5, <2>6, <2>7, ProcessMoves
<1>9. ASSUME NEW p \in Process, KillProcess(p) PROVE MigrationsInv'
  BY <1>0, <1>9, Halts DEF KillProcess, Down
<1> QED
  BY <1>1, <1>2, <1>3, <1>4, <1>5, <1>6, <1>7, <1>8, <1>9 DEF MigrationsNext

\* However many server processes start on a database and die meanwhile, a recorded version
\* has all of its items, and every version before it is recorded.
THEOREM MigrationsApplied == MigrationsSpec => [](MigrationsTypeOK /\ RecordedIsApplied)
<1>1. MigrationsInv => MigrationsTypeOK /\ RecordedIsApplied
  BY DEF MigrationsInv, Applied, RecordedIsApplied
<1> QED
  BY <1>1, MigrationsInit1, MigrationsStep, PTL DEF MigrationsSpec

-----------------------------------------------------------------------------
(* Demos. *)

\* Clearing what earlier seeds left, and making the rows of a seed.
Clearing == {"unTrace", "list", "unlist", "drop"}

Early == {"new", "find", "unTrace", "list", "unlist", "drop", "upsert"}

Seeding == {"start", "run", "trace", "compare", "complete", "lifecycle"}

DemoPc == {"new", "find", "unTrace", "list", "unlist", "drop", "upsert", "evalRun", "start",
           "run", "trace", "compare", "complete", "lifecycle", "ok", "error"}

DemoRec == [pc: DemoPc, asked: {"none", "seed", "reset"}, alone: BOOLEAN, seen: Nat,
            found: SUBSET DemoRequest]

\* A request d at its statement, on fixture f: q are the rows that it has made, as far as
\* other requests have not deleted them.
MadeSoFar(f, d, q) ==
  /\ d.pc \in Early \union {"evalRun"} => q = NoRows
  /\ d.asked = "reset" => q = NoRows
  /\ d.pc \in Clearing \union {"evalRun"} => d.seen # 0
  /\ d.pc = "unTrace" => f = "agent"
  /\ d.pc \in Seeding \union {"upsert", "evalRun"} => d.asked = "seed"
  /\ d.pc # "new" => d.asked \in {"seed", "reset"}
  /\ d.pc = "start" => q.compared = 0 /\ q.runs = 0
  /\ d.pc = "run" => q.compared < DemoCases /\ (q = NoRows \/ q.runs = q.compared)
  /\ d.pc \in {"trace", "compare"} =>
       q.compared < DemoCases /\ (q = NoRows \/ q.runs = q.compared + 1)
  /\ d.pc = "complete" => q.evalRun = "none" \/ q.compared = DemoCases
  /\ d.pc = "lifecycle" => \/ q.evalRun = "none"
                           \/ q.evalRun = "completed" /\ q.compared = DemoCases
  /\ d.pc = "ok" /\ d.asked = "seed" =>
       \/ q.evalRun = "none"
       \/ /\ q.evalRun = "completed" /\ q.compared = DemoCases
          /\ f = "llm" => q.decided

\* Rows are of the demo's workflow, and only an agent's are traced.
Rooted(f, w, q) ==
  /\ q = NoRows \/ (q.workflow = w /\ w # 0)
  /\ f = "llm" => ~ q.traced

\* The last request r, served alone, at its statement d: what it has cleared or made is as
\* it was left.
LastOk(r, d, w, rs) ==
  LET empty == \A o \in DemoRequest : rs[o] = NoRows IN
  /\ d.pc \in Clearing => d.seen = w
  /\ d.pc \in {"list", "unlist", "drop"} => \A o \in DemoRequest : ~ rs[o].traced
  /\ d.pc = "upsert" \/ (d.pc = "ok" /\ d.asked = "reset") => w = 0 /\ empty
  /\ d.pc = "evalRun" => d.seen = w /\ empty
  /\ d.pc \in Seeding \/ (d.pc = "ok" /\ d.asked = "seed") =>
       /\ \A o \in DemoRequest \ {r} : rs[o] = NoRows
       /\ rs[r].workflow = w /\ w # 0 /\ rs[r].evalRun # "none"

\* No other is being served then.
LastAlone(r) ==
  /\ demoReq[r].pc # "new"
  /\ demoReq[r].alone => Serving \subseteq {r} /\ LastOk(r, demoReq[r], workflow, rows)

\* Requests that may still make a workflow.
MayMake == {r \in DemoRequest : demoReq[r].pc \in Early}

DemosTypes ==
  /\ demo \in {"llm", "agent"}
  /\ lastId \in Nat
  /\ workflow \in 0..lastId
  /\ rows \in [DemoRequest -> RowsRec]
  /\ latest \subseteq DemoRequest
  /\ demoReq \in [DemoRequest -> DemoRec]

DemosInv ==
  /\ DemosTypes
  /\ lastId + Cardinality(MayMake) <= Cardinality(DemoRequest)
  /\ \A r \in DemoRequest : MadeSoFar(demo, demoReq[r], rows[r])
  /\ \A r \in DemoRequest : Rooted(demo, workflow, rows[r])
  /\ \A r \in DemoRequest : latest = {r} => LastAlone(r)

LEMMA DemosTypesAre ==
  DemosTypes /\ lastId + Cardinality(MayMake) <= Cardinality(DemoRequest) => DemosTypeOK
<1> SUFFICES ASSUME DemosTypes, lastId + Cardinality(MayMake) <= Cardinality(DemoRequest)
             PROVE  DemosTypeOK
  OBVIOUS
<1>1. MayMake \subseteq DemoRequest /\ IsFiniteSet(DemoRequest)
  BY DemosAssumption DEF MayMake
<1>2. Cardinality(MayMake) \in Nat /\ Cardinality(DemoRequest) \in Nat
  BY <1>1, FS_Subset, FS_CardinalityType
<1>3. lastId \in 0..Cardinality(DemoRequest)
  BY <1>2 DEF DemosTypes
<1> QED
  BY <1>3 DEF DemosTypes, DemosTypeOK, DemoRec, DemoPc

LEMMA Cases == DemoCases \in Nat /\ 0 < DemoCases /\ NoRows \in RowsRec
<1>1. DemoCases \in Nat /\ 0 < DemoCases
  BY DemosAssumption
<1> QED
  BY <1>1 DEF NoRows, RowsRec

\* Other requests only take away of a request's rows.
LEMMA RowLoses ==
  ASSUME NEW f, NEW w, NEW d, NEW q \in RowsRec, MadeSoFar(f, d, q), Rooted(f, w, q),
         NEW s \in RowsRec,
         q = NoRows => s = NoRows,
         s = NoRows \/ /\ s.workflow = q.workflow /\ s.runs = q.runs
                       /\ s.compared = q.compared /\ s.decided = q.decided
                       /\ s.evalRun = q.evalRun \/ s.evalRun = "none",
         s.traced => q.traced
  PROVE  MadeSoFar(f, d, s) /\ Rooted(f, w, s)
<1>1. Rooted(f, w, s)
  BY DEF Rooted
<1>2. CASE s = NoRows
  <2>1. NoRows.compared = 0 /\ NoRows.runs = 0 /\ NoRows.evalRun = "none"
    BY DEF NoRows
  <2> QED
    BY <1>1, <1>2, <2>1, Cases DEF MadeSoFar
<1>3. CASE s # NoRows
  <2>1. /\ q # NoRows /\ s.workflow = q.workflow /\ s.runs = q.runs
        /\ s.compared = q.compared /\ s.decided = q.decided
        /\ s.evalRun = q.evalRun \/ s.evalRun = "none"
    BY <1>3
  <2> QED
    BY <1>1, <2>1 DEF MadeSoFar
<1> QED
  BY <1>2, <1>3

\* One request moves.
LEMMA DemoMoves ==
  ASSUME DemosInv, NEW r \in DemoRequest, demoReq[r].pc \notin Over,
         NEW d \in DemoRec, demoReq' = [demoReq EXCEPT ![r] = d], d.alone = demoReq[r].alone,
         d.pc # "new", UNCHANGED <<demo, latest>>, rows' \in [DemoRequest -> RowsRec],
         workflow' \in 0..lastId',
         \/ lastId' = lastId /\ (d.pc \in Early => demoReq[r].pc \in Early)
         \/ lastId' = lastId + 1 /\ demoReq[r].pc \in Early /\ d.pc \notin Early,
         MadeSoFar(demo, d, rows'[r]),
         \A o \in DemoRequest \ {r} : MadeSoFar(demo, demoReq[o], rows'[o]),
         \A o \in DemoRequest : Rooted(demo, workflow', rows'[o]),
         latest = {r} /\ demoReq[r].alone /\ LastOk(r, demoReq[r], workflow, rows) =>
           LastOk(r, d, workflow', rows')
  PROVE  DemosInv'
<1>0. DemosTypes /\ lastId \in Nat /\ demoReq \in [DemoRequest -> DemoRec]
  BY DEF DemosInv, DemosTypes
<1>1. DemosTypes'
  BY <1>0 DEF DemosTypes, DemoRec, DemoPc, RowsRec
<1>2. (lastId + Cardinality(MayMake) <= Cardinality(DemoRequest))'
  <2>1. MayMake \subseteq DemoRequest /\ MayMake' \subseteq DemoRequest
        /\ IsFiniteSet(DemoRequest)
    BY DemosAssumption DEF MayMake
  <2>2. IsFiniteSet(MayMake) /\ IsFiniteSet(MayMake') /\ Cardinality(DemoRequest) \in Nat
        /\ Cardinality(MayMake) \in Nat /\ Cardinality(MayMake') \in Nat
    BY <2>1, FS_Subset, FS_CardinalityType
  <2>3. lastId + Cardinality(MayMake) <= Cardinality(DemoRequest)
    BY DEF DemosInv
  <2>4. CASE lastId' = lastId /\ (d.pc \in Early => demoReq[r].pc \in Early)
    <3>1. MayMake' \subseteq MayMake
      BY <1>0, <2>4 DEF MayMake
    <3>2. Cardinality(MayMake') <= Cardinality(MayMake)
      BY <2>2, <3>1, FS_Subset
    <3> QED
      BY <1>0, <2>2, <2>3, <2>4, <3>2
  <2>5. CASE lastId' = lastId + 1 /\ demoReq[r].pc \in Early /\ d.pc \notin Early
    <3>1. MayMake' = MayMake \ {r} /\ r \in MayMake
      BY <1>0, <2>5 DEF MayMake
    <3>2. Cardinality(MayMake') = Cardinality(MayMake) - 1
      BY <2>2, <3>1, FS_RemoveElement
    <3> QED
      BY <1>0, <2>2, <2>3, <2>5, <3>2
  <2> QED
    BY <2>4, <2>5
<1>3. (\A o \in DemoRequest : MadeSoFar(demo, demoReq[o], rows[o]))'
  <2>1. ASSUME NEW o \in DemoRequest PROVE MadeSoFar(demo, demoReq'[o], rows'[o])
    <3>1. CASE o = r
      BY <1>0, <3>1
    <3>2. CASE o # r
      BY <1>0, <3>2
    <3> QED
      BY <3>1, <3>2
  <2>2. \A o \in DemoRequest : MadeSoFar(demo', demoReq'[o], rows'[o])
    BY <2>1
  <2> QED
    BY <2>2 DEF MadeSoFar, NoRows
<1>4. (\A o \in DemoRequest : Rooted(demo, workflow, rows[o]))'
  BY DEF Rooted, NoRows
<1>5. ASSUME NEW o \in DemoRequest, latest' = {o} PROVE LastAlone(o)'
  <2>1. LastAlone(o)
    BY <1>5 DEF DemosInv
  <2>2. CASE o = r
    <3>1. demoReq'[r] = d
      BY <1>0
    <3>2. ASSUME d.alone PROVE Serving' \subseteq {r} /\ LastOk(r, d, workflow', rows')
      <4>1. Serving \subseteq {r} /\ LastOk(r, demoReq[r], workflow, rows)
        BY <2>1, <2>2, <3>2 DEF LastAlone
      <4>2. Serving' \subseteq {r}
        BY <1>0, <4>1 DEF Serving
      <4>3. LastOk(r, d, workflow', rows')
        BY <1>5, <2>2, <3>2, <4>1
      <4> QED
        BY <4>2, <4>3
    <3>3. demoReq'[r].pc # "new"
          /\ (demoReq'[r].alone => Serving' \subseteq {r} /\ LastOk(r, demoReq'[r], workflow', rows'))
      BY <3>1, <3>2
    <3> QED
      BY <2>2, <3>3 DEF LastAlone, LastOk, NoRows
  <2>3. CASE o # r
    <3>1. r \in Serving /\ demoReq'[o] = demoReq[o]
      BY <1>0, <2>3 DEF Serving
    <3>2. ~ demoReq[o].alone /\ demoReq[o].pc # "new"
      BY <2>1, <2>3, <3>1 DEF LastAlone
    <3> QED
      BY <3>1, <3>2 DEF LastAlone
  <2> QED
    BY <2>2, <2>3
<1>6. (\A o \in DemoRequest : latest = {o} => LastAlone(o))'
  BY <1>5
<1> QED
  BY <1>1, <1>2, <1>3, <1>4, <1>6 DEF DemosInv

LEMMA DemosInit1 == DemosInit => DemosInv
<1> SUFFICES ASSUME DemosInit PROVE DemosInv
  OBVIOUS
<1>1. NewRequest \in DemoRec /\ NewRequest.pc = "new" /\ NewRequest.asked = "none"
  BY DEF NewRequest, DemoRec, DemoPc
<1>2. /\ demo \in {"llm", "agent"} /\ workflow = 0 /\ lastId = 0 /\ latest = {}
      /\ \A r \in DemoRequest : rows[r] = NoRows /\ demoReq[r] = NewRequest
      /\ rows \in [DemoRequest -> RowsRec] /\ demoReq \in [DemoRequest -> DemoRec]
  BY <1>1, Cases DEF DemosInit
<1>3. DemosTypes
  BY <1>2 DEF DemosTypes
<1>4. \A r \in DemoRequest : MadeSoFar(demo, demoReq[r], rows[r])
  <2>1. MadeSoFar(demo, NewRequest, NoRows)
    BY <1>1 DEF MadeSoFar, Early, Clearing, Seeding
  <2> QED
    BY <1>2, <2>1
<1>5. \A r \in DemoRequest : Rooted(demo, workflow, rows[r])
  BY <1>2 DEF Rooted, NoRows
<1>6. lastId + Cardinality(MayMake) <= Cardinality(DemoRequest)
  <2>1. MayMake = DemoRequest
    BY <1>1, <1>2 DEF MayMake, Early
  <2>2. Cardinality(DemoRequest) \in Nat
    BY DemosAssumption, FS_CardinalityType
  <2> QED
    BY <1>2, <2>1, <2>2
<1> QED
  BY <1>2, <1>3, <1>4, <1>5, <1>6 DEF DemosInv

\* A request is asked, and is the last one now.
LEMMA AskStep ==
  ASSUME DemosInv, NEW r \in DemoRequest, AskDemo(r)
  PROVE  DemosInv'
<1>0. /\ DemosTypes /\ demoReq[r].pc = "new" /\ UNCHANGED <<demo, workflow, lastId, rows>>
      /\ latest' = {r} /\ demoReq \in [DemoRequest -> DemoRec]
      /\ \A o \in DemoRequest : /\ MadeSoFar(demo, demoReq[o], rows[o])
                                /\ Rooted(demo, workflow, rows[o])
  BY DEF AskDemo, DemoAt, DemosInv, DemosTypes
<1> DEFINE alone == Serving = {}
<1>1. PICK asked \in {"seed", "reset"} :
        demoReq' = [o \in DemoRequest |->
          IF o = r THEN [NewRequest EXCEPT !.pc = "find", !.asked = asked, !.alone = alone]
          ELSE IF o \in Serving THEN [demoReq[o] EXCEPT !.alone = FALSE]
          ELSE demoReq[o]]
  BY DEF AskDemo
<1>2. alone \in BOOLEAN /\ (alone => Serving = {})
  OBVIOUS
<1> HIDE DEF alone
<1>3. /\ demoReq'[r] \in DemoRec /\ demoReq'[r].pc = "find" /\ demoReq'[r].asked = asked
      /\ demoReq'[r].alone = alone
  BY <1>1, <1>2 DEF NewRequest, DemoRec, DemoPc
<1>4. ASSUME NEW o \in DemoRequest, o # r
      PROVE  /\ demoReq'[o] \in DemoRec /\ demoReq'[o].pc = demoReq[o].pc
             /\ demoReq'[o].asked = demoReq[o].asked /\ demoReq'[o].seen = demoReq[o].seen
  <2>1. demoReq[o] \in DemoRec
    BY <1>0
  <2>2. demoReq'[o] \in {[demoReq[o] EXCEPT !.alone = FALSE], demoReq[o]}
    BY <1>1, <1>4
  <2> QED
    BY <2>1, <2>2 DEF DemoRec
<1>5. demoReq' \in [DemoRequest -> DemoRec]
  <2>1. \A o \in DemoRequest : demoReq'[o] \in DemoRec
    BY <1>3, <1>4
  <2> QED
    BY <1>1, <2>1
<1>6. DemosTypes'
  BY <1>0, <1>5 DEF DemosTypes, DemoRec, DemoPc, RowsRec
<1>7. (lastId + Cardinality(MayMake) <= Cardinality(DemoRequest))'
  <2>1. MayMake' = MayMake
    BY <1>0, <1>3, <1>4 DEF MayMake, Early
  <2> QED
    BY <1>0, <2>1 DEF DemosInv
<1>8. (\A o \in DemoRequest : MadeSoFar(demo, demoReq[o], rows[o]))'
  <2>1. ASSUME NEW o \in DemoRequest PROVE MadeSoFar(demo, demoReq'[o], rows[o])
    <3>1. CASE o = r
      <4>1. rows[r] = NoRows
        BY <1>0 DEF MadeSoFar, Early
      <4> QED
        BY <1>3, <3>1, <4>1 DEF MadeSoFar, Early, Clearing, Seeding
    <3>2. CASE o # r
      BY <1>0, <1>4, <3>2 DEF MadeSoFar
    <3> QED
      BY <3>1, <3>2
  <2>2. \A o \in DemoRequest : MadeSoFar(demo', demoReq'[o], rows'[o])
    BY <1>0, <2>1
  <2> QED
    BY <2>2 DEF MadeSoFar, NoRows
<1>9. (\A o \in DemoRequest : Rooted(demo, workflow, rows[o]))'
  BY <1>0 DEF Rooted, NoRows
<1>10. (\A o \in DemoRequest : latest = {o} => LastAlone(o))'
  <2>1. LastOk(r, demoReq'[r], workflow', rows')
    BY <1>3 DEF LastOk, Clearing, Seeding
  <2>2. alone => Serving' \subseteq {r}
    BY <1>2, <1>4 DEF Serving
  <2>3. LastAlone(r)'
    BY <1>3, <2>1, <2>2 DEF LastAlone, LastOk, NoRows
  <2> QED
    BY <1>0, <2>3
<1> QED
  BY <1>6, <1>7, <1>8, <1>9, <1>10 DEF DemosInv

\* A request that is being served.
LEMMA ServedIs ==
  ASSUME DemosInv, NEW r \in DemoRequest, demoReq[r].pc \notin Over
  PROVE  /\ DemosTypes /\ demoReq \in [DemoRequest -> DemoRec] /\ demoReq[r] \in DemoRec
         /\ rows \in [DemoRequest -> RowsRec] /\ lastId \in Nat /\ workflow \in 0..lastId
         /\ demo \in {"llm", "agent"} /\ workflow \in Nat
         /\ \A o \in DemoRequest : /\ MadeSoFar(demo, demoReq[o], rows[o])
                                   /\ Rooted(demo, workflow, rows[o])
         /\ demoReq[r].asked \in {"seed", "reset"} /\ demoReq[r].pc # "new"
<1>1. /\ DemosTypes /\ demoReq \in [DemoRequest -> DemoRec] /\ demoReq[r] \in DemoRec
      /\ rows \in [DemoRequest -> RowsRec] /\ lastId \in Nat /\ workflow \in 0..lastId
      /\ demo \in {"llm", "agent"} /\ workflow \in Nat
  BY DEF DemosInv, DemosTypes
<1>2. \A o \in DemoRequest : /\ MadeSoFar(demo, demoReq[o], rows[o])
                             /\ Rooted(demo, workflow, rows[o])
  BY DEF DemosInv
<1>3. demoReq[r].pc # "new"
  BY DEF Over
<1> QED
  BY <1>1, <1>2, <1>3 DEF MadeSoFar

\* A request of which only the statement moves on.
LEMMA DemoGoesOn ==
  ASSUME DemosInv, NEW r \in DemoRequest, demoReq[r].pc \notin Over,
         NEW d \in DemoRec, demoReq' = [demoReq EXCEPT ![r] = d], d.alone = demoReq[r].alone,
         d.pc # "new", UNCHANGED <<demo, workflow, lastId, rows, latest>>,
         d.pc \in Early => demoReq[r].pc \in Early,
         MadeSoFar(demo, d, rows[r]),
         latest = {r} /\ demoReq[r].alone /\ LastOk(r, demoReq[r], workflow, rows) =>
           LastOk(r, d, workflow, rows)
  PROVE  DemosInv'
<1>1. /\ rows \in [DemoRequest -> RowsRec] /\ workflow \in 0..lastId
      /\ \A o \in DemoRequest : /\ MadeSoFar(demo, demoReq[o], rows[o])
                                /\ Rooted(demo, workflow, rows[o])
  BY ServedIs
<1>2. rows' = rows /\ workflow' = workflow /\ lastId' = lastId /\ demo' = demo
      /\ latest' = latest
  OBVIOUS
<1>3. rows' \in [DemoRequest -> RowsRec] /\ workflow' \in 0..lastId'
  BY <1>1, <1>2
<1>4. MadeSoFar(demo, d, rows'[r])
  BY <1>2
<1>5. \A o \in DemoRequest \ {r} : MadeSoFar(demo, demoReq[o], rows'[o])
  BY <1>1, <1>2
<1>6. \A o \in DemoRequest : Rooted(demo, workflow', rows'[o])
  BY <1>1, <1>2
<1>7. latest = {r} /\ demoReq[r].alone /\ LastOk(r, demoReq[r], workflow, rows) =>
        LastOk(r, d, workflow', rows')
  BY <1>2
<1> QED
  BY <1>2, <1>3, <1>4, <1>5, <1>6, <1>7, DemoMoves

LEMMA FindStep ==
  ASSUME DemosInv, NEW r \in DemoRequest, FindWorkflow(r)
  PROVE  DemosInv'
<1> DEFINE pc == IF workflow = 0 THEN Cleared(r) ELSE IF demo = "agent" THEN "unTrace" ELSE "list"
           d == [demoReq[r] EXCEPT !.pc = pc, !.seen = workflow]
<1>1. demoReq[r].pc = "find" /\ demoReq[r].pc \notin Over
  BY DEF FindWorkflow, DemoAt, Over
<1>2. /\ demoReq \in [DemoRequest -> DemoRec] /\ demoReq[r] \in DemoRec /\ workflow \in Nat
      /\ demo \in {"llm", "agent"} /\ demoReq[r].asked \in {"seed", "reset"}
      /\ \A o \in DemoRequest : /\ MadeSoFar(demo, demoReq[o], rows[o])
                                /\ Rooted(demo, workflow, rows[o])
  BY <1>1, ServedIs
<1>3. /\ pc \in {"unTrace", "list", "upsert", "ok"}
      /\ pc \in {"unTrace", "list"} => workflow # 0
      /\ pc \in {"upsert", "ok"} => workflow = 0
      /\ pc = "unTrace" => demo = "agent"
      /\ pc = "list" => demo # "agent"
      /\ pc = "upsert" => demoReq[r].asked = "seed"
      /\ pc = "ok" => demoReq[r].asked = "reset"
  BY <1>2 DEF Cleared
<1>4. demoReq' = [demoReq EXCEPT ![r] = d]
  BY <1>2 DEF FindWorkflow
<1> HIDE DEF pc
<1>5. /\ d \in DemoRec /\ d.pc = pc /\ d.seen = workflow /\ d.asked = demoReq[r].asked
      /\ d.alone = demoReq[r].alone
  BY <1>2, <1>3 DEF DemoRec, DemoPc
<1> HIDE DEF d
<1>6. rows[r] = NoRows
  BY <1>1, <1>2 DEF MadeSoFar, Early
<1>7. MadeSoFar(demo, d, rows[r])
  BY <1>2, <1>3, <1>5, <1>6 DEF MadeSoFar, Early, Clearing, Seeding, NoRows
<1>8. LastOk(r, d, workflow, rows)
  <2>1. workflow = 0 => \A o \in DemoRequest : rows[o] = NoRows
    BY <1>2 DEF Rooted
  <2>2. demo # "agent" => \A o \in DemoRequest : ~ rows[o].traced
    BY <1>2 DEF Rooted
  <2> QED
    BY <1>3, <1>5, <2>1, <2>2 DEF LastOk, Clearing, Seeding
<1>9. UNCHANGED <<demo, workflow, lastId, rows, latest>>
  BY DEF FindWorkflow
<1>10. d.pc # "new" /\ (d.pc \in Early => demoReq[r].pc \in Early)
  BY <1>1, <1>3, <1>5 DEF Early
<1> QED
  BY <1>1, <1>4, <1>5, <1>7, <1>8, <1>9, <1>10, DemoGoesOn

\* Rows are deleted, of the request's and of others.
LEMMA ClearGoes ==
  ASSUME DemosInv, NEW r \in DemoRequest, demoReq[r].pc \in Clearing,
         NEW d \in DemoRec, demoReq' = [demoReq EXCEPT ![r] = d], d.alone = demoReq[r].alone,
         d.seen = demoReq[r].seen, d.asked = demoReq[r].asked,
         d.pc \in {"list", "unlist", "drop", "upsert", "ok"},
         d.pc = "upsert" => d.asked = "seed", d.pc = "ok" => d.asked = "reset",
         UNCHANGED <<demo, lastId, latest>>, workflow' \in {0, workflow},
         rows' \in [DemoRequest -> RowsRec],
         \A o \in DemoRequest :
           /\ rows[o] = NoRows => rows'[o] = NoRows
           /\ \/ rows'[o] = NoRows
              \/ /\ rows'[o].workflow = rows[o].workflow /\ rows'[o].runs = rows[o].runs
                 /\ rows'[o].compared = rows[o].compared /\ rows'[o].decided = rows[o].decided
                 /\ rows'[o].evalRun = rows[o].evalRun \/ rows'[o].evalRun = "none"
           /\ rows'[o].traced => rows[o].traced,
         workflow' # workflow => \A o \in DemoRequest : rows'[o] = NoRows,
         latest = {r} /\ demoReq[r].alone /\ LastOk(r, demoReq[r], workflow, rows) =>
           LastOk(r, d, workflow', rows')
  PROVE  DemosInv'
<1>1. demoReq[r].pc \notin Over /\ d.pc # "new" /\ demoReq[r].pc \in Early
  BY DEF Over, Clearing, Early
<1>2. /\ rows \in [DemoRequest -> RowsRec] /\ workflow \in 0..lastId /\ lastId \in Nat
      /\ \A o \in DemoRequest : /\ MadeSoFar(demo, demoReq[o], rows[o])
                                /\ Rooted(demo, workflow, rows[o])
  BY <1>1, ServedIs
<1>3. ASSUME NEW o \in DemoRequest
      PROVE  MadeSoFar(demo, demoReq[o], rows'[o]) /\ Rooted(demo, workflow, rows'[o])
  <2>1. rows[o] \in RowsRec /\ rows'[o] \in RowsRec
    BY <1>2
  <2> QED
    BY <1>2, <2>1, RowLoses
<1>4. \A o \in DemoRequest : Rooted(demo, workflow', rows'[o])
  BY <1>3 DEF Rooted
<1>5. MadeSoFar(demo, d, rows'[r])
  <2>1. rows[r] = NoRows /\ demoReq[r].seen # 0
    BY <1>1, <1>2 DEF MadeSoFar
  <2>2. rows'[r] = NoRows
    BY <2>1
  <2> QED
    BY <1>1, <2>1, <2>2, ServedIs DEF MadeSoFar, Early, Clearing, Seeding, NoRows
<1>6. workflow' \in 0..lastId' /\ lastId' = lastId
  BY <1>2
<1> QED
  BY <1>1, <1>3, <1>4, <1>5, <1>6, DemoMoves

LEMMA ClearStep ==
  ASSUME DemosInv, NEW r \in DemoRequest,
         DeleteTraces(r) \/ ListEvalRuns(r) \/ DeleteEvalRuns(r) \/ DropWorkflow(r)
  PROVE  DemosInv'
<1> DEFINE q == demoReq[r]
<1>1. q.pc \in Clearing /\ q.pc \notin Over /\ UNCHANGED <<demo, lastId, latest>>
  BY DEF DeleteTraces, ListEvalRuns, DeleteEvalRuns, DropWorkflow, DemoAt, Clearing, Over
<1>2. /\ demoReq \in [DemoRequest -> DemoRec] /\ q \in DemoRec /\ workflow \in Nat
      /\ rows \in [DemoRequest -> RowsRec]
      /\ q.asked \in {"seed", "reset"} /\ q.seen # 0
      /\ \A o \in DemoRequest : /\ MadeSoFar(demo, demoReq[o], rows[o])
                                /\ Rooted(demo, workflow, rows[o])
  BY <1>1, ServedIs DEF MadeSoFar
<1>3. ASSUME NEW o \in DemoRequest PROVE o \in DemoRowsOf(workflow) \/ rows[o] = NoRows
  BY <1>2 DEF Rooted, DemoRowsOf
<1>4. ASSUME NEW o \in DemoRequest, NEW w, o \in DemoRowsOf(w)
      PROVE  rows[o] # NoRows /\ w = workflow
  <2>1. NoRows.workflow = 0
    BY DEF NoRows
  <2> QED
    BY <1>2, <1>4, <2>1 DEF Rooted, DemoRowsOf
<1>5. ASSUME NEW pc \in {"list", "unlist", "drop", "upsert", "ok"}, DemoGo(r, pc)
      PROVE  \E d \in DemoRec :
               /\ demoReq' = [demoReq EXCEPT ![r] = d] /\ d.alone = q.alone
               /\ d.seen = q.seen /\ d.asked = q.asked /\ d.pc = pc
  <2> DEFINE d == [q EXCEPT !.pc = pc]
  <2>1. demoReq' = [demoReq EXCEPT ![r] = d]
    BY <1>2, <1>5 DEF DemoGo
  <2>2. d \in DemoRec /\ d.alone = q.alone /\ d.seen = q.seen /\ d.asked = q.asked /\ d.pc = pc
    BY <1>2 DEF DemoRec, DemoPc
  <2> QED
    BY <2>1, <2>2
<1>6. CASE DeleteTraces(r)
  <2>1. /\ q.pc = "unTrace" /\ DemoGo(r, "list") /\ workflow' = workflow
        /\ rows' = [o \in DemoRequest |-> IF o \in DemoRowsOf(q.seen)
                                          THEN [rows[o] EXCEPT !.traced = FALSE] ELSE rows[o]]
    BY <1>6 DEF DeleteTraces, DemoAt
  <2>2. PICK d \in DemoRec :
          /\ demoReq' = [demoReq EXCEPT ![r] = d] /\ d.alone = q.alone
          /\ d.seen = q.seen /\ d.asked = q.asked /\ d.pc = "list"
    BY <1>5, <2>1
  <2>3. ASSUME NEW o \in DemoRequest
        PROVE  /\ rows'[o] \in RowsRec /\ (rows[o] = NoRows => rows'[o] = NoRows)
               /\ rows'[o].workflow = rows[o].workflow /\ rows'[o].runs = rows[o].runs
               /\ rows'[o].compared = rows[o].compared /\ rows'[o].decided = rows[o].decided
               /\ rows'[o].evalRun = rows[o].evalRun
               /\ rows'[o].traced => rows[o].traced
               /\ o \in DemoRowsOf(q.seen) => ~ rows'[o].traced
    <3>1. rows[o] \in RowsRec
      BY <1>2
    <3>2. CASE o \in DemoRowsOf(q.seen)
      <4>1. rows'[o] = [rows[o] EXCEPT !.traced = FALSE] /\ rows[o] # NoRows
        BY <1>4, <2>1, <3>2
      <4> QED
        BY <3>1, <4>1 DEF RowsRec
    <3>3. CASE o \notin DemoRowsOf(q.seen)
      BY <2>1, <3>1, <3>3
    <3> QED
      BY <3>2, <3>3
  <2>4. rows' \in [DemoRequest -> RowsRec]
    BY <2>1, <2>3
  <2>5. LastOk(r, q, workflow, rows) => LastOk(r, d, workflow', rows')
    <3>1. ASSUME q.seen = workflow, NEW o \in DemoRequest PROVE ~ rows'[o].traced
      <4>1. CASE rows[o] = NoRows
        BY <2>3, <4>1 DEF NoRows
      <4> QED
        BY <1>3, <2>3, <3>1, <4>1
    <3> QED
      BY <2>1, <2>2, <3>1 DEF LastOk, Clearing, Seeding
  <2> QED
    BY <1>1, <2>1, <2>2, <2>3, <2>4, <2>5, ClearGoes
<1>7. CASE ListEvalRuns(r)
  <2> DEFINE found == {o \in DemoRowsOf(q.seen) : rows[o].evalRun # "none"}
             d == [q EXCEPT !.pc = "unlist", !.found = found]
  <2>1. q.pc = "list" /\ UNCHANGED <<workflow, rows>> /\ demoReq' = [demoReq EXCEPT ![r] = d]
    BY <1>2, <1>7 DEF ListEvalRuns, DemoAt
  <2>2. found \subseteq DemoRequest
    BY DEF DemoRowsOf
  <2> HIDE DEF found
  <2>3. /\ d \in DemoRec /\ d.alone = q.alone /\ d.seen = q.seen /\ d.asked = q.asked
        /\ d.pc = "unlist"
    BY <1>2, <2>2 DEF DemoRec, DemoPc
  <2> HIDE DEF d
  <2>4. LastOk(r, q, workflow, rows) => LastOk(r, d, workflow', rows')
    BY <2>1, <2>3 DEF LastOk, Clearing, Seeding
  <2> QED
    BY <1>1, <1>2, <2>1, <2>3, <2>4, ClearGoes
<1>8. CASE DeleteEvalRuns(r)
  <2>1. q.pc = "unlist" /\ workflow' = workflow
    BY <1>8 DEF DeleteEvalRuns, DemoAt
  <2>2. ASSUME NEW e \in q.found, rows' = [rows EXCEPT ![e].evalRun = "none"],
               demoReq' = [demoReq EXCEPT ![r].found = @ \ {e}]
        PROVE  DemosInv'
    <3> DEFINE found == q.found \ {e}
               d == [q EXCEPT !.found = found]
    <3>1. demoReq' = [demoReq EXCEPT ![r] = d]
      BY <1>2, <2>2
    <3>2. found \subseteq DemoRequest /\ e \in DemoRequest
      BY <1>2, <2>2 DEF DemoRec
    <3> HIDE DEF found
    <3>3. /\ d \in DemoRec /\ d.alone = q.alone /\ d.seen = q.seen /\ d.asked = q.asked
          /\ d.pc = "unlist"
      BY <1>2, <2>1, <3>2 DEF DemoRec
    <3> HIDE DEF d
    <3>4. ASSUME NEW o \in DemoRequest
          PROVE  /\ rows'[o] \in RowsRec /\ (rows[o] = NoRows => rows'[o] = NoRows)
                 /\ rows'[o].workflow = rows[o].workflow /\ rows'[o].runs = rows[o].runs
                 /\ rows'[o].compared = rows[o].compared /\ rows'[o].decided = rows[o].decided
                 /\ rows'[o].evalRun = rows[o].evalRun \/ rows'[o].evalRun = "none"
                 /\ rows'[o].traced => rows[o].traced
      <4>1. rows[o] \in RowsRec
        BY <1>2
      <4>2. CASE o = e
        <5>1. rows'[o] = [rows[o] EXCEPT !.evalRun = "none"]
          BY <1>2, <2>2, <4>2
        <5>2. rows[o] = NoRows => rows'[o] = NoRows
          BY <5>1 DEF NoRows
        <5> QED
          BY <4>1, <5>1, <5>2 DEF RowsRec
      <4>3. CASE o # e
        BY <1>2, <2>2, <4>1, <4>3
      <4> QED
        BY <4>2, <4>3
    <3>5. rows' \in [DemoRequest -> RowsRec]
      BY <1>2, <2>2, <3>4
    <3>6. LastOk(r, q, workflow, rows) => LastOk(r, d, workflow', rows')
      BY <2>1, <3>3, <3>4 DEF LastOk, Clearing, Seeding
    <3> QED
      BY <1>1, <2>1, <3>1, <3>3, <3>4, <3>5, <3>6, ClearGoes
  <2>3. CASE DemoGo(r, "drop") /\ UNCHANGED rows
    <3>1. PICK d \in DemoRec :
            /\ demoReq' = [demoReq EXCEPT ![r] = d] /\ d.alone = q.alone
            /\ d.seen = q.seen /\ d.asked = q.asked /\ d.pc = "drop"
      BY <1>5, <2>3
    <3>2. LastOk(r, q, workflow, rows) => LastOk(r, d, workflow', rows')
      BY <2>1, <2>3, <3>1 DEF LastOk, Clearing, Seeding
    <3> QED
      BY <1>1, <1>2, <2>1, <2>3, <3>1, <3>2, ClearGoes
  <2> QED
    BY <1>8, <2>2, <2>3 DEF DeleteEvalRuns
<1>9. CASE DropWorkflow(r)
  <2> DEFINE below == DemoRowsOf(q.seen)
  <2>1. q.pc = "drop" /\ DemoGo(r, Cleared(r))
    BY <1>9 DEF DropWorkflow, DemoAt
  <2>2. Cleared(r) \in {"upsert", "ok"} /\ (Cleared(r) = "upsert" => q.asked = "seed")
        /\ (Cleared(r) = "ok" => q.asked = "reset")
    BY <1>2 DEF Cleared
  <2>3. PICK d \in DemoRec :
          /\ demoReq' = [demoReq EXCEPT ![r] = d] /\ d.alone = q.alone
          /\ d.seen = q.seen /\ d.asked = q.asked /\ d.pc = Cleared(r)
    BY <1>5, <2>1, <2>2
  <2>4. CASE (\E o \in below : rows[o].traced) /\ UNCHANGED <<workflow, rows>>
    <3>1. ~ LastOk(r, q, workflow, rows)
      BY <2>1, <2>4 DEF LastOk, DemoRowsOf
    <3> QED
      BY <1>1, <1>2, <2>2, <2>3, <2>4, <3>1, ClearGoes
  <2>5. CASE /\ workflow' = IF workflow = q.seen THEN 0 ELSE workflow
             /\ rows' = [o \in DemoRequest |-> IF o \in below THEN NoRows ELSE rows[o]]
    <3>1. ASSUME NEW o \in DemoRequest
          PROVE  /\ rows'[o] \in RowsRec /\ (rows[o] = NoRows => rows'[o] = NoRows)
                 /\ rows'[o] = NoRows \/ rows'[o] = rows[o]
                 /\ rows'[o].traced => rows[o].traced
      <4>1. rows'[o] = NoRows \/ rows'[o] = rows[o]
        BY <2>5
      <4>2. ~ NoRows.traced
        BY DEF NoRows
      <4> QED
        BY <1>2, <2>5, <4>1, <4>2, Cases
    <3>2. rows' \in [DemoRequest -> RowsRec]
      BY <2>5, <3>1
    <3>3. workflow = q.seen => \A o \in DemoRequest : rows'[o] = NoRows
      BY <1>3, <2>5
    <3>4. LastOk(r, q, workflow, rows) => LastOk(r, d, workflow', rows')
      <4>1. LastOk(r, q, workflow, rows) => q.seen = workflow
        BY <1>1 DEF LastOk
      <4> QED
        BY <2>2, <2>3, <2>5, <3>3, <4>1 DEF LastOk, Clearing, Seeding
    <3>5. workflow' \in {0, workflow} /\ (workflow' # workflow => workflow = q.seen)
      BY <2>5
    <3>6. d.pc \in {"list", "unlist", "drop", "upsert", "ok"} /\ (d.pc = "upsert" => d.asked = "seed")
          /\ (d.pc = "ok" => d.asked = "reset")
      BY <2>2, <2>3
    <3> QED
      BY <1>1, <2>3, <3>1, <3>2, <3>3, <3>4, <3>5, <3>6, ClearGoes
  <2> QED
    BY <1>9, <2>4, <2>5 DEF DropWorkflow
<1> QED
  BY <1>6, <1>7, <1>8, <1>9

LEMMA UpsertStep ==
  ASSUME DemosInv, NEW r \in DemoRequest, UpsertWorkflow(r)
  PROVE  DemosInv'
<1> DEFINE q == demoReq[r]
           d == [q EXCEPT !.pc = "evalRun", !.seen = workflow']
<1>1. q.pc = "upsert" /\ q.pc \notin Over /\ UNCHANGED <<demo, rows, latest>>
  BY DEF UpsertWorkflow, DemoAt, Over
<1>2. /\ demoReq \in [DemoRequest -> DemoRec] /\ q \in DemoRec /\ workflow \in Nat
      /\ rows \in [DemoRequest -> RowsRec] /\ lastId \in Nat /\ workflow \in 0..lastId
      /\ \A o \in DemoRequest : /\ MadeSoFar(demo, demoReq[o], rows[o])
                                /\ Rooted(demo, workflow, rows[o])
  BY <1>1, ServedIs
<1>3. /\ \/ workflow = 0 /\ workflow' = lastId + 1 /\ lastId' = lastId + 1
         \/ workflow # 0 /\ workflow' = workflow /\ lastId' = lastId
      /\ demoReq' = [demoReq EXCEPT ![r] = d]
  BY <1>2 DEF UpsertWorkflow
<1>4. workflow' \in 0..lastId' /\ workflow' # 0 /\ workflow' \in Nat
  BY <1>2, <1>3
<1>5. /\ d \in DemoRec /\ d.pc = "evalRun" /\ d.seen = workflow' /\ d.asked = q.asked
      /\ d.alone = q.alone
  BY <1>2, <1>4 DEF DemoRec, DemoPc
<1> HIDE DEF d
<1>6. rows[r] = NoRows /\ q.asked = "seed"
  BY <1>1, <1>2 DEF MadeSoFar, Early
<1>7. MadeSoFar(demo, d, rows[r])
  BY <1>4, <1>5, <1>6 DEF MadeSoFar, Early, Clearing, Seeding
<1>8. \A o \in DemoRequest : Rooted(demo, workflow', rows[o])
  BY <1>2, <1>3 DEF Rooted
<1>9. LastOk(r, q, workflow, rows) => LastOk(r, d, workflow', rows)
  BY <1>1, <1>5 DEF LastOk, Clearing, Seeding
<1>10. rows' = rows /\ rows' \in [DemoRequest -> RowsRec] /\ d.pc # "new" /\ d.pc \notin Early
       /\ q.pc \in Early
  BY <1>1, <1>2, <1>5 DEF Early
<1>11. /\ MadeSoFar(demo, d, rows'[r])
       /\ \A o \in DemoRequest \ {r} : MadeSoFar(demo, demoReq[o], rows'[o])
       /\ \A o \in DemoRequest : Rooted(demo, workflow', rows'[o])
       /\ LastOk(r, q, workflow, rows) => LastOk(r, d, workflow', rows')
  BY <1>2, <1>7, <1>8, <1>9, <1>10
<1>12. \/ lastId' = lastId
       \/ lastId' = lastId + 1
  BY <1>3
<1> QED
  BY <1>1, <1>3, <1>4, <1>5, <1>10, <1>11, <1>12, DemoMoves

\* A seed inserts or updates rows of its own, or ends with an error.
LEMMA SeedGoes ==
  ASSUME DemosInv, NEW r \in DemoRequest, demoReq[r].pc \in Seeding \union {"evalRun"},
         NEW pc \in Seeding \union {"ok", "error"}, DemoGo(r, pc),
         NEW s \in RowsRec, rows' = [rows EXCEPT ![r] = s],
         UNCHANGED <<demo, workflow, lastId, latest>>,
         Rooted(demo, workflow, s),
         pc = "start" => s.compared = 0 /\ s.runs = 0,
         pc = "run" => s.compared < DemoCases /\ (s = NoRows \/ s.runs = s.compared),
         pc \in {"trace", "compare"} =>
           s.compared < DemoCases /\ (s = NoRows \/ s.runs = s.compared + 1),
         pc = "complete" => s.evalRun = "none" \/ s.compared = DemoCases,
         pc \in {"lifecycle", "ok"} =>
           s.evalRun = "none" \/ (s.evalRun = "completed" /\ s.compared = DemoCases),
         pc = "ok" /\ demo = "llm" => s.evalRun = "none" \/ s.decided,
         LastOk(r, demoReq[r], workflow, rows) /\ pc # "error" =>
           s.workflow = workflow /\ workflow # 0 /\ s.evalRun # "none"
  PROVE  DemosInv'
<1> DEFINE q == demoReq[r]
           d == [q EXCEPT !.pc = pc]
<1>1. q.pc \notin Over /\ q.pc # "new"
  BY DEF Over, Seeding
<1>2. /\ demoReq \in [DemoRequest -> DemoRec] /\ q \in DemoRec
      /\ rows \in [DemoRequest -> RowsRec] /\ workflow \in 0..lastId
      /\ \A o \in DemoRequest : /\ MadeSoFar(demo, demoReq[o], rows[o])
                                /\ Rooted(demo, workflow, rows[o])
  BY <1>1, ServedIs
<1>3. q.asked = "seed"
  BY <1>2 DEF MadeSoFar
<1>4. demoReq' = [demoReq EXCEPT ![r] = d]
  BY <1>2 DEF DemoGo
<1>5. /\ d \in DemoRec /\ d.pc = pc /\ d.seen = q.seen /\ d.asked = "seed"
      /\ d.alone = q.alone
  BY <1>2, <1>3 DEF DemoRec, DemoPc, Seeding
<1> HIDE DEF d
<1>6. /\ pc \notin Early \union {"evalRun"} /\ pc \notin Clearing /\ pc # "unTrace" /\ pc # "new"
      /\ pc # "upsert"
  BY DEF Early, Clearing, Seeding
<1>7. MadeSoFar(demo, d, s)
  BY <1>5, <1>6 DEF MadeSoFar
<1>8. rows' \in [DemoRequest -> RowsRec] /\ rows'[r] = s
      /\ \A o \in DemoRequest \ {r} : rows'[o] = rows[o]
  BY <1>2
<1>9. LastOk(r, q, workflow, rows) => LastOk(r, d, workflow, rows')
  <2> SUFFICES ASSUME LastOk(r, q, workflow, rows) PROVE LastOk(r, d, workflow, rows')
    OBVIOUS
  <2>1. \A o \in DemoRequest \ {r} : rows[o] = NoRows
    BY DEF LastOk
  <2>2. \A o \in DemoRequest \ {r} : rows'[o] = NoRows
    BY <1>8, <2>1
  <2>3. CASE pc = "error"
    BY <1>5, <2>3 DEF LastOk, Clearing, Seeding
  <2>4. CASE pc # "error"
    <3>1. rows'[r].workflow = workflow /\ workflow # 0 /\ rows'[r].evalRun # "none"
      BY <1>8, <2>4
    <3>2. d.pc \notin {"list", "unlist", "drop", "upsert", "evalRun"} /\ d.pc \notin Clearing
      BY <1>5, <1>6 DEF Clearing
    <3> QED
      BY <1>5, <2>2, <3>1, <3>2 DEF LastOk
  <2> QED
    BY <2>3, <2>4
<1>10. \A o \in DemoRequest : Rooted(demo, workflow, rows'[o])
  BY <1>2, <1>8
<1>11. \A o \in DemoRequest \ {r} : MadeSoFar(demo, demoReq[o], rows'[o])
  BY <1>2, <1>8
<1>12. workflow' = workflow /\ lastId' = lastId /\ workflow' \in 0..lastId'
       /\ d.pc # "new" /\ d.pc \notin Early
  BY <1>2, <1>5, <1>6
<1>13. \A o \in DemoRequest : Rooted(demo, workflow', rows'[o])
  BY <1>10, <1>12
<1>14. LastOk(r, q, workflow, rows) => LastOk(r, d, workflow', rows')
  BY <1>9, <1>12
<1> QED
  BY <1>1, <1>4, <1>5, <1>7, <1>8, <1>11, <1>12, <1>13, <1>14, DemoMoves

\* A foreign key.
LEMMA SeedFails ==
  ASSUME DemosInv, NEW r \in DemoRequest, demoReq[r].pc \in Seeding \union {"evalRun"},
         DemoGo(r, "error"), UNCHANGED <<demo, workflow, lastId, latest, rows>>
  PROVE  DemosInv'
<1>1. demoReq[r].pc \notin Over
  BY DEF Over, Seeding
<1>2. rows[r] \in RowsRec /\ Rooted(demo, workflow, rows[r]) /\ rows' = [rows EXCEPT ![r] = rows[r]]
  BY <1>1, ServedIs
<1> DEFINE pc == "error"
<1>3. /\ pc \in Seeding \union {"ok", "error"} /\ pc = "error" /\ DemoGo(r, pc)
      /\ pc \notin {"trace", "compare", "lifecycle", "ok"}
  OBVIOUS
<1> HIDE DEF pc
<1>4. /\ pc # "start" /\ pc # "run" /\ pc # "complete" /\ pc # "ok"
      /\ UNCHANGED <<demo, workflow, lastId, latest>>
  BY <1>3
<1> QED
  BY <1>2, <1>3, <1>4, SeedGoes

\* The row of a seed after an update of its eval run.
LEMMA StatusSet ==
  ASSUME NEW s \in RowsRec, NEW status \in {"running", "completed"}, NEW f, NEW w,
         Rooted(f, w, s),
         NEW u, u = [s EXCEPT !.evalRun = IF @ = "none" THEN @ ELSE status]
  PROVE  /\ u \in RowsRec /\ Rooted(f, w, u) /\ (s = NoRows => u = NoRows)
         /\ u.workflow = s.workflow /\ u.runs = s.runs /\ u.compared = s.compared
         /\ u.evalRun = (IF s.evalRun = "none" THEN "none" ELSE status)
<1> DEFINE e == IF s.evalRun = "none" THEN s.evalRun ELSE status
<1>1. e \in {"none", "running", "completed"} /\ u = [s EXCEPT !.evalRun = e]
  OBVIOUS
<1>2. s = NoRows => e = NoRows.evalRun
  BY DEF NoRows
<1>3. e = IF s.evalRun = "none" THEN "none" ELSE status
  OBVIOUS
<1> HIDE DEF e
<1>4. /\ u \in RowsRec /\ u.workflow = s.workflow /\ u.runs = s.runs /\ u.compared = s.compared
      /\ u.evalRun = e
  BY <1>1 DEF RowsRec
<1>5. u.traced => s.traced
  BY <1>1 DEF RowsRec
<1>6. s = NoRows => u = NoRows
  BY <1>1, <1>2 DEF NoRows
<1>7. Rooted(f, w, u)
  BY <1>4, <1>5, <1>6 DEF Rooted
<1> QED
  BY <1>3, <1>4, <1>6, <1>7

LEMMA SeedStep ==
  ASSUME DemosInv, NEW r \in DemoRequest,
         \/ CreateEvalRun(r) \/ StartEvalRun(r) \/ CreateRun(r) \/ RecordOutputs(r)
         \/ CompareCase(r) \/ CompleteEvalRun(r) \/ Lifecycle(r)
  PROVE  DemosInv'
<1> DEFINE d == demoReq[r]
           q == rows[r]
<1>1. d.pc \in Seeding \union {"evalRun"} /\ d.pc \notin Over
      /\ UNCHANGED <<demo, workflow, lastId, latest>>
  BY DEF CreateEvalRun, StartEvalRun, CreateRun, RecordOutputs, CompareCase, CompleteEvalRun,
         Lifecycle, DemoAt, Seeding, Over, InsertDemo, SetStatus
<1>2. /\ rows \in [DemoRequest -> RowsRec] /\ q \in RowsRec /\ workflow \in Nat
      /\ MadeSoFar(demo, d, q) /\ Rooted(demo, workflow, q) /\ demo \in {"llm", "agent"}
  BY <1>1, ServedIs
<1>3. DemoCases \in Nat /\ 0 < DemoCases
  BY Cases
<1>4. LastOk(r, d, workflow, rows) /\ d.pc # "evalRun" =>
        q.workflow = workflow /\ workflow # 0 /\ q.evalRun # "none"
  BY <1>1 DEF LastOk
<1>5. /\ q.workflow \in Nat /\ q.runs \in 0..DemoCases /\ q.compared \in 0..DemoCases
      /\ q.runs \in Nat /\ q.compared \in Nat
  BY <1>2, <1>3 DEF RowsRec
<1>6. NoRows.workflow = 0 /\ NoRows.runs = 0 /\ NoRows.evalRun = "none"
  BY DEF NoRows
<1>7. q # NoRows => q.workflow = workflow /\ workflow # 0
  BY <1>2 DEF Rooted
<1>8. CASE CreateEvalRun(r)
  <2> DEFINE s == [NoRows EXCEPT !.workflow = workflow, !.evalRun = "pending"]
  <2>1. d.pc = "evalRun" /\ d.seen # 0
    BY <1>2, <1>8 DEF CreateEvalRun, DemoAt, MadeSoFar
  <2>2. CASE d.seen = workflow /\ rows' = [rows EXCEPT ![r] = s] /\ DemoGo(r, "start")
    <3>1. /\ s \in RowsRec /\ s.workflow = workflow /\ s.evalRun = "pending"
          /\ s.compared = 0 /\ s.runs = 0 /\ ~ s.traced
      <4>1. NoRows \in RowsRec
        BY Cases
      <4>2. /\ s \in RowsRec /\ s.workflow = workflow /\ s.evalRun = "pending"
            /\ s.compared = NoRows.compared /\ s.runs = NoRows.runs /\ s.traced = NoRows.traced
        BY <1>2, <4>1 DEF RowsRec
      <4>3. NoRows.compared = 0 /\ NoRows.runs = 0 /\ ~ NoRows.traced
        BY DEF NoRows
      <4> HIDE DEF s
      <4> QED
        BY <4>2, <4>3
    <3> HIDE DEF s
    <3>2. Rooted(demo, workflow, s)
      BY <2>1, <2>2, <3>1 DEF Rooted
    <3>3. "start" \in Seeding
      BY DEF Seeding
    <3> DEFINE pc == "start"
    <3>20. /\ pc = "start"
           /\ pc \in Seeding \union {"ok", "error"}
           /\ DemoGo(r, pc)
           /\ pc \notin {"trace", "compare"}
           /\ pc \notin {"lifecycle", "ok"}
      BY <2>2, <3>3 DEF Seeding
    <3> HIDE DEF pc
    <3>21. pc # "run" /\ pc # "complete" /\ pc # "ok" /\ pc # "error"
      BY <3>20
    <3> QED
      BY <1>1, <2>1, <2>2, <3>1, <3>2, <3>3, <3>20, <3>21, SeedGoes
  <2>3. CASE UNCHANGED rows /\ DemoGo(r, "error")
    BY <1>1, <2>3, SeedFails
  <2> QED
    BY <1>8, <2>2, <2>3 DEF CreateEvalRun, InsertDemo
<1>9. CASE StartEvalRun(r)
  <2> DEFINE s == [q EXCEPT !.evalRun = IF @ = "none" THEN @ ELSE "running"]
  <2>1. d.pc = "start" /\ DemoGo(r, "run")
    BY <1>9 DEF StartEvalRun, SetStatus, DemoAt
  <2>2. rows' = [rows EXCEPT ![r] = s]
    BY <1>2, <1>9 DEF StartEvalRun, SetStatus
  <2>3. /\ s \in RowsRec /\ Rooted(demo, workflow, s)
        /\ s.workflow = q.workflow /\ s.runs = q.runs /\ s.compared = q.compared
        /\ s.evalRun = (IF q.evalRun = "none" THEN "none" ELSE "running")
    BY <1>2, StatusSet
  <2> HIDE DEF s
  <2>4. q.compared = 0 /\ q.runs = 0
    BY <1>2, <2>1 DEF MadeSoFar
  <2>5. s.compared < DemoCases /\ s.runs = s.compared
    BY <1>3, <2>3, <2>4
  <2>6. "run" \in Seeding
    BY DEF Seeding
  <2>7. LastOk(r, d, workflow, rows) =>
          s.workflow = workflow /\ workflow # 0 /\ s.evalRun # "none"
    BY <1>4, <2>1, <2>3
  <2> DEFINE pc == "run"
  <2>20. /\ pc = "run"
         /\ pc \in Seeding \union {"ok", "error"}
         /\ DemoGo(r, pc)
         /\ pc \notin {"trace", "compare"}
         /\ pc \notin {"lifecycle", "ok"}
    BY <2>1, <2>6 DEF Seeding
  <2> HIDE DEF pc
  <2>21. pc # "start" /\ pc # "complete" /\ pc # "ok" /\ pc # "error"
    BY <2>20
  <2> QED
    BY <1>1, <2>1, <2>2, <2>3, <2>5, <2>6, <2>7, <2>20, <2>21, SeedGoes
<1>10. CASE CreateRun(r)
  <2> DEFINE s == [q EXCEPT !.runs = @ + 1]
  <2>1. d.pc = "run"
    BY <1>10 DEF CreateRun, DemoAt
  <2>2. CASE /\ q.workflow # 0 /\ q.evalRun # "none"
             /\ rows' = [rows EXCEPT ![r] = s] /\ DemoGo(r, "trace")
    <3>1. q # NoRows
      BY <1>6, <2>2
    <3>2. q.compared < DemoCases /\ q.runs = q.compared
      BY <1>2, <2>1, <3>1 DEF MadeSoFar
    <3>3. q.runs + 1 \in 0..DemoCases /\ q.runs + 1 = q.compared + 1
      BY <1>3, <1>5, <3>2
    <3>4. /\ s \in RowsRec /\ s.workflow = q.workflow /\ s.evalRun = q.evalRun
          /\ s.compared = q.compared /\ s.runs = q.runs + 1 /\ (s.traced => q.traced)
      BY <1>2, <3>3 DEF RowsRec
    <3> HIDE DEF s
    <3>5. Rooted(demo, workflow, s)
      BY <1>2, <1>7, <3>1, <3>4 DEF Rooted
    <3>6. "trace" \in Seeding
      BY DEF Seeding
    <3>7. s.compared < DemoCases /\ s.runs = s.compared + 1
      BY <3>2, <3>3, <3>4
    <3>8. LastOk(r, d, workflow, rows) =>
            s.workflow = workflow /\ workflow # 0 /\ s.evalRun # "none"
      BY <1>4, <2>1, <3>4
    <3> DEFINE pc == "trace"
    <3>20. /\ pc = "trace"
           /\ pc \in Seeding \union {"ok", "error"}
           /\ DemoGo(r, pc)
           /\ pc \notin {"lifecycle", "ok"}
      BY <2>2, <3>6 DEF Seeding
    <3> HIDE DEF pc
    <3>21. pc # "start" /\ pc # "run" /\ pc # "complete" /\ pc # "ok" /\ pc # "error"
      BY <3>20
    <3> QED
      BY <1>1, <2>2, <3>4, <3>5, <3>6, <3>7, <3>8, <3>20, <3>21, SeedGoes
  <2>3. CASE UNCHANGED rows /\ DemoGo(r, "error")
    BY <1>1, <2>3, SeedFails
  <2> QED
    BY <1>10, <2>2, <2>3 DEF CreateRun, InsertDemo
<1>11. CASE RecordOutputs(r)
  <2> DEFINE t == demo = "agent"
             s == [q EXCEPT !.traced = t]
  <2>1. d.pc = "trace"
    BY <1>11 DEF RecordOutputs, DemoAt
  <2>2. CASE q.runs > 0 /\ rows' = [rows EXCEPT ![r] = s] /\ DemoGo(r, "compare")
    <3>1. q # NoRows
      BY <1>6, <2>2
    <3>2. q.compared < DemoCases /\ q.runs = q.compared + 1
      BY <1>2, <2>1, <3>1 DEF MadeSoFar
    <3>3. t \in BOOLEAN /\ (demo = "llm" => ~ t)
      OBVIOUS
    <3> HIDE DEF t
    <3>4. /\ s \in RowsRec /\ s.workflow = q.workflow /\ s.evalRun = q.evalRun
          /\ s.compared = q.compared /\ s.runs = q.runs /\ s.traced = t
      BY <1>2, <3>3 DEF RowsRec
    <3> HIDE DEF s
    <3>5. Rooted(demo, workflow, s)
      BY <1>2, <1>7, <3>1, <3>3, <3>4 DEF Rooted
    <3>6. "compare" \in Seeding
      BY DEF Seeding
    <3>7. s.compared < DemoCases /\ s.runs = s.compared + 1
      BY <3>2, <3>4
    <3>8. LastOk(r, d, workflow, rows) =>
            s.workflow = workflow /\ workflow # 0 /\ s.evalRun # "none"
      BY <1>4, <2>1, <3>4
    <3> DEFINE pc == "compare"
    <3>20. /\ pc = "compare"
           /\ pc \in Seeding \union {"ok", "error"}
           /\ DemoGo(r, pc)
           /\ pc \notin {"lifecycle", "ok"}
      BY <2>2, <3>6 DEF Seeding
    <3> HIDE DEF pc
    <3>21. pc # "start" /\ pc # "run" /\ pc # "complete" /\ pc # "ok" /\ pc # "error"
      BY <3>20
    <3> QED
      BY <1>1, <2>2, <3>4, <3>5, <3>6, <3>7, <3>8, <3>20, <3>21, SeedGoes
  <2>3. CASE UNCHANGED rows /\ DemoGo(r, "error")
    BY <1>1, <2>3, SeedFails
  <2> QED
    BY <1>11, <2>2, <2>3 DEF RecordOutputs, InsertDemo
<1>12. CASE CompareCase(r)
  <2> DEFINE s == [q EXCEPT !.compared = @ + 1]
             pc == IF q.compared + 1 = DemoCases THEN "complete" ELSE "run"
  <2>1. d.pc = "compare"
    BY <1>12 DEF CompareCase, DemoAt
  <2>2. CASE /\ q.runs > 0 /\ q.evalRun # "none"
             /\ rows' = [rows EXCEPT ![r] = s] /\ DemoGo(r, pc)
    <3>1. q # NoRows
      BY <1>6, <2>2
    <3>2. q.compared < DemoCases /\ q.runs = q.compared + 1
      BY <1>2, <2>1, <3>1 DEF MadeSoFar
    <3>3. q.compared + 1 \in 0..DemoCases
      BY <1>3, <1>5, <3>2
    <3>4. /\ s \in RowsRec /\ s.workflow = q.workflow /\ s.evalRun = q.evalRun
          /\ s.compared = q.compared + 1 /\ s.runs = q.runs /\ (s.traced => q.traced)
      BY <1>2, <3>3 DEF RowsRec
    <3> HIDE DEF s
    <3>5. Rooted(demo, workflow, s)
      BY <1>2, <1>7, <3>1, <3>4 DEF Rooted
    <3>6. pc \in Seeding /\ pc \in {"complete", "run"}
      BY DEF Seeding
    <3>7. /\ pc = "complete" => s.compared = DemoCases
          /\ pc = "run" => s.compared < DemoCases /\ s.runs = s.compared
      BY <1>3, <1>5, <3>2, <3>3, <3>4
    <3>8. LastOk(r, d, workflow, rows) =>
            s.workflow = workflow /\ workflow # 0 /\ s.evalRun # "none"
      BY <1>4, <2>1, <3>4
    <3> HIDE DEF pc
    <3>9. /\ pc # "start" /\ pc \notin {"trace", "compare"} /\ pc \notin {"lifecycle", "ok"}
          /\ pc # "ok"
      BY <3>6
    <3> QED
      BY <1>1, <2>2, <3>4, <3>5, <3>6, <3>7, <3>8, <3>9, SeedGoes
  <2>3. CASE UNCHANGED rows /\ DemoGo(r, "error")
    BY <1>1, <2>3, SeedFails
  <2> QED
    BY <1>12, <2>2, <2>3 DEF CompareCase, InsertDemo
<1>13. CASE CompleteEvalRun(r)
  <2> DEFINE s == [q EXCEPT !.evalRun = IF @ = "none" THEN @ ELSE "completed"]
             pc == IF demo = "llm" THEN "lifecycle" ELSE "ok"
  <2>1. d.pc = "complete" /\ DemoGo(r, pc)
    BY <1>13 DEF CompleteEvalRun, SetStatus, DemoAt
  <2>2. rows' = [rows EXCEPT ![r] = s]
    BY <1>2, <1>13 DEF CompleteEvalRun, SetStatus
  <2>3. /\ s \in RowsRec /\ Rooted(demo, workflow, s)
        /\ s.workflow = q.workflow /\ s.runs = q.runs /\ s.compared = q.compared
        /\ s.evalRun = (IF q.evalRun = "none" THEN "none" ELSE "completed")
    BY <1>2, StatusSet
  <2> HIDE DEF s
  <2>4. q.evalRun = "none" \/ q.compared = DemoCases
    BY <1>2, <2>1 DEF MadeSoFar
  <2>5. s.evalRun = "none" \/ (s.evalRun = "completed" /\ s.compared = DemoCases)
    BY <2>3, <2>4
  <2>6. /\ pc \in Seeding \union {"ok", "error"} /\ pc \in {"lifecycle", "ok"}
        /\ ~ (pc = "ok" /\ demo = "llm")
    BY DEF Seeding
  <2>7. LastOk(r, d, workflow, rows) =>
          s.workflow = workflow /\ workflow # 0 /\ s.evalRun # "none"
    BY <1>4, <2>1, <2>3
  <2> HIDE DEF pc
  <2>8. pc \notin {"trace", "compare"} /\ pc # "start" /\ pc # "run" /\ pc # "complete"
    BY <2>6
  <2> QED
    BY <1>1, <2>1, <2>2, <2>3, <2>5, <2>6, <2>7, <2>8, SeedGoes
<1>14. CASE Lifecycle(r)
  <2> DEFINE t == q.evalRun # "none"
             s == [q EXCEPT !.decided = t]
  <2>1. d.pc = "lifecycle"
    BY <1>14 DEF Lifecycle, DemoAt
  <2>2. CASE q.workflow # 0 /\ rows' = [rows EXCEPT ![r] = s] /\ DemoGo(r, "ok")
    <3>1. q # NoRows
      BY <1>6, <2>2
    <3>2. q.evalRun = "none" \/ (q.evalRun = "completed" /\ q.compared = DemoCases)
      BY <1>2, <2>1 DEF MadeSoFar
    <3>3. t \in BOOLEAN /\ (q.evalRun # "none" => t)
      OBVIOUS
    <3> HIDE DEF t
    <3>4. /\ s \in RowsRec /\ s.workflow = q.workflow /\ s.evalRun = q.evalRun
          /\ s.compared = q.compared /\ s.decided = t /\ (s.traced => q.traced)
      BY <1>2, <3>3 DEF RowsRec
    <3> HIDE DEF s
    <3>5. Rooted(demo, workflow, s)
      BY <1>2, <1>7, <3>1, <3>4 DEF Rooted
    <3>6. s.evalRun = "none" \/ s.decided
      BY <3>3, <3>4
    <3>7. s.evalRun = "none" \/ (s.evalRun = "completed" /\ s.compared = DemoCases)
      BY <3>2, <3>4
    <3>8. LastOk(r, d, workflow, rows) =>
            s.workflow = workflow /\ workflow # 0 /\ s.evalRun # "none"
      BY <1>4, <2>1, <3>4
    <3> DEFINE pc == "ok"
    <3>20. /\ pc = "ok"
           /\ pc \in Seeding \union {"ok", "error"}
           /\ DemoGo(r, pc)
           /\ pc \notin {"trace", "compare"}
      BY <2>2 DEF Seeding
    <3> HIDE DEF pc
    <3>21. pc # "start" /\ pc # "run" /\ pc # "complete" /\ pc # "error"
      BY <3>20
    <3> QED
      BY <1>1, <2>2, <3>4, <3>5, <3>6, <3>7, <3>8, <3>20, <3>21, SeedGoes
  <2>3. CASE UNCHANGED rows /\ DemoGo(r, "error")
    BY <1>1, <2>3, SeedFails
  <2> QED
    BY <1>14, <2>2, <2>3 DEF Lifecycle, InsertDemo
<1> QED
  BY <1>8, <1>9, <1>10, <1>11, <1>12, <1>13, <1>14

LEMMA DemosStep == DemosInv /\ [DemosNext]_demoVars => DemosInv'
<1> SUFFICES ASSUME DemosInv, [DemosNext]_demoVars PROVE DemosInv'
  OBVIOUS
<1>1. CASE UNCHANGED demoVars
  <2>1. UNCHANGED <<demo, workflow, lastId, rows, demoReq, latest>>
    BY <1>1 DEF demoVars
  <2>2. DemosTypes'
    BY <2>1 DEF DemosInv, DemosTypes, DemoRec, DemoPc, RowsRec
  <2>3. (lastId + Cardinality(MayMake) <= Cardinality(DemoRequest))'
    BY <2>1 DEF DemosInv, MayMake
  <2>4. /\ (\A r \in DemoRequest : MadeSoFar(demo, demoReq[r], rows[r]))'
        /\ (\A r \in DemoRequest : Rooted(demo, workflow, rows[r]))'
    BY <2>1 DEF DemosInv, MadeSoFar, Rooted, NoRows
  <2>5. (\A r \in DemoRequest : latest = {r} => LastAlone(r))'
    BY <2>1 DEF DemosInv, LastAlone, LastOk, Serving, NoRows
  <2> QED
    BY <2>2, <2>3, <2>4, <2>5 DEF DemosInv
<1> QED
  BY <1>1, AskStep, FindStep, ClearStep, UpsertStep, SeedStep DEF DemosNext

\* A seed that answers without an error has made the whole demo unless another request has
\* deleted its eval run, and the last request, when it was served alone, leaves the demo as
\* it was asked for, whatever overlapping requests before it have left behind.
THEOREM DemosKept == DemosSpec => [](DemosTypeOK /\ DemosAsAsked)
<1>1. DemosInv => DemosAsAsked
  <2> SUFFICES ASSUME DemosInv, NEW r \in DemoRequest, demoReq[r].pc = "ok"
               PROVE  LET seeded == demoReq[r].asked = "seed" IN
                      /\ seeded => Whole(r) \/ rows[r].evalRun = "none"
                      /\ latest = {r} /\ demoReq[r].alone =>
                           /\ \A o \in DemoRequest \ {r} : rows[o] = NoRows
                           /\ IF seeded THEN Whole(r) ELSE workflow = 0
    BY DEF DemosAsAsked, DemoAt
  <2>1. MadeSoFar(demo, demoReq[r], rows[r])
    BY DEF DemosInv
  <2>2. demoReq[r].asked = "seed" => Whole(r) \/ rows[r].evalRun = "none"
    BY <2>1 DEF MadeSoFar, Whole
  <2>3. demoReq[r].asked \in {"seed", "reset"}
    BY <2>1 DEF MadeSoFar
  <2>4. ASSUME latest = {r}, demoReq[r].alone
        PROVE  /\ \A o \in DemoRequest \ {r} : rows[o] = NoRows
               /\ IF demoReq[r].asked = "seed" THEN Whole(r) ELSE workflow = 0
    <3>1. LastOk(r, demoReq[r], workflow, rows)
      BY <2>4 DEF DemosInv, LastAlone
    <3>2. CASE demoReq[r].asked = "seed"
      BY <2>2, <3>1, <3>2 DEF LastOk
    <3>3. CASE demoReq[r].asked = "reset"
      BY <3>1, <3>3 DEF LastOk
    <3> QED
      BY <2>3, <3>2, <3>3
  <2> QED
    BY <2>2, <2>4
<1>2. DemosInv => DemosTypeOK
  BY DemosTypesAre DEF DemosInv
<1> QED
  BY <1>1, <1>2, DemosInit1, DemosStep, PTL DEF DemosSpec
================================================================================
