------------------------ MODULE ComparisonLifecycle ------------------------
(***************************************************************************)
(* What the API promises about one comparison, without coroutines, sweeps  *)
(* or restarts: it is submitted, starts being scored, possibly goes back   *)
(* to the queue, and settles once, either completed or failed.  The        *)
(* divergence appears when it completes and stays as it is.                *)
(***************************************************************************)
CONSTANT Comp

VARIABLES
  status,      \* the scoring_status a client polls
  divergence   \* whether divergence_score holds a value

lifecycleVars == <<status, divergence>>

Init ==
  /\ status = [c \in Comp |-> "absent"]
  /\ divergence = [c \in Comp |-> FALSE]

Submit(c) ==
  /\ status[c] = "absent"
  /\ status' = [status EXCEPT ![c] = "pending"]
  /\ UNCHANGED divergence

Start(c) ==
  /\ status[c] = "pending"
  /\ status' = [status EXCEPT ![c] = "running"]
  /\ UNCHANGED divergence

\* A restart puts an interrupted comparison back.
Requeue(c) ==
  /\ status[c] = "running"
  /\ status' = [status EXCEPT ![c] = "pending"]
  /\ UNCHANGED divergence

\* Straight from 'pending' when the request scores it itself.
Complete(c) ==
  /\ status[c] \in {"pending", "running"}
  /\ status' = [status EXCEPT ![c] = "completed"]
  /\ \E scored \in BOOLEAN : divergence' = [divergence EXCEPT ![c] = scored]

Fail(c) ==
  /\ status[c] \in {"pending", "running"}
  /\ status' = [status EXCEPT ![c] = "failed"]
  /\ UNCHANGED divergence

Delete(c) ==
  /\ status[c] \notin {"absent", "deleted"}
  /\ status' = [status EXCEPT ![c] = "deleted"]
  /\ divergence' = [divergence EXCEPT ![c] = FALSE]

Next ==
  \E c \in Comp :
    Submit(c) \/ Start(c) \/ Requeue(c) \/ Complete(c) \/ Fail(c) \/ Delete(c)

Spec == Init /\ [][Next]_lifecycleVars
=============================================================================
