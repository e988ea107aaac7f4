---------------------------- MODULE SdkRequests ------------------------------
(***************************************************************************)
(* A request of the SDK (ForkmarkClient._request in sdk/forkmark/client.py)*)
(* over a network that loses answers.  The client tries RetryAttempts      *)
(* times: after a timeout, a lost connection, 429 or 5xx it sends the      *)
(* request again, and it cannot know whether the server did what the first *)
(* one asked.                                                              *)
(***************************************************************************)
EXTENDS Naturals, FiniteSets, Sequences

CONSTANTS
  RetryAttempts,   \* _RETRY_ATTEMPTS
  MaxFaults        \* bound: attempts of one script that come to nothing

ASSUME SdkRequestsAssumption ==
  RetryAttempts \in Nat \ {0} /\ MaxFaults \in Nat

VARIABLE faults    \* attempts that came to nothing so far

\* One attempt.  On the server the request has its effect or not; the client has
\* an answer or not.  Every answer means that the effect is there.
Answered(effect, go) ==
  effect /\ go /\ UNCHANGED faults

Fault == faults < MaxFaults /\ faults' = faults + 1

\* No answer, with or without the effect: the next attempt, or the exception
\* when there is none.
NoAnswer(effect, noEffect, tries, again, raise) ==
  /\ Fault
  /\ effect \/ noEffect
  /\ IF tries + 1 < RetryAttempts THEN again ELSE raise
=============================================================================
