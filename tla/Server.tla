------------------------------- MODULE Server --------------------------------
(***************************************************************************)
(* What the parts of the server have in common: FastAPI runs a handler in  *)
(* a thread of its own, and a thread serves one request after another.     *)
(***************************************************************************)
EXTENDS Naturals, FiniteSets

CONSTANT Thread   \* threads that serve requests

ASSUME ServerAssumption == IsFiniteSet(Thread)

\* A thread without a request.
Idle == [pc |-> "idle"]

\* The next statement of a thread that reads or writes something shared.
At(threads, t, pc) == threads[t].pc = pc
=============================================================================
