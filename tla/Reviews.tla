------------------------------ MODULE Reviews --------------------------------
(***************************************************************************)
(* Review assignments (core/store_impl/collaboration.py, backend/routes/   *)
(* collaboration.py).  comparisons.review_status follows whichever         *)
(* assignment of the comparison was written last.  Assigning a whole eval  *)
(* run is one transaction that reads and one for each comparison.          *)
(*                                                                         *)
(* An assignment and a change of its status write the comparison's row in  *)
(* the same transaction and hold its lock until they commit: each is one   *)
(* step.  Reviewers, notes and comments are left out.                      *)
(***************************************************************************)
EXTENDS Server, Sequences

CONSTANTS
  Comparison,      \* the comparisons of an eval run
  MaxAssignments   \* bound: assignments ever made

ASSUME ReviewsAssumption ==
  /\ IsFiniteSet(Comparison)
  /\ MaxAssignments \in Nat

VARIABLES
  review,       \* comparisons.review_status
  assignments,  \* rows of review_assignments, in the order they were made
  reviewReq     \* the threads

reviewVars == <<review, assignments, reviewReq>>

-----------------------------------------------------------------------------

AssignmentStatus == {"pending", "in_review", "completed", "skipped"}

ReviewStatus == {"pending", "assigned", "in_review", "reviewed", "skipped"}

ReviewsTypeOK ==
  /\ review \in [Comparison -> ReviewStatus \union {"deleted"}]
  /\ assignments \in Seq([of: Comparison, status: AssignmentStatus])
  /\ Len(assignments) <= MaxAssignments
  /\ reviewReq \in [Thread -> {Idle} \union [pc: {"bulk"}, todo: SUBSET Comparison]
                                \union [pc: {"assign"}, of: Comparison]
                                \union [pc: {"mark"}, of: Comparison]]

ReviewsInit ==
  /\ review = [c \in Comparison |-> "pending"]
  /\ assignments = <<>>
  /\ reviewReq = [t \in Thread |-> Idle]

Existing == {c \in Comparison : review[c] # "deleted"}

\* No foreign key: an assignment may be made for, and stay with, a comparison
\* that is gone; an UPDATE of its row then changes nothing.
SetReview(c, status) ==
  review' = IF c \in Existing THEN [review EXCEPT ![c] = status] ELSE review

-----------------------------------------------------------------------------

\* Faulty: the comparison is marked first, and assigned by a later transaction.
MarkThenAssign(t, c) ==
  /\ Len(assignments) < MaxAssignments
  /\ SetReview(c, "assigned")
  /\ reviewReq' = [reviewReq EXCEPT ![t] = [pc |-> "mark", of |-> c]]
  /\ UNCHANGED assignments

\* assign_review: a new pending assignment, whatever the comparison's status was.
AssignReview(t, c) ==
  /\ Len(assignments) < MaxAssignments
  /\ assignments' = Append(assignments, [of |-> c, status |-> "pending"])
  /\ SetReview(c, "assigned")
  /\ reviewReq' = [reviewReq EXCEPT ![t] =
       IF @.pc = "bulk" /\ @.todo # {c}
       THEN [pc |-> "bulk", todo |-> @.todo \ {c}] ELSE Idle]

\* The route looks for the comparison in a transaction of its own.
RequestAssign(t, c) ==
  /\ reviewReq[t] = Idle
  /\ c \in Existing
  /\ reviewReq' = [reviewReq EXCEPT ![t] = [pc |-> "assign", of |-> c]]
  /\ UNCHANGED <<review, assignments>>

AssignOne(t) ==
  /\ At(reviewReq, t, "assign")
  /\ AssignReview(t, reviewReq[t].of)

\* bulk_assign_reviews lists what is pending ...
ListPending(t) ==
  LET pending == {c \in Comparison : review[c] = "pending"} IN
  /\ reviewReq[t] = Idle
  /\ pending # {}
  /\ reviewReq' = [reviewReq EXCEPT ![t] = [pc |-> "bulk", todo |-> pending]]
  /\ UNCHANGED <<review, assignments>>

\* ... and assigns one after another, also those that were assigned meanwhile.
AssignNext(t, c) ==
  /\ At(reviewReq, t, "bulk")
  /\ c \in reviewReq[t].todo
  /\ AssignReview(t, c)

\* The review_status that an assignment's new status is translated to.
Mirror(status) == IF status = "completed" THEN "reviewed" ELSE status

\* update_assignment_status: any status may follow any other.
UpdateAssignment(i, status) ==
  /\ assignments' = [assignments EXCEPT ![i].status = status]
  /\ SetReview(assignments[i].of, Mirror(status))
  /\ UNCHANGED reviewReq

\* The comparison goes with its workflow, the assignments stay.
DeleteReviewed(c) ==
  /\ review' = [review EXCEPT ![c] = "deleted"]
  /\ UNCHANGED <<assignments, reviewReq>>

\* The request fails or the process dies between two of its transactions.
AbandonReview(t) ==
  /\ reviewReq[t] # Idle
  /\ reviewReq' = [reviewReq EXCEPT ![t] = Idle]
  /\ UNCHANGED <<review, assignments>>

ReviewsNext ==
  \/ \E t \in Thread :
       \/ AssignOne(t) \/ ListPending(t) \/ AbandonReview(t)
       \/ \E c \in Comparison : RequestAssign(t, c) \/ AssignNext(t, c)
  \/ \E i \in DOMAIN assignments, status \in AssignmentStatus :
       UpdateAssignment(i, status)
  \/ \E c \in Comparison : DeleteReviewed(c)

ReviewsSpec == ReviewsInit /\ [][ReviewsNext]_reviewVars

-----------------------------------------------------------------------------

\* get_review_queue of all reviewers together; the join drops comparisons that
\* are gone.
Queue ==
  {i \in DOMAIN assignments :
     assignments[i].of \in Existing /\ assignments[i].status \in {"pending", "in_review"}}

\* A comparison that nobody has reviewed or skipped is in the queue of a reviewer,
\* or left for the next bulk assignment: overlapping and interrupted assignments
\* lose none.
NothingForgotten ==
  \A c \in Existing :
    \/ review[c] \in {"pending", "reviewed", "skipped"}
    \/ \E i \in Queue : assignments[i].of = c
=============================================================================
