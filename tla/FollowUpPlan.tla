---------------------------- MODULE FollowUpPlan ----------------------------
(***************************************************************************)
(* What a follow-up sequence promises to a thread: after each start its    *)
(* steps are scheduled one by one, in their order, each at most once, and  *)
(* only while the sequence runs.                                           *)
(***************************************************************************)
EXTENDS Integers, Sequences

CONSTANT Steps   \* number of steps of the sequence

VARIABLES
  plan,     \* the steps scheduled since the last start
  running   \* the sequence runs

Init == plan = <<>> /\ running = FALSE

Start == plan' = <<>> /\ running' = TRUE

\* The next step; a follow-up that cannot be written stops the sequence.
Schedule ==
  /\ running /\ Len(plan) < Steps
  /\ plan' = Append(plan, Len(plan) + 1)
  /\ running' \in BOOLEAN

\* A reply, a failure or the end stops it; a human resumes a paused one.
StopOrResume == running' = ~running /\ UNCHANGED plan

Next == Start \/ Schedule \/ StopOrResume

Spec == Init /\ [][Next]_<<plan, running>>
=============================================================================
