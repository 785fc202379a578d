-------------------- MODULE FollowUpSequencesProperties --------------------
(* What follow-up sequences guarantee. *)
EXTENDS FollowUpSequences

\* Typing; a lock is held by the transaction that is at the place that needs it.
TypeOK ==
  /\ thread \in {"open", "replied"}
  /\ row \in [step : 0..Steps, due : Dues, stop : Stops] \cup {None}
  /\ texts \in [Texts -> {"active", "inactive", "deleted"}] /\ used \subseteq Texts
  /\ messages \in Seq([step : 0..Steps,
                       status : {"waiting", "arming", "delivered", "bounced", "ended"},
                       verdict : {"none", "send", "skipped", "suppressed"}, armed : 0..Steps,
                       retried : BOOLEAN])
  /\ suppressed \in BOOLEAN
  /\ lockThread = "resume" <=> resume
  /\ \A s \in Schedulers : lockRow = s <=> sched[s].pc = "advanced"
  /\ \A r \in Replies :
       /\ lockThread = r <=> replies[r] = "answering"
       /\ lockRow = r => replies[r] = "pausing"

-----------------------------------------------------------------------------

Plan == INSTANCE FollowUpPlan WITH running <- Running

\* Overlapping schedulers, rollbacks, pauses and stale lists never schedule a
\* step twice, out of order, or for a sequence that does not run (_advance).
KeepsPlan == Plan!Spec

\* A running sequence has its next step: a due date, a follow-up that still gets
\* its outcome, or no delivery yet to count from (on_follow_up_finished); except
\* after a start that missed a delivery.
NeverStranded ==
  Running /\ row.due = "none" /\ ~missed =>
    \/ ~SomeDelivered
    \/ \E i \in DOMAIN messages : FollowUp(i) /\ messages[i].status \in {"waiting", "arming"}

\* While an opt-out is undecided the sequence runs again only by a new start,
\* also when the suspicion is ingested while a human resumes (optout_service.resume).
SuspicionHolds ==
  [][~Running /\ Running' /\ (\E r \in Replies : replies'[r] = "undecided") => starting # "idle"]_vars

\* A reply or a confirmed opt-out ends a sequence for good: no resume, delivery
\* or other stop brings it back or writes another reason over it; only a new
\* start does (stop_sequence, resume_sequence, _arm).
ReplyIsFinal ==
  [][row # None /\ row.stop \in {"replied", "optout"} =>
       row'.stop = row.stop \/ starting # "idle"]_vars

\* A text that a follow-up used is never deleted (remove_text against the
\* deferred foreign key of the scheduler).
UsedTextKept == \A x \in used : texts[x] # "deleted"
=============================================================================
