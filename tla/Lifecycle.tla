----------------------------- MODULE Lifecycle -----------------------------
(***************************************************************************)
(* The statuses of an outbound message and the legal edges between them    *)
(* (enums.py).  Constant level: the modules of the services that change a  *)
(* status extend this one.                                                 *)
(***************************************************************************)

Statuses ==
  {"draft", "review_required", "approved", "scheduled", "sending", "sent",
   "failed", "suppressed", "would_send", "rejected", "superseded", "skipped"}

\* What a beat run may pick up.
DueStatuses == {"approved", "scheduled"}

\* What a delivery may end in.
DeliveryOutcomes == {"sent", "failed", "suppressed", "would_send", "skipped"}

\* The edges that `transition` lets through.  A status that is the source of
\* none is terminal; recover_draft leaves `failed` outside this table.
Legal(old, new) ==
  \/ old = "draft" /\ new \in {"review_required", "approved", "failed",
                               "rejected", "superseded"}
  \/ old = "review_required" /\ new \in {"approved", "rejected", "superseded"}
  \/ old = "approved" /\ new \in {"sending", "scheduled"}
  \/ old = "scheduled" /\ new = "sending"
  \/ old = "sending" /\ new \in DeliveryOutcomes \cup {"scheduled"}
  \/ old = "sent" /\ new \in {"failed", "scheduled"}
=============================================================================
