------------------------- MODULE DeliveryProperties -------------------------
(***************************************************************************)
(* What the send path guarantees.                                          *)
(***************************************************************************)
EXTENDS Delivery

Labels ==
  {"idle", "stale", "sweep", "budget", "list", "next", "reserve", "undo",
   "giveback", "unconfigured", "read", "check", "claim", "reread", "gate",
   "alert", "smtp", "record", "suppress"}

Replies == {"none", "accepted", "no_recipient", "permanent", "temporary"}

Frame ==
  [from : DueStatuses, seen : Configuration \cup {Unread},
   refusal : {"none", "suppressed", "skipped"},
   claimed : Configuration \cup {Unread}, tries : Nat, reply : Replies,
   since : SUBSET Configuration]

\* Where a run has a message at hand.
Delivering ==
  {"reserve", "undo", "giveback", "read", "check", "claim", "reread", "gate",
   "alert", "smtp", "record", "suppress"}

\* Where the delivery at hand may still be counted as sent.
WithinBudget ==
  {"reserve", "undo", "read", "check", "claim", "reread", "gate", "smtp", "record"}

RowsTyped ==
  /\ status \in [Messages -> Statuses]
  /\ attempts \in [Messages -> Nat]
  /\ retried \in [Messages -> BOOLEAN]
  /\ due \in [Messages -> BOOLEAN]
  /\ stale \in [Messages -> BOOLEAN]

SharedTyped ==
  /\ suppressed \subseteq Threads /\ halted \subseteq Threads
  /\ channel \in Configuration
  /\ counter \in Int

RunsTyped ==
  /\ pc \in [Runs -> Labels]
  /\ todo \in [Runs -> SUBSET Messages]
  /\ asRetry \in [Runs -> SUBSET Messages]
  /\ budget \in [Runs -> Nat]
  /\ msg \in [Runs -> Messages \cup {None}]
  /\ place \in [Runs -> BOOLEAN]
  /\ frame \in [Runs -> Frame]

HistoryTyped ==
  /\ faults \in 0..MaxFaults
  /\ copies \in [Messages -> Nat] /\ lost \in [Messages -> Nat]
  /\ counted \in Nat

\* Every variable has its type, and a run that delivers has a message and is
\* within its budget (run_budget, _send_channel).
TypeOK ==
  /\ RowsTyped /\ SharedTyped /\ RunsTyped /\ HistoryTyped
  /\ \A r \in Runs : pc[r] \in Delivering => msg[r] \in Messages
  /\ \A r \in Runs : pc[r] \in WithinBudget => budget[r] > 0

-----------------------------------------------------------------------------

\* Two runs never hold the same message between claim and outcome, whatever is
\* swept, released or bounced under them (claim_for_sending, release_claim,
\* fail_stale_sending).
ClaimExclusive ==
  \A r1, r2 \in Runs :
    InFlight(r1) /\ InFlight(r2) /\ msg[r1] = msg[r2] => r1 = r2

\* Copies the server took and reported, and how many there may be: a copy whose
\* reply was lost counts as never handed over, because the code retries it.
Handed(m) == copies[m] - lost[m]
Allowed(m) == IF retried[m] THEN 2 ELSE 1

\* Send-once (delivery_service): no message is handed to the mail server twice;
\* a soft bounce allows one more copy.
SendsOnce == \A m \in Messages : Handed(m) <= Allowed(m)

Promise == INSTANCE SendOnce WITH
  handed <- [m \in Messages |-> Handed(m)], allowed <- [m \in Messages |-> Allowed(m)]

\* The send path implements SendOnce: besides the bound, a second copy becomes
\* possible only through a bounce of the first (deliver, fail_stale_sending,
\* _soft_bounce).
KeepsPromise == Promise!Spec

\* The stored outcome tells what happened: `sent` means that the copy allowed
\* last was taken, and a message that was refused, skipped or only would have
\* been sent has not left (again) (_finish, _send).
OutcomeTruthful ==
  \A m \in Messages :
    /\ status[m] = "sent" => Handed(m) = Allowed(m)
    /\ status[m] \in {"suppressed", "skipped", "would_send"} => Handed(m) < Allowed(m)

\* Overlapping runs never have more messages taken in a day than the cap,
\* retries apart, through crashes and lost releases (counter_service.reserve).
CapRespected == counted <= DailyCap

\* A mail goes only where the channel pointed, and was allowed to send, at the
\* claim or later: a mode, mailbox or live flag changed before the claim is never
\* ignored (_before_smtp on the channel re-read with the claim).
MailedAsConfigured ==
  \A r \in Runs : pc[r] = "smtp" =>
    \E c \in frame[r].since :
      Route(c) = Route(frame[r].seen) /\ c.mode /= "dry_run" /\ ~LiveRefused(c)

\* A status moves along an edge of the table, or a claim is undone; and a message
\* goes back from `sent` to `scheduled` at most once (transition, release_claim,
\* _transition_logged).
StatusMoves ==
  [][\A m \in Messages : status'[m] /= status[m] =>
       /\ \/ Legal(status[m], status'[m])
          \/ status[m] = "sending" /\ status'[m] = "approved"
       /\ status[m] = "sent" /\ status'[m] = "scheduled" => ~retried[m]]_vars

\* No claim stays without an outcome: a run that died with it is found by the
\* sweep of a later run (fail_stale_sending), also while the channel may not send.
ClaimResolved ==
  \A m \in Messages : status[m] = "sending" ~> status[m] /= "sending"

-----------------------------------------------------------------------------
\* What the documentation says and the code does not keep.

\* send_service: a place is given back "unless the message was sent" - also by a
\* run that puts its claimed message back and ends (_deliver_within_cap).
ReleasedPlaceReturned ==
  [][\A r \in Runs :
       /\ place[r] /\ ~place'[r]
       /\ status[msg[r]] = "sending" /\ status'[msg[r]] \in DueStatuses
       => counter' = counter - 1]_vars

\* inbound_service: a soft bounce "schedules one retry after
\* COMMUNICATOR_SOFT_BOUNCE_RETRY_H" - the retry does not leave before.
RetryWaits ==
  [][\A m \in Messages : copies'[m] > copies[m] /\ retried[m] => due[m]]_vars
=============================================================================
