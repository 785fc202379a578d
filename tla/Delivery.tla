------------------------------ MODULE Delivery ------------------------------
(***************************************************************************)
(* The send path of one channel: overlapping `send_due` runs               *)
(* (send_service) deliver its waiting messages (delivery_service) under a  *)
(* daily cap kept in Redis (counter_service), with every status written by *)
(* compare-and-set (message_service).                                      *)
(*                                                                         *)
(* A run is a sequence of database, Redis and SMTP calls; each call is one *)
(* step, and the steps of runs, of the operator's requests, of ingested    *)
(* delivery reports and of the clock interleave freely.  What a run read   *)
(* earlier it keeps in `frame`, and acts on even when the row has moved.   *)
(*                                                                         *)
(* One channel and one channel day.  The due order is abstracted to a set, *)
(* the policy's windows and spread quota to any budget up to what is left  *)
(* under the cap, and a sequence to whether it blocks the follow-ups of a  *)
(* thread.                                                                 *)
(***************************************************************************)
EXTENDS Integers, FiniteSets, Lifecycle

CONSTANTS
  Messages,       \* the outbound messages of the channel
  Threads,        \* their threads; a thread has one recipient
  ThreadOf,       \* [Messages -> Threads]
  FollowUps,      \* the messages that carry a sequence step
  Runs,           \* the worker processes that can execute send_due
  DailyCap,       \* SendPolicy.daily_cap
  MaxAttempts,    \* COMMUNICATOR_SMTP_MAX_ATTEMPTS
  InProduction,   \* ENVIRONMENT == "production"
  Configurations, \* the channel configurations an operator submits
  AlertsRaise,    \* whether the cache behind notify_once can raise
  MaxFaults,      \* bound: crashes, database and Redis errors in a behaviour
  None            \* no message, no mailbox

Modes == {"dry_run", "sandbox", "live"}
Mailboxes == {c.mailbox : c \in Configurations}
Configuration == [mode : Modes, live_enabled : BOOLEAN, mailbox : Mailboxes]

ASSUME RunsAssumption == IsFiniteSet(Runs)
ASSUME ThreadsAssumption == ThreadOf \in [Messages -> Threads]
ASSUME NumbersAssumption ==
  DailyCap \in Nat /\ MaxAttempts \in Nat \ {0} /\ MaxFaults \in Nat
ASSUME FlagsAssumption == InProduction \in BOOLEAN /\ AlertsRaise \in BOOLEAN
ASSUME ConfigurationsAssumption == Configurations \subseteq Configuration
ASSUME NoneAssumption == None \notin Messages

VARIABLES
  \* rows of Message
  status,      \* Message.status
  attempts,    \* Message.send_attempts
  retried,     \* Message.bounce_retry_at is set
  due,         \* Message.scheduled_at is empty or reached
  stale,       \* Message.send_attempted_at is older than the stale limit
  \* other rows, and Redis
  suppressed,  \* threads whose recipient is suppressed
  halted,      \* threads that got a reply or whose sequence does not run
  channel,     \* mode, live_enabled, sandbox_mailbox
  counter,     \* deliveries counted on the channel day
  \* local state of each run
  pc,          \* the call it makes next
  todo,        \* the rows it listed and has not reached
  asRetry,     \* those of them it listed with bounce_retry_at set
  budget,      \* deliveries it may still make
  msg,         \* the message it is delivering
  place,       \* it holds a place under the cap
  frame,       \* what it has read for the delivery
  \* faults and history
  faults,      \* crashes and errors so far
  copies,      \* copies of each message the mail server accepted
  lost,        \* those of them whose acceptance was reported as an error
  counted      \* accepted and reported copies of runs that held a place

rows == <<status, attempts, retried, due, stale>>
thread == <<suppressed, halted>>
local == <<pc, todo, asRetry, budget, msg, place, frame>>
history == <<copies, lost, counted>>
vars == <<rows, thread, channel, counter, local, faults, history>>

\* Steps by what they leave alone besides what they say.
NoEffect == UNCHANGED <<rows, thread, channel, counter, faults, history>>
NoRowEffect == UNCHANGED <<rows, thread, channel, history>>
OnlyOutcome == UNCHANGED <<retried, due, stale, suppressed, channel, counter, history>>
NotSending == UNCHANGED <<attempts, stale, counter, faults, history>>

-----------------------------------------------------------------------------
\* The local state of a run.

Unread == [mode |-> "unread", live_enabled |-> FALSE, mailbox |-> None]

\* from: status read before the claim; seen: channel read before the claim (for
\* the mail) or at the start of the run; refusal: verdict computed before the
\* claim; claimed, tries: channel and send_attempts re-read after the claim;
\* reply: what SMTP reported; since (history): the channel configurations in
\* force since the claim.
NoFrame == [from |-> "approved", seen |-> Unread, refusal |-> "none",
            claimed |-> Unread, tries |-> 0, reply |-> "none", since |-> {}]

Go(r, label) == pc' = [pc EXCEPT ![r] = label]

\* The next call of the same delivery, with what the last one read.
Continue(r, label, f) ==
  /\ Go(r, label)
  /\ frame' = [frame EXCEPT ![r] = f]
  /\ UNCHANGED <<todo, asRetry, budget, msg, place>>

\* The delivery returns without having sent: its place is given back next.
Return(r) == Continue(r, "giveback", NoFrame)

\* The loop goes on with the next listed message, nothing left to give back.
NextListed(r) ==
  /\ Go(r, "next")
  /\ msg' = [msg EXCEPT ![r] = None]
  /\ place' = [place EXCEPT ![r] = FALSE]
  /\ frame' = [frame EXCEPT ![r] = NoFrame]
  /\ UNCHANGED <<todo, asRetry>>

\* The run is over: its list is done, an exception left it, or its process died.
Stop(r) ==
  /\ Go(r, "idle")
  /\ todo' = [todo EXCEPT ![r] = {}]
  /\ asRetry' = [asRetry EXCEPT ![r] = {}]
  /\ budget' = [budget EXCEPT ![r] = 0]
  /\ msg' = [msg EXCEPT ![r] = None]
  /\ place' = [place EXCEPT ![r] = FALSE]
  /\ frame' = [frame EXCEPT ![r] = NoFrame]

\* The run has claimed its message and not yet recorded or released it.
InFlight(r) == pc[r] \in {"reread", "gate", "smtp", "record"}

Fault == faults < MaxFaults /\ faults' = faults + 1

-----------------------------------------------------------------------------
\* Conditional updates of the stored status.

\* Mutation: the row is written whatever became of it since it was read.
BlindSet(m, old, new) == status' = [status EXCEPT ![m] = new]

\* transition(): the row is written only if it still has the status read.
CompareAndSet(m, old, new) ==
  /\ status[m] = old
  /\ status' = [status EXCEPT ![m] = new]

\* release_claim(): UPDATE ... WHERE status = 'sending', whoever claimed it.
Release(r) ==
  status' = [status EXCEPT ![msg[r]] = IF @ = "sending" THEN frame[r].from ELSE @]

\* _finish(): the outcome, and the sequence of a follow-up it stops.
Finish(m, outcome) ==
  /\ CompareAndSet(m, "sending", outcome)
  /\ halted' = IF m \in FollowUps /\ outcome \in {"failed", "suppressed"}
               THEN halted \cup {ThreadOf[m]} ELSE halted

-----------------------------------------------------------------------------
\* The start of a run: stale claims, the live gate, the budget, the due list.

LiveAllowed(c) == InProduction /\ c.live_enabled /\ c.mode = "live"
LiveRefused(c) == c.mode = "live" /\ ~LiveAllowed(c)

Start(r) ==
  /\ pc[r] = "idle"
  /\ Continue(r, "stale", [NoFrame EXCEPT !.seen = channel])
  /\ NoEffect

\* Mutation: only claims that were tried before are swept.
StaleTried == {m \in Messages : status[m] = "sending" /\ stale[m] /\ attempts[m] > 0}

StaleClaims == {m \in Messages : status[m] = "sending" /\ stale[m]}

\* Mutation: a stale claim is sent again.
StaleRetried == "scheduled"

\* The outcome of a claim whose own outcome is unknown.
StaleOutcome == "failed"

ListStale(r) ==
  /\ pc[r] = "stale"
  /\ Go(r, "sweep")
  /\ todo' = [todo EXCEPT ![r] = StaleClaims]
  /\ UNCHANGED <<asRetry, budget, msg, place, frame>> /\ NoEffect

\* A listed row that moved on raises InvalidTransitionError and is passed over.
Sweep(r) ==
  /\ pc[r] = "sweep"
  /\ \E m \in todo[r] :
       /\ todo' = [todo EXCEPT ![r] = @ \ {m}]
       /\ \/ Finish(m, StaleOutcome)
          \/ status[m] /= "sending" /\ UNCHANGED <<status, halted>>
  /\ UNCHANGED <<attempts, pc, asRetry, budget, msg, place, frame, faults>>
  /\ OnlyOutcome

\* A live channel that may not send ends its run here, after the sweep.
RunGate(r) ==
  /\ pc[r] = "sweep" /\ todo[r] = {}
  /\ IF LiveRefused(frame[r].seen) THEN Stop(r) ELSE Continue(r, "budget", NoFrame)
  /\ NoEffect

\* Closed hours leave 0 and the spread quota is at most the cap.
PlanBudget(r) ==
  /\ pc[r] = "budget"
  /\ Go(r, "list")
  /\ \E b \in 0..DailyCap :
       /\ b = 0 \/ b <= DailyCap - counter
       /\ budget' = [budget EXCEPT ![r] = b]
  /\ UNCHANGED <<todo, asRetry, msg, place, frame>> /\ NoEffect

Waiting == {m \in Messages : status[m] \in DueStatuses /\ due[m]}

ListDue(r) ==
  /\ pc[r] = "list"
  /\ Go(r, "next")
  /\ todo' = [todo EXCEPT ![r] = Waiting]
  /\ asRetry' = [asRetry EXCEPT ![r] = {m \in Waiting : retried[m]}]
  /\ UNCHANGED <<budget, msg, place, frame>> /\ NoEffect

\* Mutation: one delivery too many.
BudgetNotNegative(r) == budget[r] >= 0

BudgetLeft(r) == budget[r] > 0

\* A message listed as a soft-bounce retry takes no place under the cap.
TakeNext(r) ==
  /\ pc[r] = "next" /\ BudgetLeft(r)
  /\ \E m \in todo[r] :
       /\ Go(r, IF m \in asRetry[r] THEN "read" ELSE "reserve")
       /\ msg' = [msg EXCEPT ![r] = m]
       /\ todo' = [todo EXCEPT ![r] = @ \ {m}]
       /\ asRetry' = [asRetry EXCEPT ![r] = @ \ {m}]
  /\ UNCHANGED <<budget, place, frame>> /\ NoEffect

\* With the budget used up every message left on the list is deferred.
EndOfList(r) ==
  /\ pc[r] = "next"
  /\ todo[r] = {} \/ ~BudgetLeft(r)
  /\ Stop(r) /\ NoEffect

-----------------------------------------------------------------------------
\* A place under the daily cap: INCR, and DECR when the count went over.

\* Mutation: the count is compared as it was before the INCR.
FitsBefore(n) == n - 1 <= DailyCap

Fits(n) == n <= DailyCap

Reserve(r) ==
  /\ pc[r] = "reserve"
  /\ counter' = counter + 1
  /\ Go(r, IF Fits(counter + 1) THEN "read" ELSE "undo")
  /\ place' = [place EXCEPT ![r] = Fits(counter + 1)]
  /\ UNCHANGED <<todo, asRetry, budget, msg, frame, faults>> /\ NoRowEffect

UndoReserve(r) ==
  /\ pc[r] = "undo"
  /\ counter' = counter - 1
  /\ NextListed(r)
  /\ UNCHANGED <<budget, faults>> /\ NoRowEffect

\* A Redis error while giving the place back is logged, and the place is gone.
GivePlaceBack(r) ==
  \/ counter' = (IF place[r] THEN counter - 1 ELSE counter) /\ UNCHANGED faults
  \/ place[r] /\ Fault /\ UNCHANGED counter

GiveBack(r) ==
  /\ pc[r] = "giveback"
  /\ GivePlaceBack(r)
  /\ NextListed(r)
  /\ UNCHANGED budget /\ NoRowEffect

\* SmtpNotConfiguredError gives the place back on its way out of the run.
GiveBackAndStop(r) ==
  /\ pc[r] = "unconfigured"
  /\ GivePlaceBack(r)
  /\ Stop(r) /\ NoRowEffect

-----------------------------------------------------------------------------
\* deliver(), up to SMTP.

Refusal(m) ==
  IF ThreadOf[m] \in suppressed THEN "suppressed"
  ELSE IF m \in FollowUps /\ ThreadOf[m] \in halted THEN "skipped" ELSE "none"

Read(r) ==
  /\ pc[r] = "read"
  /\ IF status[msg[r]] \in DueStatuses
     THEN Continue(r, "check", [frame[r] EXCEPT !.from = status[msg[r]], !.seen = channel])
     ELSE Return(r)
  /\ NoEffect

\* The refusal, then the mail unless there is a refusal or nothing is mailed.
Check(r) ==
  /\ pc[r] = "check"
  /\ \/ Continue(r, "claim", [frame[r] EXCEPT !.refusal = Refusal(msg[r])])
     \/ /\ Refusal(msg[r]) = "none" /\ frame[r].seen.mode /= "dry_run"
        /\ Continue(r, "unconfigured", NoFrame)
  /\ NoEffect

Claim(r) ==
  /\ pc[r] = "claim"
  /\ CompareAndSet(msg[r], frame[r].from, "sending")
  /\ stale' = [stale EXCEPT ![msg[r]] = FALSE]
  /\ Continue(r, "reread", [frame[r] EXCEPT !.since = {channel}])
  /\ UNCHANGED <<attempts, retried, due, thread, channel, counter, faults, history>>

ClaimLost(r) ==
  /\ pc[r] = "claim" /\ status[msg[r]] /= frame[r].from
  /\ Return(r) /\ NoEffect

Reread(r) ==
  /\ pc[r] = "reread"
  /\ Continue(r, "gate", [frame[r] EXCEPT !.claimed = channel, !.tries = attempts[msg[r]]])
  /\ NoEffect

\* _before_smtp decides on the channel re-read with the claim and, only then,
\* on the refusal computed before it.
Route(c) == <<c.mode, c.mailbox>>

\* Mutation: the mail built for the channel read first is sent regardless.
VerdictAsBuilt(f) ==
  IF LiveRefused(f.claimed) THEN "live_refused"
  ELSE IF f.refusal /= "none" THEN f.refusal
  ELSE IF f.claimed.mode = "dry_run" THEN "would_send" ELSE "send"

Verdict(f) ==
  IF LiveRefused(f.claimed) THEN "live_refused"
  ELSE IF Route(f.claimed) /= Route(f.seen) THEN "rerouted"
  ELSE IF f.refusal /= "none" THEN f.refusal
  ELSE IF f.claimed.mode = "dry_run" THEN "would_send" ELSE "send"

GateDefers(r) ==
  /\ pc[r] = "gate"
  /\ Release(r)
  /\ \/ Verdict(frame[r]) = "live_refused" /\ Continue(r, "alert", frame[r])
     \/ Verdict(frame[r]) = "rerouted" /\ Return(r)
  /\ UNCHANGED <<attempts, halted, faults>> /\ OnlyOutcome

\* refuse_live: when the alert raises, the handler of deliver releases the
\* message a second time and the exception ends the run.
AlertLive(r) ==
  /\ pc[r] = "alert"
  /\ \/ Return(r) /\ UNCHANGED status
     \/ AlertsRaise /\ Release(r) /\ Stop(r)
  /\ UNCHANGED <<attempts, halted, faults>> /\ OnlyOutcome

\* A message that must not be mailed gets its outcome; a row that is no longer
\* `sending` raises InvalidTransitionError, and the run ends with its place.
GateFinishes(r) ==
  /\ pc[r] = "gate" /\ Verdict(frame[r]) \in DeliveryOutcomes
  /\ \/ Finish(msg[r], Verdict(frame[r])) /\ Return(r)
     \/ status[msg[r]] /= "sending" /\ Stop(r) /\ UNCHANGED <<status, halted>>
  /\ UNCHANGED <<attempts, faults>> /\ OnlyOutcome

GateOpens(r) ==
  /\ pc[r] = "gate" /\ Verdict(frame[r]) = "send"
  /\ Continue(r, "smtp", frame[r]) /\ NoEffect

\* Any other error before SMTP releases the claim and ends the run.
GateRaises(r) ==
  /\ pc[r] = "gate"
  /\ Fault
  /\ Release(r) /\ Stop(r)
  /\ UNCHANGED <<attempts, halted>> /\ OnlyOutcome

-----------------------------------------------------------------------------
\* SMTP and the record of its outcome.

\* What mail.send() reports.  A connection that breaks after the server took
\* the message looks like a transport error: `temporary`, and a lost copy.
Transmit(r) ==
  /\ pc[r] = "smtp"
  /\ \E reply \in {"accepted", "no_recipient", "permanent", "temporary"}, taken \in BOOLEAN :
       /\ reply = "accepted" => taken
       /\ taken => reply \in {"accepted", "temporary"}
       /\ copies' = [copies EXCEPT ![msg[r]] = IF taken THEN @ + 1 ELSE @]
       /\ lost' = [lost EXCEPT ![msg[r]] = IF taken /\ reply /= "accepted" THEN @ + 1 ELSE @]
       /\ counted' = IF reply = "accepted" /\ place[r] THEN counted + 1 ELSE counted
       /\ Continue(r, "record", [frame[r] EXCEPT !.reply = reply])
  /\ UNCHANGED <<rows, thread, channel, counter, faults>>

\* Mutation: a refused message is recorded as sent.
OutcomeSilent(f) ==
  IF f.reply = "temporary" /\ f.tries + 1 < MaxAttempts THEN "scheduled" ELSE "sent"

Outcome(f) ==
  IF f.reply = "accepted" THEN "sent"
  ELSE IF f.reply = "temporary" /\ f.tries + 1 < MaxAttempts THEN "scheduled" ELSE "failed"

Record(r) ==
  LET outcome == Outcome(frame[r])
  IN  /\ pc[r] = "record"
      /\ Finish(msg[r], outcome)
      /\ attempts' = [attempts EXCEPT ![msg[r]] = frame[r].tries + 1]
      /\ \/ /\ outcome = "sent"
            /\ budget' = [budget EXCEPT ![r] = @ - 1]
            /\ NextListed(r)
         \/ outcome = "scheduled" /\ Return(r)
         \/ outcome = "failed" /\ Continue(r, "suppress", frame[r])
      /\ UNCHANGED faults /\ OnlyOutcome

\* The claim was swept or bounced meanwhile: InvalidTransitionError ends the run.
RecordTooLate(r) ==
  /\ pc[r] = "record" /\ status[msg[r]] /= "sending"
  /\ Stop(r) /\ NoEffect

\* After the failure is committed: a refused live recipient is suppressed.
SuppressRefused(r) ==
  /\ pc[r] = "suppress"
  /\ suppressed' = IF frame[r].reply = "no_recipient" /\ frame[r].claimed.mode = "live"
                   THEN suppressed \cup {ThreadOf[msg[r]]} ELSE suppressed
  /\ Return(r)
  /\ UNCHANGED <<rows, halted, channel, counter, faults, history>>

\* The process dies, or an exception nobody handles ends the run: all it held
\* is lost, a claim stays `sending` and a reserved place stays counted.
Crash(r) ==
  /\ pc[r] /= "idle"
  /\ Fault
  /\ Stop(r)
  /\ UNCHANGED <<rows, thread, channel, counter, history>>

-----------------------------------------------------------------------------
\* The rest of the system, one transaction per step.

\* review_service.accept: approved, for the next policy slot.
Accept(m) ==
  /\ CompareAndSet(m, "review_required", "approved")
  /\ \E open \in BOOLEAN : due' = [due EXCEPT ![m] = open]
  /\ UNCHANGED <<retried, thread, channel, local>> /\ NotSending

\* scheduled_at is moved to now by send_now, or the channel clock reaches it.
ComesDue(m) ==
  /\ status[m] \in DueStatuses
  /\ due' = [due EXCEPT ![m] = TRUE]
  /\ UNCHANGED <<status, retried, thread, channel, local>> /\ NotSending

\* A claim gets older than COMMUNICATOR_SENDING_STALE_MINUTES.
ClaimAges(m) ==
  /\ status[m] = "sending" /\ ~stale[m]
  /\ stale' = [stale EXCEPT ![m] = TRUE]
  /\ UNCHANGED <<status, attempts, retried, due, thread, channel, counter, local,
                 faults, history>>

HasSequence(t) == \E m \in FollowUps : ThreadOf[m] = t

\* Mutation: a bounced message fails whatever its status.
BouncedAlways(s) == "failed"

\* A delivery report names a message by the Message-ID stored when it was sent;
\* a soft-bounce retry keeps it.  A report for a row with no edge to `failed`
\* leaves its status alone, but its recipient is suppressed (live) and its
\* sequence stopped all the same.
Bounced(s) == IF Legal(s, "failed") THEN "failed" ELSE s

HardBounce(m) ==
  /\ status[m] = "sent" \/ retried[m]
  /\ status' = [status EXCEPT ![m] = Bounced(@)]
  /\ suppressed' = IF channel.mode = "live" THEN suppressed \cup {ThreadOf[m]} ELSE suppressed
  /\ halted' = IF HasSequence(ThreadOf[m]) THEN halted \cup {ThreadOf[m]} ELSE halted
  /\ UNCHANGED <<retried, due, channel, local>> /\ NotSending

\* The first soft bounce schedules one retry; the next one fails the message if
\* the retry was sent, and is ignored while the retry waits.
SoftBounce(m) ==
  /\ CompareAndSet(m, "sent", IF retried[m] THEN "failed" ELSE "scheduled")
  /\ due' = [due EXCEPT ![m] = retried[m] /\ @]
  /\ retried' = [retried EXCEPT ![m] = TRUE]
  /\ UNCHANGED <<thread, channel, local>> /\ NotSending

\* An opt-out, an operator or an erasure lists the recipient; an operator
\* removes the entry.  A reply, a pause or a stop halts the follow-ups of a
\* thread; a resumed sequence or a reopened thread lifts that.
ThreadChanges(t) ==
  /\ \/ suppressed' \in {suppressed \cup {t}, suppressed \ {t}} /\ UNCHANGED halted
     \/ /\ HasSequence(t) /\ UNCHANGED suppressed
        /\ halted' \in {halted \cup {t}, halted \ {t}}
  /\ UNCHANGED <<status, retried, due, channel, local>> /\ NotSending

Clean(c) ==
  /\ c.mode = "sandbox" => c.mailbox /= None
  /\ c.mode = "live" => c.live_enabled

SetMode(c) ==
  /\ Clean(c)
  /\ channel' = c
  /\ frame' = [r \in Runs |-> IF InFlight(r)
                THEN [frame[r] EXCEPT !.since = @ \cup {c}] ELSE frame[r]]
  /\ UNCHANGED <<status, retried, due, thread, pc, todo, asRetry, budget, msg, place>>
  /\ NotSending

-----------------------------------------------------------------------------

Init ==
  /\ status = [m \in Messages |-> "review_required"]
  /\ attempts = [m \in Messages |-> 0]
  /\ retried = [m \in Messages |-> FALSE]
  /\ due = [m \in Messages |-> FALSE]
  /\ stale = [m \in Messages |-> FALSE]
  /\ suppressed = {} /\ halted = {}
  /\ channel \in {c \in Configurations : Clean(c)}
  /\ counter = 0
  /\ pc = [r \in Runs |-> "idle"]
  /\ todo = [r \in Runs |-> {}]
  /\ asRetry = [r \in Runs |-> {}]
  /\ budget = [r \in Runs |-> 0]
  /\ msg = [r \in Runs |-> None]
  /\ place = [r \in Runs |-> FALSE]
  /\ frame = [r \in Runs |-> NoFrame]
  /\ faults = 0
  /\ copies = [m \in Messages |-> 0]
  /\ lost = [m \in Messages |-> 0]
  /\ counted = 0

RunStep(r) ==
  \/ Start(r) \/ ListStale(r) \/ Sweep(r) \/ RunGate(r) \/ PlanBudget(r)
  \/ ListDue(r) \/ TakeNext(r) \/ EndOfList(r)
  \/ Reserve(r) \/ UndoReserve(r) \/ GiveBack(r) \/ GiveBackAndStop(r)
  \/ Read(r) \/ Check(r) \/ Claim(r) \/ ClaimLost(r) \/ Reread(r)
  \/ GateDefers(r) \/ AlertLive(r) \/ GateFinishes(r) \/ GateOpens(r) \/ GateRaises(r)
  \/ Transmit(r) \/ Record(r) \/ RecordTooLate(r) \/ SuppressRefused(r)

Others ==
  \/ \E m \in Messages :
       Accept(m) \/ ComesDue(m) \/ ClaimAges(m) \/ HardBounce(m) \/ SoftBounce(m)
  \/ \E t \in Threads : ThreadChanges(t)
  \/ \E c \in Configurations : SetMode(c)

Next == (\E r \in Runs : RunStep(r) \/ Crash(r)) \/ Others

Spec == Init /\ [][Next]_vars

\* The beat keeps starting runs, a run keeps going unless it crashes (at most
\* MaxFaults times), and claims age.
LiveSpec ==
  /\ Spec
  /\ \A r \in Runs : WF_vars(RunStep(r))
  /\ \A m \in Messages : WF_vars(ClaimAges(m))
=============================================================================
