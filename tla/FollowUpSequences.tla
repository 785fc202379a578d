------------------------- MODULE FollowUpSequences -------------------------
(***************************************************************************)
(* The follow-up sequence of one thread (sequence_service): overlapping    *)
(* runs of `schedule_follow_ups` create the next follow-up, deliveries arm *)
(* the sequence again, replies and bounces (inbound_service) stop it, and  *)
(* a human decides on a suspected opt-out and resumes it (optout_service). *)
(*                                                                         *)
(* PostgreSQL runs the transactions with READ COMMITTED: a transaction     *)
(* reads what is committed when it reads, and its first write of a row     *)
(* locks that row until it commits.  A step here is a read kept for a      *)
(* later write, the first lock of a transaction, or a transaction's        *)
(* remaining writes with its commit.                                       *)
(*                                                                         *)
(* The sequence stays active, and the days between two steps are any time. *)
(* Nothing in the repository closes a thread, so a thread is open or       *)
(* replied.                                                                *)
(***************************************************************************)
EXTENDS Integers, Sequences, FiniteSets

CONSTANTS
  Steps,       \* number of steps of the sequence
  Texts,       \* its text pool
  Schedulers,  \* the processes that can execute schedule_follow_ups
  Replies,     \* the mails that can be ingested for the thread
  MaxMessages, \* bound: messages of the thread
  MaxStarts,   \* bound: calls of start_sequence
  None         \* no row, no holder of a lock, no text

\* stop_reason, "running" for none; nothing writes `manual`.
Stops == {"running", "paused", "replied", "optout", "bounce", "failed", "suppressed", "finished"}

\* next_due_at: none, in the future, or reached
Dues == {"none", "later", "reached"}

ASSUME BoundsAssumption ==
  Steps \in Nat \ {0} /\ MaxMessages \in Nat /\ MaxStarts \in Nat
ASSUME NoneAssumption ==
  None \notin Texts \cup Schedulers \cup Replies \cup {"resume"} \cup
              [step : Nat, due : Dues, stop : Stops]
ASSUME HoldersAssumption ==
  Schedulers \cap Replies = {} /\ "resume" \notin Schedulers \cup Replies

VARIABLES
  thread,     \* Thread.status
  row,        \* ThreadSequenceState, None before the first start
  texts,      \* TextPool: active, inactive or deleted
  used,       \* ThreadPoolUsage: the texts used in the thread
  messages,   \* the messages of the thread; the first one opens it
  replies,    \* what became of each mail
  suppressed, \* the recipient is on the suppression list
  \* transactions at work
  lockThread, \* who holds the row of the thread
  lockRow,    \* who holds the row of its sequence state
  removing,   \* remove_text: the locked text and whether a usage was found
  sched,      \* schedule_follow_up, per process
  resume,     \* resume has locked the thread and read a paused sequence
  starting,   \* start_sequence has read whether a message was delivered
  \* bounds and history
  starts,
  plan,       \* the steps scheduled since the last start
  missed      \* a start did not see the delivery that came before its write

rows == <<thread, row, texts, used, messages, replies, suppressed>>
locks == <<lockThread, lockRow>>
work == <<removing, sched, resume, starting>>
history == <<starts, plan, missed>>
vars == <<rows, locks, work, history>>

-----------------------------------------------------------------------------
\* The rows.

State(step, due, stop) == [step |-> step, due |-> due, stop |-> stop]
Running == row # None /\ row.stop = "running"

\* What stop_sequence writes: a running or a paused sequence.
Active == row # None /\ row.stop \in {"running", "paused"}

\* An UPDATE that matches the row waits for its lock.
StopPossible == Active => lockRow = None

\* Mutation: a stop is written over the reason of an earlier one.
StoppedAnyway(reason) == IF row = None THEN row ELSE State(row.step, "none", reason)

\* stop_sequence: an already stopped sequence keeps its reason.
Stopped(reason) == IF Active THEN State(row.step, "none", reason) ELSE row

\* _arm on a sequence that runs at `step`: the next due date, or `finished`.
Armed(step) ==
  IF step >= Steps THEN Stopped("finished") ELSE State(row.step, "later", row.stop)

NewMessage(step) ==
  [step |-> step, status |-> "waiting", verdict |-> "none", armed |-> 0, retried |-> FALSE]

\* A message with its outcome; `bounced` failed after it had left.
Settled(m, status) ==
  [NewMessage(m.step) EXCEPT !.status = status, !.retried = m.retried /\ status # "bounced"]

SomeDelivered == \E i \in DOMAIN messages : messages[i].status = "delivered"

Undecided(r) == replies[r] = "undecided"

\* Steps by what they leave alone.
OnlyPlanned == UNCHANGED <<starts, plan, missed>>
OnlyMessage == UNCHANGED <<thread, texts, used, replies, suppressed, locks, work>>
OnlyReply == UNCHANGED <<texts, used, messages, work, history>>

-----------------------------------------------------------------------------
\* start_sequence: what it read of the deliveries decides the first due date.

StartReads ==
  /\ starting = "idle" /\ starts < MaxStarts
  /\ starting' = IF SomeDelivered THEN "delivered" ELSE "none"
  /\ starts' = starts + 1
  /\ UNCHANGED <<rows, locks, removing, sched, resume, plan, missed>>

StartWrites ==
  /\ starting # "idle" /\ lockRow = None
  /\ row' = State(0, IF starting = "delivered" THEN "later" ELSE "none", "running")
  /\ starting' = "idle"
  /\ plan' = <<>>
  /\ missed' = (starting = "none" /\ SomeDelivered)
  /\ UNCHANGED <<thread, texts, used, messages, replies, suppressed, locks,
                 removing, sched, resume, starts>>

-----------------------------------------------------------------------------
\* schedule_follow_ups

Idle == [pc |-> "idle", step |-> 0, text |-> None]

Becomes(s, local) == sched' = [sched EXCEPT ![s] = local]

ComesDue ==
  /\ row # None /\ row.due = "later"
  /\ row' = [row EXCEPT !.due = "reached"]
  /\ UNCHANGED <<thread, texts, used, messages, replies, suppressed, locks, work,
                 history>>

\* run_follow_ups lists the due states of open threads; a run works through
\* its list long after.
List(s) ==
  /\ sched[s].pc = "idle"
  /\ Running /\ row.due = "reached" /\ thread = "open"
  /\ Becomes(s, [Idle EXCEPT !.pc = "listed", !.step = row.step])
  /\ UNCHANGED <<rows, locks, removing, resume, starting, history>>

\* pick_text: an unused active text, the whole active pool once all were used.
Pool == {x \in Texts : texts[x] = "active"}

Pick == IF Pool \subseteq used THEN Pool ELSE Pool \ used

\* Mutation: the step is not compared with the one that was listed.
StillRunning(s) == Running

\* The condition of _advance.
StillAt(s) == Running /\ row.step = sched[s].step

\* _advance locks the state row, its step advance is seen once committed.
Advance(s) ==
  /\ sched[s].pc = "listed" /\ sched[s].step < Steps
  /\ lockRow = None /\ StillAt(s)
  /\ \E x \in Pick : Becomes(s, [sched[s] EXCEPT !.pc = "advanced", !.text = x])
  /\ lockRow' = s
  /\ UNCHANGED <<rows, lockThread, removing, resume, starting, history>>

\* No text, no step left, or the sequence moved on: nothing is created.
AdvanceRefused(s) ==
  /\ sched[s].pc = "listed"
  /\ \/ Pool = {} \/ sched[s].step >= Steps
     \/ lockRow = None /\ ~StillAt(s)
  /\ Becomes(s, Idle)
  /\ UNCHANGED <<rows, locks, removing, resume, starting, history>>

\* What communicate makes of the follow-up; a recipient suppressed meanwhile
\* gets none, a missing template or a placeholder without a value fails it.
Created == IF suppressed THEN {"suppressed"} ELSE {"waiting", "failed"}

\* Mutation: the check does not wait for a removal at work.
TextSeen(x) == texts[x] # "deleted"

\* The deferred foreign key of ThreadPoolUsage is checked with a lock on the
\* text, so a removal at work is waited for.
TextThere(x) == texts[x] # "deleted" /\ removing.text # x

\* schedule_follow_up commits the step, the follow-up and the usage; a follow-up
\* that ends at once stops the sequence.
Commit(s) ==
  /\ sched[s].pc = "advanced" /\ TextThere(sched[s].text)
  /\ Len(messages) < MaxMessages
  /\ \E status \in Created :
       /\ messages' = Append(messages,
            LET m == NewMessage(sched[s].step + 1)
            IN  IF status = "waiting" THEN m ELSE Settled(m, "ended"))
       /\ row' = State(sched[s].step + 1, "none", IF status = "waiting" THEN row.stop ELSE status)
  /\ used' = used \cup {sched[s].text}
  /\ plan' = Append(plan, sched[s].step + 1)
  /\ lockRow' = None
  /\ Becomes(s, Idle)
  /\ UNCHANGED <<thread, texts, replies, suppressed, lockThread, removing, resume,
                 starting, starts, missed>>

\* The toolbox is off, the footer is missing, the process dies, or the text
\* was deleted: all is rolled back, and a later run tries again.
Rollback(s) ==
  /\ sched[s].pc = "advanced"
  /\ lockRow' = None
  /\ Becomes(s, Idle)
  /\ UNCHANGED <<rows, lockThread, removing, resume, starting, history>>

-----------------------------------------------------------------------------
\* The text pool (sending_config_service).

\* remove_text locks the text, then looks for usages.
Removal(x) == [text |-> x, found |-> x \in used]

NoRemoval == [text |-> None, found |-> FALSE]

RemoveLocks(x) ==
  /\ removing = NoRemoval /\ texts[x] # "deleted"
  /\ removing' = Removal(x)
  /\ UNCHANGED <<rows, locks, sched, resume, starting, history>>

\* A used text is kept, inactive, for the history of its threads.
RemoveWrites ==
  /\ removing # NoRemoval
  /\ texts' = [texts EXCEPT ![removing.text] = IF removing.found THEN "inactive" ELSE "deleted"]
  /\ removing' = NoRemoval
  /\ UNCHANGED <<thread, row, used, messages, replies, suppressed, locks, sched,
                 resume, starting, history>>

\* update_text, which locks the text as well.
UpdateText(x) ==
  /\ TextThere(x)
  /\ texts' = [texts EXCEPT ![x] = IF @ = "active" THEN "inactive" ELSE "active"]
  /\ UNCHANGED <<thread, row, used, messages, replies, suppressed, locks, work,
                 history>>

-----------------------------------------------------------------------------
\* The messages of the thread: deliver and review, as far as the sequence sees.

Waiting(i) == messages[i].status = "waiting"
FollowUp(i) == messages[i].step > 0

Compose ==
  /\ Len(messages) < MaxMessages
  /\ messages' = Append(messages, NewMessage(0))
  /\ UNCHANGED row /\ OnlyMessage /\ OnlyPlanned

\* _refusal with follow_up_blocker
Refusal(i) ==
  IF suppressed THEN "suppressed"
  ELSE IF FollowUp(i) /\ (thread # "open" \/ ~Running) THEN "skipped" ELSE "send"

\* Before the claim, and again when the claim was released.
Check(i) ==
  /\ Waiting(i) /\ messages[i].verdict # Refusal(i)
  /\ messages' = [messages EXCEPT ![i].verdict = Refusal(i)]
  /\ UNCHANGED row /\ OnlyMessage /\ OnlyPlanned

\* on_follow_up_finished of a failed or suppressed message: a follow-up stops
\* the sequence.
Ends(i) ==
  /\ Waiting(i)
  /\ \E outcome \in {"failed", "suppressed"} :
       /\ messages[i].verdict = (IF outcome = "failed" THEN "send" ELSE outcome)
       /\ \/ FollowUp(i) /\ StopPossible /\ row' = Stopped(outcome)
          \/ ~FollowUp(i) /\ UNCHANGED row
  /\ messages' = [messages EXCEPT ![i] = Settled(@, "ended")]
  /\ OnlyMessage /\ OnlyPlanned

\* Delivered, skipped or rejected by the reviewer.
Outcome(i) == IF messages[i].verdict = "send" THEN "delivered" ELSE "ended"

\* Mutation: only a delivery arms the sequence.
ArmsDelivered(i) == messages[i].verdict = "send"

\* Whether the outcome arms the sequence: every delivery, and a follow-up that
\* will not be delivered.
Arms(i) == messages[i].verdict = "send" \/ FollowUp(i)

\* The transaction of the outcome reads the state row in _arm ...
ArmReads(i) ==
  /\ Waiting(i) /\ messages[i].verdict # "suppressed"
  /\ messages' = [messages EXCEPT ![i] =
       IF Arms(i) /\ Running THEN [@ EXCEPT !.status = "arming", !.armed = row.step]
       ELSE Settled(@, Outcome(i))]
  /\ UNCHANGED row /\ OnlyMessage /\ OnlyPlanned

\* ... and writes only its due date, whatever the row has become.
ArmWrites(i) ==
  /\ messages[i].status = "arming" /\ lockRow = None
  /\ row' = Armed(messages[i].armed)
  /\ messages' = [messages EXCEPT ![i] = Settled(@, Outcome(i))]
  /\ OnlyMessage /\ OnlyPlanned

-----------------------------------------------------------------------------
\* Inbound mail.

Mail(r, was, now) == replies[r] = was /\ replies' = [replies EXCEPT ![r] = now]

\* _plain_reply: the thread first, then the sequence.
ReplyMarks(r) ==
  /\ Mail(r, "none", "answering")
  /\ lockThread = None /\ lockThread' = r
  /\ UNCHANGED <<thread, row, suppressed, lockRow>> /\ OnlyReply

ReplyStops(r) ==
  /\ Mail(r, "answering", "reply")
  /\ StopPossible
  /\ thread' = "replied"
  /\ row' = Stopped("replied")
  /\ lockThread' = None
  /\ UNCHANGED <<suppressed, lockRow>> /\ OnlyReply

\* _suspected_optout: the sequence first, then the thread.
SuspicionPauses(r) ==
  /\ Mail(r, "none", "pausing")
  /\ StopPossible
  /\ lockRow' = IF Active THEN r ELSE lockRow
  /\ UNCHANGED <<thread, row, suppressed, lockThread>> /\ OnlyReply

SuspicionMarks(r) ==
  /\ Mail(r, "pausing", "undecided")
  /\ lockThread = None
  /\ thread' = "replied"
  /\ row' = IF lockRow = r THEN Stopped("paused") ELSE row
  /\ lockRow' = IF lockRow = r THEN None ELSE lockRow
  /\ UNCHANGED <<suppressed, lockThread>> /\ OnlyReply

\* A delivery report names a message that has left, whatever became of it since;
\* one that is about to get its outcome keeps the report waiting for its row.
Bounce(r, i) ==
  LET m == messages[i]
  IN  /\ Mail(r, "none", "bounce")
      /\ m.status \in {"delivered", "bounced"} \/ (m.retried /\ m.status # "arming")

\* _fail_bounced: a message that waits for its retry has an edge to `failed` only
\* once it is claimed, and one that has ended keeps its status.
Failing(m) ==
  LET edge == m.status = "delivered" \/ (m.status = "waiting" /\ m.verdict # "none")
  IN  (IF edge THEN {Settled(m, "bounced")} ELSE {})
        \cup (IF m.status = "delivered" THEN {} ELSE {m})

\* _hard_bounce fails the message and stops the sequence in any case; the
\* recipient is suppressed in live mode only.
HardBounce(r, i) ==
  /\ Bounce(r, i) /\ StopPossible
  /\ \E m \in Failing(messages[i]) : messages' = [messages EXCEPT ![i] = m]
  /\ suppressed' \in {suppressed, TRUE}
  /\ row' = Stopped("bounce")
  /\ UNCHANGED <<thread, locks, texts, used, work, history>>

\* _soft_bounce schedules a delivered message again, and fails it after its
\* retry; any other it leaves as it is, and the sequence as well.
SoftBounce(r, i) ==
  /\ Bounce(r, i)
  /\ messages' = [messages EXCEPT ![i] =
       IF @.status # "delivered" THEN @
       ELSE IF @.retried THEN Settled(@, "bounced")
       ELSE [NewMessage(@.step) EXCEPT !.retried = TRUE]]
  /\ UNCHANGED <<thread, row, suppressed, locks, texts, used, work, history>>

Freed(lock, holder) == IF lock = holder THEN None ELSE lock

\* An ingest that is rolled back is repeated by a later poll: PostgreSQL aborts
\* one of two transactions that wait for each other, as a suspicion and a reply
\* or a resume do, which lock the two rows in opposite orders.
IngestRollsBack(r) ==
  /\ replies[r] \in {"answering", "pausing"}
  /\ replies' = [replies EXCEPT ![r] = "none"]
  /\ lockThread' = Freed(lockThread, r) /\ lockRow' = Freed(lockRow, r)
  /\ UNCHANGED <<thread, row, texts, used, messages, suppressed, work, history>>

-----------------------------------------------------------------------------
\* The human's decisions (optout_service).

\* confirm: suppression and stop in one transaction.
Confirm(r) ==
  /\ Mail(r, "undecided", "confirmed")
  /\ StopPossible
  /\ suppressed' = TRUE
  /\ row' = Stopped("optout")
  /\ UNCHANGED <<thread, locks>> /\ OnlyReply

\* dismiss: the sequence stays paused.
Dismiss(r) ==
  /\ Mail(r, "undecided", "reply")
  /\ UNCHANGED <<thread, row, suppressed, locks>> /\ OnlyReply

\* Mutation: the thread is not locked for the check of undecided replies.
ResumeLockForgotten == None

\* Who holds the thread while resume looks for undecided replies.
ResumeLock == "resume"

ResumeChecks ==
  /\ ~resume /\ lockThread = None
  /\ \A r \in Replies : ~Undecided(r)
  /\ row # None /\ row.stop = "paused"
  /\ resume' = TRUE
  /\ lockThread' = ResumeLock
  /\ UNCHANGED <<rows, lockRow, removing, sched, starting, history>>

\* resume_sequence writes the row it read as paused, arms it, and the thread is
\* open again.
ResumeWrites ==
  /\ resume /\ lockRow = None
  /\ row' = IF row.step >= Steps THEN State(row.step, "none", "finished")
            ELSE State(row.step, "later", "running")
  /\ thread' = "open"
  /\ resume' = FALSE
  /\ lockThread' = None
  /\ UNCHANGED <<texts, used, messages, replies, suppressed, lockRow, removing,
                 sched, starting, history>>

ResumeRollsBack ==
  /\ resume
  /\ resume' = FALSE
  /\ lockThread' = None
  /\ UNCHANGED <<rows, lockRow, removing, sched, starting, history>>

-----------------------------------------------------------------------------

Init ==
  /\ thread = "open"
  /\ row = None
  /\ texts = [x \in Texts |-> "active"]
  /\ used = {}
  /\ messages = <<NewMessage(0)>>
  /\ replies = [r \in Replies |-> "none"]
  /\ suppressed = FALSE
  /\ lockThread = None /\ lockRow = None
  /\ removing = NoRemoval
  /\ sched = [s \in Schedulers |-> Idle]
  /\ resume = FALSE
  /\ starting = "idle"
  /\ starts = 0
  /\ plan = <<>>
  /\ missed = FALSE

SchedulerStep(s) == List(s) \/ Advance(s) \/ AdvanceRefused(s) \/ Commit(s)

MessageStep(i) == Check(i) \/ Ends(i) \/ ArmReads(i) \/ ArmWrites(i)

MailStep(r) ==
  \/ ReplyMarks(r) \/ ReplyStops(r) \/ SuspicionPauses(r) \/ SuspicionMarks(r)
  \/ IngestRollsBack(r)
  \/ \E i \in DOMAIN messages : HardBounce(r, i) \/ SoftBounce(r, i)

Human ==
  \/ \E r \in Replies : Confirm(r) \/ Dismiss(r)
  \/ ResumeChecks \/ ResumeWrites \/ ResumeRollsBack
  \/ StartReads \/ StartWrites \/ Compose

Next ==
  \/ \E s \in Schedulers : SchedulerStep(s) \/ Rollback(s)
  \/ ComesDue
  \/ \E x \in Texts : RemoveLocks(x) \/ UpdateText(x)
  \/ RemoveWrites
  \/ \E i \in DOMAIN messages : MessageStep(i)
  \/ \E r \in Replies : MailStep(r)
  \/ Human

Spec == Init /\ [][Next]_vars
=============================================================================
