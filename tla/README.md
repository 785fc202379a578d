# Verification of django-communicator

TLA+ models of the communicator (`src/src/django_communicator`, paths below are
relative to it), checked with TLC on small instances, and theorems about them
proved with TLAPS for every instance.

## The system

The communicator drafts, reviews and sends e-mail on *channels*, and reads the
answers. Everything runs in Django requests and Celery tasks over one
relational database, Redis, an SMTP server, an IMAP server and an AI toolbox.
No component talks to another by messages: they share database rows and Redis
keys, and most of what can go wrong is one process acting on what it read
before another one wrote.

| Component | State | Operations | Correct when |
|---|---|---|---|
| Send runs (`send_service`, `tasks/send_due`) | none of its own; lists due rows | `run_send_due`, `send_now` | overlapping runs never send a message twice; the cap holds; places are given back |
| Delivery (`delivery_service`, `mail_builder`) | `status`, `send_attempts`, `send_attempted_at`, outcome fields | `deliver`, `fail_stale_sending` | a claim has one owner and always gets an outcome; the outcome is true; mail goes where the channel points |
| Message lifecycle (`message_service`, `enums`) | `Message.status`, versions, retry counts | `transition`, `claim_for_sending`, `release_claim`, `claim_draft_retry`, `recover_draft`, `create_version` | only legal edges; one winner per race |
| Daily counter (`counter_service`) | Redis key per channel day | `reserve`, `release` | deliveries never exceed the cap |
| Send policy (`policy_service`, `clock_service`) | policy and window rows | `run_budget`, `next_slot` | closed hours send nothing; the spread quota reaches the cap and not more |
| Channel mode (`channel_service`) | `mode`, `sandbox_mailbox`, `live_enabled` | `set_mode`, `live_allowed` | never silently live |
| Suppression (`suppression_service`) | suppression rows | `is_suppressed`, create, delete | a listed person is not mailed |
| Delivery reports and replies (`inbound_service`, `dsn_service`) | `Reply` rows, `Thread.status`, bounces on `Message` | `ingest` | a mail is ingested once; a bounce retries once; a reply stops the follow-ups |
| Inbound poll (`poll_service`) | `last_uid`, `uid_validity`, quarantine | `poll_all` | no mail is passed over without being ingested or quarantined |
| Sequences (`sequence_service`) | step, due date, stop reason per thread | start, stop, pause, resume, `run_follow_ups`, `on_follow_up_finished` | each step at most once; no running sequence without a next step; none after a reply |
| Opt-out (`optout_service`) | decision on a `Reply` | confirm, dismiss, resume | a decision is taken once; nothing is sent while it is open |
| Drafting and review (`communicate_service`, `drafting_service`, `draft_retry_service`, `review_service`) | threads, drafts, versions, counts | communicate, accept, skip, edit, rewrite, retry | one live version; limits hold; a recovered draft is reviewed |
| Text pool and policy settings (`sending_config_service`) | text rows, windows | save, remove | a text in use survives |
| GDPR (`gdpr`, `anonymisation_service`) | addresses and contents | erase, anonymise | an erased person is never mailed again |
| Templates and footers (`template_service`, `footer_service`, `render_service`) | template rows and versions, footers | resolve, save, render, preview | the most specific template; the legal text once; the current version has the template's content |
| Inbox (`inbox_service`) | none; queries over threads, messages, replies | lists, counts, rows, timelines, `save_mailbox` | all views of a thread agree |
| API, admin, encryption, alerts | configuration, formatting | | not concurrent |

Behaviours that are hard to test, each at its line, are the `hazards` of
PROJECT.json: a task lock that expires under a slow run, processes that die
between a claim and its outcome, the sweep of stale claims against a run that is
only slow, delivery reports in any order, a channel reconfigured in mid-delivery,
lost SMTP replies and lost Redis calls.

## Plan

1. **Delivery** - the send path. Written, checked, proved.
2. **MailboxPoll** - cursor, UIDVALIDITY, quarantine and duplicates of the inbound
   poll. Written, checked, proved.
3. **FollowUpSequences** - start, arm, pause, resume and stop against deliveries,
   replies, opt-out decisions, two schedulers and the text pool. Written, checked,
   shown to implement **FollowUpPlan**, proved.
4. **Drafting** - retries, rewrites, versions, reviewers and erasure. Written, checked,
   proved.
5. **Rules** - what keeps no state: **Inbox**, **SendPolicy**, **MailReading**,
   **Wording**, **SuppressionList**, checked on all inputs within bounds, and the
   overlapping saves of **TemplateVersions**. Written, checked, proved.

Every invariant and action property of a passing run is stated by a theorem. Left: what is
listed without a property among the hazards.

## Modules

| Module | What it is |
|---|---|
| `Lifecycle` | statuses and legal edges (`enums.py`) |
| `Delivery` | the send path as a state machine |
| `SendOnce` | what it promises, as a specification of its own |
| `DeliveryProperties` | type invariant, safety, action and liveness properties, the refinement mapping |
| `MCDelivery`, `Delivery*.cfg` | instances for TLC |
| `DeliveryProofs` | proofs: typing, exclusion, send-once, the refinement |
| `DeliveryGateProofs` | proofs: legal edges, the gate before SMTP, the cap |
| `MailboxPoll` | the IMAP poll of one channel as a state machine |
| `MailboxPollProperties` | its type invariant, the cursor, duplicates, progress |
| `MCMailboxPoll`, `MailboxPoll*.cfg` | instances for TLC |
| `MailboxPollProofs` | proofs: typing, one reply per mail, the cursor |
| `FollowUpSequences` | the follow-up sequence of one thread as a state machine |
| `FollowUpPlan` | what a sequence promises, as a specification of its own |
| `FollowUpSequencesProofs` | proofs: every property of FollowUpSequencesProperties |
| `FollowUpSequencesProperties`, `MCFollowUpSequences`, `FollowUpSequences.cfg` | its properties and instance |
| `Drafting` | drafts, retries, review and erasure as a state machine |
| `DraftingProperties`, `MCDrafting`, `Drafting.cfg` | its properties and instance |
| `DraftingProofs` | proofs: every property of DraftingProperties |
| `Inbox` | threads, conversations, counts and timelines of the inbox |
| `SendPolicy` | open hours, next slot, spread and run budget |
| `MailReading` | threading headers, the thread of an answer, the message of a report, opt-out phrases |
| `Wording` | template and footer cascades, the legal text, placeholders |
| `SuppressionList` | what a row of the suppression list matches; tokens |
| `TemplateVersions` | overlapping saves of a template |
| `MCRules`, `Rules.cfg` | all inputs of these rules within bounds |
| `RulesProofs` | proofs: suppression, the next slot, the spread, the inbox, for all inputs |
| `MailProofs` | proofs: saves of a template, both cascades, the legal text, previews, answers and reports, for all inputs |
| `Orders` | lemmas: least and greatest elements, rows put in order |

## Delivery

### State

`status`, `attempts`, `retried`, `due`, `stale` are columns of `Message`
(`send_attempts`, whether `bounce_retry_at` is set, whether `scheduled_at` is
reached, whether `send_attempted_at` is older than the stale limit);
`suppressed` and `halted` say of a thread whether `is_suppressed` and
`follow_up_blocker` would refuse its messages; `channel` is the three fields of
`set_mode`; `counter` is the Redis key of the channel day. Each run of
`send_due` has a program counter and its Python locals: the listed rows, which
of them it listed as retries, the budget, the message at hand, whether it holds
a place under the cap, and `frame`, what `deliver` read so far. `copies`,
`lost` and `counted` record what the mail server took; the code never reads
them.

### Steps

Every database, Redis or SMTP call of a run is one action, so other runs,
requests, reports and the clock come in between any two.

| Code | Actions |
|---|---|
| `_run_channel` | `Start`, `RunGate`, `PlanBudget`, `Stop` |
| `fail_stale_sending` | `ListStale`, `Sweep`, `ClaimAges` |
| `_send_channel`, `_deliver_within_cap` | `ListDue`, `TakeNext`, `EndOfList`, `GiveBack`, `GiveBackAndStop` |
| `reserve`, `release` | `Reserve`, `UndoReserve`, `GivePlaceBack` |
| `deliver` before the claim | `Read`, `Check` |
| `claim_for_sending` | `Claim`, `ClaimLost`, `Reread` |
| `_before_smtp` | `GateDefers`, `AlertLive`, `GateFinishes`, `GateOpens`, `GateRaises` |
| `_send`, `_smtp_error`, `_fail` | `Transmit`, `Record`, `RecordTooLate`, `SuppressRefused` |
| a dying worker, an unhandled exception | `Crash` |
| `accept`, `send_now`, `set_mode`, DSNs | `Accept`, `ComesDue`, `SetMode`, `HardBounce`, `SoftBounce` |
| suppression, replies, sequences | `ThreadChanges` |

Abstractions: one channel and one channel day; the due order is a set; the
policy gives any budget up to what is left; the contents of a mail are the
channel it was addressed for; a sequence is whether it blocks its thread.
The celery-once lock of the task is not used: it expires, and the code claims to
be safe without it.

### Runs

| Run | Question | Bounds |
|---|---|---|
| `overlap` | exclusion, send-once, outcomes and edges when two runs race for a message | 1 message, 2 runs, cap 2, 2 SMTP attempts, 2 faults, live in production |
| `cap` | typing and the cap when reservations overshoot | 2 messages of one thread, 2 runs, cap 1, 1 fault |
| `modes` | the gate, and that every claim gets an outcome | 1 follow-up, 1 run, four configurations, outside production, alerts raise, 1 fault |
| `double_release` | "overlapping runs never send twice" when an alert raises | 1 message, 2 runs; violated |
| `early_retry` | a soft-bounce retry waits | 1 message, 2 runs; violated |
| `lost_place` | a place is given back unless the message was sent | 1 message, 1 run, 1 fault; violated |

Two runs and one message are where every exclusion violation starts; a cap of two
lets both runs reach the claim. The second message makes the cap and the list
matter, and a cap of one makes both runs overshoot. With two attempts a transport
error is retried and then fails. A fault lets a worker die at every point; a second
one adds an error in the run that follows; the proofs do not bound them. `Runs` and
`Messages` are symmetric in both.
`MaxFaults` is the only bound inside the module; every other counter is bounded
by the code.

Fairness (`LiveSpec`, `modes`): a run that exists keeps taking steps and the
beat starts new ones - Celery beat fires every five minutes and each step is a
call with a timeout -, and claims age, because clocks run. Nothing is assumed of
operators, reports, crashes or the reply of the SMTP server.

### Findings

* **Double release** (`delivery_service.py:62`, `:73`). A live channel that is
  refused releases its claim and alerts; if the alert raises (its cache is
  unreachable), `deliver` releases again. `release_claim` tests only that the row
  is `sending`, so it puts back a claim another run took meanwhile, and a third
  claim sends the message again. The exclusion and send-once theorems therefore
  assume that alerts do not raise.
* **Early retry** (`delivery_service.py:52`). Status is re-read, `scheduled_at` is
  not: a run that listed the message before it was sent and bounced sends the
  retry at once.
* **Lost place** (`send_service.py:98`). Only `SmtpNotConfiguredError` gives the
  place back; any other error keeps it for the day. This loses capacity and
  never exceeds the cap.

Known and documented by the code, hence no finding: a mail whose SMTP reply was
lost is retried (`lost` counts these copies, and send-once is stated without
them). `release_claim` takes `sending -> approved`, which the table of `enums.py`
does not have; `StatusMoves` names that edge.

## MailboxPoll

### State

`folder` and `validity` are the mail server: per box the mail under each UID and
the UIDVALIDITY, which a recreated folder increases. `config` is the row of
`MailboxConfig` - box (host, user and folder: `MAILBOX_IDENTITY`), `is_active`,
`uid_validity`, `last_uid` - and `replies` counts the `Reply` rows of a Message-ID.
`draft` is the row a request has read and is about to save, `shown` the `last_uid`
of an open admin form. Each poll has a program counter, its copy of the row
(`mine`), the session of its connection, the UIDs SEARCH found and the mail it
fetched. `taken` (dropped or quarantined mails) and `disturbed` are history.

### Steps

Every database write and every IMAP command is one action.

| Code | Actions |
|---|---|
| `poll_all`, `poll_mailbox` | `Load`, `SearchFindsNone`, the loop in `Advance` |
| `_examine` | `Examine`, `Restart` |
| `_new_uids` | `Search` |
| `_process_uid` | `Measure`, `Fetch` |
| `_ingest`, `inbound_service.ingest` | `Ingest`, `Insert`, `InsertRefused` |
| `_quarantine`, `_advance` | `Quarantine`, `Advance` |
| `_require_ok`, exceptions, a dying worker | `Disconnect`, `Fail` |
| `save_mailbox` | `SaveRead`, `SaveWrite` |
| `MailboxConfigForm` (admin) | `FormOpen`, `FormPost`, `SaveWrite` |
| the mail server | `Arrive`, `Expunge`, `Renumber` |

Abstractions: one channel (mailboxes share nothing but the beat); a mail is its
Message-ID and what `ingest` makes of it, so parsing, matching and classifying are
one of four kinds; what a stored reply changes elsewhere is in the transaction of
its row. A connection whose folder is recreated fails at its next command.

### Runs

| Run | Question | Bounds |
|---|---|---|
| `poll_overlap` | the cursor and duplicates when two polls overlap | a reply, a stranger, an oversized mail; 2 polls, 1 box, 2 UIDs in each of 2 UIDVALIDITYs, batch 2, 1 failure |
| `poll_edits` | the cursor and progress when the mailbox is edited | a reply and an unreadable mail, 1 poll, 2 boxes, 2 UIDs, batch 1, 1 edit, 1 failure |
| `poll_lost_mail` | "the cursor moves past a UID only once its mail was ingested" for every edit | 1 mail, 1 poll, 2 boxes, 1 edit; violated |

Two UIDs let one mail be passed over by the other and a mail be repeated under a
second UID; two UIDVALIDITYs are needed for a poll of the old numbering to meet
one of the new; a batch of one leaves mail for the next poll. A second edit or
failure repeats the first from a state the poll reaches anyway; the proofs do not
bound them. `MaxUids`, `MaxValidity`, `MaxEdits` and `MaxFaults` are the bounds.

Fairness (`LiveSpec`, `poll_edits`): a poll keeps taking steps - the beat starts
polls, and every IMAP command has a timeout of 30 seconds. Nothing is assumed of
the mail server, operators or failures, except that failures are finitely many.
`poll_edits` and `poll_lost_mail` do not check deadlock: a mailbox that was
switched off, with a full folder, has nothing left to do.

### Findings

* **Lost mail** (`poll_service.py:164`). `_advance` writes `last_uid` into whatever
  the row has become. When `save_mailbox` changed the folder under an open poll,
  the reset row gets the UID of the old folder while its `uid_validity` is empty;
  the next `_examine` adopts this cursor, and mail of the new folder up to that UID
  is never read.

`NothingPassedOver` states the cursor's promise for every other history. `disturbed`
is raised by exactly three things: a save that lands while a poll is open (it may
also write an old cursor back, as it writes every column), an admin form posted
with a `last_uid` that is not the row's any more, and a UIDVALIDITY restart while
another poll still works in another numbering. The last needs a poll that outlives
its lock and a folder recreated meanwhile.

## FollowUpSequences

### State

`row` is the `ThreadSequenceState` of one thread: `step`, `due` (no `next_due_at`, one
in the future, one reached) and `stop` ("running", or `stop_reason`). `thread` is
`Thread.status`, `texts` and `used` are the text pool and its usages, `messages` the
messages of the thread with what `deliver` decided about each (`verdict`) and, while
the transaction of its outcome is at `_arm`, the step it read (`armed`); `bounced` is a
message that failed after it had left, `retried` one that was scheduled again by a soft
bounce. A delivery report names any message that has left, also one that waits for its
retry or has ended since: it then leaves the status alone (unless the retry is claimed)
and stops the sequence all the same. `replies` is
what became of each inbound mail. `lockThread` and `lockRow` are the two row locks the
code relies on, `removing`, `sched`, `resume` and `starting` what each transaction
holds between its read and its write. `plan` and `missed` are history.

### Steps

PostgreSQL's READ COMMITTED is modelled as it matters here: a read kept for a later
write is a step, the first lock of a transaction is a step, the rest with the commit
is a step.

| Code | Actions |
|---|---|
| `start_sequence` | `StartReads`, `StartWrites` |
| `run_follow_ups`, `schedule_follow_up` | `List`, `Advance`, `AdvanceRefused`, `Commit`, `Rollback`, `ComesDue` |
| `remove_text`, `update_text` | `RemoveLocks`, `RemoveWrites`, `UpdateText` |
| `deliver`, `on_follow_up_finished`, `_arm` | `Check`, `Ends`, `ArmReads`, `ArmWrites`, `Compose` |
| `ingest` | `ReplyMarks`, `ReplyStops`, `SuspicionPauses`, `SuspicionMarks`, `HardBounce`, `SoftBounce`, `IngestRollsBack` |
| `optout_service` | `Confirm`, `Dismiss`, `ResumeChecks`, `ResumeWrites`, `ResumeRollsBack` |

Abstractions: one thread (sequences of different threads share only the text pool); a
delivery is its decision and its outcome, as its races are Delivery's; the sequence
stays active; days are any time.

### Run

`follow_ups`: 2 steps, 1 text, 2 schedulers, 2 mails, 3 messages, 1 start. Two steps
tell "advanced twice" from "advanced in order"; one text makes every pick use the text
a removal may be at; two mails are needed for a suspicion against a reply, a resume
against a suspicion, or a bounce of a bounced retry; the third message is the second
follow-up. `MaxMessages` and `MaxStarts` are the bounds. `KeepsPlan` is the refinement
of FollowUpPlan (`running` is `Running`). Deadlock is not checked: a stopped sequence
whose mails were read has nothing left to do. No liveness is stated: that a running
sequence goes on is, without fairness of reviewers and deliveries, `NeverStranded` -
there is always something it waits for.

### What the code does and the properties leave out

* A start that read before a delivery committed waits for a next delivery
  (`sequence_service.py:56`, flag `missed`), against "no sequence stays running without
  a next step" (`:9`).
* A resume saves over a bounce, a failure or an end that commits between its read and
  its save (`sequence_service.py:77`, `:81`); replies and opt-out decisions take the
  lock of the thread and cannot.
* A delivery of another message of the thread, and a resume, arm the sequence while a
  follow-up still waits (`_arm` has no test for it), against "none while a scheduled
  follow-up waits" (`:8`).
* A follow-up that soft-bounces twice fails without `on_follow_up_finished`
  (`inbound_service.py:266`); the delivery before has armed the sequence, which
  goes on although its follow-up failed.
* A suspicion locks the sequence before the thread, a reply and a resume the thread
  first (`inbound_service.py:167`, `optout_service.py:65`): PostgreSQL breaks the
  deadlock, and the mail is read again by the next poll.

## Drafting

### State

`messages` are the outbound messages to one recipient in the order of their keys, each
with its version chain (`root`), status, failure, counts and whether it still tells
about the recipient (`plain`). `threads` has the address or the token, `suppressed` the
suppression of that token. `call` is what a request or a retry run keeps in mind, as no
transaction is open while the toolbox writes. `tried`, `late` and `spared` are history.

### Steps

| Code | Actions |
|---|---|
| `communicate` | `Requests`, `LooksUpThread`, `Creates` |
| `retry_failed_drafts`, `retry` | `Lists`, `Blocked`, `ClaimsRetry`, `ClaimLost`, `Recovers`, `FailsAgain` |
| `accept`, `skip`, `edit`, `rewrite` | `Reviews`, `Edits`, `Rewrites`, `SavesVersion`, `RewriteFails`, `Refused` |
| `on_contact_anonymised`, `gdpr_erase` | `Anonymises`, `Erases`, `Erased` |
| a dying process | `Dies` |

Abstractions: one channel, subject and recipient; what happens after the review is
"decided"; a failure is transient, permanent or blocked, which is all the candidates
query tells apart; replies are erased by the same statements and left out.

### Run

`drafting`: 2 workers, 2 requests, 3 messages, 2 retries, 1 automated rewrite. Two
workers are two calls that overlap, a reviewer and an erasure need none; two retries
let a retry be claimed again under a slow one; three messages are a draft, its version
and a second draft or version. Deadlock is not checked, as requests are bounded. There
is no fairness: a failed draft may wait for a toolbox that never comes back.

### What the code does and the properties leave out

* A retry that fails late writes its line over the permanent or blocking failure of a
  row that stayed failed, so the draft is listed again, within the limit
  (`draft_retry_service.py:98`), against "Budget, model and schema failures are never
  retried" (`:9`).
* `gdpr_erase` lists the threads before its transaction and does not wait for calls at
  work: a thread opened in between, and what such a call writes, stay in plain
  (`gdpr.py:41`).
* A request after the erasure is answered `suppressed` and stored with its context in a
  new thread to the plain address, against "the plain address is kept nowhere"
  (`gdpr.py:8`).
* Two requests can open two threads for one recipient (`communicate_service.py:143`).

## Rules

An initial state of `MCRules` is one input of the module `kind` names, with nothing for
the others (no threads, no windows, no templates); the invariants compare what the rules
answer with reference definitions. One more initial state per content starts
`TemplateVersions`, the only module with steps.

| Module | Inputs |
|---|---|
| `Inbox` | 2 threads of one or two subjects and recipients, up to 3 messages and replies, sent in any order |
| `SendPolicy` | up to 2 windows, overlapping or not, in a day of 6 ticks and 3 runs, 3 search days, caps 1 and 5 |
| `MailReading` | 2 threads on one or two channels, up to 3 messages sent or not; answers of up to 3 lines in three languages |
| `Wording` | all sets of templates over 2 languages and 2 audiences, all sets of footers; footers of up to 4 pieces; 4 placeholders |
| `SuppressionList` | 8 hosts of two owners under one- and two-label suffixes and 2 IP addresses, typed in two ways; any set of five rows |
| `TemplateVersions` | 2 editors, 3 contents, 5 versions |

Two threads are the smallest conversation, and two of three messages in one thread the
smallest timeline with another beside it. A window of less than, exactly and more than
an interval exists among those of 6 ticks; two windows overlap, touch or are apart. The
cap of 5 is no multiple of the runs. The suffix table of `domains.py` is one entry.
Deadlock is not checked: an input has no steps, and versions are bounded.

What the code does and the properties leave out:

* The language of the footer is read when the mail is sent, and a version does not keep
  it: an edit of a template's language after the drafting mixes languages
  (`mail_builder.py:86`).
* An answer without ids is known by its date alone. One written before a later mail of
  its thread left, as when a follow-up goes out between the writing and the poll, is
  matched to no thread and only logged (`inbound_service.py:107`): the sequence goes on.
  `AnswersFindTheirThread` states both sides of that date, for a sender with one thread.
* Hosts under a public suffix that `MULTI_PART_SUFFIXES` does not have share a
  registrable domain (`utils/domains.py:15`), and a row for one shop reaches its
  neighbours; `ListedExactly` is relative to that table.
* A delivery report with References alone names the first mail of the thread
  (`dsn_service.py:67`).
* In HTML-only mail the quote marks are lost: our own opt-out notice quoted without an
  introduction reads as an opt-out. What is written below a quotation is not read
  (`mail_parser.py:78`, `:86`).
* `last_message_at` moves with replies only (`inbound_service.py:189`), so a mail sent long
  after it was written moves no conversation up; `schemas/responses.py:311` calls it
  "Last outbound or inbound mail".
* A row's last text is the one created last, a timeline is sorted by sending.
* With a beat that is not aligned to a window that is no multiple of the interval, the
  last interval may have no run (`policy_service.py:95`).

## Proofs

Every theorem about `Delivery` holds for any finite set of runs, any messages,
threads, cap, number of attempts and faults, and any set of configurations; every
theorem about `MailboxPoll` for any mails, boxes, polls, batch and bounds. The
assumptions on the constants are the named ASSUMEs of the modules.

`DeliveryProofs` and `DeliveryGateProofs`:

* `TypeCorrect`: `TypeOK` is inductive. `ContinueTyped`, `StopTyped` and
  `NextListedTyped` treat the three ways a run goes on; each action is a case.
* `ClaimIsExclusive`, `MessagesSentOnce`, `OutcomesTruthful`,
  `ImplementsSendOnce`: `ClaimExclusive` is not inductive - a second claim must be
  impossible because of the row, not because of the other run. `ClaimsHeld` adds
  that the row of a claimed message is `sending` or was failed meanwhile, which no
  claim accepts. Counting needs `OneToGo`: a message that waits, or is claimed and
  not accepted, has a copy to go, one just accepted has none; `WithinAllowance`
  bounds both sides and `RepliesInOrder` says where a reply can be known.
  `StepsSorted` reduces the 38 actions to six classes by their effect on rows and
  claims (nothing; settle, claim or hand over by the owner; fail or ready by
  somebody else), and the invariant is proved class by class. The refinement maps
  an accepted `Transmit` to `HandOver`, a first soft bounce to `AllowRetry`, and
  everything else to a stutter. All four assume `~AlertsRaise`; the
  `double_release` run shows that the assumption is needed.
* `StatusMovesLegal`: from typing, action by action.
* `MailsFollowTheChannel`: `GateInv`, the configuration re-read with the claim
  has been in force since it and the verdict on it was to send.
* `CapNeverExceeded`: `Places`, the counted deliveries, the places held and the
  overshoots being undone together never exceed the Redis counter, and the
  deliveries and places never exceed the cap. It needs no assumption about alerts.

`MailboxPollProofs`:

* `TypeCorrect`: `TypeOK` is inductive with `UidsFound` in it, which keeps the UIDs
  of a connected poll inside its folder.
* `RepliesStoredOnce`: from typing and the unique constraint.
* `CursorNeverPasses`: `NothingPassedOver` speaks of the row only, but the row is
  written from what polls remember. `CursorInv` therefore says, unless `disturbed`:
  every remembered row `Holds` (nothing is `Pending` under its cursor if its
  UIDVALIDITY is current, and its cursor is 0 when it has none); an open poll
  `Agrees` with the row about the box and, past the restart, the UIDVALIDITY; it
  `Sweeps` (a pending UID below one it has to do is also one it has to do); and it
  `Carries` the mail of the UID at hand, so that `advance` is reached only when
  that UID is no longer pending. `NewUidsClosed` is the fact about SEARCH and the
  batch that makes `Sweeps` start. Steps of a poll are proved in four classes
  (only its locals; taking a mail; the restart; the advance); the mail server is
  one lemma about a folder that grows in place or gets a new UIDVALIDITY. The
  `poll_lost_mail` run shows that the premise `~disturbed` is needed.

`FollowUpSequencesProofs`, for any number of steps, messages and starts and any texts,
schedulers and mails, provided no two holders of a lock are the same value
(`HoldersAssumption`):

* `FollowUpInvHolds`: the properties speak of the rows, which are written from what
  transactions read before. `FollowUpInv` says what the locks keep true of that:
  a scheduler that advanced still has the running row it locked, at its step
  (`AdvancedHolds`); a resume under the lock of the thread has a row that no reply or
  opt-out ended, and no undecided mail (`ResumeHolds`); an outcome that arms has a
  row (`ArmingHolds`); a removal that found no usage still has none
  (`RemovalHolds`); the plan is as long as the step of the row (`PlanHolds`). One
  lemma per action shows that it keeps the invariant, TLC checked it first.
* `TypeCorrect`, `UsedTextsStay`, `NoneStranded` are parts of it.
* `RowSteps` reduces all actions to six effects on row and plan (kept, started,
  resumed, scheduled, due date set, ended). `RepliesAreFinal`, `SuspicionsHold` and
  the refinement `ImplementsPlan` are each a case split over these: a start maps to
  `Start`, a committed step to `Schedule`, the rest to `StopOrResume` or a stutter.

`DraftingProofs`, for any workers, messages, requests and limits:

* `DraftingInvHolds`: what a call writes depends on what it read before the toolbox
  answered, so no property is inductive alone. `DraftingInv` adds what stays true in
  between. `Versions`: a row belongs to the chain of a first version, and of each
  chain at most one (`AtMostOne`) and at least one (`AtLeastOne`) row stands for it;
  an edit or a rewrite takes the place of the row it still finds standing.
  `Counters`: the retries and rewrites a row has counted are the toolbox calls made
  for it, which a claim raises in one statement (`RetriesTried`; for rewrites only on
  the row that stands, as each version carries the count on). `CallsSound`: what a
  call keeps - the row, that a listed one was below the limit, a message not stored
  yet. `ListingSound` and `ErasureSound`: after the erasure a row (`RowExcused`) or a
  call (`CallExcused`) tells about the recipient only if the call had begun before or
  the thread was spared. The second is what makes the first inductive: a call that
  is not excused has nothing plain to write.
* Each action has a lemma that says what it makes of rows and calls, then one per
  part of the invariant; TLC checked the invariant first. `TypeCorrect`,
  `OneVersionCounts`, `RetriesPaid`, `RewritesPaid` and `ErasureStands` are parts of
  it. `RecoveryKept` is an action property: the late write of a retry reaches a
  row only while it is failed.

`RulesProofs`: the rules without a state, for every input instead of the bounded ones
of `Rules.cfg`. A hypothesis says what the tables admit, and the inputs of the run meet
all of them.

* `NobodyElseListed` and `ErasedNowhereReached`, for any labels, lists and channels. A
  host's registrable domain is its last two or three labels; two hosts have the same
  one exactly when they belong to one owner, which is a comparison of the endings of
  two sequences. `TwoLabels` is a fact about the table `MULTI_PART_SUFFIXES`
  (`utils/domains.py`), whose entries all have two labels, `OneOrFour` one about IP
  addresses, which have four labels or no dot; `"@"` is no label.
* `SlotIsFirst`, for any windows, closed days and search: the first day with an open
  start and its first start are least elements, and every open time is in a window
  whose start the search would have met no later (`PolicyTyped`: windows are valid).
* `SpreadSharesTheCap`, for any windows that end within the day, interval, cap and counter
  (`DayTyped`): the runs of a day are a set, numbered by window (`Total`), so sums over
  windows are compared by inclusion and injection (`SumGrows`, `OneOfEach`) instead of
  by induction. `WindowOverTheDay` has the rounding of one window, `OpenDay` says that
  the first and last open moments bound all windows, and the lemmas on quotients
  (`QuotientOfSum`) turn an interval's runs into its share of the cap.
* `InboxViewsAgree`: newest threads are greatest elements; a conversation is the
  newest thread of its subject, so lists and counts range over the same set.
  `ActivityMoves` needs that a reply sets `last_message_at` (`RepliesMark`,
  `_mark_replied`). `RowsFoundAgain` needs that a timeline exists: any finite set can
  be put in a row by time (`OrderExists`, by the number of elements up to each), and
  a row of the right length without repetition leaves none out (`OrderCovers`).

`MailProofs`:

* `CurrentVersionMatchesHolds`, for any editors, contents and number of versions: a save
  makes current either the version its editor read or the one it adds.
  `CurrentVersionMatches` alone does not say that what was read is still a version;
  `ReadVersionsExist` does, and stays true because versions are only added.
* `MostSpecificFound` and `FooterInTheBodysLanguage`: the cascade names the places that
  fit a call, each of them, the best first (`CascadeOrdered`, one case for each number
  of languages and audiences), and the first usable place of such a row is the best
  usable one (`ResolveIs`).
* `LegalTextShownOnce`, for a footer of any pieces and length: an accepted footer has
  its placeholder in one place (`OnePlace`), rendering changes that place only
  (`Rendering`), and the text part keeps every place. `PreviewMissesAsMuch` is algebra
  of sets, for any names.
* `AnswersReachTheirThread` and `ReportsNameTheirMail`, for any threads and mails that
  left before now (`MailTyped`): the references of a mail exist as a row in the order of
  sending (`OrderExists`) and name mails of its thread (`ReferencesOfThread`), so any
  mail found by the ids of an answer is in that thread (`OneOfThread`); without ids the
  only thread of the sender fits exactly when our last mail, which has left before now
  (`LastOutOfSent`), left before the date (`OnlyOneFound`). Of a report the first field that is there names the mail
  (`FirstIsTheMail`), References being behind two others.
* `OwnWordsOnly`, for letters of any length, languages and scanned part: `LetterTyped`
  says where our own words can stand, `LineStays` what is left of a letter, and a line
  at place i has at most i lines up to it (`Suspected`).

`Orders` has the least and greatest elements these proofs take, from the
well-foundedness of the natural numbers, and that rows put in order exist and leave
nothing out.

Only model-checked, and why:

* `ClaimResolved` and `MailProceeds`: liveness under fairness, outside the prover.

## Not modelled

* HTTP views, schemas and admin pages, but for the forms and requests that keep a row
  between reading and writing it: they validate, call one service and format.
* The objection in `django_agreements` after a confirmed opt-out
  (`optout_service.py:83`): the service is outside the repository, and nothing reads it.
* Alerts beyond whether their cache raises: an outside service.
* Encryption, settings, checks and migrations: no behaviour over time.
* What text is made of: MIME, IMAP and DSN syntax, HTML cleaning, prompts and drafts.
* Creating and replacing policies, windows and sequences, deleting suppressions and
  footers: one statement or one transaction each.
