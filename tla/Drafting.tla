------------------------------ MODULE Drafting ------------------------------
(***************************************************************************)
(* The messages to one recipient before they are sent: `communicate`       *)
(* writes them (communicate_service), failed drafts are retried            *)
(* (draft_retry_service), reviewers accept, skip, edit and rewrite them    *)
(* (review_service), and the recipient is anonymised or erased meanwhile   *)
(* (gdpr, anonymisation_service).                                          *)
(*                                                                         *)
(* No transaction is open while the toolbox writes a draft, so everything  *)
(* can happen between the start of a call and the write of its result.  A  *)
(* call is a worker that keeps what it read; each of its steps is one      *)
(* transaction of the code.  A worker can die at any time.                 *)
(***************************************************************************)
EXTENDS Integers, Sequences, FiniteSets

CONSTANTS
  Workers,      \* the processes that serve requests or execute the retry task
  RetryLimit,   \* COMMUNICATOR_DRAFT_RETRY_LIMIT
  RewriteLimit, \* COMMUNICATOR_AUTOMATED_REWRITE_LIMIT
  MaxRequests,  \* bound: calls of communicate
  MaxMessages   \* bound: messages

ASSUME LimitsAssumption ==
  /\ RetryLimit \in Nat /\ RewriteLimit \in Nat /\ MaxRequests \in Nat /\ MaxMessages \in Nat

VARIABLES
  messages,   \* the outbound messages in the order of their keys
  threads,    \* Thread.recipient_email, per thread: the address or its token
  suppressed, \* the token of the address is on the suppression list
  call,       \* what each worker is doing, with what it has read
  listed,     \* the threads an erasure at work has listed
  erased,     \* the address was erased
  \* bounds and history
  requests,
  tried,      \* toolbox calls for each first version: retries, automated rewrites
  spared      \* the threads at the listing; those opened until the erasure

vars == <<messages, threads, suppressed, call, listed, erased, requests, tried, spared>>

-----------------------------------------------------------------------------
\* Messages.

(* root is the first version of the chain; retries and rewrites the counters  *)
(* of the row; failure what failure_code and the last line of failure_detail  *)
(* say; prompt whether rendered_prompt is stored; plain whether the row tells *)
(* about the recipient; late (history) that it was written by a call that had *)
(* begun before the erasure.                                                  *)
Blank ==
  [thread |-> 0, root |-> 0, status |-> "review_required", failure |-> "none", retries |-> 0,
   rewrites |-> 0, prompt |-> FALSE, plain |-> TRUE, late |-> FALSE]

Is(i, status) == messages[i].status = status

\* create_message: the next key; a first version is its own root.
Create(m) ==
  LET key == Len(messages) + 1
  IN  messages' = Append(messages, [m EXCEPT !.root = IF @ = 0 THEN key ELSE @])

Room == Len(messages) < MaxMessages

-----------------------------------------------------------------------------
\* Calls.

Idle == [pc |-> "idle", on |-> 0, read |-> Blank, late |-> FALSE]

Calling(w, pc, on, read) == call' = [call EXCEPT ![w] = [Idle EXCEPT !.pc = pc, !.on = on, !.read = read]]
Goes(w, pc, read) == call' = [call EXCEPT ![w].pc = pc, ![w].read = read]
Returns(w) == call' = [call EXCEPT ![w] = Idle]

Free(w) == call[w].pc = "idle"
At(w, pc) == call[w].pc = pc

OnlyCalls == UNCHANGED <<messages, threads, suppressed, listed, erased, requests, spared>>
OnlyMessages == UNCHANGED <<threads, suppressed, listed, erased, requests, spared>>

\* The process dies, or a receiver of draft_retry_requested fails; what was
\* committed stays.
Dies(w) ==
  /\ ~Free(w)
  /\ Returns(w)
  /\ OnlyCalls /\ UNCHANGED tried

-----------------------------------------------------------------------------
\* communicate

\* What becomes of a failure: the toolbox may be reachable later, or never will help.
Failures == {"transient", "permanent"}

\* A suppressed recipient, no template or a value missing in it, a static
\* body that needs review or not, an AI prompt to be drafted.
Answers ==
  IF suppressed THEN {[Blank EXCEPT !.status = "suppressed"]}
  ELSE {[Blank EXCEPT !.status = "failed", !.failure = "permanent"],
        Blank,
        [Blank EXCEPT !.status = "decided"]}

\* generate: the toolbox's draft, or why there is none (an answer that is no
\* draft is a permanent failure).
Generated == {"draft"} \cup Failures

\* _ai_draft: only a transient failure keeps the prompt for a retry.
Drafts ==
  {IF g = "draft" THEN [Blank EXCEPT !.prompt = TRUE]
   ELSE [Blank EXCEPT !.status = "failed", !.failure = g, !.prompt = g = "transient"] :
     g \in Generated}

\* The suppression is read first; a suppressed recipient gets no draft.
Requests(w) ==
  /\ Free(w) /\ requests < MaxRequests
  /\ \E m \in Answers \cup (IF suppressed THEN {} ELSE Drafts) : Calling(w, "drafted", 0, m)
  /\ requests' = requests + 1
  /\ UNCHANGED <<messages, threads, suppressed, listed, erased, tried, spared>>

\* _open_thread reads the newest open thread to the address, if there is one.
Newest == LET Open == {t \in DOMAIN threads : threads[t] = "address"}
          IN  IF Open = {} THEN 0 ELSE CHOOSE t \in Open : \A u \in Open : u <= t

LooksUpThread(w) ==
  /\ At(w, "drafted")
  /\ call' = [call EXCEPT ![w].pc = "creating", ![w].on = Newest]
  /\ OnlyCalls /\ UNCHANGED tried

Creates(w) ==
  /\ At(w, "creating") /\ Room
  /\ LET old == call[w].on
     IN  /\ threads' = IF old = 0 THEN Append(threads, "address") ELSE threads
         /\ Create([call[w].read EXCEPT !.thread = IF old = 0 THEN Len(threads) + 1 ELSE old,
                                        !.late = call[w].late])
         /\ tried' = Append(tried, [retries |-> 0, rewrites |-> 0])
  /\ Returns(w)
  /\ UNCHANGED <<suppressed, listed, erased, requests, spared>>

-----------------------------------------------------------------------------
\* retry_failed_drafts

\* Not replaced by a newer message in its thread, recipient not suppressed.
Unreplaced(i) ==
  /\ ~\E j \in DOMAIN messages : j > i /\ messages[j].thread = messages[i].thread
  /\ ~suppressed /\ threads[messages[i].thread] = "address"

\* The selection of `candidates`.
Candidate(i) ==
  /\ Is(i, "failed") /\ messages[i].failure = "transient" /\ messages[i].prompt
  /\ messages[i].root = i
  /\ messages[i].retries < RetryLimit
  /\ Unreplaced(i)

\* The run lists the candidates once; this one's turn comes later.
Lists(w, i) ==
  /\ Free(w) /\ Candidate(i)
  /\ Calling(w, "listed", i, messages[i])
  /\ OnlyCalls /\ UNCHANGED tried

\* _blocked_by_subject: the reason ends the draft's retries.
Blocked(w) ==
  /\ At(w, "listed")
  /\ messages' = [messages EXCEPT ![call[w].on].failure =
                    IF Is(call[w].on, "failed") THEN "blocked" ELSE @]
  /\ Returns(w)
  /\ OnlyMessages /\ UNCHANGED tried

\* Mutation: the claim compares the status alone.
StillFailed(w) == Is(call[w].on, "failed")

\* The compare-and-set of claim_draft_retry and recover_draft: status and count.
Unchanged(w) ==
  /\ Is(call[w].on, "failed")
  /\ messages[call[w].on].retries = call[w].read.retries

\* claim_draft_retry counts the retry before the toolbox is called.
ClaimsRetry(w) ==
  /\ At(w, "listed") /\ Unchanged(w)
  /\ LET i == call[w].on
         n == call[w].read.retries + 1
     IN  /\ messages' = [messages EXCEPT ![i].retries = n]
         /\ Goes(w, "retrying", [call[w].read EXCEPT !.retries = n])
         /\ tried' = [tried EXCEPT ![i].retries = @ + 1]
  /\ OnlyMessages

ClaimLost(w) ==
  /\ At(w, "listed") /\ ~Unchanged(w)
  /\ Returns(w)
  /\ OnlyCalls /\ UNCHANGED tried

\* recover_draft: to review, with what the toolbox made of the prompt read before.
Recovers(w) ==
  /\ At(w, "retrying")
  /\ messages' = IF ~Unchanged(w) THEN messages
                 ELSE [messages EXCEPT ![call[w].on] =
                         [@ EXCEPT !.status = "review_required", !.failure = "none",
                                   !.plain = TRUE, !.late = call[w].late \/ call[w].read.late]]
  /\ Returns(w)
  /\ OnlyMessages /\ UNCHANGED tried

\* Mutation: the row is written without a look at its status.
Recorded(i, failure) == failure

\* _record_failure writes a row that is still failed, whoever claimed it since.
Records(i, failure) == IF Is(i, "failed") THEN failure ELSE messages[i].failure

FailsAgain(w) ==
  /\ At(w, "retrying")
  /\ \E f \in Failures :
       messages' = [messages EXCEPT ![call[w].on].failure = Records(call[w].on, f)]
  /\ Returns(w)
  /\ OnlyMessages /\ UNCHANGED tried

-----------------------------------------------------------------------------
\* The reviewer.

Supersedable(i) == Is(i, "review_required")

\* accept, skip and skip_company: a compare-and-set on the status; approved or
\* rejected, the message has left the review.
Reviews(i) ==
  /\ Is(i, "review_required")
  /\ messages' = [messages EXCEPT ![i].status = "decided"]
  /\ UNCHANGED call /\ OnlyMessages /\ UNCHANGED tried

\* Mutation: a rewrite is counted with its version, when there is one.
CountLater(i) == messages[i].rewrites

\* claim_automated_rewrite, before the toolbox is called.
Counted(i) == messages[i].rewrites + 1

\* rewrite: an AI draft; an automated rewrite is counted up to the limit, a
\* human's is not.
Rewrites(w, i) ==
  /\ Free(w) /\ Supersedable(i) /\ messages[i].prompt
  /\ \/ UNCHANGED <<messages, tried>>
     \/ /\ messages[i].rewrites < RewriteLimit
        /\ messages' = [messages EXCEPT ![i].rewrites = Counted(i)]
        /\ tried' = [tried EXCEPT ![messages[i].root].rewrites = @ + 1]
  /\ Calling(w, "rewriting", i, Blank)
  /\ OnlyMessages

\* Mutation: the message was in review when the toolbox was called.
WasSupersedable(w) == TRUE

\* create_version asks the locked row.
StillSupersedable(w) == Supersedable(call[w].on)

\* The fields a version inherits from the locked row.
Inherited(i) == [messages[i] EXCEPT !.status = "review_required", !.retries = 0]

\* create_version: the old version is superseded by the new one.
NewVersion(i, m) ==
  /\ Room
  /\ messages' = Append([messages EXCEPT ![i].status = "superseded"], m)
  /\ tried' = Append(tried, [retries |-> 0, rewrites |-> 0])

SavesVersion(w) ==
  /\ At(w, "rewriting") /\ StillSupersedable(w)
  /\ NewVersion(call[w].on,
       [Inherited(call[w].on) EXCEPT !.plain = TRUE, !.prompt = TRUE, !.late = call[w].late \/ @])
  /\ Returns(w)
  /\ OnlyMessages

\* edit: what the reviewer writes tells as much as what is shown.
Edits(i) ==
  /\ Supersedable(i)
  /\ NewVersion(i, Inherited(i))
  /\ UNCHANGED call /\ OnlyMessages

\* _failed_rewrite: a failed version, the old one stays in the queue; it is not
\* retried, whatever the failure.
RewriteFails(w) ==
  /\ At(w, "rewriting") /\ StillSupersedable(w) /\ Room
  /\ messages' = Append(messages,
       [Inherited(call[w].on) EXCEPT !.status = "failed", !.failure = "transient"])
  /\ tried' = Append(tried, [retries |-> 0, rewrites |-> 0])
  /\ Returns(w)
  /\ OnlyMessages

\* InvalidTransitionError
Refused(w) ==
  /\ At(w, "rewriting") /\ ~StillSupersedable(w)
  /\ Returns(w)
  /\ OnlyCalls /\ UNCHANGED tried

-----------------------------------------------------------------------------
\* Anonymisation and erasure.

\* No erasure at work; keys start at 1.
None == {0}

\* threads_of_hash: to the address, whose hash is asked for.
ThreadsOfHash == {t \in DOMAIN threads : threads[t] = "address"}

\* threads_of_email: to the address or to its token.
ThreadsOfEmail == DOMAIN threads

Tokenised(some) == [t \in DOMAIN threads |-> IF t \in some THEN "token" ELSE threads[t]]

\* on_contact_anonymised, whose statements are not one transaction: a thread
\* opened after the listing keeps the address as one opened after the last.  One
\* anonymisation is enough: a later one finds no thread to the address but these.
Anonymises ==
  /\ ~suppressed
  /\ threads' = Tokenised(ThreadsOfHash)
  /\ suppressed' = TRUE
  /\ UNCHANGED <<messages, listed, call, erased, requests, tried, spared>>

\* gdpr_erase lists the threads outside its transaction.
Erases ==
  /\ listed = None /\ ~erased
  /\ listed' = ThreadsOfEmail
  /\ spared' = DOMAIN threads
  /\ UNCHANGED <<messages, threads, suppressed, call, erased, requests, tried>>

Scrubbed(m) == [m EXCEPT !.plain = FALSE, !.prompt = FALSE]

\* The transaction of gdpr_erase; a call at work does not notice it.
Erased ==
  /\ listed # None
  /\ messages' = [i \in DOMAIN messages |->
                    IF messages[i].thread \in listed THEN Scrubbed(messages[i]) ELSE messages[i]]
  /\ threads' = Tokenised(listed)
  /\ suppressed' = TRUE
  /\ listed' = None /\ erased' = TRUE
  /\ call' = [w \in Workers |-> IF Free(w) THEN Idle ELSE [call[w] EXCEPT !.late = TRUE]]
  /\ spared' = DOMAIN threads \ spared
  /\ UNCHANGED <<requests, tried>>

-----------------------------------------------------------------------------

Init ==
  /\ messages = <<>> /\ threads = <<>>
  /\ suppressed = FALSE
  /\ call = [w \in Workers |-> Idle]
  /\ listed = None /\ erased = FALSE
  /\ requests = 0 /\ tried = <<>> /\ spared = {}

Communicates(w) == Requests(w) \/ LooksUpThread(w) \/ Creates(w)

RetryStep(w) == Blocked(w) \/ ClaimsRetry(w) \/ ClaimLost(w) \/ Recovers(w) \/ FailsAgain(w)

ReviewStep(w) ==
  \/ \E i \in DOMAIN messages : Rewrites(w, i)
  \/ SavesVersion(w) \/ RewriteFails(w) \/ Refused(w)

PrivacyStep == Anonymises \/ Erases \/ Erased

Next ==
  \/ \E w \in Workers :
       \/ Communicates(w) \/ RetryStep(w) \/ ReviewStep(w) \/ Dies(w)
       \/ \E i \in DOMAIN messages : Lists(w, i)
  \/ \E i \in DOMAIN messages : Reviews(i) \/ Edits(i)
  \/ PrivacyStep

Spec == Init /\ [][Next]_vars
=============================================================================
