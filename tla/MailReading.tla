---------------------------- MODULE MailReading ----------------------------
(***************************************************************************)
(* What an inbound mail is about (inbound_service, mail_parser,            *)
(* dsn_service) and the threading headers of the mail it answers           *)
(* (mail_builder): the thread of an answer, the message of a delivery      *)
(* report, and whether an answer is automatic or asks for an opt-out.      *)
(*                                                                         *)
(* A message's Message-ID is its key, 0 stands for none; a header is a     *)
(* sequence of ids and other words.  A text is a sequence of lines that    *)
(* hold an opt-out phrase of a language, or none; what is cut from it is   *)
(* the set of the lines that stay.                                         *)
(***************************************************************************)
EXTENDS Integers, Sequences, FiniteSets, FiniteSetsExt, Functions

CONSTANTS
  Now,        \* when the mails are read
  Words,      \* what stands between the ids of a header
  ScanLines,  \* OPTOUT_SCAN_CHARS, in lines
  Listed      \* the languages with a list of opt-out phrases

VARIABLES
  known,     \* per thread, in order of creation: channel, status, recipient
  messages,  \* per message: thread, status, sentAt (0 until it is sent)
  letter     \* an answer: language of its thread, automatic, html (no plain text), lines

NoThread == 0
NoId == 0

NewestOf(S) == IF S = {} THEN 0 ELSE Max(S)

-----------------------------------------------------------------------------
\* The headers of an outgoing mail.

\* Mutation: the references of every thread.
EarlierAnywhere(m) ==
  {o \in DOMAIN messages \ {m} :
     messages[o].status = "sent" /\ messages[o].sentAt < messages[m].sentAt}

\* The mails sent in its thread before it.
Earlier(m) ==
  {o \in DOMAIN messages \ {m} :
     /\ messages[o].thread = messages[m].thread
     /\ messages[o].status = "sent"
     /\ messages[o].sentAt < messages[m].sentAt}

\* In the order they were sent.
References(m) ==
  CHOOSE line \in [1..Cardinality(Earlier(m)) -> Earlier(m)] :
    \A i, j \in DOMAIN line :
      i < j => messages[line[i]].sentAt <= messages[line[j]].sentAt /\ line[i] # line[j]

-----------------------------------------------------------------------------
\* The thread of an inbound mail.

\* header_ids, as far as a header says which mails it names.
HeaderIds(value) == Range(value) \ {Words}

\* The Date header, now for a mail without a readable one.
SentAt(mail) == IF mail.date = 0 THEN Now ELSE mail.date

OutboundByIds(channel, ids) ==
  NewestOf({m \in DOMAIN messages :
              /\ messages[m].sentAt > 0
              /\ m \in ids
              /\ known[messages[m].thread].channel = channel})

LastOut(t) == NewestOf({messages[m].sentAt : m \in {n \in DOMAIN messages : messages[n].thread = t}})

SenderThread(channel, sender, written) ==
  NewestOf({t \in DOMAIN known :
              /\ known[t].channel = channel
              /\ known[t].status = "open"
              /\ known[t].recipient = sender
              /\ LastOut(t) # 0 /\ LastOut(t) < written})

MatchThread(channel, mail) ==
  LET direct == OutboundByIds(channel, HeaderIds(mail.inReplyTo))
      listed == OutboundByIds(channel, HeaderIds(mail.references))
  IN  IF direct # 0 THEN messages[direct].thread
      ELSE IF listed # 0 THEN messages[listed].thread
      ELSE SenderThread(channel, mail.sender, SentAt(mail))

-----------------------------------------------------------------------------
\* The message of a delivery report.

\* Mutation: the references are read before In-Reply-To.
ReferencesFirst(report) ==
  report.original \o report.references \o report.inReplyTo \o report.returned

Candidates(report) ==
  report.original \o report.inReplyTo \o report.references \o report.returned

\* The first id of these fields.
OriginalMessageId(report) ==
  LET fields == Candidates(report)
      ids == {i \in DOMAIN fields : fields[i] # Words}
  IN  IF ids = {} THEN NoId ELSE fields[Min(ids)]

-----------------------------------------------------------------------------
\* What an answer asks for.

Intro == [intro |-> TRUE, quoted |-> FALSE, phrase |-> "none", author |-> "client"]

\* The tags that quote a line are lost where only the HTML of a mail is read.
BodyText(mail) ==
  [i \in DOMAIN mail.lines |->
     IF mail.html THEN [mail.lines[i] EXCEPT !.quoted = FALSE] ELSE mail.lines[i]]

\* Mutation: what stands below the introduction counts as well.
WithHistory(lines) == {i \in DOMAIN lines : ~lines[i].quoted}

\* The lines above the one that introduces the quoted mail, without quoted ones.
Unquoted(lines) ==
  {i \in DOMAIN lines : ~lines[i].quoted /\ \A j \in 1..i : ~lines[j].intro}

\* The phrases of a language, all of them for a language without a list.
Phrases(language) == IF language \in Listed THEN {language} ELSE Listed

\* A phrase in the first of the lines that stay.
HasOptoutPhrase(language, lines, own) ==
  \E i \in own :
    /\ Cardinality({j \in own : j <= i}) <= ScanLines
    /\ lines[i].phrase \in Phrases(language)

\* is_autoreply: the headers or the subject say so.
IsAutoreply(mail) == mail.automatic

Classify(mail) ==
  LET lines == BodyText(mail)
  IN  IF IsAutoreply(mail) THEN "auto"
      ELSE IF HasOptoutPhrase(mail.language, lines, Unquoted(lines)) THEN "suspected_optout"
      ELSE "reply"

-----------------------------------------------------------------------------

Sent == {m \in DOMAIN messages : messages[m].sentAt > 0}
ChannelOf(m) == known[messages[m].thread].channel

\* An answer of the recipient to a mail, with the ids its client gives.
Answer(m, inReplyTo, references, date) ==
  [inReplyTo |-> IF inReplyTo THEN <<Words, m>> ELSE <<>>,
   references |-> IF references THEN References(m) \o <<Words, m>> ELSE <<Words>>,
   sender |-> known[messages[m].thread].recipient,
   date |-> date]

\* The recipient's only thread that waits for an answer.
OnlyThread(m) ==
  LET t == messages[m].thread
  IN  /\ known[t].status = "open"
      /\ \A u \in DOMAIN known \ {t} :
           known[u].channel = known[t].channel => known[u].recipient # known[t].recipient

\* The answer to any mail that left is put to that mail's thread, in the mailbox
\* of its channel, by whichever of its ids the client kept and whenever it was
\* written.  Without any id, and when the sender's only thread is this open one,
\* an answer written after our last mail of the thread is put to it, and one
\* written before, as when a follow-up left meanwhile, to none (_match_thread,
\* _sender_thread against threading_headers).
AnswersFindTheirThread ==
  \A m \in Sent : \A direct, listed \in BOOLEAN : \A date \in 0..Now :
    LET thread == messages[m].thread
        mail == Answer(m, direct, listed, date)
        found == MatchThread(ChannelOf(m), mail)
        late == LastOut(thread) < SentAt(mail)
    IN  /\ direct \/ listed => found = thread
        /\ ~direct /\ ~listed /\ OnlyThread(m) => found = IF late THEN thread ELSE NoThread

\* A delivery report on a mail, with the fields in "gives".
ReportOn(m, gives) ==
  [original |-> IF "original" \in gives THEN <<m>> ELSE <<>>,
   inReplyTo |-> IF "inReplyTo" \in gives THEN <<m>> ELSE <<>>,
   references |-> IF "references" \in gives THEN References(m) \o <<m>> ELSE <<>>,
   returned |-> IF "returned" \in gives THEN <<m>> ELSE <<>>]

\* A delivery report on any mail that left names that mail and not an earlier one
\* of the thread, whatever fields the reporting server fills; only References
\* without In-Reply-To names the first of them (original_message_id).
ReportsFindTheirMail ==
  \A m \in Sent : \A gives \in SUBSET {"original", "inReplyTo", "references", "returned"} :
    gives # {} /\ ("references" \in gives => gives \cap {"original", "inReplyTo"} # {}) =>
      OutboundByIds(ChannelOf(m), {OriginalMessageId(ReportOn(m, gives))}) = m

\* Our own opt-out notice, quoted back, never makes an answer a suspicion: the
\* sender wrote the phrase, but for HTML that quotes above or without a line of
\* introduction.  What the sender wrote at the top, in the language of the
\* thread, is never missed (body_text, unquoted, has_optout_phrase).
OwnWordsDecide ==
  LET by(i) == letter.lines[i].author = "sender" /\ letter.lines[i].phrase # "none"
      seen(i) ==
        /\ by(i) /\ letter.lines[i].phrase = letter.language /\ i <= ScanLines
        /\ \A j \in 1..i : ~letter.lines[j].intro
        /\ ~letter.lines[i].quoted
      introduced(i) == \E j \in 1..i : letter.lines[j].intro
  IN  /\ /\ Classify(letter) = "suspected_optout"
         /\ letter.html =>
              \A i \in DOMAIN letter.lines : letter.lines[i].author = "us" => introduced(i)
         => \E i \in DOMAIN letter.lines : by(i)
      /\ (\E i \in DOMAIN letter.lines : seen(i)) /\ letter.language \in Listed
           => Classify(letter) # "reply"
=============================================================================
