----------------------- MODULE MailboxPollProperties -----------------------
(* What MailboxPoll must keep: typing, the cursor, duplicates, progress. *)
EXTENDS MailboxPoll

ServerTyped ==
  /\ folder \in [Boxes -> Seq(Mails \cup {None})]
  /\ \A b \in Boxes : Len(folder[b]) <= MaxUids
  /\ validity \in [Boxes -> Validities]

DatabaseTyped ==
  /\ config \in Rows
  /\ draft \in Rows \cup {None}
  /\ shown \in Uids \cup {None}
  /\ replies \in [Mails -> Nat]

Labels == {"idle", "examine", "restart", "search", "measure", "fetch",
           "ingest", "insert", "quarantine", "advance"}
AtMail == {"measure", "fetch", "ingest", "insert", "quarantine", "advance"}
WithMail == {"ingest", "insert", "quarantine"}

\* What a poll holds at each call.
PollsTyped ==
  /\ pc \in [Polls -> Labels]
  /\ mine \in [Polls -> Rows \cup {None}]
  /\ session \in [Polls -> Sessions \cup {None}]
  /\ todo \in [Polls -> SUBSET (1..MaxUids)]
  /\ raw \in [Polls -> Mails \cup {None}]
  /\ \A p \in Polls :
       /\ mine[p] = None <=> pc[p] = "idle"
       /\ session[p] = None <=> pc[p] \in {"idle", "examine"}
       /\ todo[p] # {} <=> pc[p] \in AtMail
       /\ pc[p] \in WithMail => raw[p] \in Mails

\* The UIDs a connected poll found are UIDs of its folder.
UidsFound ==
  \A p \in Polls : session[p] # None =>
    /\ session[p].validity <= validity[session[p].box]
    /\ Connected(p) => todo[p] \subseteq DOMAIN folder[session[p].box]

HistoryTyped ==
  /\ edits \in 0..MaxEdits /\ faults \in 0..MaxFaults
  /\ taken \subseteq Mails
  /\ disturbed \in BOOLEAN

\* Typing: a poll at a mail has a UID at hand, a session and its row, and the
\* calls that take a mail have fetched one.
TypeOK == ServerTyped /\ DatabaseTyped /\ PollsTyped /\ UidsFound /\ HistoryTyped

-----------------------------------------------------------------------------

\* The cursor holds for a folder under the UIDVALIDITY the next EXAMINE will
\* accept it with: the one it was written for, or any when there is none.
Binding == config.uid_validity \in {None, validity[config.box]}

\* A mail that ingest takes for a reply has its row; another was put aside.
Handled(m) == IF KindOf[m] = "reply" THEN replies[m] > 0 ELSE m \in taken

\* Every mail under the cursor was ingested, dropped or quarantined, or is
\* gone: none is passed over (poll_service.py:7-8).
CursorTruthful ==
  Binding => \A u \in DOMAIN folder[config.box] :
               u <= config.last_uid =>
                 folder[config.box][u] = None \/ Handled(folder[config.box][u])

\* CursorTruthful through crashes, overlapping polls and new UIDVALIDITYs, as
\* long as no save, stale form or other numbering crosses an open poll.
NothingPassedOver == ~disturbed => CursorTruthful

\* A mail gives at most one reply of the channel, however often it arrives,
\* is read again, or is read by two polls at once (inbound_service.ingest).
ReplyOnce == \A m \in Mails : replies[m] <= 1

\* The mail m waits in the mailbox the channel reads.
Waits(m) ==
  /\ config.active /\ ~disturbed
  /\ \E u \in DOMAIN folder[config.box] : folder[config.box][u] = m
  /\ ~Handled(m)

\* A waiting mail does not wait for ever: unreadable mail, failures, expunged
\* UIDs and polls that write the cursor back never block the mailbox.
MailProceeds == \A m \in Mails : Waits(m) ~> ~Waits(m)
=============================================================================
