---------------------------- MODULE MailboxPoll ----------------------------
(***************************************************************************)
(* The IMAP poll of one channel (poll_service): it reads the configured    *)
(* folder above a UID cursor, stores what inbound_service.ingest accepts,  *)
(* quarantines what can never be read, and moves the cursor.               *)
(*                                                                         *)
(* Each database write and each IMAP command is one step, so operators     *)
(* saving the mailbox (inbox_service.save_mailbox, the Django admin form), *)
(* the mail server, failures and other polls - the celery-once lock of     *)
(* `poll_inbox` expires under a slow one - come in between any two.        *)
(*                                                                         *)
(* A mail is its Message-ID and what ingest makes of it; copies of a mail  *)
(* share both.  What a stored reply changes elsewhere commits with its     *)
(* row, in the transaction of `ingest`.                                    *)
(***************************************************************************)
EXTENDS Integers, FiniteSets, Sequences

CONSTANTS
  Mails,       \* the Message-IDs that can arrive
  KindOf,      \* [Mails -> Kinds]
  Boxes,       \* what MAILBOX_IDENTITY distinguishes: host, user and folder
  Polls,       \* the worker processes that can execute poll_inbox
  Batch,       \* COMMUNICATOR_INBOUND_BATCH
  MaxUids,     \* bound: UIDs a folder gives under one UIDVALIDITY
  MaxValidity, \* bound: the last UIDVALIDITY of a folder
  MaxEdits,    \* bound: saves of the mailbox settings, by request or form
  MaxFaults,   \* bound: crashes and failing calls
  None         \* no UIDVALIDITY, no session, no mail, no request

\* reply: matches a thread; stranger: dropped; broken: DataError or unreadable.
Kinds == {"reply", "stranger", "broken", "oversized"}

ASSUME KindsAssumption == KindOf \in [Mails -> Kinds]
ASSUME BoundsAssumption ==
  /\ Batch \in Nat \ {0} /\ MaxUids \in Nat /\ MaxValidity \in Nat \ {0}
  /\ MaxEdits \in Nat /\ MaxFaults \in Nat

Uids == 0..MaxUids
Validities == 1..MaxValidity
Rows == [box : Boxes, active : BOOLEAN, uid_validity : Validities \cup {None}, last_uid : Uids]
Sessions == [box : Boxes, validity : Validities]

ASSUME NoneAssumption == None \notin Mails \cup Nat \cup Rows \cup Sessions

VARIABLES
  \* the mail server
  folder,    \* per box, the mail under each UID, None when expunged
  validity,  \* per box, its UIDVALIDITY
  \* the database
  config,    \* the row of MailboxConfig
  replies,   \* rows of Reply per Message-ID
  \* the operator's requests
  draft,     \* the row a save has read and changed, and is about to write
  shown,     \* last_uid as an open admin form shows it
  \* local state of each poll
  pc,        \* the call it makes next
  mine,      \* its copy of the row
  session,   \* the box and UIDVALIDITY its connection has selected
  todo,      \* the UIDs SEARCH found and it has not finished
  raw,       \* the mail it has fetched
  \* bounds and history
  edits, faults,
  taken,     \* mails dropped or quarantined
  disturbed  \* the cursor was written from a row that no longer held

server == <<folder, validity>>
request == <<draft, shown, edits>>
local == <<pc, mine, session, todo, raw>>
vars == <<server, config, replies, request, local, faults, taken, disturbed>>

-----------------------------------------------------------------------------
\* Steps by what they leave alone.
OnlyLocal == UNCHANGED <<server, config, replies, request, faults, taken, disturbed>>
OnlyCursor == UNCHANGED <<server, replies, request, faults, taken>>
OnlyStored == UNCHANGED <<server, config, request, faults, disturbed>>

Go(p, label) == pc' = [pc EXCEPT ![p] = label]

\* The run ends: its connection closes and its locals go.
End(p) ==
  /\ Go(p, "idle")
  /\ mine' = [mine EXCEPT ![p] = None]
  /\ session' = [session EXCEPT ![p] = None]
  /\ todo' = [todo EXCEPT ![p] = {}]
  /\ raw' = [raw EXCEPT ![p] = None]

Open(p) == pc[p] # "idle"
SomeOpen == \E p \in Polls : Open(p)

\* The UID at hand, oldest first, and what the server has under it.
AtHand(p, u) == u \in todo[p] /\ \A w \in todo[p] : u <= w
Stored(p, u) == folder[session[p].box][u]

\* The server keeps a connection only while the folder keeps its UIDVALIDITY.
Connected(p) == validity[session[p].box] = session[p].validity

-----------------------------------------------------------------------------
\* poll_mailbox

\* poll_all lists the active mailboxes; a row read here is used much later.
Load(p) ==
  /\ pc[p] = "idle"
  /\ config.active
  /\ Go(p, "examine")
  /\ mine' = [mine EXCEPT ![p] = config]
  /\ UNCHANGED <<session, todo, raw>>
  /\ OnlyLocal

\* EXAMINE: the cursor stays when it belongs to this UIDVALIDITY.
Examine(p) ==
  /\ pc[p] = "examine"
  /\ LET found == [box |-> mine[p].box, validity |-> validity[mine[p].box]]
     IN /\ session' = [session EXCEPT ![p] = found]
        /\ Go(p, IF found.validity = mine[p].uid_validity THEN "search" ELSE "restart")
  /\ UNCHANGED <<mine, todo, raw>>
  /\ OnlyLocal

\* Mutation: a changed UIDVALIDITY keeps the cursor.
RestartedInPlace(row, found) == [row EXCEPT !.uid_validity = found]

\* A first UIDVALIDITY is adopted with the cursor there is, a changed one
\* reads from UID 0.
Restarted(row, found) ==
  [row EXCEPT !.uid_validity = found,
              !.last_uid = IF row.uid_validity = None THEN @ ELSE 0]

\* Another poll is still at work in another numbering.
Outpaced(p) == \E q \in Polls \ {p} : session[q] \notin {None, session[p]}

Restart(p) ==
  /\ pc[p] = "restart"
  /\ LET row == Restarted(mine[p], session[p].validity)
     IN /\ mine' = [mine EXCEPT ![p] = row]
        /\ config' = [config EXCEPT !.uid_validity = row.uid_validity, !.last_uid = row.last_uid]
  /\ disturbed' = (disturbed \/ Outpaced(p))
  /\ Go(p, "search")
  /\ UNCHANGED <<session, todo, raw>>
  /\ OnlyCursor

\* The oldest `Batch` UIDs above the cursor.
NewUids(content, last) ==
  LET above == {u \in DOMAIN content : u > last /\ content[u] # None}
  IN {u \in above : Cardinality({w \in above : w < u}) < Batch}

Search(p) ==
  /\ pc[p] = "search"
  /\ Connected(p)
  /\ LET uids == NewUids(folder[session[p].box], mine[p].last_uid)
     IN /\ uids # {}
        /\ todo' = [todo EXCEPT ![p] = uids]
  /\ Go(p, "measure")
  /\ UNCHANGED <<mine, session, raw>>
  /\ OnlyLocal

\* Nothing new: the connection closes and last_polled_at is written.
SearchFindsNone(p) ==
  /\ pc[p] = "search"
  /\ Connected(p)
  /\ NewUids(folder[session[p].box], mine[p].last_uid) = {}
  /\ End(p)
  /\ OnlyLocal

\* What its size decides; a mail expunged since SEARCH has none.
AfterSize(mail) ==
  CASE mail = None -> "advance"
    [] mail \in Mails /\ KindOf[mail] = "oversized" -> "quarantine"
    [] OTHER -> "fetch"

\* FETCH RFC822.SIZE
Measure(p) ==
  /\ pc[p] = "measure"
  /\ Connected(p)
  /\ \E u \in 1..MaxUids :
       /\ AtHand(p, u)
       /\ Go(p, AfterSize(Stored(p, u)))
       /\ raw' = [raw EXCEPT ![p] = Stored(p, u)]
  /\ UNCHANGED <<mine, session, todo>>
  /\ OnlyLocal

\* Mutation: a mail that is gone is ingested like any other.
AfterFetchUnchecked(mail) == "ingest"

AfterFetch(mail) == IF mail = None THEN "advance" ELSE "ingest"

\* FETCH BODY.PEEK[]
Fetch(p) ==
  /\ pc[p] = "fetch"
  /\ Connected(p)
  /\ \E u \in 1..MaxUids :
       /\ AtHand(p, u)
       /\ Go(p, AfterFetch(Stored(p, u)))
       /\ raw' = [raw EXCEPT ![p] = Stored(p, u)]
  /\ UNCHANGED <<mine, session, todo>>
  /\ OnlyLocal

\* Between two commands the folder got another UIDVALIDITY: the command fails.
Disconnect(p) ==
  /\ pc[p] \in {"search", "measure", "fetch"}
  /\ ~Connected(p)
  /\ End(p)
  /\ OnlyLocal

\* _ingest, and inbound_service.ingest up to the first write of a reply.
Ingest(p) ==
  /\ pc[p] = "ingest"
  /\ LET known == replies[raw[p]] > 0
         kind == KindOf[raw[p]]
     IN /\ Go(p, CASE kind = "broken" -> "quarantine"
                   [] kind = "reply" /\ ~known -> "insert"
                   [] OTHER -> "advance")
        /\ taken' = IF kind = "stranger" THEN taken \cup {raw[p]} ELSE taken
  /\ UNCHANGED <<mine, session, todo, raw, replies>>
  /\ OnlyStored

\* Mutation: only the check at the start of ingest keeps duplicates out.
UniqueUnchecked(m) == TRUE

\* communicator_reply_inbound_uniq: one Reply per channel and Message-ID.
Unique(m) == replies[m] = 0

Insert(p) ==
  /\ pc[p] = "insert"
  /\ Unique(raw[p])
  /\ replies' = [replies EXCEPT ![raw[p]] = @ + 1]
  /\ Go(p, "advance")
  /\ UNCHANGED <<mine, session, todo, raw, taken>>
  /\ OnlyStored

\* IntegrityError is a DatabaseError: it ends the run of this mailbox.
InsertRefused(p) ==
  /\ pc[p] = "insert"
  /\ ~Unique(raw[p])
  /\ End(p)
  /\ OnlyLocal

\* Mutation: the quarantined mail keeps its place in front of the cursor.
QuarantineInPlace(p) ==
  /\ pc[p] = "quarantine"
  /\ taken' = taken \cup {raw[p]}
  /\ End(p)
  /\ UNCHANGED replies
  /\ OnlyStored

\* The row of InboundQuarantine; the cursor is written by the next statement.
Quarantine(p) ==
  /\ pc[p] = "quarantine"
  /\ taken' = taken \cup {raw[p]}
  /\ Go(p, "advance")
  /\ UNCHANGED <<mine, session, todo, raw, replies>>
  /\ OnlyStored

\* Only `last_uid` is written, whatever the row has become.
Moved(row, uid) == [row EXCEPT !.last_uid = uid]

\* The loop of poll_mailbox goes on above the UID, or ends.
GoOn(p, u) ==
  /\ Go(p, "measure")
  /\ mine' = [mine EXCEPT ![p] = Moved(@, u)]
  /\ todo' = [todo EXCEPT ![p] = @ \ {u}]
  /\ raw' = [raw EXCEPT ![p] = None]
  /\ UNCHANGED session

Advance(p) ==
  /\ pc[p] = "advance"
  /\ \E u \in 1..MaxUids :
       /\ AtHand(p, u)
       /\ config' = Moved(config, u)
       /\ IF todo[p] = {u} THEN End(p) ELSE GoOn(p, u)
  /\ UNCHANGED disturbed
  /\ OnlyCursor

\* A worker dies, the connection drops, a command answers NO, the database is
\* away: nothing is written, and the next beat starts over.
Fail(p) ==
  /\ Open(p)
  /\ faults < MaxFaults
  /\ faults' = faults + 1
  /\ End(p)
  /\ UNCHANGED <<server, config, replies, request, taken, disturbed>>

-----------------------------------------------------------------------------
\* The operator

\* Mutation: another mailbox inherits the cursor.
NewRowKeepsCursor(row, box, active) == [row EXCEPT !.box = box, !.active = active]

\* Another mailbox starts over.
NewRow(row, box, active) ==
  IF box = row.box THEN [row EXCEPT !.active = active]
  ELSE [box |-> box, active |-> active, uid_validity |-> None, last_uid |-> 0]

\* save_mailbox reads the row, and writes every column of it back.
SaveRead(box, active) ==
  /\ draft = None
  /\ edits < MaxEdits
  /\ edits' = edits + 1
  /\ draft' = NewRow(config, box, active)
  /\ UNCHANGED <<shown, server, config, replies, local, faults, taken, disturbed>>

SaveWrite ==
  /\ draft # None
  /\ config' = draft
  /\ draft' = None
  /\ disturbed' = (disturbed \/ SomeOpen)
  /\ UNCHANGED <<shown, edits, server, replies, local, faults, taken>>

\* The admin form carries last_uid: it posts what it showed.
FormOpen ==
  /\ shown = None
  /\ edits < MaxEdits
  /\ edits' = edits + 1
  /\ shown' = config.last_uid
  /\ UNCHANGED <<draft, server, config, replies, local, faults, taken, disturbed>>

FormPost(box, active) ==
  /\ shown # None
  /\ draft = None
  /\ LET row == NewRow(config, box, active)
     IN draft' = IF box = config.box THEN [row EXCEPT !.last_uid = shown] ELSE row
  /\ disturbed' = (disturbed \/ (box = config.box /\ shown # config.last_uid))
  /\ shown' = None
  /\ UNCHANGED <<edits, server, config, replies, local, faults, taken>>

-----------------------------------------------------------------------------
\* The mail server

OnlyServer == UNCHANGED <<config, replies, request, local, faults, taken, disturbed>>

\* A mail, or another copy of one, is delivered to a folder.
Arrive(b, m) ==
  /\ Len(folder[b]) < MaxUids
  /\ folder' = [folder EXCEPT ![b] = Append(@, m)]
  /\ UNCHANGED validity
  /\ OnlyServer

Expunge(b, u) ==
  /\ u \in DOMAIN folder[b]
  /\ folder[b][u] # None
  /\ folder' = [folder EXCEPT ![b][u] = None]
  /\ UNCHANGED validity
  /\ OnlyServer

\* The folder is recreated: its mail gets other UIDs, in any order, under a
\* new UIDVALIDITY.
Renumber(b) ==
  /\ validity[b] < MaxValidity
  /\ validity' = [validity EXCEPT ![b] = @ + 1]
  /\ \E n \in 0..MaxUids : \E content \in [1..n -> Mails] :
       /\ {content[u] : u \in 1..n} = {folder[b][u] : u \in DOMAIN folder[b]} \ {None}
       /\ folder' = [folder EXCEPT ![b] = content]
  /\ OnlyServer

-----------------------------------------------------------------------------

Init ==
  /\ folder = [b \in Boxes |-> <<>>]
  /\ validity = [b \in Boxes |-> 1]
  /\ config \in [box : Boxes, active : {TRUE}, uid_validity : {None}, last_uid : {0}]
  /\ replies = [m \in Mails |-> 0]
  /\ draft = None
  /\ shown = None
  /\ pc = [p \in Polls |-> "idle"]
  /\ mine = [p \in Polls |-> None]
  /\ session = [p \in Polls |-> None]
  /\ todo = [p \in Polls |-> {}]
  /\ raw = [p \in Polls |-> None]
  /\ edits = 0 /\ faults = 0
  /\ taken = {}
  /\ disturbed = FALSE

PollStep(p) ==
  \/ Load(p) \/ Examine(p) \/ Restart(p) \/ Search(p) \/ SearchFindsNone(p)
  \/ Measure(p) \/ Fetch(p) \/ Disconnect(p)
  \/ Ingest(p) \/ Insert(p) \/ InsertRefused(p) \/ Quarantine(p) \/ Advance(p)

Operator ==
  \/ \E box \in Boxes, active \in BOOLEAN : SaveRead(box, active) \/ FormPost(box, active)
  \/ SaveWrite
  \/ FormOpen

Server ==
  \E b \in Boxes :
    \/ \E m \in Mails : Arrive(b, m)
    \/ \E u \in 1..MaxUids : Expunge(b, u)
    \/ Renumber(b)

Next ==
  \/ \E p \in Polls : PollStep(p) \/ Fail(p)
  \/ Operator
  \/ Server

Spec == Init /\ [][Next]_vars

\* The beat starts polls, and every call of one has a timeout.
LiveSpec == Spec /\ \A p \in Polls : WF_vars(PollStep(p))
=============================================================================
