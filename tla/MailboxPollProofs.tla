------------------------- MODULE MailboxPollProofs -------------------------
(***************************************************************************)
(* Proofs about MailboxPoll: typing, one reply per mail, and that no mail  *)
(* is passed over, for any mails, boxes, polls and bounds.                 *)
(***************************************************************************)
EXTENDS MailboxPollProperties, FiniteSetTheorems, TLAPS

\* The UIDs of each folder whose mail still has to be taken.
Pending ==
  [b \in Boxes |-> {u \in DOMAIN folder[b] : folder[b][u] # None /\ ~Handled(folder[b][u])}]

\* A row holds: nothing is pending under its cursor if its UIDVALIDITY is still
\* current, and the cursor is 0 while there is none.
Holds(row) ==
  /\ row.uid_validity = None => row.last_uid = 0
  /\ row.uid_validity # None => row.uid_validity <= validity[row.box]
  /\ row.uid_validity = validity[row.box] =>
       /\ row.last_uid <= Len(folder[row.box])
       /\ \A u \in Pending[row.box] : row.last_uid < u

RowsHold ==
  /\ Holds(config)
  /\ draft # None => Holds(draft)
  /\ \A p \in Polls : Open(p) => Holds(mine[p])

\* An open poll works on the mailbox of the row, neither its copy is ahead of
\* the row nor the row ahead of its session, and past the restart all agree.
Agrees(p) ==
  /\ mine[p].box = config.box
  /\ mine[p].uid_validity # None =>
       config.uid_validity # None /\ mine[p].uid_validity <= config.uid_validity
  /\ session[p] # None =>
       /\ session[p].box = config.box
       /\ config.uid_validity # None => config.uid_validity <= session[p].validity
       /\ pc[p] # "restart" => /\ mine[p].uid_validity = session[p].validity
                               /\ config.uid_validity = session[p].validity

\* What a connected poll has put behind it is no longer pending.
Sweeps(p) ==
  \A u \in Pending[session[p].box], w \in todo[p] : u < w => u \in todo[p]

\* The mail a connected poll has fetched is the one under its UID, and of the
\* kind its next call is for.
Carries(p) ==
  /\ \A u \in todo[p] : AtHand(p, u) =>
       /\ pc[p] \in {"fetch", "ingest", "insert", "quarantine"} => Stored(p, u) \in {None, raw[p]}
       /\ pc[p] = "advance" => u \notin Pending[session[p].box]
  /\ pc[p] \in {"fetch", "ingest"} /\ raw[p] \in Mails => KindOf[raw[p]] # "oversized"
  /\ pc[p] = "insert" => KindOf[raw[p]] = "reply"
  /\ pc[p] = "quarantine" => KindOf[raw[p]] # "reply"

PollsHold ==
  \A p \in Polls :
    /\ Open(p) => Agrees(p)
    /\ session[p] # None /\ Connected(p) => Sweeps(p) /\ Carries(p)

CursorInv == ~disturbed => RowsHold /\ PollsHold

-----------------------------------------------------------------------------
\* Typing.

LEMMA EndTyped ==
  ASSUME PollsTyped, NEW p \in Polls, End(p)
  PROVE  PollsTyped'
BY NoneAssumption DEF PollsTyped, End, Go, Labels, AtMail, WithMail

LEMMA NewRowTyped ==
  ASSUME NEW row \in Rows, NEW box \in Boxes, NEW active \in BOOLEAN
  PROVE  NewRow(row, box, active) \in Rows
BY BoundsAssumption DEF Rows, Uids, NewRow

LEMMA NewUidsTyped ==
  ASSUME NEW content \in Seq(Mails \cup {None}), Len(content) <= MaxUids, NEW last
  PROVE  NewUids(content, last) \subseteq 1..MaxUids
<1>1. Len(content) \in Nat /\ DOMAIN content = 1..Len(content)
  OBVIOUS
<1> QED BY <1>1, BoundsAssumption DEF NewUids

LEMMA TypeOKInit == Init => TypeOK
<1> SUFFICES ASSUME Init PROVE TypeOK
  OBVIOUS
<1>1. ServerTyped BY BoundsAssumption DEF Init, ServerTyped, Validities
<1>2. DatabaseTyped
  <2>1. PICK b \in Boxes :
          config = [box |-> b, active |-> TRUE, uid_validity |-> None, last_uid |-> 0]
    BY DEF Init
  <2>2. TRUE \in BOOLEAN /\ None \in Validities \cup {None} /\ 0 \in Uids
    BY BoundsAssumption DEF Uids
  <2>3. config \in Rows BY <2>1, <2>2 DEF Rows
  <2>4. replies \in [Mails -> Nat] /\ draft = None /\ shown = None BY DEF Init
  <2> QED BY <2>3, <2>4 DEF DatabaseTyped
<1>3. PollsTyped BY DEF Init, PollsTyped, Labels, AtMail, WithMail
<1>4. UidsFound BY DEF Init, UidsFound
<1>5. HistoryTyped
  <2>1. edits \in 0..MaxEdits /\ faults \in 0..MaxFaults BY BoundsAssumption DEF Init
  <2>2. taken = {} /\ disturbed = FALSE BY DEF Init
  <2> QED BY <2>1, <2>2 DEF HistoryTyped
<1> QED BY <1>1, <1>2, <1>3, <1>4, <1>5 DEF TypeOK

LEMMA EndFinds ==
  ASSUME PollsTyped, UidsFound, NEW p \in Polls, End(p), UNCHANGED server
  PROVE  UidsFound'
BY DEF PollsTyped, UidsFound, End, Go, Connected, server

\* The steps of a poll that write nothing.
LEMMA QuietStepsTyped ==
  ASSUME TypeOK, NEW p \in Polls,
         \/ Load(p) \/ Examine(p) \/ Search(p) \/ SearchFindsNone(p) \/ Measure(p)
         \/ Fetch(p) \/ Disconnect(p) \/ InsertRefused(p)
  PROVE  TypeOK'
<1> USE DEF TypeOK
<1>0. OnlyLocal
  BY DEF Load, Examine, Search, SearchFindsNone, Measure, Fetch, Disconnect, InsertRefused
<1>s. UNCHANGED server
  BY <1>0 DEF OnlyLocal
<1>1. ServerTyped' /\ DatabaseTyped' /\ HistoryTyped'
  BY <1>0 DEF OnlyLocal, server, request, ServerTyped, DatabaseTyped, HistoryTyped
<1>2. CASE Load(p)
  <2>1. PollsTyped'
    BY <1>2, NoneAssumption
    DEF Load, Go, PollsTyped, DatabaseTyped, Labels, AtMail, WithMail
  <2>2. UidsFound'
    BY <1>2, <1>s DEF Load, UidsFound, Connected, server
  <2> QED BY <1>1, <2>1, <2>2
<1>3. CASE Examine(p)
  <2> DEFINE found == [box |-> mine[p].box, validity |-> validity[mine[p].box]]
  <2>1. mine[p] \in Rows
    BY <1>3 DEF Examine, PollsTyped
  <2>2. found \in Sessions
    BY <2>1 DEF Rows, Sessions, ServerTyped
  <2>3. PollsTyped'
    BY <1>3, <2>2, NoneAssumption DEF Examine, Go, PollsTyped, Labels, AtMail, WithMail
  <2>4. todo[p] = {} /\ validity[found.box] \in Nat
    BY <1>3, <2>2, BoundsAssumption
    DEF Examine, PollsTyped, AtMail, Sessions, ServerTyped, Validities
  <2>5. UidsFound'
    BY <1>3, <1>s, <2>4 DEF Examine, UidsFound, Connected, server, PollsTyped
  <2> QED BY <1>1, <2>3, <2>5
<1>4. CASE Search(p)
  <2> DEFINE content == folder[session[p].box]
             uids == NewUids(content, mine[p].last_uid)
  <2>1. session[p] \in Sessions
    BY <1>4 DEF Search, PollsTyped
  <2>2. content \in Seq(Mails \cup {None}) /\ Len(content) <= MaxUids
    BY <2>1 DEF Sessions, ServerTyped
  <2>3. uids \subseteq 1..MaxUids
    BY <2>2, NewUidsTyped
  <2>4. uids \subseteq DOMAIN content
    BY DEF NewUids
  <2>5. todo' = [todo EXCEPT ![p] = uids] /\ uids # {} /\ Go(p, "measure")
        /\ UNCHANGED <<mine, session, raw>> /\ pc[p] = "search"
    BY <1>4 DEF Search
  <2> HIDE DEF uids
  <2>6. PollsTyped'
    BY <2>3, <2>5 DEF Go, PollsTyped, Labels, AtMail, WithMail
  <2>7. UidsFound'
    BY <1>s, <2>4, <2>5 DEF UidsFound, Connected, server, PollsTyped
  <2> QED BY <1>1, <2>6, <2>7
<1>5. CASE SearchFindsNone(p) \/ Disconnect(p) \/ InsertRefused(p)
  BY <1>1, <1>5, <1>s, EndTyped, EndFinds DEF SearchFindsNone, Disconnect, InsertRefused
<1>6. ASSUME NEW u \in 1..MaxUids, AtHand(p, u), Connected(p), pc[p] \in {"measure", "fetch"},
             NEW label \in {"advance", "quarantine", "fetch", "ingest"},
             label \in WithMail => Stored(p, u) \in Mails,
             Go(p, label), raw' = [raw EXCEPT ![p] = Stored(p, u)],
             UNCHANGED <<mine, session, todo>>
      PROVE  PollsTyped' /\ UidsFound'
  <2>1. session[p] \in Sessions /\ u \in DOMAIN folder[session[p].box]
    BY <1>6 DEF PollsTyped, UidsFound, AtHand
  <2>2. Stored(p, u) \in Mails \cup {None}
    BY <2>1 DEF Stored, ServerTyped, Sessions
  <2>3. PollsTyped'
    BY <1>6, <2>2 DEF Go, PollsTyped, Labels, AtMail, WithMail
  <2>4. UidsFound'
    BY <1>6, <1>s DEF UidsFound, Connected, server
  <2> QED BY <2>3, <2>4
<1>7. ASSUME NEW u \in 1..MaxUids, AtHand(p, u), Connected(p), pc[p] \in {"measure", "fetch"}
      PROVE  Stored(p, u) \in Mails \cup {None}
  <2>1. session[p] \in Sessions /\ u \in DOMAIN folder[session[p].box]
    BY <1>7 DEF PollsTyped, UidsFound, AtHand
  <2> QED BY <2>1 DEF Stored, ServerTyped, Sessions
<1>8. CASE Measure(p)
  <2>1. PICK u \in 1..MaxUids :
          AtHand(p, u) /\ Go(p, AfterSize(Stored(p, u))) /\ raw' = [raw EXCEPT ![p] = Stored(p, u)]
    BY <1>8 DEF Measure
  <2>2. Stored(p, u) \in Mails \cup {None}
    BY <1>7, <1>8, <2>1 DEF Measure
  <2>3. /\ AfterSize(Stored(p, u)) \in {"advance", "quarantine", "fetch"}
        /\ AfterSize(Stored(p, u)) = "quarantine" => Stored(p, u) \in Mails
    BY <2>2 DEF AfterSize
  <2> QED BY <1>1, <1>6, <1>8, <2>1, <2>3 DEF Measure, WithMail
<1>9. CASE Fetch(p)
  <2>1. PICK u \in 1..MaxUids :
          AtHand(p, u) /\ Go(p, AfterFetch(Stored(p, u))) /\ raw' = [raw EXCEPT ![p] = Stored(p, u)]
    BY <1>9 DEF Fetch
  <2>2. Stored(p, u) \in Mails \cup {None}
    BY <1>7, <1>9, <2>1 DEF Fetch
  <2>3. /\ AfterFetch(Stored(p, u)) \in {"advance", "ingest"}
        /\ AfterFetch(Stored(p, u)) = "ingest" => Stored(p, u) \in Mails
    BY <2>2 DEF AfterFetch
  <2> QED BY <1>1, <1>6, <1>9, <2>1, <2>3 DEF Fetch, WithMail
<1> QED BY <1>2, <1>3, <1>4, <1>5, <1>8, <1>9

\* The steps of a poll that write a row, or end it.
LEMMA WritingStepsTyped ==
  ASSUME TypeOK, NEW p \in Polls,
         Restart(p) \/ Ingest(p) \/ Insert(p) \/ Quarantine(p) \/ Advance(p) \/ Fail(p)
  PROVE  TypeOK'
<1> USE DEF TypeOK
<1>s. UNCHANGED <<server, request>> /\ ServerTyped'
  BY DEF Restart, Ingest, Insert, Quarantine, Advance, Fail, OnlyCursor, OnlyStored, server,
     ServerTyped
<1>1. ASSUME UNCHANGED <<mine, session, todo, raw>>, NEW label \in Labels, Go(p, label),
             pc[p] \in WithMail, label \in AtMail, label \in WithMail => raw[p] \in Mails
      PROVE  PollsTyped' /\ UidsFound'
  BY <1>1, <1>s DEF PollsTyped, UidsFound, Connected, server, Go, Labels, AtMail, WithMail
<1>2. ASSUME NEW row \in Rows, config' = row, UNCHANGED <<replies, faults, taken>>,
             disturbed' \in BOOLEAN
      PROVE  DatabaseTyped' /\ HistoryTyped'
  BY <1>2, <1>s DEF DatabaseTyped, HistoryTyped, request
<1>3. CASE Restart(p)
  <2> DEFINE row == Restarted(mine[p], session[p].validity)
  <2>1. mine[p] \in Rows /\ session[p] \in Sessions
    BY <1>3 DEF Restart, PollsTyped
  <2>a. \A r \in Rows, v \in Validities, k \in Uids :
          [r EXCEPT !.uid_validity = v, !.last_uid = k] \in Rows
    BY DEF Rows
  <2>b. row = [mine[p] EXCEPT !.uid_validity = session[p].validity,
                 !.last_uid = IF mine[p].uid_validity = None THEN mine[p].last_uid ELSE 0]
    BY <2>1 DEF Restarted, Rows
  <2>c. (IF mine[p].uid_validity = None THEN mine[p].last_uid ELSE 0) \in Uids
    BY <2>1, BoundsAssumption DEF Rows, Uids
  <2> HIDE DEF row
  <2>d. session[p].validity \in Validities
    BY <2>1 DEF Sessions
  <2>2. row \in Rows
    BY <2>1, <2>a, <2>b, <2>c, <2>d
  <2>3. [config EXCEPT !.uid_validity = row.uid_validity, !.last_uid = row.last_uid] \in Rows
    BY <2>2 DEF DatabaseTyped, Rows
  <2>4. /\ mine' = [mine EXCEPT ![p] = row]
        /\ config' = [config EXCEPT !.uid_validity = row.uid_validity, !.last_uid = row.last_uid]
        /\ disturbed' \in BOOLEAN
        /\ pc[p] = "restart" /\ Go(p, "search") /\ UNCHANGED <<session, todo, raw>>
        /\ UNCHANGED <<replies, faults, taken>>
    BY <1>3 DEF Restart, OnlyCursor, row
  <2>5. PollsTyped'
    BY <2>2, <2>4, NoneAssumption DEF PollsTyped, Go, Labels, AtMail, WithMail
  <2>6. UidsFound'
    BY <1>s, <2>4 DEF UidsFound, Connected, server
  <2> QED BY <1>s, <1>2, <2>3, <2>4, <2>5, <2>6
<1>4. CASE Ingest(p)
  <2>1. raw[p] \in Mails /\ pc[p] \in WithMail
    BY <1>4 DEF Ingest, PollsTyped, WithMail
  <2>2. PICK label \in {"quarantine", "insert", "advance"} : Go(p, label)
    BY <1>4 DEF Ingest
  <2>3. PollsTyped' /\ UidsFound'
    BY <1>1, <1>4, <2>1, <2>2 DEF Ingest, Labels, AtMail, WithMail
  <2>4. DatabaseTyped' /\ HistoryTyped'
    BY <1>4, <2>1 DEF Ingest, OnlyStored, request, DatabaseTyped, HistoryTyped
  <2> QED BY <1>s, <2>3, <2>4
<1>5. CASE Insert(p)
  <2>1. raw[p] \in Mails /\ pc[p] \in WithMail
    BY <1>5 DEF Insert, PollsTyped, WithMail
  <2>2. PollsTyped' /\ UidsFound'
    BY <1>1, <1>5, <2>1 DEF Insert, Labels, AtMail, WithMail
  <2>3. DatabaseTyped' /\ HistoryTyped'
    BY <1>5, <2>1 DEF Insert, OnlyStored, request, DatabaseTyped, HistoryTyped
  <2> QED BY <1>s, <2>2, <2>3
<1>6. CASE Quarantine(p)
  <2>1. raw[p] \in Mails /\ pc[p] \in WithMail
    BY <1>6 DEF Quarantine, PollsTyped, WithMail
  <2>2. PollsTyped' /\ UidsFound'
    BY <1>1, <1>6, <2>1 DEF Quarantine, Labels, AtMail, WithMail
  <2>3. DatabaseTyped' /\ HistoryTyped'
    BY <1>6, <2>1 DEF Quarantine, OnlyStored, request, DatabaseTyped, HistoryTyped
  <2> QED BY <1>s, <2>2, <2>3
<1>7. CASE Advance(p)
  <2>1. PICK u \in 1..MaxUids :
          /\ AtHand(p, u) /\ config' = Moved(config, u)
          /\ IF todo[p] = {u} THEN End(p) ELSE GoOn(p, u)
    BY <1>7 DEF Advance
  <2>2. \A row \in Rows : Moved(row, u) \in Rows
    BY BoundsAssumption DEF Moved, Rows, Uids
  <2>3. DatabaseTyped' /\ HistoryTyped'
    BY <1>2, <1>7, <2>1, <2>2 DEF Advance, OnlyCursor, DatabaseTyped, HistoryTyped
  <2>4. CASE todo[p] = {u}
    BY <1>s, <2>1, <2>3, <2>4, EndTyped, EndFinds
  <2>5. CASE todo[p] # {u}
    <3>1. GoOn(p, u) /\ todo[p] \ {u} # {} /\ pc[p] = "advance"
      BY <1>7, <2>1, <2>5 DEF Advance, AtHand
    <3>2. Moved(mine[p], u) \in Rows
      BY <2>2, <3>1 DEF PollsTyped
    <3>3. PollsTyped'
      BY <3>1, <3>2, NoneAssumption DEF GoOn, Go, PollsTyped, Labels, AtMail, WithMail
    <3>4. UidsFound'
      BY <1>s, <3>1 DEF GoOn, UidsFound, Connected, server, PollsTyped
    <3> QED BY <1>s, <2>3, <3>3, <3>4
  <2> QED BY <2>4, <2>5
<1>8. CASE Fail(p)
  <2>1. DatabaseTyped' /\ HistoryTyped'
    BY <1>8, BoundsAssumption DEF Fail, request, DatabaseTyped, HistoryTyped
  <2> QED BY <1>8, <1>s, <2>1, EndTyped, EndFinds DEF Fail
<1> QED BY <1>3, <1>4, <1>5, <1>6, <1>7, <1>8

LEMMA OperatorTyped ==
  ASSUME TypeOK, Operator
  PROVE  TypeOK'
<1> USE DEF TypeOK
<1>0. UNCHANGED <<server, replies, local, faults, taken>>
  BY DEF Operator, SaveRead, SaveWrite, FormOpen, FormPost
<1>1. ServerTyped' /\ PollsTyped' /\ UidsFound'
  BY <1>0 DEF server, local, ServerTyped, PollsTyped, UidsFound, Connected
<1>2. CASE \E box \in Boxes, active \in BOOLEAN : SaveRead(box, active)
  BY <1>0, <1>1, <1>2, NewRowTyped, BoundsAssumption DEF SaveRead, DatabaseTyped, HistoryTyped
<1>3. CASE SaveWrite
  BY <1>0, <1>1, <1>3 DEF SaveWrite, DatabaseTyped, HistoryTyped
<1>4. CASE FormOpen
  <2>1. config.last_uid \in Uids BY DEF DatabaseTyped, Rows
  <2> QED BY <1>0, <1>1, <1>4, <2>1, BoundsAssumption DEF FormOpen, DatabaseTyped, HistoryTyped
<1>5. ASSUME NEW box \in Boxes, NEW active \in BOOLEAN, FormPost(box, active)
      PROVE  TypeOK'
  <2> DEFINE row == NewRow(config, box, active)
  <2>1. row \in Rows BY NewRowTyped DEF DatabaseTyped
  <2>2. shown \in Uids BY <1>5 DEF FormPost, DatabaseTyped
  <2>3. [row EXCEPT !.last_uid = shown] \in Rows BY <2>1, <2>2 DEF Rows
  <2>4. /\ draft' = row \/ draft' = [row EXCEPT !.last_uid = shown]
        /\ disturbed' \in BOOLEAN /\ shown' = None /\ UNCHANGED <<edits, config>>
    BY <1>5 DEF FormPost
  <2> HIDE DEF row
  <2> QED BY <1>0, <1>1, <2>1, <2>3, <2>4 DEF DatabaseTyped, HistoryTyped
<1> QED BY <1>2, <1>3, <1>4, <1>5 DEF Operator

LEMMA MailServerTyped ==
  ASSUME TypeOK, Server
  PROVE  TypeOK'
<1> USE DEF TypeOK
<1>0. OnlyServer
  BY DEF Server, Arrive, Expunge, Renumber
<1>1. DatabaseTyped' /\ PollsTyped' /\ HistoryTyped'
  BY <1>0 DEF OnlyServer, request, local, DatabaseTyped, PollsTyped, HistoryTyped
<1>2. \A p \in Polls : session[p] # None => session[p] \in Sessions
  BY DEF PollsTyped
<1>3. ASSUME NEW b \in Boxes, NEW m \in Mails, Arrive(b, m)
      PROVE  TypeOK'
  <2>1. folder[b] \in Seq(Mails \cup {None})
    BY DEF ServerTyped
  <2>2. /\ Append(folder[b], m) \in Seq(Mails \cup {None})
        /\ Len(Append(folder[b], m)) = Len(folder[b]) + 1
        /\ DOMAIN folder[b] \subseteq DOMAIN Append(folder[b], m)
        /\ Len(folder[b]) \in Nat
    BY <2>1
  <2>3. ServerTyped'
    BY <1>3, <2>2, BoundsAssumption DEF Arrive, ServerTyped
  <2>4. UidsFound'
    BY <1>0, <1>2, <1>3, <2>2
    DEF Arrive, OnlyServer, local, UidsFound, Connected, ServerTyped, Sessions
  <2> QED BY <1>1, <2>3, <2>4
<1>4. ASSUME NEW b \in Boxes, NEW u \in 1..MaxUids, Expunge(b, u)
      PROVE  TypeOK'
  <2>1. folder[b] \in Seq(Mails \cup {None})
    BY DEF ServerTyped
  <2> DEFINE content == [folder[b] EXCEPT ![u] = None]
  <2>2. /\ content \in Seq(Mails \cup {None})
        /\ Len(content) = Len(folder[b]) /\ DOMAIN content = DOMAIN folder[b]
    BY <1>4, <2>1 DEF Expunge
  <2>3. folder' = [folder EXCEPT ![b] = content] /\ UNCHANGED validity
    BY <1>4 DEF Expunge
  <2> HIDE DEF content
  <2>4. ServerTyped'
    BY <2>2, <2>3 DEF ServerTyped
  <2>5. UidsFound'
    BY <1>0, <1>2, <2>2, <2>3
    DEF OnlyServer, local, UidsFound, Connected, ServerTyped, Sessions
  <2> QED BY <1>1, <2>4, <2>5
<1>5. ASSUME NEW b \in Boxes, Renumber(b)
      PROVE  TypeOK'
  <2>1. PICK n \in 0..MaxUids : \E content \in [1..n -> Mails] :
          folder' = [folder EXCEPT ![b] = content]
    BY <1>5 DEF Renumber
  <2>2. PICK content \in [1..n -> Mails] : folder' = [folder EXCEPT ![b] = content]
    BY <2>1
  <2>3. content \in Seq(Mails \cup {None}) /\ Len(content) = n
    BY <2>1, <2>2, BoundsAssumption
  <2>4. /\ validity' = [validity EXCEPT ![b] = @ + 1] /\ validity[b] < MaxValidity
        /\ validity[b] \in Nat
    BY <1>5, BoundsAssumption DEF Renumber, ServerTyped, Validities
  <2>5. ServerTyped'
    BY <2>2, <2>3, <2>4, BoundsAssumption DEF ServerTyped, Validities
  <2>6. UidsFound'
    BY <1>0, <1>2, <2>2, <2>4, BoundsAssumption
    DEF OnlyServer, local, UidsFound, Connected, ServerTyped, Sessions, Validities
  <2> QED BY <1>1, <2>5, <2>6
<1> QED BY <1>3, <1>4, <1>5 DEF Server

LEMMA TypeOKStep == TypeOK /\ [Next]_vars => TypeOK'
<1> SUFFICES ASSUME TypeOK, [Next]_vars PROVE TypeOK'
  OBVIOUS
<1>1. ASSUME NEW p \in Polls, PollStep(p) \/ Fail(p) PROVE TypeOK'
  BY <1>1, QuietStepsTyped, WritingStepsTyped DEF PollStep
<1>2. CASE UNCHANGED vars
  BY <1>2 DEF vars, server, request, local, TypeOK, ServerTyped, DatabaseTyped, PollsTyped,
     UidsFound, Connected, HistoryTyped
<1> QED BY <1>1, <1>2, OperatorTyped, MailServerTyped DEF Next

\* In every behaviour of MailboxPoll the server, the rows and the polls keep
\* their types, and a connected poll works on UIDs of its folder.
THEOREM TypeCorrect == Spec => []TypeOK
<1> QED BY TypeOKInit, TypeOKStep, PTL DEF Spec

-----------------------------------------------------------------------------
\* One reply per mail.

LEMMA ReplyOnceStep == TypeOK /\ ReplyOnce /\ [Next]_vars => ReplyOnce'
<1> SUFFICES ASSUME TypeOK, ReplyOnce, [Next]_vars PROVE ReplyOnce'
  OBVIOUS
<1>1. ASSUME NEW p \in Polls, Insert(p) PROVE ReplyOnce'
  <2>1. replies \in [Mails -> Nat] BY DEF TypeOK, DatabaseTyped
  <2> QED BY <1>1, <2>1 DEF Insert, Unique, ReplyOnce
<1>2. ASSUME NEW p \in Polls, PollStep(p) \/ Fail(p), ~Insert(p) PROVE UNCHANGED replies
  BY <1>2 DEF PollStep, Load, Examine, Restart, Search, SearchFindsNone, Measure, Fetch,
     Disconnect, Ingest, InsertRefused, Quarantine, Advance, Fail, OnlyLocal, OnlyCursor
<1>3. Operator \/ Server => UNCHANGED replies
  BY DEF Operator, SaveRead, SaveWrite, FormOpen, FormPost, Server, Arrive, Expunge, Renumber,
     OnlyServer
<1>4. CASE UNCHANGED vars
  BY <1>4 DEF vars, ReplyOnce
<1> QED BY <1>1, <1>2, <1>3, <1>4 DEF Next, ReplyOnce

\* A mail never gives two replies, however it is repeated, re-read or raced for.
THEOREM RepliesStoredOnce == Spec => []ReplyOnce
<1>1. Init => ReplyOnce BY DEF Init, ReplyOnce
<1> QED BY <1>1, ReplyOnceStep, TypeCorrect, PTL DEF Spec

-----------------------------------------------------------------------------
\* The cursor.

LEMMA PendingTyped ==
  ASSUME TypeOK
  PROVE  \A b \in Boxes :
           /\ Len(folder[b]) \in Nat /\ DOMAIN folder[b] = 1..Len(folder[b])
           /\ folder[b] \in Seq(Mails \cup {None})
           /\ Pending[b] \subseteq 1..Len(folder[b])
BY DEF TypeOK, ServerTyped, Pending

LEMMA PendingKept ==
  ASSUME UNCHANGED <<server, replies, taken>>
  PROVE  Pending' = Pending
BY DEF server, Pending, Handled

LEMMA NewUidsClosed ==
  ASSUME NEW content \in Seq(Mails \cup {None}), NEW last \in Nat,
         NEW u \in DOMAIN content, content[u] # None, last < u,
         NEW w \in NewUids(content, last), u < w
  PROVE  u \in NewUids(content, last)
<1> DEFINE above == {v \in DOMAIN content : v > last /\ content[v] # None}
           Below(v) == {x \in above : x < v}
<1>1. DOMAIN content = 1..Len(content) /\ Len(content) \in Nat
  OBVIOUS
<1>2. IsFiniteSet(above)
  <2>1. IsFiniteSet(1..Len(content)) BY <1>1, FS_Interval
  <2>2. above \subseteq 1..Len(content) BY <1>1
  <2> HIDE DEF above
  <2> QED BY <2>1, <2>2, FS_Subset
<1>3. w \in above /\ Cardinality(Below(w)) < Batch /\ u \in above
  BY DEF NewUids
<1>4. IsFiniteSet(Below(w)) /\ IsFiniteSet(Below(u))
  BY <1>2, FS_Subset
<1>5. Below(u) \subseteq Below(w)
  BY <1>1, <1>3
<1>6. Cardinality(Below(u)) <= Cardinality(Below(w))
  BY <1>4, <1>5, FS_Subset
<1>7. Cardinality(Below(u)) \in Nat /\ Cardinality(Below(w)) \in Nat
  BY <1>4, FS_CardinalityType
<1>8. Cardinality(Below(u)) < Batch
  BY <1>3, <1>6, <1>7, BoundsAssumption
<1> QED BY <1>3, <1>8 DEF NewUids

\* The rows and polls a step of p does not touch keep what held of them.
LEMMA OthersHold ==
  ASSUME TypeOK, PollsHold, NEW p \in Polls, UNCHANGED <<server, config>>,
         \A b \in Boxes : Pending'[b] \subseteq Pending[b],
         \A q \in Polls \ {p} :
           /\ pc'[q] = pc[q] /\ mine'[q] = mine[q] /\ session'[q] = session[q]
           /\ todo'[q] = todo[q] /\ raw'[q] = raw[q]
  PROVE  \A q \in Polls \ {p} :
           /\ Open(q)' => Agrees(q)'
           /\ session'[q] # None /\ Connected(q)' => Sweeps(q)' /\ Carries(q)'
<1> SUFFICES ASSUME NEW q \in Polls \ {p}
             PROVE  /\ Open(q)' => Agrees(q)'
                    /\ session'[q] # None /\ Connected(q)' => Sweeps(q)' /\ Carries(q)'
  OBVIOUS
<1>1. Open(q)' => Agrees(q)'
  BY DEF PollsHold, Open, Agrees, server
<1>2. ASSUME session'[q] # None, Connected(q)' PROVE Sweeps(q)' /\ Carries(q)'
  <2>1. session[q] \in Sessions /\ session[q].box \in Boxes
    BY <1>2 DEF TypeOK, PollsTyped, Sessions
  <2>2. Sweeps(q) /\ Carries(q)
    BY <1>2 DEF PollsHold, Connected, server
  <2> QED BY <2>1, <2>2 DEF Sweeps, Carries, AtHand, Stored, server
<1> QED BY <1>1, <1>2

LEMMA RowsKept ==
  ASSUME TypeOK, RowsHold, UNCHANGED <<server, config, draft>>,
         \A b \in Boxes : Pending'[b] \subseteq Pending[b],
         \A p \in Polls : Open(p)' => (Open(p) /\ mine'[p] = mine[p]) \/ mine'[p] = config
  PROVE  RowsHold'
<1>1. config \in Rows /\ (draft # None => draft \in Rows)
      /\ \A p \in Polls : Open(p) => mine[p] \in Rows
  BY DEF TypeOK, DatabaseTyped, PollsTyped, Open
<1>2. \A row \in Rows : row.box \in Boxes
  BY DEF Rows
<1>3. Holds(config)' /\ (draft # None => Holds(draft))'
  BY <1>1, <1>2 DEF RowsHold, Holds, server
<1>4. ASSUME NEW p \in Polls, Open(p)' PROVE Holds(mine[p])'
  <2>1. CASE mine'[p] = config
    BY <1>1, <1>2, <2>1 DEF RowsHold, Holds, server
  <2>2. CASE Open(p) /\ mine'[p] = mine[p]
    <3>1. mine[p] \in Rows /\ Holds(mine[p]) /\ mine[p].box \in Boxes
      BY <1>1, <1>2, <2>2 DEF RowsHold
    <3> QED BY <2>2, <3>1 DEF Holds, server
  <2> QED BY <1>4, <2>1, <2>2
<1> QED BY <1>3, <1>4 DEF RowsHold

\* Steps of p that change nothing but its own locals.
LEMMA LocalStepHolds ==
  ASSUME TypeOK, ~disturbed, RowsHold, PollsHold, NEW p \in Polls, TypeOK',
         \/ Load(p) \/ Examine(p) \/ Search(p) \/ SearchFindsNone(p) \/ Measure(p)
         \/ Fetch(p) \/ Disconnect(p) \/ InsertRefused(p) \/ Fail(p)
  PROVE  RowsHold' /\ PollsHold'
<1>0. /\ UNCHANGED <<server, config, replies, draft, taken>>
      /\ Pending' = Pending
  <2>1. UNCHANGED <<server, config, replies, draft, taken>>
    BY DEF Load, Examine, Search, SearchFindsNone, Measure, Fetch, Disconnect, InsertRefused,
       Fail, OnlyLocal, request
  <2> QED BY <2>1, PendingKept
<1>t. /\ pc \in [Polls -> Labels] /\ mine \in [Polls -> Rows \cup {None}]
      /\ session \in [Polls -> Sessions \cup {None}]
      /\ todo \in [Polls -> SUBSET (1..MaxUids)] /\ raw \in [Polls -> Mails \cup {None}]
      /\ config \in Rows
      /\ session[p] = None <=> pc[p] \in {"idle", "examine"}
      /\ mine[p] = None <=> pc[p] = "idle"
      /\ todo[p] # {} <=> pc[p] \in AtMail
  BY DEF TypeOK, PollsTyped, DatabaseTyped
<1>1. \A q \in Polls \ {p} :
           /\ pc'[q] = pc[q] /\ mine'[q] = mine[q] /\ session'[q] = session[q]
           /\ todo'[q] = todo[q] /\ raw'[q] = raw[q]
  BY <1>t DEF Load, Examine, Search, SearchFindsNone, Measure, Fetch, Disconnect,
     InsertRefused, Fail, End, Go
<1>2. \A q \in Polls \ {p} :
           /\ Open(q)' => Agrees(q)'
           /\ session'[q] # None /\ Connected(q)' => Sweeps(q)' /\ Carries(q)'
  BY <1>0, <1>1, OthersHold
<1>3. Open(p)' => (Open(p) /\ mine'[p] = mine[p]) \/ mine'[p] = config
  BY <1>t DEF Load, Examine, Search, SearchFindsNone, Measure, Fetch, Disconnect,
     InsertRefused, Fail, End, Go, Open
<1>4. RowsHold'
  BY <1>0, <1>1, <1>3, RowsKept DEF Open
<1>5. SUFFICES /\ Open(p)' => Agrees(p)'
               /\ session'[p] # None /\ Connected(p)' => Sweeps(p)' /\ Carries(p)'
  BY <1>2, <1>4 DEF PollsHold
<1>6. CASE SearchFindsNone(p) \/ Disconnect(p) \/ InsertRefused(p) \/ Fail(p)
  BY <1>6, <1>t DEF SearchFindsNone, Disconnect, InsertRefused, Fail, End, Go, Open
<1>7. CASE Load(p)
  <2>1. session'[p] = None /\ mine'[p] = config /\ config.uid_validity \in Validities \cup {None}
    BY <1>7, <1>t DEF Load, Rows
  <2> QED BY <2>1, <1>0, NoneAssumption DEF Agrees, Validities
<1>8. CASE Examine(p)
  <2> DEFINE b == config.box
  <2>1. /\ mine[p] \in Rows /\ mine[p].box = b /\ b \in Boxes /\ todo[p] = {}
        /\ validity[b] \in Validities
    BY <1>8, <1>t DEF Examine, PollsHold, Open, Agrees, Rows, AtMail, TypeOK, ServerTyped
  <2>2. /\ session'[p] = [box |-> b, validity |-> validity[b]] /\ mine' = mine /\ todo' = todo
        /\ pc'[p] = IF validity[b] = mine[p].uid_validity THEN "search" ELSE "restart"
    BY <1>8, <1>t, <2>1 DEF Examine, Go
  <2>3. Agrees(p) /\ Holds(config) /\ mine[p].uid_validity \in Validities \cup {None}
        /\ config.uid_validity \in Validities \cup {None}
    BY <1>8, <1>t, <2>1 DEF Examine, PollsHold, RowsHold, Open, Rows
  <2>4. Agrees(p)'
    <3>1. config.uid_validity # None => config.uid_validity <= validity[b]
      BY <2>3 DEF Holds
    <3>2. validity[b] # None /\ validity[b] \in Nat
      BY <2>1, NoneAssumption, BoundsAssumption DEF Validities
    <3>3. ASSUME validity[b] = mine[p].uid_validity PROVE config.uid_validity = validity[b]
      BY <2>3, <3>1, <3>2, <3>3 DEF Agrees, Validities
    <3> QED BY <1>0, <2>2, <2>3, <3>1, <3>3 DEF Agrees
  <2>5. Sweeps(p)' /\ Carries(p)'
    BY <2>1, <2>2 DEF Sweeps, Carries
  <2> QED BY <2>4, <2>5
<1> DEFINE b == session[p].box
<1>9. ASSUME pc[p] \in {"search", "measure", "fetch"}, Connected(p),
             UNCHANGED <<mine, session>>, pc'[p] \notin {"idle", "examine", "restart"}
      PROVE  /\ Agrees(p)' /\ Agrees(p) /\ Sweeps(p) /\ Carries(p) /\ b \in Boxes
             /\ Holds(mine[p]) /\ mine[p].box = b /\ mine[p].uid_validity = validity[b]
             /\ mine[p] \in Rows /\ todo[p] \subseteq DOMAIN folder[b]
  <2>1. session[p] \in Sessions /\ mine[p] \in Rows /\ Open(p)
    BY <1>9, <1>t DEF Open
  <2>2. Agrees(p) /\ Sweeps(p) /\ Carries(p) /\ Holds(mine[p])
    BY <1>9, <1>t, <2>1 DEF PollsHold, RowsHold
  <2>3. Agrees(p)'
    BY <1>0, <1>9, <1>t, <2>2 DEF Agrees
  <2> QED BY <1>9, <1>t, <2>1, <2>2, <2>3 DEF Agrees, Connected, Sessions, TypeOK, UidsFound
<1>10. CASE Search(p)
  <2>1. pc[p] = "search" /\ Connected(p) /\ UNCHANGED <<mine, session>> /\ pc'[p] = "measure"
        /\ todo'[p] = NewUids(folder[b], mine[p].last_uid)
    BY <1>10, <1>t DEF Search, Go
  <2>2. /\ Agrees(p)' /\ b \in Boxes /\ Holds(mine[p]) /\ mine[p].box = b
        /\ mine[p].uid_validity = validity[b] /\ mine[p].last_uid \in Nat
    BY <1>9, <2>1, BoundsAssumption DEF Rows, Uids
  <2>3. \A u \in Pending[b] : mine[p].last_uid < u /\ u \in DOMAIN folder[b] /\ folder[b][u] # None
    BY <2>2 DEF Holds, Pending
  <2>4. folder[b] \in Seq(Mails \cup {None})
    BY <2>2, PendingTyped
  <2>5. \A u \in Pending[b], w \in todo'[p] : u < w => u \in todo'[p]
    BY <2>1, <2>2, <2>3, <2>4, NewUidsClosed
  <2>6. Sweeps(p)' /\ Carries(p)'
    BY <1>0, <2>1, <2>5 DEF Sweeps, Carries
  <2> QED BY <2>2, <2>6
<1>11. CASE Measure(p) \/ Fetch(p)
  <2>1. PICK u \in 1..MaxUids :
          /\ AtHand(p, u) /\ raw'[p] = Stored(p, u)
          /\ Measure(p) => pc'[p] = AfterSize(Stored(p, u))
          /\ Fetch(p) => pc'[p] = AfterFetch(Stored(p, u))
    BY <1>11, <1>t DEF Measure, Fetch, Go
  <2>2. /\ pc[p] \in {"measure", "fetch"} /\ Connected(p) /\ UNCHANGED <<mine, session, todo>>
        /\ Measure(p) => pc[p] = "measure"
        /\ Fetch(p) => pc[p] = "fetch"
    BY <1>11 DEF Measure, Fetch
  <2>3. /\ pc'[p] \in {"advance", "quarantine", "fetch", "ingest"}
        /\ pc'[p] = "advance" => Stored(p, u) = None
        /\ pc'[p] = "quarantine" => KindOf[Stored(p, u)] = "oversized"
        /\ Measure(p) /\ pc'[p] = "fetch" /\ Stored(p, u) \in Mails
             => KindOf[Stored(p, u)] # "oversized"
        /\ Measure(p) => pc'[p] # "ingest"
        /\ Fetch(p) => pc'[p] \in {"advance", "ingest"}
        /\ pc'[p] = "ingest" => Stored(p, u) # None
    <3>1. Stored(p, u) = None \/ (Stored(p, u) \in Mails /\ KindOf[Stored(p, u)] = "oversized")
          \/ ~(Stored(p, u) \in Mails /\ KindOf[Stored(p, u)] = "oversized")
      OBVIOUS
    <3> QED BY <1>11, <2>1, <2>2, NoneAssumption DEF AfterSize, AfterFetch, Measure, Fetch
  <2>4. /\ Agrees(p)' /\ Sweeps(p) /\ Carries(p) /\ b \in Boxes
        /\ todo[p] \subseteq DOMAIN folder[b]
    BY <1>9, <2>2, <2>3
  <2>5. Sweeps(p)'
    BY <1>0, <2>2, <2>4 DEF Sweeps
  <2>6. \A v \in todo[p] : AtHand(p, v) => v = u
    BY <2>1, <1>t DEF AtHand
  <2>7. Stored(p, u) = None => u \notin Pending[b]
    BY <2>4 DEF Stored, Pending
  <2>8. Fetch(p) /\ pc'[p] = "ingest" /\ Stored(p, u) \in Mails => KindOf[Stored(p, u)] # "oversized"
    BY <2>1, <2>2, <2>3, <2>4 DEF Carries, AtHand
  <2>9. Carries(p)'
    <3>1. \A v \in todo'[p] : AtHand(p, v)' => v = u
      BY <2>2, <2>6 DEF AtHand
    <3>2. Stored(p, u)' = Stored(p, u)
      BY <1>0, <2>2 DEF Stored, server
    <3>3. \A v \in todo'[p] : AtHand(p, v)' =>
            /\ pc'[p] \in {"fetch", "ingest", "insert", "quarantine"} => Stored(p, v)' \in {None, raw'[p]}
            /\ pc'[p] = "advance" => v \notin Pending'[session'[p].box]
      BY <1>0, <2>1, <2>2, <2>3, <2>7, <3>1, <3>2 DEF Stored
    <3> QED BY <1>11, <2>1, <2>3, <2>8, <3>3 DEF Carries
  <2> QED BY <2>4, <2>5, <2>9
<1> QED BY <1>6, <1>7, <1>8, <1>10, <1>11

\* Steps that take the mail of p: ingest, insert, quarantine.
LEMMA TakingStepHolds ==
  ASSUME TypeOK, ~disturbed, RowsHold, PollsHold, NEW p \in Polls, TypeOK',
         Ingest(p) \/ Insert(p) \/ Quarantine(p)
  PROVE  RowsHold' /\ PollsHold'
<1>0. /\ UNCHANGED <<server, config, draft, mine, session, todo, raw>>
      /\ pc[p] \in {"ingest", "insert", "quarantine"}
      /\ \E label \in {"quarantine", "insert", "advance"} : Go(p, label)
  BY DEF Ingest, Insert, Quarantine, OnlyStored, request, Go
<1>t. /\ pc \in [Polls -> Labels] /\ replies \in [Mails -> Nat] /\ raw[p] \in Mails
      /\ session[p] \in Sessions /\ mine[p] # None
  BY <1>0, NoneAssumption DEF TypeOK, PollsTyped, DatabaseTyped, WithMail
<1>1. \A m \in Mails : Handled(m) => Handled(m)'
  BY <1>t DEF Ingest, Insert, Quarantine, Handled
<1>2. \A b \in Boxes : Pending'[b] \subseteq Pending[b]
  <2>1. ASSUME NEW b \in Boxes, NEW u \in Pending'[b] PROVE u \in Pending[b]
    <3>1. u \in DOMAIN folder[b] /\ folder[b][u] # None /\ ~(Handled(folder[b][u])')
      BY <1>0, <2>1 DEF Pending, server, Handled
    <3>2. folder[b][u] \in Mails
      BY <3>1, <2>1 DEF TypeOK, ServerTyped
    <3>3. ~Handled(folder[b][u])
      BY <1>t, <3>1, <3>2, <1>0 DEF Ingest, Insert, Quarantine, Handled, server
    <3> QED BY <3>1, <3>3 DEF Pending
  <2> QED BY <2>1
<1>3. \A q \in Polls \ {p} :
           /\ pc'[q] = pc[q] /\ mine'[q] = mine[q] /\ session'[q] = session[q]
           /\ todo'[q] = todo[q] /\ raw'[q] = raw[q]
  BY <1>0, <1>t DEF Go
<1>4. RowsHold'
  BY <1>0, <1>2, <1>3, <1>t, RowsKept DEF Open
<1>5. \A q \in Polls \ {p} :
           /\ Open(q)' => Agrees(q)'
           /\ session'[q] # None /\ Connected(q)' => Sweeps(q)' /\ Carries(q)'
  BY <1>0, <1>2, <1>3, OthersHold
<1>6. pc'[p] \in {"quarantine", "insert", "advance"}
  BY <1>0, <1>t DEF Go
<1>7. Agrees(p)'
  <2>1. Agrees(p)
    BY <1>0 DEF PollsHold, Open
  <2> QED BY <1>0, <1>6, <2>1 DEF Agrees
<1>8. ASSUME Connected(p)' PROVE Sweeps(p)' /\ Carries(p)'
  <2> DEFINE b == session[p].box
  <2>1. Connected(p) /\ session[p] # None /\ b \in Boxes
    BY <1>0, <1>8, <1>t, NoneAssumption DEF Connected, server, Sessions
  <2>2. Sweeps(p) /\ Carries(p)
    BY <2>1 DEF PollsHold
  <2>3. Sweeps(p)'
    BY <1>0, <1>2, <2>1, <2>2 DEF Sweeps
  <2>4. KindOf[raw[p]] \in Kinds
    BY <1>t, KindsAssumption
  <2>5. /\ pc'[p] = "insert" => KindOf[raw[p]] = "reply"
        /\ pc'[p] = "quarantine" => KindOf[raw[p]] # "reply"
    BY <1>0, <1>t DEF Ingest, Insert, Quarantine, Go
  <2>6. pc'[p] = "advance" => Handled(raw[p])'
    BY <1>0, <1>t, <2>2, <2>4 DEF Ingest, Insert, Quarantine, Go, Handled, Kinds, Carries
  <2>7. ASSUME NEW u \in todo[p], AtHand(p, u)
        PROVE  /\ Stored(p, u)' \in {None, raw[p]}
               /\ pc'[p] = "advance" => u \notin Pending'[b]
    <3>1. Stored(p, u) \in {None, raw[p]}
      BY <1>0, <2>2, <2>7 DEF Carries
    <3>2. Stored(p, u)' = Stored(p, u)
      BY <1>0 DEF Stored, server
    <3>3. pc'[p] = "advance" => u \notin Pending'[b]
      BY <1>0, <2>1, <2>6, <3>1 DEF Pending, Stored, server, Handled
    <3> QED BY <3>1, <3>2, <3>3
  <2>8. Carries(p)'
    BY <1>0, <1>6, <2>5, <2>7 DEF Carries, AtHand
  <2> QED BY <2>3, <2>8
<1> QED BY <1>4, <1>5, <1>7, <1>8 DEF PollsHold

\* A row with the cursor at 0 holds, whatever its UIDVALIDITY.
LEMMA ResetRowHolds ==
  ASSUME TypeOK, NEW row \in Rows, row.last_uid = 0,
         row.uid_validity # None => row.uid_validity <= validity[row.box]
  PROVE  Holds(row)
<1>1. row.box \in Boxes BY DEF Rows
<1> QED BY <1>1, PendingTyped DEF Holds

LEMMA RestartHolds ==
  ASSUME TypeOK, ~disturbed', RowsHold, PollsHold, NEW p \in Polls, TypeOK', Restart(p)
  PROVE  RowsHold' /\ PollsHold'
<1> DEFINE row == Restarted(mine[p], session[p].validity)
<1>0. /\ UNCHANGED <<server, replies, draft, taken, session, todo, raw>> /\ Pending' = Pending
      /\ ~Outpaced(p) /\ pc[p] = "restart"
  <2>1. UNCHANGED <<server, replies, draft, taken, session, todo, raw>>
        /\ ~Outpaced(p) /\ pc[p] = "restart"
    BY DEF Restart, OnlyCursor, request
  <2> QED BY <2>1, PendingKept
<1>t. /\ pc \in [Polls -> Labels] /\ mine \in [Polls -> Rows \cup {None}]
      /\ config \in Rows /\ config' \in Rows /\ mine'[p] \in Rows \cup {None}
      /\ session[p] \in Sessions /\ session[p] # None /\ mine[p] \in Rows /\ Open(p)
      /\ todo[p] = {}
      /\ \A q \in Polls : session[q] # None => Open(q)
      /\ \A q \in Polls : Open(q) => mine[q] \in Rows
      /\ \A q \in Polls : session[q] = None <=> pc[q] \in {"idle", "examine"}
  BY <1>0 DEF TypeOK, PollsTyped, DatabaseTyped, Open, AtMail
<1>p. Agrees(p) /\ Holds(mine[p])
  BY <1>t DEF PollsHold, RowsHold
<1>1. /\ row.box = config.box /\ row.uid_validity = session[p].validity /\ row.last_uid = 0
  BY <1>p, <1>t DEF Restarted, Holds, Agrees, Rows
<1>2. /\ session[p].validity # None /\ session[p].validity \in Nat
      /\ session[p].validity <= validity[config.box] /\ session[p].box = config.box
  BY <1>p, <1>t, NoneAssumption, BoundsAssumption
  DEF Agrees, TypeOK, UidsFound, Sessions, Validities
<1>3. /\ mine' = [mine EXCEPT ![p] = row] /\ pc' = [pc EXCEPT ![p] = "search"]
      /\ config' = [config EXCEPT !.uid_validity = session[p].validity, !.last_uid = 0]
  BY <1>1 DEF Restart, Go
<1> HIDE DEF row
<1>4. /\ mine'[p] = row /\ pc'[p] = "search" /\ row \in Rows
      /\ config'.box = config.box /\ config'.uid_validity = session[p].validity
      /\ config'.last_uid = 0
      /\ \A q \in Polls \ {p} : mine'[q] = mine[q] /\ pc'[q] = pc[q]
  <2>1. mine'[p] = row /\ pc'[p] = "search" BY <1>3, <1>t
  <2>2. row # None
    BY <1>0, <2>1 DEF TypeOK, PollsTyped
  <2>3. row \in Rows BY <1>t, <2>1, <2>2
  <2> QED BY <1>3, <1>t, <2>1, <2>3 DEF Rows
<1>5. RowsHold'
  <2>1. Holds(config)'
    BY <1>0, <1>2, <1>4, <1>t, PendingTyped DEF Holds, server, Rows
  <2>2. (draft # None => Holds(draft))'
    BY <1>0 DEF RowsHold, Holds, server
  <2>3. Holds(mine[p])'
    BY <1>0, <1>1, <1>2, <1>4, <1>t, PendingTyped DEF Holds, server, Rows
  <2>4. ASSUME NEW q \in Polls \ {p}, Open(q)' PROVE Holds(mine[q])'
    BY <1>0, <1>4, <2>4 DEF RowsHold, Holds, Open, server
  <2> QED BY <2>1, <2>2, <2>3, <2>4 DEF RowsHold
<1>6. \A q \in Polls \ {p} : session[q] # None => session[q] = session[p]
  BY <1>0 DEF Outpaced
<1>7. ASSUME NEW q \in Polls, Open(q)' PROVE Agrees(q)'
  <2>1. CASE q = p
    BY <1>0, <1>1, <1>2, <1>4, <2>1 DEF Agrees
  <2>2. CASE q # p
    <3>1. Agrees(q) /\ mine[q] \in Rows
      BY <1>4, <1>7, <1>t, <2>2 DEF PollsHold, Open
    <3>2. mine[q].uid_validity # None => mine[q].uid_validity <= session[p].validity
      <4>1. config.uid_validity # None => config.uid_validity <= session[p].validity
        BY <1>p, <1>t DEF Agrees
      <4> QED BY <1>2, <1>t, <3>1, <4>1, BoundsAssumption DEF Agrees, Rows, Validities
    <3> QED BY <1>0, <1>2, <1>4, <1>6, <2>2, <3>1, <3>2 DEF Agrees
  <2> QED BY <2>1, <2>2
<1>8. ASSUME NEW q \in Polls, session'[q] # None, Connected(q)'
      PROVE  Sweeps(q)' /\ Carries(q)'
  <2>1. CASE q = p
    BY <1>0, <1>4, <1>t, <2>1 DEF Sweeps, Carries
  <2>2. CASE q # p
    <3>1. Sweeps(q) /\ Carries(q)
      BY <1>0, <1>8 DEF PollsHold, Connected, server
    <3> QED BY <1>0, <1>4, <2>2, <3>1 DEF Sweeps, Carries, AtHand, Stored, server
  <2> QED BY <2>1, <2>2
<1> QED BY <1>5, <1>7, <1>8 DEF PollsHold

LEMMA AdvanceHolds ==
  ASSUME TypeOK, ~disturbed, RowsHold, PollsHold, NEW p \in Polls, TypeOK', Advance(p)
  PROVE  RowsHold' /\ PollsHold'
<1>0. /\ UNCHANGED <<server, replies, draft, taken>> /\ Pending' = Pending
      /\ pc[p] = "advance"
  <2>1. UNCHANGED <<server, replies, draft, taken>> /\ pc[p] = "advance"
    BY DEF Advance, OnlyCursor, request
  <2> QED BY <2>1, PendingKept
<1>1. PICK u \in 1..MaxUids :
        /\ AtHand(p, u) /\ config' = Moved(config, u)
        /\ IF todo[p] = {u} THEN End(p) ELSE GoOn(p, u)
  BY DEF Advance
<1>t. /\ pc \in [Polls -> Labels] /\ mine \in [Polls -> Rows \cup {None}]
      /\ session \in [Polls -> Sessions \cup {None}]
      /\ todo \in [Polls -> SUBSET (1..MaxUids)] /\ raw \in [Polls -> Mails \cup {None}]
      /\ config \in Rows
      /\ session[p] \in Sessions /\ session[p] # None /\ mine[p] \in Rows /\ Open(p)
  BY <1>0 DEF TypeOK, PollsTyped, DatabaseTyped, Open
<1> DEFINE b == session[p].box
<1>2. /\ Agrees(p) /\ config.box = b /\ mine[p].box = b /\ b \in Boxes
      /\ config.uid_validity = session[p].validity /\ mine[p].uid_validity = session[p].validity
      /\ session[p].validity # None /\ session[p].validity \in Nat
      /\ session[p].validity <= validity[b]
  BY <1>0, <1>t, NoneAssumption, BoundsAssumption
  DEF PollsHold, Agrees, Sessions, Validities, TypeOK, UidsFound
<1>3. ASSUME Connected(p)
      PROVE  /\ u <= Len(folder[b]) /\ u \notin Pending[b]
             /\ \A v \in Pending[b] : u < v
  <2>1. Sweeps(p) /\ Carries(p) /\ todo[p] \subseteq DOMAIN folder[b]
    BY <1>3, <1>t DEF PollsHold, TypeOK, UidsFound
  <2>2. u \in todo[p] /\ u \notin Pending[b] /\ \A w \in todo[p] : u <= w
    BY <1>0, <1>1, <2>1 DEF Carries, AtHand
  <2>3. /\ Pending[b] \subseteq 1..Len(folder[b]) /\ DOMAIN folder[b] = 1..Len(folder[b])
        /\ Len(folder[b]) \in Nat
    BY <1>2, PendingTyped
  <2>4. ASSUME NEW v \in Pending[b], v <= u PROVE FALSE
    <3>1. v < u BY <2>2, <2>3, <2>4
    <3>2. v \in todo[p] BY <2>1, <2>2, <3>1 DEF Sweeps
    <3> QED BY <2>2, <2>3, <3>1, <3>2
  <2> QED BY <2>1, <2>2, <2>3, <2>4
<1>4. ASSUME NEW row \in Rows, row.box = b, row.uid_validity = session[p].validity,
             row.last_uid = u
      PROVE  /\ row.uid_validity = None => row.last_uid = 0
             /\ row.uid_validity # None => row.uid_validity <= validity'[row.box]
             /\ row.uid_validity = validity'[row.box] =>
                  /\ row.last_uid <= Len(folder'[row.box])
                  /\ \A v \in Pending'[row.box] : row.last_uid < v
  BY <1>0, <1>2, <1>3, <1>4 DEF Connected, server
<1>5. \A row \in Rows : /\ Moved(row, u) \in Rows /\ Moved(row, u).box = row.box
                        /\ Moved(row, u).uid_validity = row.uid_validity
                        /\ Moved(row, u).last_uid = u
  BY BoundsAssumption DEF Moved, Rows, Uids
<1>6. /\ config' \in Rows /\ config'.box = b /\ config'.uid_validity = session[p].validity
      /\ config'.last_uid = u
  BY <1>1, <1>2, <1>5, <1>t
<1>7. Holds(config)'
  BY <1>4, <1>6 DEF Holds
<1>8. (draft # None => Holds(draft))'
  BY <1>0 DEF RowsHold, Holds, server
<1>9. \A q \in Polls \ {p} :
           /\ pc'[q] = pc[q] /\ mine'[q] = mine[q] /\ session'[q] = session[q]
           /\ todo'[q] = todo[q] /\ raw'[q] = raw[q]
  BY <1>1, <1>t DEF End, GoOn, Go
<1>10. ASSUME NEW q \in Polls \ {p}
       PROVE  /\ Open(q)' => Holds(mine[q])' /\ Agrees(q)'
              /\ session'[q] # None /\ Connected(q)' => Sweeps(q)' /\ Carries(q)'
  <2>1. Open(q)' => Holds(mine[q])'
    BY <1>0, <1>9 DEF RowsHold, Holds, Open, server
  <2>2. Open(q)' => Agrees(q)'
    BY <1>2, <1>6, <1>9 DEF PollsHold, Agrees, Open
  <2>3. ASSUME session'[q] # None, Connected(q)' PROVE Sweeps(q)' /\ Carries(q)'
    <3>1. Sweeps(q) /\ Carries(q)
      BY <1>0, <1>9, <2>3 DEF PollsHold, Connected, server
    <3> QED BY <1>0, <1>9, <3>1 DEF Sweeps, Carries, AtHand, Stored, server
  <2> QED BY <2>1, <2>2, <2>3
<1>11. CASE todo[p] = {u}
  <2>1. pc'[p] = "idle" /\ session'[p] = None
    BY <1>1, <1>11, <1>t DEF End, Go
  <2> QED BY <1>7, <1>8, <1>10, <2>1 DEF RowsHold, PollsHold, Open
<1>12. CASE todo[p] # {u}
  <2>1. /\ pc'[p] = "measure" /\ mine'[p] = Moved(mine[p], u) /\ todo'[p] = todo[p] \ {u}
        /\ raw'[p] = None /\ session'[p] = session[p]
    BY <1>1, <1>12, <1>t DEF GoOn, Go
  <2>2. /\ mine'[p] \in Rows /\ mine'[p].box = b /\ mine'[p].uid_validity = session[p].validity
        /\ mine'[p].last_uid = u
    BY <1>2, <1>5, <1>t, <2>1
  <2>3. Holds(mine[p])'
    BY <1>4, <2>2 DEF Holds
  <2>4. Agrees(p)'
    BY <1>2, <1>6, <2>1, <2>2 DEF Agrees
  <2>5. ASSUME Connected(p)' PROVE Sweeps(p)' /\ Carries(p)'
    <3>1. Connected(p)
      BY <1>0, <2>1, <2>5 DEF Connected, server
    <3>2. Sweeps(p) /\ u \notin Pending[b]
      BY <1>3, <1>t, <3>1 DEF PollsHold
    <3> QED BY <1>0, <2>1, <3>2, NoneAssumption DEF Sweeps, Carries
  <2> QED BY <1>7, <1>8, <1>10, <2>3, <2>4, <2>5 DEF RowsHold, PollsHold
<1> QED BY <1>11, <1>12

\* A box grows in place - no UID gets other mail, only UIDs past its end can
\* become pending - or is under a new UIDVALIDITY.
GrowsInPlace(b) ==
  /\ validity'[b] = validity[b]
  /\ Len(folder[b]) <= Len(folder'[b])
  /\ \A u \in Pending'[b] : u \in Pending[b] \/ Len(folder[b]) < u
  /\ \A u \in DOMAIN folder[b] : folder'[b][u] \in {None, folder[b][u]}

LEMMA FoldersChangeHolds ==
  ASSUME TypeOK, RowsHold, PollsHold, TypeOK', UNCHANGED <<config, draft, local>>,
         \A b \in Boxes : GrowsInPlace(b) \/ validity[b] < validity'[b]
  PROVE  RowsHold' /\ PollsHold'
<1>t. /\ config \in Rows /\ (draft # None => draft \in Rows)
      /\ \A p \in Polls : Open(p) => mine[p] \in Rows
      /\ \A p \in Polls : session[p] # None => session[p] \in Sessions
      /\ UNCHANGED <<pc, mine, session, todo, raw>>
  BY DEF TypeOK, DatabaseTyped, PollsTyped, Open, local
<1>v. \A b \in Boxes : validity[b] \in Nat /\ validity'[b] \in Nat
  BY BoundsAssumption DEF TypeOK, ServerTyped, Validities
<1>f. \A b \in Boxes : /\ Len(folder[b]) \in Nat /\ DOMAIN folder[b] = 1..Len(folder[b])
                       /\ Pending[b] \subseteq 1..Len(folder[b])
  BY PendingTyped
<1>g. \A b \in Boxes : /\ Len(folder'[b]) \in Nat /\ DOMAIN folder'[b] = 1..Len(folder'[b])
                       /\ Pending'[b] \subseteq 1..Len(folder'[b])
  BY DEF TypeOK, ServerTyped, Pending
<1>1. ASSUME NEW row \in Rows, Holds(row)
      PROVE  /\ row.uid_validity = None => row.last_uid = 0
             /\ row.uid_validity # None => row.uid_validity <= validity'[row.box]
             /\ row.uid_validity = validity'[row.box] =>
                  /\ row.last_uid <= Len(folder'[row.box])
                  /\ \A u \in Pending'[row.box] : row.last_uid < u
  <2> DEFINE b == row.box
  <2>1. /\ b \in Boxes /\ row.uid_validity \in Nat \cup {None} /\ row.last_uid \in Nat
        /\ validity[b] # None /\ validity'[b] # None
    BY <1>v, NoneAssumption, BoundsAssumption DEF Rows, Uids, Validities
  <2>2. CASE validity[b] < validity'[b]
    BY <1>1, <1>v, <2>1, <2>2 DEF Holds
  <2>3. CASE GrowsInPlace(b)
    <3>1. /\ row.uid_validity = None => row.last_uid = 0
          /\ row.uid_validity # None => row.uid_validity <= validity'[b]
      BY <1>1, <2>3 DEF Holds, GrowsInPlace
    <3>2. ASSUME row.uid_validity = validity'[b]
          PROVE  row.last_uid <= Len(folder'[b]) /\ \A u \in Pending'[b] : row.last_uid < u
      <4>1. row.last_uid <= Len(folder[b]) /\ \A u \in Pending[b] : row.last_uid < u
        BY <1>1, <2>3, <3>2 DEF Holds, GrowsInPlace
      <4>2. \A u \in Pending'[b] : u \in Nat
        BY <1>g, <2>1
      <4> QED BY <1>f, <1>g, <2>1, <2>3, <4>1, <4>2 DEF GrowsInPlace
    <3> QED BY <3>1, <3>2
  <2> QED BY <2>1, <2>2, <2>3
<1>2. RowsHold'
  <2>1. Holds(config)' BY <1>1, <1>t DEF RowsHold, Holds
  <2>2. (draft # None => Holds(draft))' BY <1>1, <1>t DEF RowsHold, Holds
  <2>3. ASSUME NEW p \in Polls, Open(p)' PROVE Holds(mine[p])'
    <3>1. mine[p] \in Rows /\ Holds(mine[p]) /\ mine'[p] = mine[p]
      BY <1>t, <2>3 DEF RowsHold, Open
    <3> QED BY <1>1, <3>1 DEF Holds
  <2> QED BY <2>1, <2>2, <2>3 DEF RowsHold
<1>3. ASSUME NEW p \in Polls, Open(p)' PROVE Agrees(p)'
  BY <1>3, <1>t DEF PollsHold, Open, Agrees
<1>4. ASSUME NEW p \in Polls, session'[p] # None, Connected(p)'
      PROVE  Sweeps(p)' /\ Carries(p)'
  <2> DEFINE b == session[p].box
  <2>1. /\ session[p] # None /\ session[p] \in Sessions /\ b \in Boxes
        /\ session[p].validity <= validity[b] /\ session[p].validity \in Nat
        /\ validity'[b] = session[p].validity
    BY <1>4, <1>t, BoundsAssumption DEF Connected, Sessions, TypeOK, UidsFound, Validities
  <2>2. GrowsInPlace(b)
    BY <1>v, <2>1
  <2>3. Connected(p)
    BY <2>1, <2>2 DEF Connected, GrowsInPlace
  <2>4. Sweeps(p) /\ Carries(p) /\ todo[p] \subseteq 1..Len(folder[b])
    BY <1>f, <2>1, <2>3 DEF PollsHold, TypeOK, UidsFound
  <2>5. \A u \in Pending'[b], w \in todo[p] : u <= w => u \in Pending[b]
    BY <1>f, <1>g, <2>1, <2>2, <2>4 DEF GrowsInPlace
  <2>6. Sweeps(p)'
    <3>1. ASSUME NEW u \in Pending'[b], NEW w \in todo[p], u < w PROVE u \in todo[p]
      <4>1. u <= w
        BY <1>f, <1>g, <2>1, <2>4, <3>1
      <4> QED BY <2>4, <2>5, <3>1, <4>1 DEF Sweeps
    <3> QED BY <1>t, <3>1 DEF Sweeps
  <2>7. Carries(p)'
    <3>1. \A u \in todo[p] : Stored(p, u)' \in {None, Stored(p, u)}
      BY <1>f, <1>t, <2>1, <2>2, <2>4 DEF Stored, GrowsInPlace
    <3>2. \A u \in todo[p] : u \in Pending'[b] => u \in Pending[b]
      BY <1>f, <2>1, <2>4, <2>5
    <3>3. \A u \in todo'[p] : AtHand(p, u)' =>
            /\ pc'[p] \in {"fetch", "ingest", "insert", "quarantine"} => Stored(p, u)' \in {None, raw'[p]}
            /\ pc'[p] = "advance" => u \notin Pending'[session'[p].box]
      BY <1>t, <2>4, <3>1, <3>2 DEF Carries, AtHand
    <3> QED BY <1>t, <2>4, <3>3 DEF Carries
  <2> QED BY <2>6, <2>7
<1> QED BY <1>2, <1>3, <1>4 DEF PollsHold

LEMMA ServerHolds ==
  ASSUME TypeOK, RowsHold, PollsHold, TypeOK', Server
  PROVE  RowsHold' /\ PollsHold'
<1>0. UNCHANGED <<config, draft, local, replies, taken>>
  BY DEF Server, Arrive, Expunge, Renumber, OnlyServer, request
<1>1. \A m : Handled(m)' <=> Handled(m)
  BY <1>0 DEF Handled
<1>f. \A b \in Boxes : /\ Len(folder[b]) \in Nat /\ DOMAIN folder[b] = 1..Len(folder[b])
                       /\ folder[b] \in Seq(Mails \cup {None})
                       /\ Pending[b] \subseteq 1..Len(folder[b])
  BY PendingTyped
<1>v. /\ folder \in [Boxes -> Seq(Mails \cup {None})]
      /\ \A b \in Boxes : validity[b] \in Nat /\ validity \in [Boxes -> Validities]
  BY BoundsAssumption DEF TypeOK, ServerTyped, Validities
<1>2. ASSUME NEW b \in Boxes, folder'[b] = folder[b], validity'[b] = validity[b]
      PROVE  GrowsInPlace(b)
  BY <1>1, <1>2, <1>f DEF GrowsInPlace, Pending
<1>3. ASSUME NEW b \in Boxes, NEW m \in Mails, Arrive(b, m)
      PROVE  \A c \in Boxes : GrowsInPlace(c)
  <2>1. /\ validity' = validity /\ folder'[b] = Append(folder[b], m)
        /\ \A c \in Boxes \ {b} : folder'[c] = folder[c]
    BY <1>3, <1>v DEF Arrive
  <2>2. /\ Len(folder'[b]) = Len(folder[b]) + 1 /\ DOMAIN folder'[b] = 1..(Len(folder[b]) + 1)
        /\ \A u \in DOMAIN folder[b] : folder'[b][u] = folder[b][u]
    BY <1>f, <2>1
  <2>3. \A u \in Pending'[b] : u \in Pending[b] \/ Len(folder[b]) < u
    BY <1>1, <1>f, <2>2 DEF Pending
  <2>4. GrowsInPlace(b)
    BY <1>f, <2>1, <2>2, <2>3 DEF GrowsInPlace
  <2> QED BY <1>2, <2>1, <2>4
<1>4. ASSUME NEW b \in Boxes, NEW u \in 1..MaxUids, Expunge(b, u)
      PROVE  \A c \in Boxes : GrowsInPlace(c)
  <2>1. /\ validity' = validity /\ folder'[b] = [folder[b] EXCEPT ![u] = None]
        /\ \A c \in Boxes \ {b} : folder'[c] = folder[c]
    BY <1>4, <1>v DEF Expunge
  <2>2. /\ Len(folder'[b]) = Len(folder[b]) /\ DOMAIN folder'[b] = DOMAIN folder[b]
        /\ \A w \in DOMAIN folder[b] : folder'[b][w] \in {None, folder[b][w]}
    BY <1>f, <2>1
  <2>3. \A w \in Pending'[b] : w \in Pending[b]
    BY <1>1, <2>2 DEF Pending
  <2>4. GrowsInPlace(b)
    BY <1>f, <2>1, <2>2, <2>3 DEF GrowsInPlace
  <2> QED BY <1>2, <2>1, <2>4
<1>5. ASSUME NEW b \in Boxes, Renumber(b)
      PROVE  \A c \in Boxes : GrowsInPlace(c) \/ validity[c] < validity'[c]
  <2>1. validity' = [validity EXCEPT ![b] = @ + 1] /\ \A c \in Boxes \ {b} : folder'[c] = folder[c]
    BY <1>5, <1>v DEF Renumber
  <2> QED BY <1>2, <1>v, <2>1
<1> QED BY <1>0, <1>3, <1>4, <1>5, FoldersChangeHolds DEF Server

LEMMA OperatorHolds ==
  ASSUME TypeOK, ~disturbed', RowsHold, PollsHold, TypeOK', Operator
  PROVE  RowsHold' /\ PollsHold'
<1>0. UNCHANGED <<server, local>> /\ Pending' = Pending
  <2>1. UNCHANGED <<server, local, replies, taken>>
    BY DEF Operator, SaveRead, SaveWrite, FormOpen, FormPost
  <2> QED BY <2>1, PendingKept
<1>t. /\ config \in Rows /\ UNCHANGED <<pc, mine, session, todo, raw>>
      /\ \A p \in Polls : session[p] # None => Open(p)
  BY <1>0 DEF TypeOK, DatabaseTyped, PollsTyped, local, Open
<1>2. \A p \in Polls : Open(p)' => Holds(mine[p])'
  BY <1>0, <1>t DEF RowsHold, Open, Holds, server
<1>3. config' = config => PollsHold'
  BY <1>0, <1>t DEF PollsHold, Open, Agrees, Connected, Sweeps, Carries, AtHand, Stored, server
<1>4. ASSUME NEW box \in Boxes, NEW active \in BOOLEAN
      PROVE  Holds(NewRow(config, box, active))
  <2> DEFINE new == NewRow(config, box, active)
  <2>1. CASE box = config.box
    <3>1. new.box = config.box /\ new.uid_validity = config.uid_validity
          /\ new.last_uid = config.last_uid
      BY <1>t, <2>1 DEF NewRow, Rows
    <3> HIDE DEF new
    <3>2. Holds(config) BY DEF RowsHold
    <3>3. Holds(new) BY <3>1, <3>2 DEF Holds
    <3> QED BY <3>3 DEF new
  <2>2. CASE box # config.box
    <3>1. new.last_uid = 0 /\ new.uid_validity = None /\ new \in Rows
      BY <1>t, <2>2, NewRowTyped DEF NewRow
    <3> QED BY <3>1, ResetRowHolds
  <2> QED BY <2>1, <2>2
<1>5. ASSUME NEW box \in Boxes, NEW active \in BOOLEAN, SaveRead(box, active)
      PROVE  RowsHold' /\ PollsHold'
  <2>1. config' = config /\ draft' = NewRow(config, box, active)
    BY <1>5 DEF SaveRead
  <2>2. Holds(draft')
    BY <1>4, <2>1
  <2> QED BY <1>0, <1>2, <1>3, <2>1, <2>2 DEF RowsHold, Holds, server
<1>6. CASE SaveWrite
  <2>1. config' = draft /\ draft # None /\ draft' = None /\ ~SomeOpen
    BY <1>6 DEF SaveWrite
  <2>2. \A p \in Polls : ~Open(p)' /\ session'[p] = None
    BY <1>t, <2>1 DEF SomeOpen, Open
  <2>3. Holds(config)'
    BY <1>0, <2>1 DEF RowsHold, Holds, server
  <2> QED BY <2>1, <2>2, <2>3 DEF RowsHold, PollsHold
<1>7. CASE FormOpen
  <2>1. UNCHANGED <<config, draft>>
    BY <1>7 DEF FormOpen
  <2> QED BY <1>0, <1>2, <1>3, <2>1 DEF RowsHold, Holds, server
<1>8. ASSUME NEW box \in Boxes, NEW active \in BOOLEAN, FormPost(box, active)
      PROVE  RowsHold' /\ PollsHold'
  <2> DEFINE row == NewRow(config, box, active)
  <2>1. config' = config /\ (box = config.box => shown = config.last_uid)
        /\ draft' = IF box = config.box THEN [row EXCEPT !.last_uid = shown] ELSE row
    BY <1>8 DEF FormPost
  <2>2. row \in Rows /\ Holds(row)
    BY <1>4, <1>t, NewRowTyped
  <2>3. box = config.box => row.last_uid = config.last_uid
    BY <1>t DEF NewRow, Rows
  <2> HIDE DEF row
  <2>4. box = config.box => [row EXCEPT !.last_uid = shown] = row
    BY <2>1, <2>2, <2>3 DEF Rows
  <2>5. draft' = row
    BY <2>1, <2>4
  <2> QED BY <1>0, <1>2, <1>3, <2>1, <2>2, <2>5 DEF RowsHold, Holds, server
<1> QED BY <1>5, <1>6, <1>7, <1>8 DEF Operator

LEMMA CursorInvInit == Init => CursorInv
<1> SUFFICES ASSUME Init PROVE RowsHold /\ PollsHold
  BY DEF CursorInv
<1>1. TypeOK
  BY TypeOKInit
<1>2. config \in Rows /\ config.last_uid = 0 /\ config.uid_validity = None
  BY <1>1 DEF Init, TypeOK, DatabaseTyped
<1>3. Holds(config)
  BY <1>1, <1>2, ResetRowHolds
<1>4. draft = None /\ \A p \in Polls : ~Open(p) /\ session[p] = None
  BY DEF Init, Open
<1> QED BY <1>3, <1>4 DEF RowsHold, PollsHold

LEMMA CursorInvStep == TypeOK /\ CursorInv /\ [Next]_vars => CursorInv'
<1> SUFFICES ASSUME TypeOK, CursorInv, [Next]_vars, ~disturbed'
             PROVE  RowsHold' /\ PollsHold'
  BY DEF CursorInv
<1>1. TypeOK'
  BY TypeOKStep
<1>2. ~disturbed
  BY DEF Next, PollStep, Load, Examine, Restart, Search, SearchFindsNone, Measure, Fetch,
     Disconnect, Ingest, Insert, InsertRefused, Quarantine, Advance, Fail, Operator, SaveRead,
     SaveWrite, FormOpen, FormPost, Server, Arrive, Expunge, Renumber, OnlyLocal, OnlyStored,
     OnlyServer, vars
<1>3. RowsHold /\ PollsHold
  BY <1>2 DEF CursorInv
<1>4. ASSUME NEW p \in Polls, PollStep(p) \/ Fail(p) PROVE RowsHold' /\ PollsHold'
  BY <1>1, <1>2, <1>3, <1>4, LocalStepHolds, TakingStepHolds, RestartHolds, AdvanceHolds
  DEF PollStep
<1>5. CASE UNCHANGED vars
  <2>1. UNCHANGED <<server, config, draft, local, replies, taken>> /\ Pending' = Pending
    BY <1>5, PendingKept DEF vars, request
  <2> QED BY <1>3, <2>1 DEF RowsHold, PollsHold, Holds, Open, Agrees, Connected, Sweeps, Carries,
          AtHand, Stored, server, local
<1> QED BY <1>1, <1>3, <1>4, <1>5, OperatorHolds, ServerHolds DEF Next

LEMMA CursorInvTruthful == TypeOK /\ CursorInv => NothingPassedOver
<1> SUFFICES ASSUME TypeOK, RowsHold, Binding, NEW u \in DOMAIN folder[config.box],
                    u <= config.last_uid, folder[config.box][u] # None,
                    ~Handled(folder[config.box][u])
             PROVE  FALSE
  BY DEF CursorInv, NothingPassedOver, CursorTruthful
<1>1. config.box \in Boxes /\ config.last_uid \in Nat /\ Holds(config)
  BY BoundsAssumption DEF TypeOK, DatabaseTyped, Rows, Uids, RowsHold
<1>2. u \in Pending[config.box] /\ u \in Nat /\ 0 < u
  BY <1>1, PendingTyped DEF Pending
<1>3. CASE config.uid_validity = None
  BY <1>1, <1>2, <1>3 DEF Holds
<1>4. CASE config.uid_validity = validity[config.box]
  BY <1>1, <1>2, <1>4 DEF Holds
<1> QED BY <1>3, <1>4 DEF Binding

\* The cursor never passes a mail that was not taken - through crashes, failing
\* calls, overlapping polls, expunged mail and new UIDVALIDITYs - as long as no
\* save, stale form or other numbering crosses an open poll.
THEOREM CursorNeverPasses == Spec => []NothingPassedOver
<1> QED BY CursorInvInit, CursorInvStep, CursorInvTruthful, TypeCorrect, PTL DEF Spec
=============================================================================
