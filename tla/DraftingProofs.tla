--------------------------- MODULE DraftingProofs ---------------------------
(***************************************************************************)
(* Every property of DraftingProperties, for any workers, limits, requests *)
(* and messages.                                                           *)
(*                                                                         *)
(* A call writes from what it read before the toolbox answered.            *)
(* DraftingInv says what stays true of that: the versions of a chain and   *)
(* which of them counts, the counters against the toolbox calls they       *)
(* stand for, and what a call may still tell after an erasure.             *)
(***************************************************************************)
EXTENDS DraftingProperties, Orders, FiniteSetTheorems, TLAPS

Places == {"idle", "drafted", "creating", "listed", "retrying", "rewriting"}
Calls == [pc : Places, on : 0..MaxMessages, read : Messages, late : BOOLEAN]
Counts == [retries : Nat, rewrites : Nat]

StateTyped ==
  /\ messages \in Seq(Messages) /\ Len(messages) <= MaxMessages
  /\ tried \in Seq(Counts) /\ Len(tried) = Len(messages)
  /\ threads \in Seq({"address", "token"}) /\ Len(threads) <= Len(messages)
  /\ suppressed \in BOOLEAN /\ erased \in BOOLEAN
  /\ listed \in {None} \cup SUBSET DOMAIN threads
  /\ call \in [Workers -> Calls]

\* A row belongs to a thread, says why it failed, and to a first version, itself
\* or an earlier one.
RowsSound ==
  \A i \in DOMAIN messages :
    /\ messages[i].thread \in DOMAIN threads
    /\ Is(i, "failed") <=> messages[i].failure # "none"
    /\ messages[i].root \in 1..i
    /\ messages[messages[i].root].root = messages[i].root

\* The version stands for its chain: it is the one that counts.
Stands(i) == ~Is(i, "superseded") /\ (Is(i, "failed") => messages[i].root = i)

AtMostOne ==
  \A i, j \in DOMAIN messages :
    Stands(i) /\ Stands(j) /\ messages[i].root = messages[j].root => i = j

AtLeastOne ==
  \A i \in DOMAIN messages :
    \E j \in DOMAIN messages : Stands(j) /\ messages[j].root = messages[i].root

\* The counters of a row are those of the toolbox calls made for it.
RetriesTried == \A i \in DOMAIN messages : tried[i].retries = messages[i].retries

RewritesTried ==
  \A i \in DOMAIN messages :
    Stands(i) => tried[messages[i].root].rewrites = messages[i].rewrites

Versions == RowsSound /\ AtMostOne /\ AtLeastOne
Counters == RetriesTried /\ RewritesTried /\ RewriteBudget

\* A message that communicate has not stored yet.
Fresh(m) ==
  /\ m.root = 0 /\ m.retries = 0 /\ m.rewrites = 0
  /\ m.status # "superseded"
  /\ m.status = "failed" <=> m.failure # "none"

\* What a call works on.
CallSound(w) ==
  /\ call[w].pc \in {"drafted", "creating"} => Fresh(call[w].read)
  /\ At(w, "creating") => call[w].on \in 0..Len(threads)
  /\ call[w].pc \in {"listed", "retrying", "rewriting"} => call[w].on \in DOMAIN messages
  /\ call[w].pc \in {"listed", "retrying"} => messages[call[w].on].root = call[w].on
  /\ At(w, "listed") => call[w].read.retries < RetryLimit

CallsSound == \A w \in Workers : CallSound(w)

\* Who may still tell about the recipient: a row left by an older call or in a
\* thread that was spared, and a row that answers `suppressed` ...
Excused(i) == messages[i].late \/ messages[i].thread \in spared

RowExcused(i) == messages[i].plain \/ messages[i].prompt => Excused(i) \/ Is(i, "suppressed")

\* ... and a call that had begun before, that answers `suppressed` or that rewrites
\* such a row.
CallExcused(w) ==
  \/ Free(w) \/ call[w].late
  \/ call[w].pc \in {"drafted", "creating"} /\ call[w].read.status = "suppressed"
  \/ At(w, "rewriting") /\ Excused(call[w].on)

\* An erasure that is due has spared no thread yet.
ListingSound == listed # None => ~erased /\ listed = spared

ErasureSound ==
  erased =>
    /\ suppressed
    /\ \A i \in DOMAIN messages : RowExcused(i)
    /\ \A w \in Workers : CallExcused(w)

DraftingInv ==
  StateTyped /\ Versions /\ Counters /\ CallsSound /\ ListingSound /\ ErasureSound

-----------------------------------------------------------------------------
\* What the operators of the model make of records.

LEMMA BlankIsFresh == Blank \in Messages /\ Fresh(Blank) /\ Blank.status = "review_required"
  BY LimitsAssumption DEF Blank, Messages, Statuses, Fresh

LEMMA IdleIsCall == Idle \in Calls /\ Idle.pc = "idle" /\ Idle.late = FALSE
  BY BlankIsFresh, LimitsAssumption DEF Idle, Calls, Places

\* Worker w is at a place with what it has read, the others stay.
Puts(w, pc, on, read, late) ==
  /\ call' \in [Workers -> Calls]
  /\ call'[w].pc = pc /\ call'[w].on = on /\ call'[w].read = read /\ call'[w].late = late
  /\ \A v \in Workers : v # w => call'[v] = call[v]

LEMMA CallPut ==
  ASSUME StateTyped, NEW w \in Workers, NEW pc \in Places, NEW on \in 0..MaxMessages,
         NEW read \in Messages, Calling(w, pc, on, read)
  PROVE  Puts(w, pc, on, read, FALSE)
  <1> DEFINE c == [Idle EXCEPT !.pc = pc, !.on = on, !.read = read]
  <1>1. c \in Calls /\ c.pc = pc /\ c.on = on /\ c.read = read /\ c.late = FALSE
    BY IdleIsCall DEF Calls
  <1> QED
    BY <1>1 DEF StateTyped, Calling, Puts

LEMMA CallGoes ==
  ASSUME StateTyped, NEW w \in Workers, NEW pc \in Places, NEW read \in Messages,
         Goes(w, pc, read)
  PROVE  Puts(w, pc, call[w].on, read, call[w].late)
  BY DEF StateTyped, Goes, Puts, Calls

\* Worker w is idle, the others stay.
Frees(w) ==
  /\ call' \in [Workers -> Calls] /\ call'[w].pc = "idle"
  /\ \A v \in Workers : v # w => call'[v] = call[v]

LEMMA CallReturns ==
  ASSUME StateTyped, NEW w \in Workers, Returns(w) PROVE Frees(w)
  BY IdleIsCall DEF StateTyped, Returns, Frees

\* Row i is m, the others stay.
Writes(i, m) ==
  /\ messages' \in Seq(Messages) /\ Len(messages') = Len(messages)
  /\ DOMAIN messages' = DOMAIN messages
  /\ messages'[i] = m
  /\ \A j \in DOMAIN messages : j # i => messages'[j] = messages[j]

LEMMA RowWritten ==
  ASSUME StateTyped, NEW i \in DOMAIN messages, NEW m \in Messages,
         messages' = [messages EXCEPT ![i] = m]
  PROVE  Writes(i, m)
  BY DEF StateTyped, Writes

\* Row m joins the rows of a sequence.
Joins(rows, m) ==
  /\ messages' \in Seq(Messages) /\ Len(messages') = Len(rows) + 1
  /\ DOMAIN rows = 1..Len(rows) /\ DOMAIN messages' = 1..(Len(rows) + 1) /\ Len(rows) \in Nat
  /\ messages'[Len(rows) + 1] = m
  /\ \A j \in DOMAIN rows : messages'[j] = rows[j]

LEMMA RowJoins ==
  ASSUME NEW rows \in Seq(Messages), NEW m \in Messages, messages' = Append(rows, m)
  PROVE  Joins(rows, m)
  BY DEF Joins

LEMMA TriedJoins ==
  ASSUME StateTyped, tried' = Append(tried, [retries |-> 0, rewrites |-> 0])
  PROVE  /\ tried' \in Seq(Counts) /\ Len(tried') = Len(tried) + 1
         /\ \A i \in DOMAIN tried : tried'[i] = tried[i]
         /\ tried'[Len(tried) + 1].retries = 0 /\ tried'[Len(tried) + 1].rewrites = 0
  BY DEF StateTyped, Counts

-----------------------------------------------------------------------------
\* Versions and counters, by what a step does to them.

\* The chains stay as they are, whatever else becomes of the rows.
SameChains ==
  /\ DOMAIN messages' = DOMAIN messages
  /\ \A i \in DOMAIN messages :
       /\ messages'[i].thread = messages[i].thread /\ messages'[i].root = messages[i].root
       /\ Is(i, "failed")' <=> messages'[i].failure # "none"
       /\ Stands(i)' <=> Stands(i)

LEMMA RootsThere ==
  ASSUME StateTyped, Versions
  PROVE  \A i \in DOMAIN messages : messages[i].root \in DOMAIN messages
  BY DEF StateTyped, Versions, RowsSound

LEMMA ChainsKept ==
  ASSUME StateTyped, Versions, SameChains, DOMAIN threads \subseteq DOMAIN threads'
  PROVE  Versions'
  <1>1. RowsSound'
    BY RootsThere DEF Versions, SameChains, RowsSound
  <1>2. AtMostOne'
    BY DEF Versions, SameChains, AtMostOne
  <1>3. AtLeastOne'
    BY DEF Versions, SameChains, AtLeastOne
  <1> QED
    BY <1>1, <1>2, <1>3 DEF Versions

\* No toolbox call was counted.
SameCounts ==
  /\ tried' = tried
  /\ \A i \in DOMAIN messages :
       /\ messages'[i].retries = messages[i].retries
       /\ messages'[i].rewrites = messages[i].rewrites

LEMMA CountsKept ==
  ASSUME Counters, SameChains, SameCounts PROVE Counters'
  BY DEF Counters, SameChains, SameCounts, RetriesTried, RewritesTried, RewriteBudget

\* A row joins that starts a chain of its own.
NewChain(m) ==
  /\ Joins(messages, [m EXCEPT !.root = Len(messages) + 1])
  /\ m \in Messages /\ Fresh(m) /\ m.thread \in DOMAIN threads'
  /\ tried' = Append(tried, [retries |-> 0, rewrites |-> 0])

\* A row joins that replaces row i in its chain.
NewStanding(i, m) ==
  /\ Supersedable(i)
  /\ Joins([messages EXCEPT ![i].status = "superseded"], m)
  /\ m.status = "review_required" /\ m.failure = "none"
  /\ m.thread = messages[i].thread /\ m.root = messages[i].root
  /\ m.retries = 0 /\ m.rewrites = messages[i].rewrites
  /\ tried' = Append(tried, [retries |-> 0, rewrites |-> 0])

\* A row joins the chain of row i and does not stand for it.
NewFailure(i, m) ==
  /\ Joins(messages, m)
  /\ m.status = "failed" /\ m.failure # "none"
  /\ m.thread = messages[i].thread /\ m.root = messages[i].root
  /\ m.retries = 0
  /\ tried' = Append(tried, [retries |-> 0, rewrites |-> 0])

LEMMA ChainStarted ==
  ASSUME StateTyped, Versions, NEW m, NewChain(m), DOMAIN threads \subseteq DOMAIN threads'
  PROVE  Versions'
  <1>0. PICK n : n = Len(messages) + 1
    OBVIOUS
  <1>1. /\ DOMAIN messages' = DOMAIN messages \cup {n} /\ n \notin DOMAIN messages
        /\ n \in Nat \ {0} /\ DOMAIN messages = 1..(n - 1)
        /\ \A i \in DOMAIN messages : messages'[i] = messages[i]
    BY <1>0 DEF NewChain, Joins
  <1>2. /\ messages'[n].root = n /\ messages'[n].status = m.status
        /\ messages'[n].failure = m.failure /\ messages'[n].thread = m.thread
    BY <1>0 DEF NewChain, Joins, Messages
  <1>3. \A i \in DOMAIN messages : messages[i].root \in DOMAIN messages
    BY RootsThere
  <1>4. Stands(n)'
    BY <1>2 DEF NewChain, Fresh, Stands, Is
  <1>5. \A i \in DOMAIN messages : Stands(i)' <=> Stands(i)
    BY <1>1 DEF Stands, Is
  <1>6. RowsSound'
    BY <1>1, <1>2, <1>3 DEF Versions, RowsSound, NewChain, Fresh, Is
  <1>7. AtMostOne'
    BY <1>1, <1>2, <1>3, <1>5 DEF Versions, AtMostOne
  <1>8. AtLeastOne'
    BY <1>1, <1>2, <1>4, <1>5 DEF Versions, AtLeastOne
  <1> QED
    BY <1>6, <1>7, <1>8 DEF Versions

LEMMA ChainStartedCounts ==
  ASSUME StateTyped, Versions, Counters, NEW m, NewChain(m) PROVE Counters'
  <1>0. PICK n : n = Len(messages) + 1
    OBVIOUS
  <1>1. /\ DOMAIN messages' = DOMAIN messages \cup {n} /\ n \notin DOMAIN messages
        /\ DOMAIN tried = DOMAIN messages /\ DOMAIN tried' = DOMAIN messages'
        /\ \A i \in DOMAIN messages : messages'[i] = messages[i] /\ tried'[i] = tried[i]
    BY <1>0, TriedJoins DEF StateTyped, NewChain, Joins
  <1>2. /\ messages'[n].root = n /\ messages'[n].retries = 0 /\ messages'[n].rewrites = 0
        /\ tried'[n].retries = 0 /\ tried'[n].rewrites = 0
    BY <1>0, TriedJoins DEF StateTyped, NewChain, Fresh, Joins, Messages
  <1>3. \A i \in DOMAIN messages : messages[i].root \in DOMAIN messages
    BY RootsThere
  <1>4. \A i \in DOMAIN messages : Stands(i)' <=> Stands(i)
    BY <1>1 DEF Stands, Is
  <1>5. RetriesTried'
    BY <1>1, <1>2 DEF Counters, RetriesTried
  <1>6. RewritesTried'
    BY <1>1, <1>2, <1>3, <1>4 DEF Counters, RewritesTried
  <1>7. RewriteBudget'
    BY <1>1, <1>2, LimitsAssumption DEF Counters, RewriteBudget
  <1> QED
    BY <1>5, <1>6, <1>7 DEF Counters

LEMMA VersionReplaced ==
  ASSUME StateTyped, Versions, NEW i \in DOMAIN messages, NEW m, NewStanding(i, m),
         threads' = threads
  PROVE  Versions'
  <1>0. PICK n : n = Len(messages) + 1
    OBVIOUS
  <1>1. /\ DOMAIN messages' = DOMAIN messages \cup {n} /\ n \notin DOMAIN messages
        /\ n \in Nat \ {0} /\ DOMAIN messages = 1..(n - 1) /\ messages'[n] = m
        /\ \A j \in DOMAIN messages : j # i => messages'[j] = messages[j]
    <2>1. Len(messages) \in Nat /\ DOMAIN messages = 1..Len(messages)
      BY DEF StateTyped
    <2>2. Len([messages EXCEPT ![i].status = "superseded"]) = Len(messages)
      OBVIOUS
    <2> QED
      BY <1>0, <2>1, <2>2 DEF NewStanding, Joins
  <1>2. /\ messages'[i].status = "superseded" /\ messages'[i].thread = messages[i].thread
        /\ messages'[i].root = messages[i].root /\ messages'[i].failure = messages[i].failure
    <2>1. messages[i] \in Messages
      BY DEF StateTyped
    <2>2. [messages EXCEPT ![i].status = "superseded"][i] =
            [messages[i] EXCEPT !.status = "superseded"]
      OBVIOUS
    <2>3. messages'[i] = [messages[i] EXCEPT !.status = "superseded"]
      BY <2>2 DEF NewStanding, Joins
    <2> QED
      BY <2>1, <2>3 DEF Messages
  <1>3. \A j \in DOMAIN messages : messages[j].root \in DOMAIN messages
    BY RootsThere
  <1>4. Stands(n)' /\ ~Stands(i)' /\ Stands(i)
    BY <1>1, <1>2 DEF NewStanding, Supersedable, Stands, Is
  <1>5. \A j \in DOMAIN messages : j # i => (Stands(j)' <=> Stands(j))
    BY <1>1 DEF Stands, Is
  <1>6. \A j \in DOMAIN messages : messages'[j].root = messages[j].root
    BY <1>1, <1>2
  <1>7. m.root = messages[i].root /\ m.thread = messages[i].thread
    BY DEF NewStanding
  <1>8. RowsSound'
    BY <1>1, <1>2, <1>3, <1>6, <1>7 DEF Versions, RowsSound, NewStanding, Supersedable, Is
  <1>9. AtMostOne'
    BY <1>1, <1>4, <1>5, <1>6, <1>7 DEF Versions, AtMostOne
  <1>10. AtLeastOne'
    BY <1>1, <1>4, <1>5, <1>6, <1>7 DEF Versions, AtLeastOne
  <1> QED
    BY <1>8, <1>9, <1>10 DEF Versions

LEMMA VersionReplacedCounts ==
  ASSUME StateTyped, Versions, Counters, NEW i \in DOMAIN messages, NEW m, NewStanding(i, m)
  PROVE  Counters'
  <1>0. PICK n : n = Len(messages) + 1
    OBVIOUS
  <1>1. /\ DOMAIN messages' = DOMAIN messages \cup {n} /\ n \notin DOMAIN messages
        /\ DOMAIN tried = DOMAIN messages /\ DOMAIN tried' = DOMAIN messages'
        /\ messages'[n] = m /\ \A j \in DOMAIN messages : tried'[j] = tried[j]
        /\ \A j \in DOMAIN messages : j # i => messages'[j] = messages[j]
    BY <1>0, TriedJoins DEF StateTyped, NewStanding, Joins
  <1>2. /\ messages'[i].status = "superseded" /\ messages'[i].root = messages[i].root
        /\ messages'[i].retries = messages[i].retries
    <2>1. messages[i] \in Messages
      BY DEF StateTyped
    <2>2. [messages EXCEPT ![i].status = "superseded"][i] =
            [messages[i] EXCEPT !.status = "superseded"]
      OBVIOUS
    <2>3. messages'[i] = [messages[i] EXCEPT !.status = "superseded"]
      BY <2>2 DEF NewStanding, Joins
    <2> QED
      BY <2>1, <2>3 DEF Messages
  <1>3. tried'[n].retries = 0 /\ tried'[n].rewrites = 0
    BY <1>0, TriedJoins DEF StateTyped, NewStanding
  <1>4. \A j \in DOMAIN messages : messages[j].root \in DOMAIN messages
    BY RootsThere
  <1>5. ~Stands(i)' /\ Stands(i)
    BY <1>2 DEF NewStanding, Supersedable, Stands, Is
  <1>6. \A j \in DOMAIN messages : j # i => (Stands(j)' <=> Stands(j))
    BY <1>1 DEF Stands, Is
  <1>7. RetriesTried'
    BY <1>1, <1>2, <1>3 DEF Counters, RetriesTried, NewStanding
  <1>8. RewritesTried'
    <2>1. m.root = messages[i].root /\ m.rewrites = messages[i].rewrites
      BY DEF NewStanding
    <2> QED
      BY <1>1, <1>2, <1>4, <1>5, <1>6, <2>1 DEF Counters, RewritesTried
  <1>9. RewriteBudget'
    BY <1>1, <1>3, LimitsAssumption DEF Counters, RewriteBudget
  <1> QED
    BY <1>7, <1>8, <1>9 DEF Counters

LEMMA FailureAdded ==
  ASSUME StateTyped, Versions, Counters, NEW i \in DOMAIN messages, NEW m, NewFailure(i, m),
         threads' = threads
  PROVE  Versions' /\ Counters'
  <1>0. PICK n : n = Len(messages) + 1
    OBVIOUS
  <1>1. /\ DOMAIN messages' = DOMAIN messages \cup {n} /\ n \notin DOMAIN messages
        /\ n \in Nat \ {0} /\ DOMAIN messages = 1..(n - 1) /\ messages'[n] = m
        /\ \A j \in DOMAIN messages : messages'[j] = messages[j]
    BY <1>0 DEF StateTyped, NewFailure, Joins
  <1>2. /\ DOMAIN tried = DOMAIN messages /\ DOMAIN tried' = DOMAIN messages'
        /\ \A j \in DOMAIN messages : tried'[j] = tried[j]
        /\ tried'[n].retries = 0 /\ tried'[n].rewrites = 0
    BY <1>0, <1>1, TriedJoins DEF StateTyped, NewFailure, Joins
  <1>3. \A j \in DOMAIN messages : messages[j].root \in DOMAIN messages
    BY RootsThere
  <1>4. m.root = messages[i].root /\ m.thread = messages[i].thread /\ m.retries = 0
    BY DEF NewFailure
  <1>5. ~Stands(n)'
    BY <1>1, <1>3, <1>4 DEF NewFailure, Stands, Is
  <1>6. \A j \in DOMAIN messages : Stands(j)' <=> Stands(j)
    BY <1>1 DEF Stands, Is
  <1>7. RowsSound'
    BY <1>1, <1>3, <1>4 DEF Versions, RowsSound, NewFailure, Is
  <1>8. AtMostOne' /\ AtLeastOne'
    BY <1>1, <1>4, <1>5, <1>6 DEF Versions, AtMostOne, AtLeastOne
  <1>9. RetriesTried'
    BY <1>1, <1>2, <1>4 DEF Counters, RetriesTried
  <1>10. RewritesTried'
    BY <1>1, <1>2, <1>3, <1>5, <1>6 DEF Counters, RewritesTried
  <1>11. RewriteBudget'
    BY <1>1, <1>2, LimitsAssumption DEF Counters, RewriteBudget
  <1> QED
    BY <1>7, <1>8, <1>9, <1>10, <1>11 DEF Versions, Counters

-----------------------------------------------------------------------------
\* Calls and what they may tell, when one worker moves.

\* What calls work on is still there.
KeepsWork ==
  /\ DOMAIN messages \subseteq DOMAIN messages'
  /\ \A i \in DOMAIN messages : messages'[i].root = messages[i].root
  /\ Len(threads) \in Nat /\ Len(threads') \in Nat /\ Len(threads) <= Len(threads')

\* A call that moves settles on sound work, and after an erasure on excused work.
Settles(v) == CallSound(v)' /\ (erased => CallExcused(v)')

CallsMove == \A v \in Workers : call'[v] = call[v] \/ Settles(v)

\* After an erasure its rows stay excused.
StaysExcused ==
  /\ UNCHANGED <<listed, erased, spared>> /\ (suppressed => suppressed')
  /\ erased => \A i \in DOMAIN messages : Excused(i) => Excused(i)'
  /\ erased => \A i \in DOMAIN messages' : RowExcused(i)'

\* A step of workers or reviewers keeps the invariant if it keeps what it says of
\* the rows.
LEMMA RowsMove ==
  ASSUME DraftingInv, StateTyped', Versions', Counters', KeepsWork, CallsMove, StaysExcused
  PROVE  DraftingInv'
  <1>1. CallsSound'
    <2>1. ASSUME NEW v \in Workers, call'[v] = call[v] PROVE CallSound(v)'
      BY <2>1 DEF DraftingInv, CallsSound, CallSound, KeepsWork, At
    <2> QED
      BY <2>1 DEF CallsSound, CallsMove, Settles
  <1>2. ErasureSound'
    <2> SUFFICES ASSUME erased PROVE suppressed' /\ \A v \in Workers : CallExcused(v)'
      BY DEF StaysExcused, ErasureSound
    <2>1. suppressed'
      BY DEF DraftingInv, ErasureSound, StaysExcused
    <2>2. ASSUME NEW v \in Workers, call'[v] = call[v] PROVE CallExcused(v)'
      <3>1. CallExcused(v)
        BY DEF DraftingInv, ErasureSound
      <3>2. At(v, "rewriting") => call[v].on \in DOMAIN messages
        BY DEF DraftingInv, CallsSound, CallSound, At
      <3> QED
        BY <2>2, <3>1, <3>2 DEF CallExcused, StaysExcused, Free, At
    <2> QED
      BY <2>1, <2>2 DEF CallsMove, Settles
  <1>3. ListingSound'
    BY DEF DraftingInv, ListingSound, StaysExcused
  <1> QED
    BY <1>1, <1>2, <1>3 DEF DraftingInv

LEMMA FreeSettles ==
  ASSUME NEW w \in Workers, Frees(w) PROVE CallsMove /\ call' \in [Workers -> Calls]
  BY DEF Frees, CallsMove, Settles, Free, At, CallSound, CallExcused

LEMMA PutSettles ==
  ASSUME NEW w \in Workers, NEW pc, NEW on, NEW read, NEW late, Puts(w, pc, on, read, late),
         Settles(w)
  PROVE  CallsMove /\ call' \in [Workers -> Calls]
  BY DEF Puts, CallsMove

\* A step that touches nothing but calls.
OnlyCalling == UNCHANGED <<messages, threads, suppressed, listed, erased, tried, spared>>

LEMMA CallMoves ==
  ASSUME DraftingInv, OnlyCalling, call' \in [Workers -> Calls], CallsMove
  PROVE  DraftingInv'
  <1>1. StateTyped'
    BY DEF DraftingInv, StateTyped, OnlyCalling
  <1>2. Versions' /\ Counters'
    BY DEF DraftingInv, OnlyCalling, Versions, Counters, RowsSound, AtMostOne, AtLeastOne,
       RetriesTried, RewritesTried, RewriteBudget, Stands, Is
  <1>3. KeepsWork
    BY DEF DraftingInv, StateTyped, OnlyCalling, KeepsWork
  <1>4. StaysExcused
    BY DEF DraftingInv, ErasureSound, OnlyCalling, StaysExcused, RowExcused, Excused, Is
  <1> QED
    BY <1>1, <1>2, <1>3, <1>4, RowsMove

\* A row is written that stays in its chain, and stands for it as before.
StaysInChain(i, m) ==
  /\ m \in Messages /\ Writes(i, m)
  /\ m.thread = messages[i].thread /\ m.root = messages[i].root
  /\ m.status = "failed" <=> m.failure # "none"
  /\ (m.status # "superseded" /\ (m.status = "failed" => m.root = i)) <=> Stands(i)

LEMMA RowStays ==
  ASSUME StateTyped, Versions, NEW i \in DOMAIN messages, NEW m, StaysInChain(i, m),
         threads' = threads
  PROVE  Versions' /\ SameChains /\ KeepsWork
  <1>1. DOMAIN messages' = DOMAIN messages /\ messages'[i] = m
    BY DEF StaysInChain, Writes
  <1>2. SameChains
    <2>1. Stands(i)' <=> Stands(i)
      BY <1>1 DEF StaysInChain, Stands, Is
    <2> QED
      BY <1>1, <2>1 DEF StaysInChain, Writes, SameChains, Versions, RowsSound, Stands, Is
  <1>3. KeepsWork
    BY <1>2 DEF SameChains, KeepsWork, StateTyped
  <1> QED
    BY <1>2, <1>3, ChainsKept

-----------------------------------------------------------------------------
\* Each action keeps the invariant.

LEMMA DiesKeeps ==
  ASSUME DraftingInv, NEW w \in Workers, Dies(w) PROVE DraftingInv'
  <1>1. Frees(w) /\ OnlyCalling
    BY CallReturns DEF DraftingInv, Dies, OnlyCalls, OnlyCalling
  <1> QED
    BY <1>1, CallMoves, FreeSettles

LEMMA ClaimLostKeeps ==
  ASSUME DraftingInv, NEW w \in Workers, ClaimLost(w) PROVE DraftingInv'
  <1>1. Frees(w) /\ OnlyCalling
    BY CallReturns DEF DraftingInv, ClaimLost, OnlyCalls, OnlyCalling
  <1> QED
    BY <1>1, CallMoves, FreeSettles

LEMMA RefusedKeeps ==
  ASSUME DraftingInv, NEW w \in Workers, Refused(w) PROVE DraftingInv'
  <1>1. Frees(w) /\ OnlyCalling
    BY CallReturns DEF DraftingInv, Refused, OnlyCalls, OnlyCalling
  <1> QED
    BY <1>1, CallMoves, FreeSettles

LEMMA RequestsKeeps ==
  ASSUME DraftingInv, NEW w \in Workers, Requests(w) PROVE DraftingInv'
  <1>1. PICK m \in Answers \cup (IF suppressed THEN {} ELSE Drafts) :
          Calling(w, "drafted", 0, m)
    BY DEF Requests
  <1>2. m \in Messages /\ Fresh(m) /\ (suppressed => m.status = "suppressed")
    <2>1. CASE m \in Answers
      BY <2>1, BlankIsFresh DEF Answers, Messages, Statuses, Fresh
    <2>2. CASE ~suppressed /\ m \in Drafts
      BY <2>2, BlankIsFresh DEF Drafts, Generated, Failures, Messages, Statuses, Fresh
    <2> QED
      BY <1>1, <2>1, <2>2
  <1>3. Puts(w, "drafted", 0, m, FALSE)
    <2>1. "drafted" \in Places /\ 0 \in 0..MaxMessages /\ m \in Messages
      BY <1>2, LimitsAssumption DEF Places
    <2>2. StateTyped
      BY DEF DraftingInv
    <2> QED
      BY <1>1, <2>1, <2>2, CallPut
  <1>4. Settles(w)
    <2>1. CallSound(w)'
      BY <1>2, <1>3 DEF Puts, CallSound, At
    <2>2. erased => CallExcused(w)'
      BY <1>2, <1>3 DEF DraftingInv, ErasureSound, Puts, CallExcused
    <2> QED
      BY <2>1, <2>2 DEF Settles
  <1>5. OnlyCalling
    BY DEF Requests, OnlyCalling
  <1> QED
    BY <1>3, <1>4, <1>5, CallMoves, PutSettles

LEMMA NewestThere == ASSUME StateTyped PROVE Newest \in 0..Len(threads)
  <1>0. PICK Open : Open = {t \in DOMAIN threads : threads[t] = "address"}
    OBVIOUS
  <1>1. Len(threads) \in Nat /\ DOMAIN threads = 1..Len(threads)
    BY DEF StateTyped
  <1>2. CASE Open = {}
    BY <1>0, <1>1, <1>2 DEF Newest
  <1>3. CASE Open # {}
    <2>1. Open \subseteq 0..Len(threads)
      BY <1>0, <1>1
    <2>2. \E t \in Open : \A u \in Open : u <= t
      BY <1>1, <1>3, <2>1, Greatest
    <2>3. (CHOOSE t \in Open : \A u \in Open : u <= t) \in Open
      BY <2>2
    <2> QED
      BY <1>0, <1>3, <2>1, <2>3 DEF Newest
  <1> QED
    BY <1>2, <1>3

LEMMA LooksUpThreadKeeps ==
  ASSUME DraftingInv, NEW w \in Workers, LooksUpThread(w) PROVE DraftingInv'
  <1>1. Newest \in 0..Len(threads)
    BY NewestThere DEF DraftingInv
  <1>2. Newest \in 0..MaxMessages
    BY <1>1, LimitsAssumption DEF DraftingInv, StateTyped
  <1>3. Puts(w, "creating", Newest, call[w].read, call[w].late)
    BY <1>2 DEF DraftingInv, StateTyped, LooksUpThread, Puts, Calls, Places
  <1>4. OnlyCalling
    BY DEF LooksUpThread, OnlyCalls, OnlyCalling
  <1>5. Settles(w)
    <2>1. CallSound(w)'
      BY <1>1, <1>3, <1>4
      DEF DraftingInv, CallsSound, CallSound, LooksUpThread, Puts, OnlyCalling, At, Fresh
    <2>2. erased => CallExcused(w)'
      BY <1>3 DEF DraftingInv, ErasureSound, CallExcused, LooksUpThread, Puts, At, Free
    <2> QED
      BY <2>1, <2>2 DEF Settles
  <1> QED
    BY <1>3, <1>4, <1>5, CallMoves, PutSettles

LEMMA ListsKeeps ==
  ASSUME DraftingInv, NEW w \in Workers, NEW i \in DOMAIN messages, Lists(w, i)
  PROVE  DraftingInv'
  <1>1. /\ messages[i] \in Messages /\ i \in 0..MaxMessages /\ "listed" \in Places
        /\ messages[i].root = i /\ messages[i].retries < RetryLimit /\ ~suppressed
    BY LimitsAssumption DEF DraftingInv, StateTyped, Lists, Candidate, Unreplaced, Places
  <1>2. Puts(w, "listed", i, messages[i], FALSE)
    <2>1. StateTyped /\ Calling(w, "listed", i, messages[i])
      BY DEF DraftingInv, Lists
    <2> QED
      BY <1>1, <2>1, CallPut
  <1>3. OnlyCalling
    BY DEF Lists, OnlyCalls, OnlyCalling
  <1>4. Settles(w)
    BY <1>1, <1>2, <1>3
    DEF DraftingInv, ErasureSound, Settles, CallSound, Puts, OnlyCalling, At
  <1> QED
    BY <1>2, <1>3, <1>4, CallMoves, PutSettles

LEMMA CreatesKeeps ==
  ASSUME DraftingInv, NEW w \in Workers, Creates(w) PROVE DraftingInv'
  <1> DEFINE old == call[w].on
             t == IF old = 0 THEN Len(threads) + 1 ELSE old
  <1>1. PICK m : m = [call[w].read EXCEPT !.thread = t, !.late = call[w].late]
    OBVIOUS
  <1>2. /\ call[w] \in Calls /\ Fresh(call[w].read) /\ old \in 0..Len(threads)
        /\ Len(messages) \in Nat /\ Len(messages) < MaxMessages
        /\ Len(threads) <= Len(messages)
    BY DEF DraftingInv, StateTyped, CallsSound, CallSound, Creates, Room, At
  <1>3. t \in 0..MaxMessages
    BY <1>2, LimitsAssumption DEF DraftingInv, StateTyped
  <1>4. /\ m \in Messages /\ Fresh(m) /\ m.thread = t /\ m.late = call[w].late
        /\ m.status = call[w].read.status
    BY <1>1, <1>2, <1>3 DEF Calls, Messages, Fresh
  <1>5. /\ threads' \in Seq({"address", "token"}) /\ Len(threads') <= Len(messages) + 1
        /\ Len(threads) \in Nat /\ Len(threads') \in Nat /\ Len(threads) <= Len(threads')
        /\ DOMAIN threads' = 1..Len(threads') /\ DOMAIN threads = 1..Len(threads)
        /\ t \in DOMAIN threads'
    BY <1>2 DEF Creates, DraftingInv, StateTyped
  <1>6. [m EXCEPT !.root = Len(messages) + 1] \in Messages
    <2>1. Len(messages) + 1 \in 0..MaxMessages
      BY <1>2, LimitsAssumption
    <2> QED
      BY <1>4, <2>1 DEF Messages
  <1>7. messages' = Append(messages, [m EXCEPT !.root = Len(messages) + 1])
    <2>1. Create(m)
      BY <1>1 DEF Creates
    <2>2. m.root = 0
      BY <1>4 DEF Fresh
    <2> QED
      BY <1>4, <2>1, <2>2 DEF Create, Messages
  <1>8. Joins(messages, [m EXCEPT !.root = Len(messages) + 1])
    BY <1>6, <1>7, RowJoins DEF DraftingInv, StateTyped
  <1>9. NewChain(m)
    BY <1>4, <1>5, <1>8 DEF NewChain, Creates
  <1>10. CallsMove /\ call' \in [Workers -> Calls]
    BY CallReturns, FreeSettles DEF DraftingInv, Creates
  <1>11. StateTyped'
    <2>1. messages' \in Seq(Messages) /\ Len(messages') = Len(messages) + 1
      BY <1>8 DEF Joins
    <2>2. tried' \in Seq(Counts) /\ Len(tried') = Len(messages')
      BY <2>1, TriedJoins DEF Creates, DraftingInv, StateTyped
    <2>3. Len(messages') <= MaxMessages /\ Len(threads') <= Len(messages')
      BY <1>2, <1>5, <2>1, LimitsAssumption
    <2>4. /\ suppressed' \in BOOLEAN /\ erased' \in BOOLEAN
          /\ listed' \in {None} \cup SUBSET DOMAIN threads'
      BY <1>5 DEF Creates, DraftingInv, StateTyped
    <2> QED
      BY <1>5, <1>10, <2>1, <2>2, <2>3, <2>4 DEF StateTyped
  <1>12. Versions' /\ Counters'
    BY <1>5, <1>9, ChainStarted, ChainStartedCounts DEF DraftingInv
  <1>13. KeepsWork
    BY <1>5, <1>8 DEF KeepsWork, Joins
  <1>14. StaysExcused
    <2>1. erased => \A i \in DOMAIN messages : Excused(i) => Excused(i)'
      BY <1>8 DEF Excused, Joins, Creates
    <2>2. ASSUME erased, NEW i \in DOMAIN messages' PROVE RowExcused(i)'
      <3>1. CASE i \in DOMAIN messages
        BY <1>8, <2>2, <3>1
        DEF DraftingInv, ErasureSound, RowExcused, Excused, Joins, Creates, Is
      <3>2. CASE i = Len(messages) + 1
        <4>1. messages'[i].late = m.late /\ messages'[i].status = m.status
          BY <1>4, <1>8, <3>2 DEF Joins, Messages
        <4>2. call[w].late \/ call[w].read.status = "suppressed"
          BY <2>2 DEF DraftingInv, ErasureSound, CallExcused, Creates, At, Free
        <4> QED
          BY <1>4, <4>1, <4>2 DEF RowExcused, Excused, Is
      <3> QED
        BY <1>8, <3>1, <3>2 DEF Joins
    <2> QED
      BY <2>1, <2>2 DEF StaysExcused, Creates
  <1> QED
    BY <1>10, <1>11, <1>12, <1>13, <1>14, RowsMove

\* A row that is written tells no more than before, or is excused.
TellsNoMore(i, m) ==
  /\ m.late = messages[i].late /\ m.plain = messages[i].plain /\ m.prompt = messages[i].prompt
  /\ Is(i, "suppressed") => m.status = "suppressed"

LEMMA RowMoves ==
  ASSUME DraftingInv, NEW i \in DOMAIN messages, NEW m, StaysInChain(i, m), OnlyMessages,
         CallsMove, call' \in [Workers -> Calls],
         tried' \in Seq(Counts), Len(tried') = Len(tried), SameChains => Counters',
         erased => m.late \/ TellsNoMore(i, m)
  PROVE  DraftingInv'
  <1>1. Versions' /\ SameChains /\ KeepsWork
    BY RowStays DEF DraftingInv, OnlyMessages
  <1>2. StateTyped'
    BY DEF DraftingInv, StateTyped, StaysInChain, Writes, OnlyMessages
  <1>3. StaysExcused
    <2>1. ASSUME erased PROVE (Excused(i) => Excused(i)') /\ RowExcused(i)'
      BY <2>1
      DEF DraftingInv, ErasureSound, StaysInChain, Writes, TellsNoMore, OnlyMessages,
          RowExcused, Excused, Is
    <2>2. ASSUME erased, NEW j \in DOMAIN messages, j # i
          PROVE  (Excused(j) => Excused(j)') /\ RowExcused(j)'
      BY <2>2
      DEF DraftingInv, ErasureSound, StaysInChain, Writes, OnlyMessages, RowExcused, Excused, Is
    <2>3. DOMAIN messages' = DOMAIN messages
      BY DEF StaysInChain, Writes
    <2> QED
      BY <2>1, <2>2, <2>3 DEF StaysExcused, OnlyMessages
  <1> QED
    BY <1>1, <1>2, <1>3, RowsMove

\* The same, when no toolbox call is counted.
LEMMA RowMovesUncounted ==
  ASSUME DraftingInv, NEW i \in DOMAIN messages, NEW m, StaysInChain(i, m), OnlyMessages,
         CallsMove, call' \in [Workers -> Calls], tried' = tried,
         m.retries = messages[i].retries, m.rewrites = messages[i].rewrites,
         erased => m.late \/ TellsNoMore(i, m)
  PROVE  DraftingInv'
  <1>1. SameCounts
    BY DEF StaysInChain, Writes, SameCounts
  <1>2. SameChains => Counters'
    BY <1>1, CountsKept DEF DraftingInv
  <1>3. tried' \in Seq(Counts) /\ Len(tried') = Len(tried)
    BY DEF DraftingInv, StateTyped
  <1> QED
    BY <1>2, <1>3, RowMoves

\* The reason of a failed row changes, whatever it is.
LEMMA FailureWritten ==
  ASSUME DraftingInv, NEW i \in DOMAIN messages,
         NEW f \in {"none", "transient", "permanent", "blocked"},
         Is(i, "failed") <=> f # "none",
         messages' = [messages EXCEPT ![i].failure = f], OnlyMessages, tried' = tried,
         CallsMove, call' \in [Workers -> Calls]
  PROVE  DraftingInv'
  <1>1. PICK m : m = [messages[i] EXCEPT !.failure = f]
    OBVIOUS
  <1>2. messages[i] \in Messages
    BY DEF DraftingInv, StateTyped
  <1>3. /\ m \in Messages /\ m.failure = f /\ m.thread = messages[i].thread
        /\ m.root = messages[i].root /\ m.status = messages[i].status
        /\ m.retries = messages[i].retries /\ m.rewrites = messages[i].rewrites
        /\ TellsNoMore(i, m)
    BY <1>1, <1>2 DEF Messages, TellsNoMore, Is
  <1>4. Writes(i, m)
    <2>1. messages' = [messages EXCEPT ![i] = m]
      BY <1>1
    <2> QED
      BY <1>3, <2>1, RowWritten DEF DraftingInv
  <1>5. StaysInChain(i, m)
    BY <1>3, <1>4 DEF StaysInChain, Stands, Is
  <1> QED
    BY <1>3, <1>5, RowMovesUncounted

LEMMA BlockedKeeps ==
  ASSUME DraftingInv, NEW w \in Workers, Blocked(w) PROVE DraftingInv'
  <1> DEFINE i == call[w].on
  <1>1. i \in DOMAIN messages /\ messages[i] \in Messages
    BY DEF DraftingInv, StateTyped, CallsSound, CallSound, Blocked, At
  <1>2. PICK f : f = IF Is(i, "failed") THEN "blocked" ELSE messages[i].failure
    OBVIOUS
  <1>3. f \in {"none", "transient", "permanent", "blocked"} /\ (Is(i, "failed") <=> f # "none")
    BY <1>1, <1>2 DEF DraftingInv, Versions, RowsSound, Messages
  <1>4. messages' = [messages EXCEPT ![i].failure = f]
    BY <1>1, <1>2 DEF Blocked
  <1>5. CallsMove /\ call' \in [Workers -> Calls]
    BY CallReturns, FreeSettles DEF DraftingInv, Blocked
  <1> QED
    BY <1>1, <1>3, <1>4, <1>5, FailureWritten DEF Blocked

LEMMA FailsAgainKeeps ==
  ASSUME DraftingInv, NEW w \in Workers, FailsAgain(w) PROVE DraftingInv'
  <1> DEFINE i == call[w].on
  <1>1. i \in DOMAIN messages /\ messages[i] \in Messages
    BY DEF DraftingInv, StateTyped, CallsSound, CallSound, FailsAgain, At
  <1>2. PICK g \in Failures : messages' = [messages EXCEPT ![i].failure = Records(i, g)]
    BY DEF FailsAgain
  <1>3. /\ Records(i, g) \in {"none", "transient", "permanent", "blocked"}
        /\ Is(i, "failed") <=> Records(i, g) # "none"
    BY <1>1 DEF DraftingInv, Versions, RowsSound, Messages, Records, Failures
  <1>4. CallsMove /\ call' \in [Workers -> Calls]
    BY CallReturns, FreeSettles DEF DraftingInv, FailsAgain
  <1> QED
    BY <1>1, <1>2, <1>3, <1>4, FailureWritten DEF FailsAgain

LEMMA ReviewsKeeps ==
  ASSUME DraftingInv, NEW i \in DOMAIN messages, Reviews(i) PROVE DraftingInv'
  <1>1. PICK m : m = [messages[i] EXCEPT !.status = "decided"]
    OBVIOUS
  <1>2. messages[i] \in Messages /\ messages[i].status = "review_required"
    BY DEF DraftingInv, StateTyped, Reviews, Is
  <1>3. /\ m \in Messages /\ m.failure = messages[i].failure /\ m.thread = messages[i].thread
        /\ m.root = messages[i].root /\ m.status = "decided"
        /\ m.retries = messages[i].retries /\ m.rewrites = messages[i].rewrites
        /\ TellsNoMore(i, m)
    BY <1>1, <1>2 DEF Messages, Statuses, TellsNoMore, Is
  <1>4. Writes(i, m)
    <2>1. messages' = [messages EXCEPT ![i] = m]
      BY <1>1 DEF Reviews
    <2> QED
      BY <1>3, <2>1, RowWritten DEF DraftingInv
  <1>5. StaysInChain(i, m)
    BY <1>2, <1>3, <1>4 DEF StaysInChain, Stands, Is, DraftingInv, Versions, RowsSound
  <1>6. CallsMove /\ call' \in [Workers -> Calls]
    BY DEF DraftingInv, StateTyped, CallsMove, Reviews
  <1> QED
    BY <1>3, <1>5, <1>6, RowMovesUncounted DEF Reviews

LEMMA ClaimsRetryKeeps ==
  ASSUME DraftingInv, NEW w \in Workers, ClaimsRetry(w) PROVE DraftingInv'
  <1> DEFINE i == call[w].on
  <1>1. /\ i \in DOMAIN messages /\ messages[i] \in Messages /\ call[w] \in Calls
        /\ messages[i].root = i /\ Is(i, "failed")
        /\ messages[i].retries = call[w].read.retries /\ call[w].read.retries < RetryLimit
        /\ DOMAIN tried = DOMAIN messages
    BY DEF DraftingInv, StateTyped, CallsSound, CallSound, ClaimsRetry, Unchanged, At
  <1>2. PICK n : n = call[w].read.retries + 1
    OBVIOUS
  <1>3. n \in 0..RetryLimit
    BY <1>1, <1>2, LimitsAssumption DEF Calls, Messages
  <1>4. PICK m : m = [messages[i] EXCEPT !.retries = n]
    OBVIOUS
  <1>5. /\ m \in Messages /\ m.failure = messages[i].failure /\ m.thread = messages[i].thread
        /\ m.root = messages[i].root /\ m.status = messages[i].status
        /\ m.retries = n /\ m.rewrites = messages[i].rewrites
        /\ TellsNoMore(i, m)
    BY <1>1, <1>3, <1>4 DEF Messages, TellsNoMore, Is
  <1>6. Writes(i, m)
    <2>1. messages' = [messages EXCEPT ![i] = m]
      BY <1>2, <1>4 DEF ClaimsRetry
    <2> QED
      BY <1>1, <1>5, <2>1, RowWritten DEF DraftingInv
  <1>7. StaysInChain(i, m)
    BY <1>1, <1>5, <1>6 DEF StaysInChain, Stands, Is, DraftingInv, Versions, RowsSound
  <1>8. /\ tried' \in Seq(Counts) /\ Len(tried') = Len(tried) /\ DOMAIN tried' = DOMAIN tried
        /\ tried'[i].retries = tried[i].retries + 1 /\ tried'[i].rewrites = tried[i].rewrites
        /\ \A j \in DOMAIN tried : j # i => tried'[j] = tried[j]
    <2>1. tried[i] \in Counts /\ tried \in Seq(Counts) /\ i \in DOMAIN tried
      BY <1>1 DEF DraftingInv, StateTyped
    <2>2. PICK k \in Nat : k = tried[i].retries + 1
      BY <2>1 DEF Counts
    <2>3. PICK c : c = [tried[i] EXCEPT !.retries = k]
      OBVIOUS
    <2>4. c \in Counts /\ c.retries = k /\ c.rewrites = tried[i].rewrites
      BY <2>1, <2>3 DEF Counts
    <2>5. tried' = [tried EXCEPT ![i] = c]
      BY <2>2, <2>3 DEF ClaimsRetry
    <2> QED
      BY <2>1, <2>2, <2>4, <2>5
  <1>9. ASSUME SameChains PROVE Counters'
    <2>1. RetriesTried'
      BY <1>1, <1>2, <1>5, <1>6, <1>8 DEF DraftingInv, Counters, RetriesTried, Writes
    <2>2. RewritesTried'
      <3>1. \A j \in DOMAIN messages : messages[j].root \in DOMAIN tried
        BY <1>1, RootsThere DEF DraftingInv
      <3>2. \A j \in DOMAIN tried : tried'[j].rewrites = tried[j].rewrites
        BY <1>8
      <3>3. \A j \in DOMAIN messages : messages'[j].rewrites = messages[j].rewrites
        BY <1>5, <1>6 DEF Writes
      <3> QED
        BY <1>9, <3>1, <3>2, <3>3 DEF DraftingInv, Counters, RewritesTried, SameChains
    <2>3. RewriteBudget'
      BY <1>8 DEF DraftingInv, Counters, RewriteBudget
    <2> QED
      BY <2>1, <2>2, <2>3 DEF Counters
  <1>10. Puts(w, "retrying", i, [call[w].read EXCEPT !.retries = n], call[w].late)
    <2>1. [call[w].read EXCEPT !.retries = n] \in Messages /\ "retrying" \in Places
      BY <1>1, <1>3 DEF Calls, Messages, Places
    <2>2. StateTyped /\ Goes(w, "retrying", [call[w].read EXCEPT !.retries = n])
      BY <1>2 DEF DraftingInv, ClaimsRetry
    <2> QED
      BY <2>1, <2>2, CallGoes
  <1>11. CallsMove /\ call' \in [Workers -> Calls]
    <2>1. CallSound(w)'
      BY <1>1, <1>5, <1>6, <1>10 DEF CallSound, Puts, At, Writes
    <2>2. erased => CallExcused(w)'
      BY <1>10 DEF DraftingInv, ErasureSound, CallExcused, ClaimsRetry, At, Free, Puts
    <2> QED
      BY <1>10, <2>1, <2>2, PutSettles DEF Settles
  <1> QED
    BY <1>1, <1>5, <1>7, <1>8, <1>9, <1>11, RowMoves DEF ClaimsRetry

LEMMA RecoversKeeps ==
  ASSUME DraftingInv, NEW w \in Workers, Recovers(w) PROVE DraftingInv'
  <1> DEFINE i == call[w].on
  <1>1. CallsMove /\ call' \in [Workers -> Calls]
    BY CallReturns, FreeSettles DEF DraftingInv, Recovers
  <1>2. CASE ~Unchanged(w)
    <2>1. OnlyCalling
      BY <1>2 DEF Recovers, OnlyMessages, OnlyCalling
    <2> QED
      BY <1>1, <2>1, CallMoves
  <1>3. CASE Unchanged(w)
    <2>1. /\ i \in DOMAIN messages /\ messages[i] \in Messages /\ call[w] \in Calls
          /\ messages[i].root = i /\ Is(i, "failed")
      BY <1>3 DEF DraftingInv, StateTyped, CallsSound, CallSound, Recovers, Unchanged, At
    <2>2. PICK m : m = [messages[i] EXCEPT !.status = "review_required", !.failure = "none",
                          !.plain = TRUE, !.late = call[w].late \/ call[w].read.late]
      OBVIOUS
    <2>3. /\ m \in Messages /\ m.failure = "none" /\ m.thread = messages[i].thread
          /\ m.root = messages[i].root /\ m.status = "review_required"
          /\ m.retries = messages[i].retries /\ m.rewrites = messages[i].rewrites
          /\ m.late = (call[w].late \/ call[w].read.late)
      BY <2>1, <2>2 DEF Messages, Statuses
    <2>4. Writes(i, m)
      <3>1. messages' = [messages EXCEPT ![i] = m]
        BY <1>3, <2>2 DEF Recovers
      <3> QED
        BY <2>1, <2>3, <3>1, RowWritten DEF DraftingInv
    <2>5. StaysInChain(i, m)
      BY <2>1, <2>3, <2>4 DEF StaysInChain, Stands, Is
    <2>6. erased => m.late
      BY <2>3 DEF DraftingInv, ErasureSound, CallExcused, Recovers, At, Free
    <2> QED
      BY <1>1, <2>1, <2>3, <2>5, <2>6, RowMovesUncounted DEF Recovers
  <1> QED
    BY <1>2, <1>3

\* An automated rewrite is counted in the version that stands for the chain.
LEMMA RewriteCounted ==
  ASSUME DraftingInv, NEW i \in DOMAIN messages, Supersedable(i),
         messages[i].rewrites < RewriteLimit,
         messages' = [messages EXCEPT ![i].rewrites = Counted(i)],
         tried' = [tried EXCEPT ![messages[i].root].rewrites = @ + 1],
         OnlyMessages, CallsMove, call' \in [Workers -> Calls]
  PROVE  DraftingInv'
  <1>1. /\ messages[i] \in Messages /\ DOMAIN tried = DOMAIN messages
        /\ messages[i].root \in DOMAIN messages /\ messages[i].status = "review_required"
    BY RootsThere DEF DraftingInv, StateTyped, Supersedable, Is
  <1>2. PICK n : n = messages[i].rewrites + 1
    OBVIOUS
  <1>3. n \in 0..RewriteLimit
    BY <1>1, <1>2, LimitsAssumption DEF Messages
  <1>4. PICK m : m = [messages[i] EXCEPT !.rewrites = n]
    OBVIOUS
  <1>5. /\ m \in Messages /\ m.failure = messages[i].failure /\ m.thread = messages[i].thread
        /\ m.root = messages[i].root /\ m.status = messages[i].status
        /\ m.retries = messages[i].retries /\ m.rewrites = n
        /\ TellsNoMore(i, m)
    BY <1>1, <1>3, <1>4 DEF Messages, TellsNoMore, Is
  <1>6. Writes(i, m)
    <2>1. messages' = [messages EXCEPT ![i] = m]
      BY <1>2, <1>4 DEF Counted
    <2> QED
      BY <1>5, <2>1, RowWritten DEF DraftingInv
  <1>7. StaysInChain(i, m)
    BY <1>1, <1>5, <1>6 DEF StaysInChain, Stands, Is, DraftingInv, Versions, RowsSound
  <1>8. PICK r : r = messages[i].root
    OBVIOUS
  <1>9. /\ tried' \in Seq(Counts) /\ Len(tried') = Len(tried) /\ DOMAIN tried' = DOMAIN tried
        /\ tried'[r].rewrites = tried[r].rewrites + 1 /\ tried'[r].retries = tried[r].retries
        /\ \A j \in DOMAIN tried : j # r => tried'[j] = tried[j]
    <2>1. tried[r] \in Counts /\ tried \in Seq(Counts) /\ r \in DOMAIN tried
      BY <1>1, <1>8 DEF DraftingInv, StateTyped
    <2>2. PICK k \in Nat : k = tried[r].rewrites + 1
      BY <2>1 DEF Counts
    <2>3. PICK c : c = [tried[r] EXCEPT !.rewrites = k]
      OBVIOUS
    <2>4. c \in Counts /\ c.rewrites = k /\ c.retries = tried[r].retries
      BY <2>1, <2>3 DEF Counts
    <2>5. tried' = [tried EXCEPT ![r] = c]
      BY <1>8, <2>2, <2>3
    <2> QED
      BY <2>1, <2>2, <2>4, <2>5
  <1>10. ASSUME SameChains PROVE Counters'
    <2>1. Stands(i) /\ tried[r].rewrites = messages[i].rewrites
      BY <1>1, <1>8 DEF DraftingInv, Counters, RewritesTried, Stands, Is
    <2>2. RetriesTried'
      <3>1. \A j \in DOMAIN messages : messages'[j].retries = messages[j].retries
        BY <1>5, <1>6 DEF Writes
      <3>2. \A j \in DOMAIN tried : tried'[j].retries = tried[j].retries
        BY <1>9
      <3> QED
        BY <1>1, <1>10, <3>1, <3>2 DEF DraftingInv, Counters, RetriesTried, SameChains
    <2>3. RewritesTried'
      <3>1. ASSUME NEW j \in DOMAIN messages, Stands(j), j # i
            PROVE  tried'[messages[j].root].rewrites = messages'[j].rewrites
        <4>1. messages[j].root # r
          BY <1>8, <2>1, <3>1 DEF DraftingInv, Versions, AtMostOne
        <4>2. messages[j].root \in DOMAIN tried
          BY <1>1, RootsThere DEF DraftingInv
        <4> QED
          BY <1>6, <1>9, <3>1, <4>1, <4>2 DEF DraftingInv, Counters, RewritesTried, Writes
      <3>2. tried'[messages[i].root].rewrites = messages'[i].rewrites
        BY <1>2, <1>5, <1>6, <1>8, <1>9, <2>1 DEF Writes
      <3>3. \A j \in DOMAIN messages :
              messages'[j].root = messages[j].root /\ (Stands(j)' => Stands(j))
        BY <1>10 DEF SameChains
      <3>4. \A j \in DOMAIN messages :
              Stands(j) => tried'[messages[j].root].rewrites = messages'[j].rewrites
        BY <3>1, <3>2
      <3> QED
        BY <1>10, <3>3, <3>4 DEF RewritesTried, SameChains
    <2>4. RewriteBudget'
      BY <1>2, <1>3, <1>9, <2>1 DEF DraftingInv, Counters, RewriteBudget
    <2> QED
      BY <2>2, <2>3, <2>4 DEF Counters
  <1> QED
    BY <1>5, <1>7, <1>9, <1>10, RowMoves

LEMMA RewritesKeeps ==
  ASSUME DraftingInv, NEW w \in Workers, NEW i \in DOMAIN messages, Rewrites(w, i)
  PROVE  DraftingInv'
  <1>1. i \in 0..MaxMessages /\ "rewriting" \in Places /\ Blank \in Messages
    BY BlankIsFresh, LimitsAssumption DEF DraftingInv, StateTyped, Places
  <1>2. Puts(w, "rewriting", i, Blank, FALSE)
    <2>1. StateTyped /\ Calling(w, "rewriting", i, Blank)
      BY DEF DraftingInv, Rewrites
    <2> QED
      BY <1>1, <2>1, CallPut
  <1>3. ASSUME DOMAIN messages' = DOMAIN messages, messages'[i].late = messages[i].late,
               messages'[i].thread = messages[i].thread
        PROVE  CallsMove /\ call' \in [Workers -> Calls]
    <2>1. CallSound(w)'
      BY <1>2, <1>3 DEF CallSound, Puts, At
    <2>2. erased => CallExcused(w)'
      <3>1. erased => Excused(i)
        BY DEF DraftingInv, ErasureSound, RowExcused, Rewrites, Supersedable, Is
      <3> QED
        BY <1>2, <1>3, <3>1 DEF CallExcused, Excused, Puts, At, Rewrites, OnlyMessages
    <2> QED
      BY <1>2, <2>1, <2>2, PutSettles DEF Settles
  <1>4. CASE UNCHANGED <<messages, tried>>
    <2>1. OnlyCalling
      BY <1>4 DEF Rewrites, OnlyMessages, OnlyCalling
    <2>2. CallsMove /\ call' \in [Workers -> Calls]
      BY <1>3, <1>4
    <2> QED
      BY <2>1, <2>2, CallMoves
  <1>5. CASE /\ messages[i].rewrites < RewriteLimit
             /\ messages' = [messages EXCEPT ![i].rewrites = Counted(i)]
             /\ tried' = [tried EXCEPT ![messages[i].root].rewrites = @ + 1]
    <2>1. /\ DOMAIN messages' = DOMAIN messages /\ messages'[i].late = messages[i].late
          /\ messages'[i].thread = messages[i].thread
      <3>1. messages[i] \in Messages
        BY DEF DraftingInv, StateTyped
      <3> QED
        BY <1>5, <3>1 DEF Messages
    <2>2. CallsMove /\ call' \in [Workers -> Calls]
      BY <1>3, <2>1
    <2> QED
      BY <1>5, <2>2, RewriteCounted DEF Rewrites
  <1> QED
    BY <1>4, <1>5 DEF Rewrites

\* A version joins that stands for the chain of row i from now on.
LEMMA VersionSaved ==
  ASSUME DraftingInv, NEW i \in DOMAIN messages, Supersedable(i),
         NEW m \in Messages, m.status = "review_required", m.failure = "none", m.retries = 0,
         m.thread = messages[i].thread, m.root = messages[i].root,
         m.rewrites = messages[i].rewrites, NewVersion(i, m),
         erased => (m.plain \/ m.prompt => m.late \/ m.thread \in spared),
         OnlyMessages, CallsMove, call' \in [Workers -> Calls]
  PROVE  DraftingInv'
  <1>1. PICK s : s = [messages[i] EXCEPT !.status = "superseded"]
    OBVIOUS
  <1>2. /\ messages[i] \in Messages /\ Len(messages) \in Nat /\ Len(messages) < MaxMessages
        /\ messages \in Seq(Messages) /\ DOMAIN messages = 1..Len(messages)
    BY DEF DraftingInv, StateTyped, NewVersion, Room
  <1>3. /\ s \in Messages /\ s.thread = messages[i].thread /\ s.root = messages[i].root
        /\ s.late = messages[i].late /\ s.status = "superseded"
    BY <1>1, <1>2 DEF Messages, Statuses
  <1>4. PICK rows : rows = [messages EXCEPT ![i] = s]
    OBVIOUS
  <1>5. /\ rows \in Seq(Messages) /\ Len(rows) = Len(messages) /\ DOMAIN rows = DOMAIN messages
        /\ rows[i] = s /\ \A j \in DOMAIN messages : j # i => rows[j] = messages[j]
    BY <1>2, <1>3, <1>4
  <1>6. rows = [messages EXCEPT ![i].status = "superseded"]
    BY <1>1, <1>4
  <1>7. Joins(rows, m)
    BY <1>5, <1>6, RowJoins DEF NewVersion
  <1>8. NewStanding(i, m)
    BY <1>6, <1>7 DEF NewStanding, NewVersion
  <1>9. Versions' /\ Counters'
    BY <1>8, VersionReplaced, VersionReplacedCounts DEF DraftingInv, OnlyMessages
  <1>10. KeepsWork
    <2>1. \A j \in DOMAIN messages : messages'[j].root = messages[j].root
      BY <1>3, <1>5, <1>7 DEF Joins
    <2> QED
      BY <1>2, <1>5, <1>7, <2>1 DEF KeepsWork, Joins, DraftingInv, StateTyped, OnlyMessages
  <1>11. StateTyped'
    <2>1. /\ messages' \in Seq(Messages) /\ Len(messages') = Len(messages) + 1
          /\ Len(messages') <= MaxMessages
      BY <1>2, <1>5, <1>7, LimitsAssumption DEF Joins
    <2>2. tried' \in Seq(Counts) /\ Len(tried') = Len(messages')
      BY <2>1, TriedJoins DEF NewVersion, DraftingInv, StateTyped
    <2> QED
      BY <1>2, <2>1, <2>2 DEF DraftingInv, StateTyped, OnlyMessages
  <1>12. StaysExcused
    <2>1. /\ DOMAIN messages' = DOMAIN messages \cup {Len(messages) + 1}
          /\ messages'[Len(messages) + 1] = m /\ messages'[i] = s
          /\ \A j \in DOMAIN messages : j # i => messages'[j] = messages[j]
      BY <1>2, <1>5, <1>7 DEF Joins
    <2>2. \A j \in DOMAIN messages : Excused(j) => Excused(j)'
      BY <1>3, <2>1 DEF Excused, OnlyMessages
    <2>3. erased => RowExcused(i)'
      <3>1. erased => (messages[i].plain \/ messages[i].prompt => Excused(i))
        BY DEF DraftingInv, ErasureSound, RowExcused, Supersedable, Is
      <3>2. s.plain = messages[i].plain /\ s.prompt = messages[i].prompt
        BY <1>1, <1>2 DEF Messages
      <3> QED
        BY <2>1, <2>2, <3>1, <3>2 DEF RowExcused
    <2>4. erased => \A j \in DOMAIN messages : j # i => RowExcused(j)'
      BY <2>1, <2>2 DEF DraftingInv, ErasureSound, RowExcused, Is
    <2>5. ASSUME NEW n, n = Len(messages) + 1, erased PROVE RowExcused(n)'
      BY <2>1, <2>5 DEF RowExcused, Excused, OnlyMessages
    <2> QED
      BY <2>1, <2>2, <2>3, <2>4, <2>5 DEF StaysExcused, OnlyMessages
  <1> QED
    BY <1>9, <1>10, <1>11, <1>12, RowsMove

\* What a version inherits.
LEMMA InheritedRow ==
  ASSUME StateTyped, NEW i \in DOMAIN messages
  PROVE  /\ Inherited(i) \in Messages /\ Inherited(i).status = "review_required"
         /\ Inherited(i).retries = 0 /\ Inherited(i).failure = messages[i].failure
         /\ Inherited(i).thread = messages[i].thread /\ Inherited(i).root = messages[i].root
         /\ Inherited(i).rewrites = messages[i].rewrites /\ Inherited(i).late = messages[i].late
         /\ Inherited(i).plain = messages[i].plain /\ Inherited(i).prompt = messages[i].prompt
  <1>1. messages[i] \in Messages /\ 0 \in 0..RetryLimit /\ "review_required" \in Statuses
    BY LimitsAssumption DEF StateTyped, Statuses
  <1> QED
    BY <1>1 DEF Inherited, Messages

LEMMA SavesVersionKeeps ==
  ASSUME DraftingInv, NEW w \in Workers, SavesVersion(w) PROVE DraftingInv'
  <1> DEFINE i == call[w].on
  <1>1. /\ i \in DOMAIN messages /\ messages[i] \in Messages /\ call[w] \in Calls
        /\ Supersedable(i) /\ messages[i].status = "review_required"
        /\ messages[i].failure = "none"
    BY DEF DraftingInv, StateTyped, CallsSound, CallSound, SavesVersion, StillSupersedable,
       Supersedable, Is, At, Versions, RowsSound
  <1>2. PICK m : m = [Inherited(i) EXCEPT !.plain = TRUE, !.prompt = TRUE,
                                          !.late = call[w].late \/ @]
    OBVIOUS
  <1>3. /\ m \in Messages /\ m.status = "review_required" /\ m.failure = "none"
        /\ m.retries = 0 /\ m.thread = messages[i].thread /\ m.root = messages[i].root
        /\ m.rewrites = messages[i].rewrites /\ m.late = (call[w].late \/ messages[i].late)
    <2>1. StateTyped /\ call[w].late \in BOOLEAN
      BY <1>1 DEF DraftingInv, Calls
    <2> QED
      BY <1>1, <1>2, <2>1, InheritedRow DEF Messages
  <1>4. CallsMove /\ call' \in [Workers -> Calls]
    BY CallReturns, FreeSettles DEF DraftingInv, SavesVersion
  <1>5. NewVersion(i, m)
    BY <1>2 DEF SavesVersion
  <1>6. erased => m.late \/ m.thread \in spared
    BY <1>3 DEF DraftingInv, ErasureSound, CallExcused, Excused, SavesVersion, At, Free
  <1> QED
    BY <1>1, <1>3, <1>4, <1>5, <1>6, VersionSaved DEF SavesVersion

LEMMA EditsKeeps ==
  ASSUME DraftingInv, NEW i \in DOMAIN messages, Edits(i) PROVE DraftingInv'
  <1>1. /\ messages[i] \in Messages /\ messages[i].status = "review_required"
        /\ messages[i].failure = "none"
    BY DEF DraftingInv, StateTyped, Edits, Supersedable, Is, Versions, RowsSound
  <1>2. PICK m : m = Inherited(i)
    OBVIOUS
  <1>3. /\ m \in Messages /\ m.status = "review_required" /\ m.failure = "none"
        /\ m.retries = 0 /\ m.thread = messages[i].thread /\ m.root = messages[i].root
        /\ m.rewrites = messages[i].rewrites /\ m.late = messages[i].late
        /\ m.plain = messages[i].plain /\ m.prompt = messages[i].prompt
    BY <1>1, <1>2, InheritedRow DEF DraftingInv
  <1>4. erased => (m.plain \/ m.prompt => m.late \/ m.thread \in spared)
    BY <1>1, <1>3 DEF DraftingInv, ErasureSound, RowExcused, Excused, Is
  <1>5. CallsMove /\ call' \in [Workers -> Calls]
    BY DEF DraftingInv, StateTyped, CallsMove, Edits
  <1>6. Supersedable(i) /\ NewVersion(i, m) /\ OnlyMessages
    BY <1>2 DEF Edits
  <1> QED
    BY <1>3, <1>4, <1>5, <1>6, VersionSaved

LEMMA RewriteFailsKeeps ==
  ASSUME DraftingInv, NEW w \in Workers, RewriteFails(w) PROVE DraftingInv'
  <1> DEFINE i == call[w].on
  <1>1. /\ i \in DOMAIN messages /\ messages[i] \in Messages
        /\ messages[i].status = "review_required"
        /\ Len(messages) \in Nat /\ Len(messages) < MaxMessages
        /\ DOMAIN messages = 1..Len(messages)
    BY DEF DraftingInv, StateTyped, CallsSound, CallSound, RewriteFails, StillSupersedable,
       Supersedable, Is, At, Room
  <1>2. PICK m : m = [Inherited(i) EXCEPT !.status = "failed", !.failure = "transient"]
    OBVIOUS
  <1>3. /\ m \in Messages /\ m.status = "failed" /\ m.failure # "none"
        /\ m.retries = 0 /\ m.thread = messages[i].thread /\ m.root = messages[i].root
        /\ m.plain = messages[i].plain /\ m.prompt = messages[i].prompt
        /\ m.late = messages[i].late
    <2>1. StateTyped /\ "failed" \in Statuses
      BY DEF DraftingInv, Statuses
    <2> QED
      BY <1>1, <1>2, <2>1, InheritedRow DEF Messages
  <1>4. CallsMove /\ call' \in [Workers -> Calls]
    BY CallReturns, FreeSettles DEF DraftingInv, RewriteFails
  <1>5. Joins(messages, m)
    BY <1>2, <1>3, RowJoins DEF DraftingInv, StateTyped, RewriteFails
  <1>6. NewFailure(i, m)
    BY <1>3, <1>5 DEF NewFailure, RewriteFails
  <1>7. Versions' /\ Counters'
    BY <1>1, <1>6, FailureAdded DEF DraftingInv, RewriteFails, OnlyMessages
  <1>8. KeepsWork
    BY <1>5 DEF KeepsWork, Joins, DraftingInv, StateTyped, RewriteFails, OnlyMessages
  <1>9. StateTyped'
    <2>1. /\ messages' \in Seq(Messages) /\ Len(messages') = Len(messages) + 1
          /\ Len(messages') <= MaxMessages
      BY <1>1, <1>5, LimitsAssumption DEF Joins
    <2>2. tried' \in Seq(Counts) /\ Len(tried') = Len(messages')
      BY <2>1, TriedJoins DEF RewriteFails, DraftingInv, StateTyped
    <2> QED
      BY <1>1, <1>4, <2>1, <2>2 DEF DraftingInv, StateTyped, RewriteFails, OnlyMessages
  <1>10. StaysExcused
    <2>1. /\ DOMAIN messages' = DOMAIN messages \cup {Len(messages) + 1}
          /\ messages'[Len(messages) + 1] = m
          /\ \A j \in DOMAIN messages : messages'[j] = messages[j]
      BY <1>1, <1>5 DEF Joins
    <2>2. \A j \in DOMAIN messages : Excused(j) => Excused(j)'
      BY <2>1 DEF Excused, RewriteFails, OnlyMessages
    <2>3. erased => \A j \in DOMAIN messages : RowExcused(j)'
      BY <2>1, <2>2 DEF DraftingInv, ErasureSound, RowExcused, Is
    <2>4. erased => (m.plain \/ m.prompt => m.late \/ m.thread \in spared)
      BY <1>1, <1>3 DEF DraftingInv, ErasureSound, RowExcused, Excused, Is
    <2>5. ASSUME NEW n, n = Len(messages) + 1, erased PROVE RowExcused(n)'
      BY <2>1, <2>4, <2>5 DEF RowExcused, Excused, RewriteFails, OnlyMessages
    <2> QED
      BY <2>1, <2>2, <2>3, <2>5 DEF StaysExcused, RewriteFails, OnlyMessages
  <1> QED
    BY <1>4, <1>7, <1>8, <1>9, <1>10, RowsMove

\* What threads say changes, and no message.
LEMMA OtherThreads ==
  ASSUME NEW some, threads' = Tokenised(some), StateTyped
  PROVE  /\ threads' \in Seq({"address", "token"}) /\ Len(threads') = Len(threads)
         /\ DOMAIN threads' = DOMAIN threads
  BY DEF Tokenised, StateTyped

LEMMA AnonymisesKeeps ==
  ASSUME DraftingInv, Anonymises PROVE DraftingInv'
  <1>1. /\ threads' \in Seq({"address", "token"}) /\ Len(threads') = Len(threads)
        /\ DOMAIN threads' = DOMAIN threads
    BY OtherThreads DEF DraftingInv, Anonymises
  <1>2. StateTyped'
    BY <1>1 DEF DraftingInv, StateTyped, Anonymises
  <1>3. Versions' /\ Counters'
    BY <1>1 DEF DraftingInv, Anonymises, Versions, Counters, RowsSound, AtMostOne, AtLeastOne,
       RetriesTried, RewritesTried, RewriteBudget, Stands, Is
  <1>4. KeepsWork
    BY <1>1 DEF KeepsWork, Anonymises, DraftingInv, StateTyped
  <1>5. CallsMove
    BY DEF CallsMove, Anonymises
  <1>6. StaysExcused
    BY DEF DraftingInv, ErasureSound, StaysExcused, RowExcused, Excused, Is, Anonymises
  <1> QED
    BY <1>2, <1>3, <1>4, <1>5, <1>6, RowsMove

LEMMA ErasesKeeps ==
  ASSUME DraftingInv, Erases PROVE DraftingInv'
  <1>1. StateTyped'
    BY DEF DraftingInv, StateTyped, Erases, ThreadsOfEmail
  <1>2. Versions' /\ Counters'
    BY DEF DraftingInv, Erases, Versions, Counters, RowsSound, AtMostOne, AtLeastOne,
       RetriesTried, RewritesTried, RewriteBudget, Stands, Is
  <1>3. CallsSound'
    BY DEF DraftingInv, CallsSound, CallSound, At, Erases
  <1>4. ListingSound' /\ ErasureSound'
    BY DEF ListingSound, ErasureSound, Erases, ThreadsOfEmail
  <1> QED
    BY <1>1, <1>2, <1>3, <1>4 DEF DraftingInv

LEMMA ErasedKeeps ==
  ASSUME DraftingInv, Erased PROVE DraftingInv'
  <1>1. /\ threads' \in Seq({"address", "token"}) /\ Len(threads') = Len(threads)
        /\ DOMAIN threads' = DOMAIN threads
    BY OtherThreads DEF DraftingInv, Erased
  <1>2. messages \in Seq(Messages) /\ \A i \in DOMAIN messages : messages[i] \in Messages
    BY DEF DraftingInv, StateTyped
  <1>3. PICK scrub : scrub = [i \in DOMAIN messages |->
                 IF messages[i].thread \in listed THEN Scrubbed(messages[i]) ELSE messages[i]]
    OBVIOUS
  <1>4. \A i \in DOMAIN messages :
          /\ scrub[i] \in Messages /\ scrub[i].thread = messages[i].thread
          /\ scrub[i].root = messages[i].root /\ scrub[i].status = messages[i].status
          /\ scrub[i].failure = messages[i].failure /\ scrub[i].retries = messages[i].retries
          /\ scrub[i].rewrites = messages[i].rewrites
          /\ scrub[i].plain \/ scrub[i].prompt => messages[i].thread \notin listed
    BY <1>2, <1>3 DEF Scrubbed, Messages
  <1>5. scrub \in Seq(Messages) /\ Len(scrub) = Len(messages) /\ DOMAIN scrub = DOMAIN messages
    BY <1>2, <1>3, <1>4
  <1>6. messages' = scrub
    BY <1>3 DEF Erased
  <1>7. \A w \in Workers :
          /\ call'[w] \in Calls
          /\ Free(w)' \/ /\ call'[w].pc = call[w].pc /\ call'[w].on = call[w].on
                         /\ call'[w].read = call[w].read /\ call'[w].late
    BY IdleIsCall DEF DraftingInv, StateTyped, Calls, Erased, Free
  <1>8. StateTyped'
    <2>1. call' \in [Workers -> Calls]
      BY <1>7 DEF Erased
    <2> QED
      BY <1>1, <1>5, <1>6, <2>1 DEF DraftingInv, StateTyped, Erased
  <1>9. SameChains
    BY <1>4, <1>5, <1>6 DEF DraftingInv, Versions, RowsSound, SameChains, Stands, Is
  <1>10. Versions' /\ Counters'
    <2>1. Versions'
      BY <1>1, <1>9, ChainsKept DEF DraftingInv
    <2>2. SameCounts
      BY <1>4, <1>5, <1>6 DEF SameCounts, Erased
    <2> QED
      BY <1>9, <2>1, <2>2, CountsKept DEF DraftingInv
  <1>11. CallsSound'
    <2>1. ASSUME NEW w \in Workers, Free(w)' PROVE CallSound(w)'
      BY <2>1 DEF CallSound, Free, At
    <2>2. ASSUME NEW w \in Workers, ~Free(w)' PROVE CallSound(w)'
      BY <1>1, <1>7, <1>9, <2>2 DEF DraftingInv, CallsSound, CallSound, SameChains, At
    <2> QED
      BY <2>1, <2>2 DEF CallsSound
  <1>12. ListingSound'
    BY DEF ListingSound, Erased
  <1>13. ErasureSound'
    <2>1. \A i \in DOMAIN messages' : RowExcused(i)'
      <3>1. spared' = DOMAIN threads \ listed
        BY DEF DraftingInv, ListingSound, Erased
      <3>2. \A i \in DOMAIN messages : messages[i].thread \in DOMAIN threads
        BY DEF DraftingInv, Versions, RowsSound
      <3> QED
        BY <1>4, <1>5, <1>6, <3>1, <3>2 DEF RowExcused, Excused
    <2>2. \A w \in Workers : CallExcused(w)'
      BY <1>7 DEF CallExcused, Free
    <2> QED
      BY <2>1, <2>2 DEF ErasureSound, Erased
  <1> QED
    BY <1>8, <1>10, <1>11, <1>12, <1>13 DEF DraftingInv

LEMMA StutterKeeps ==
  ASSUME DraftingInv, UNCHANGED vars PROVE DraftingInv'
  <1>1. OnlyCalling /\ call' \in [Workers -> Calls] /\ CallsMove
    BY DEF DraftingInv, StateTyped, vars, OnlyCalling, CallsMove
  <1> QED
    BY <1>1, CallMoves

LEMMA NextKeeps ==
  ASSUME DraftingInv, Next PROVE DraftingInv'
  <1>1. ASSUME NEW w \in Workers, Communicates(w) PROVE DraftingInv'
    BY <1>1, RequestsKeeps, LooksUpThreadKeeps, CreatesKeeps DEF Communicates
  <1>2. ASSUME NEW w \in Workers, RetryStep(w) PROVE DraftingInv'
    BY <1>2, BlockedKeeps, ClaimsRetryKeeps, ClaimLostKeeps, RecoversKeeps, FailsAgainKeeps
    DEF RetryStep
  <1>3. ASSUME NEW w \in Workers, ReviewStep(w) PROVE DraftingInv'
    BY <1>3, RewritesKeeps, SavesVersionKeeps, RewriteFailsKeeps, RefusedKeeps DEF ReviewStep
  <1>4. ASSUME NEW w \in Workers, Dies(w) PROVE DraftingInv'
    BY <1>4, DiesKeeps
  <1>5. ASSUME NEW w \in Workers, NEW i \in DOMAIN messages, Lists(w, i) PROVE DraftingInv'
    BY <1>5, ListsKeeps
  <1>6. ASSUME NEW i \in DOMAIN messages, Reviews(i) \/ Edits(i) PROVE DraftingInv'
    BY <1>6, ReviewsKeeps, EditsKeeps
  <1>7. ASSUME PrivacyStep PROVE DraftingInv'
    BY <1>7, AnonymisesKeeps, ErasesKeeps, ErasedKeeps DEF PrivacyStep
  <1> QED
    BY <1>1, <1>2, <1>3, <1>4, <1>5, <1>6, <1>7 DEF Next

LEMMA InitSound == Init => DraftingInv
  <1> SUFFICES ASSUME Init PROVE DraftingInv
    OBVIOUS
  <1>1. StateTyped
    <2>1. messages \in Seq(Messages) /\ Len(messages) = 0 /\ Len(messages) <= MaxMessages
      BY LimitsAssumption DEF Init
    <2>2. tried \in Seq(Counts) /\ Len(tried) = 0
      BY DEF Init
    <2>3. threads \in Seq({"address", "token"}) /\ Len(threads) = 0
      BY DEF Init
    <2>4. call \in [Workers -> Calls]
      BY IdleIsCall DEF Init
    <2>5. suppressed \in BOOLEAN /\ erased \in BOOLEAN /\ listed = None
      BY DEF Init
    <2> QED
      BY <2>1, <2>2, <2>3, <2>4, <2>5 DEF StateTyped
  <1>2. Versions /\ Counters
    BY DEF Init, Versions, Counters, RowsSound, AtMostOne, AtLeastOne, RetriesTried,
       RewritesTried, RewriteBudget
  <1>3. CallsSound
    BY IdleIsCall DEF Init, CallsSound, CallSound, At
  <1>4. ListingSound /\ ErasureSound
    BY DEF Init, ListingSound, ErasureSound
  <1> QED
    BY <1>1, <1>2, <1>3, <1>4 DEF DraftingInv

\* The invariant holds, for any workers, limits, requests and messages.
THEOREM DraftingInvHolds == Spec => []DraftingInv
  <1>1. DraftingInv /\ [Next]_vars => DraftingInv'
    BY NextKeeps, StutterKeeps
  <1> QED
    BY InitSound, <1>1, PTL DEF Spec

\* Every state is typed; a message belongs to a thread, and a failed row says why.
THEOREM TypeCorrect == Spec => []TypeOK
  <1>1. DraftingInv => TypeOK
    BY DEF DraftingInv, StateTyped, Versions, RowsSound, Calls, TypeOK
  <1> QED
    BY DraftingInvHolds, <1>1, PTL

\* However edits, rewrites, decisions and recoveries overlap, a draft has exactly
\* one version that counts, for any workers and messages (create_version).
THEOREM OneVersionCounts == Spec => []OneCurrentVersion
  <1>1. ASSUME DraftingInv, NEW r \in DOMAIN messages, messages[r].root = r
        PROVE  Cardinality(Current(r)) = 1
    <2>1. PICK c \in DOMAIN messages : Stands(c) /\ messages[c].root = r
      BY <1>1 DEF DraftingInv, Versions, AtLeastOne
    <2>2. Current(r) = {i \in DOMAIN messages : messages[i].root = r /\ Stands(i)}
      BY DEF Current, Chain, Stands
    <2>3. Current(r) = {c}
      BY <1>1, <2>1, <2>2 DEF DraftingInv, Versions, AtMostOne
    <2> QED
      BY <2>3, FS_Singleton
  <1>2. DraftingInv => OneCurrentVersion
    BY <1>1 DEF OneCurrentVersion
  <1> QED
    BY DraftingInvHolds, <1>2, PTL

\* No draft costs more toolbox calls for retries than the limit, however many runs
\* overlap or die (claim_draft_retry).
THEOREM RetriesPaid == Spec => []RetryBudget
  <1>1. ASSUME DraftingInv, NEW i \in DOMAIN tried PROVE tried[i].retries <= RetryLimit
    <2>1. i \in DOMAIN messages /\ messages[i] \in Messages
      BY <1>1 DEF DraftingInv, StateTyped
    <2>2. messages[i].retries <= RetryLimit
      BY <2>1, LimitsAssumption DEF Messages
    <2> QED
      BY <1>1, <2>1, <2>2 DEF DraftingInv, Counters, RetriesTried
  <1>2. DraftingInv => RetryBudget
    BY <1>1 DEF RetryBudget
  <1> QED
    BY DraftingInvHolds, <1>2, PTL

\* No chain of versions costs more automated rewrites than the limit, however many
\* overlap or die (claim_automated_rewrite).
THEOREM RewritesPaid == Spec => []RewriteBudget
  <1>1. DraftingInv => RewriteBudget
    BY DEF DraftingInv, Counters
  <1> QED
    BY DraftingInvHolds, <1>1, PTL

\* After an erasure no message tells about the recipient but those the property
\* names, whatever calls were at work (gdpr_erase).
THEOREM ErasureStands == Spec => []ErasureHolds
  <1>1. DraftingInv => ErasureHolds
    BY DEF DraftingInv, ErasureSound, RowExcused, Excused, ErasureHolds
  <1> QED
    BY DraftingInvHolds, <1>1, PTL

\* A row that did not fail keeps its empty reason.
KeepsReason(i) == messages'[i].failure = messages[i].failure

LEMMA ReasonsStay ==
  ASSUME DraftingInv, Next, NEW i \in DOMAIN messages, ~Is(i, "failed")
  PROVE  messages'[i].failure = "none"
  <1>1. /\ messages[i].failure = "none" /\ messages[i] \in Messages
        /\ messages \in Seq(Messages) /\ DOMAIN messages = 1..Len(messages)
    BY DEF DraftingInv, StateTyped, Versions, RowsSound
  <1>2. ASSUME NEW w \in Workers, Communicates(w) PROVE KeepsReason(i)
    <2>1. ASSUME Creates(w) PROVE KeepsReason(i)
      BY <1>1, <2>1 DEF Creates, Create, KeepsReason
    <2> QED
      BY <1>2, <2>1 DEF Communicates, Requests, LooksUpThread, OnlyCalls, KeepsReason
  <1>3. ASSUME NEW w \in Workers, RetryStep(w) PROVE messages'[i].failure = "none"
    <2>1. ASSUME Blocked(w) PROVE messages'[i].failure = "none"
      BY <1>1, <2>1 DEF Blocked, Messages
    <2>2. ASSUME ClaimsRetry(w) PROVE KeepsReason(i)
      BY <1>1, <2>2 DEF ClaimsRetry, Messages, KeepsReason
    <2>3. ASSUME Recovers(w) PROVE messages'[i].failure = "none"
      BY <1>1, <2>3 DEF Recovers, Messages
    <2>4. ASSUME FailsAgain(w) PROVE messages'[i].failure = "none"
      <3> DEFINE j == call[w].on
      <3>1. PICK f \in Failures : messages' = [messages EXCEPT ![j].failure = Records(j, f)]
        BY <2>4 DEF FailsAgain
      <3>2. CASE i = j
        BY <1>1, <3>1, <3>2 DEF Records, Messages
      <3>3. CASE i # j
        BY <1>1, <3>1, <3>3
      <3> QED
        BY <3>2, <3>3
    <2> QED
      BY <1>1, <1>3, <2>1, <2>2, <2>3, <2>4
      DEF RetryStep, ClaimLost, OnlyCalls, KeepsReason
  <1>4. ASSUME NEW w \in Workers, ReviewStep(w) PROVE KeepsReason(i)
    <2>1. ASSUME NEW j \in DOMAIN messages, Rewrites(w, j) PROVE KeepsReason(i)
      <3>1. \/ messages' = messages
            \/ messages' = [messages EXCEPT ![j].rewrites = Counted(j)]
        BY <2>1 DEF Rewrites
      <3> QED
        BY <1>1, <3>1 DEF Messages, KeepsReason
    <2>2. ASSUME SavesVersion(w) PROVE KeepsReason(i)
      BY <1>1, <2>2 DEF SavesVersion, NewVersion, Messages, KeepsReason
    <2>3. ASSUME RewriteFails(w) PROVE KeepsReason(i)
      BY <1>1, <2>3 DEF RewriteFails, KeepsReason
    <2> QED
      BY <1>4, <2>1, <2>2, <2>3 DEF ReviewStep, Refused, OnlyCalls, KeepsReason
  <1>5. ASSUME NEW j \in DOMAIN messages, Reviews(j) \/ Edits(j) PROVE KeepsReason(i)
    <2>1. ASSUME Reviews(j) PROVE KeepsReason(i)
      BY <1>1, <2>1 DEF Reviews, Messages, KeepsReason
    <2>2. ASSUME Edits(j) PROVE KeepsReason(i)
      BY <1>1, <2>2 DEF Edits, NewVersion, Messages, KeepsReason
    <2> QED
      BY <1>5, <2>1, <2>2
  <1>6. ASSUME PrivacyStep PROVE KeepsReason(i)
    <2>1. ASSUME Erased PROVE KeepsReason(i)
      BY <1>1, <2>1 DEF Erased, Scrubbed, Messages, KeepsReason
    <2> QED
      BY <1>6, <2>1 DEF PrivacyStep, Anonymises, Erases, KeepsReason
  <1>7. ASSUME NEW w \in Workers, Dies(w) \/ \E j \in DOMAIN messages : Lists(w, j)
        PROVE  KeepsReason(i)
    BY <1>7 DEF Dies, Lists, OnlyCalls, KeepsReason
  <1> QED
    BY <1>1, <1>2, <1>3, <1>4, <1>5, <1>6, <1>7 DEF Next, KeepsReason

\* No step marks a draft failed that had been recovered or never failed
\* (_record_failure).
THEOREM RecoveryKept == Spec => RecoveryStands
  <1>1. ASSUME DraftingInv, [Next]_vars
        PROVE  [\A i \in DOMAIN messages :
                   ~Is(i, "failed") => messages'[i].failure = "none"]_vars
    BY <1>1, ReasonsStay
  <1> QED
    BY DraftingInvHolds, <1>1, PTL DEF Spec, RecoveryStands
=============================================================================
