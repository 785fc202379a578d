------------------------------- MODULE Inbox -------------------------------
(***************************************************************************)
(* What the inbox shows of the stored threads (inbox_service): the lists   *)
(* of threads and conversations with their filters, their counts, a row    *)
(* per entry, and the timeline of a thread.  Each view is a query of its   *)
(* own.                                                                    *)
(*                                                                         *)
(* Rows are created one after the other, so the place of an event is its   *)
(* key and its time; the place of a thread is its key and its creation.    *)
(***************************************************************************)
EXTENDS Integers, Sequences, FiniteSets, FiniteSetsExt, SequencesExt

VARIABLES
  threads,  \* per thread: ref (subject_ref), status, recipient, last (last_message_at, 0 for none)
  events    \* per message or reply: thread, what (the status of a message, "reply" or
            \* "auto"), and sent (the last event before it was sent, 0 for none)

ThreadStates == {"draft", "waiting", "replied"}
Hidden == {"superseded", "rejected"}
Replies == {"reply", "auto"}
Due == {"approved", "scheduled"}

Nothing == 0   \* no such event

Keys == DOMAIN threads
Refs == {threads[t].ref : t \in Keys}
Threads(ref) == {t \in Keys : threads[t].ref = ref}

LatestOf(S) == IF S = {} THEN Nothing ELSE Max(S)
FirstOf(S) == IF S = {} THEN Nothing ELSE Min(S)

-----------------------------------------------------------------------------
\* The filters.

Statuses(state) == IF state = "draft" THEN {"review_required"} ELSE Due

InState(t, state) ==
  IF state = "replied" THEN threads[t].status = "replied"
  ELSE \E e \in DOMAIN events : events[e].thread = t /\ events[e].what \in Statuses(state)

Activity(t) ==
  Max({threads[t].last} \cup
      {e \in DOMAIN events : events[e].thread = t /\ events[e].what \notin Replies} \cup {0})

ListThreads(state) == {t \in Keys : InState(t, state)}
CountStates == [s \in ThreadStates |-> Cardinality(ListThreads(s))]

\* Mutation: a conversation is listed by the state of its newest thread.
NewestMatches(ref, state) == InState(LatestOf(Threads(ref)), state)

AnyMatches(ref, state) == \E t \in Threads(ref) : InState(t, state)

\* A conversation is listed as its newest thread.
ListConversations(state) == {LatestOf(Threads(ref)) : ref \in {r \in Refs : AnyMatches(r, state)}}

CountConversations ==
  [s \in ThreadStates |-> Cardinality({threads[t].ref : t \in ListThreads(s)})]

\* Mutation: the activity of the newest thread.
NewestActivity(t) == Activity(t)

ConversationActivity(t) == Max({Activity(u) : u \in Threads(threads[t].ref)})

-----------------------------------------------------------------------------
\* The rows.

\* _events: the visible messages and the replies of some threads.
Visible(ts) == {e \in DOMAIN events : events[e].thread \in ts /\ events[e].what \notin Hidden}

Messages(ts) == {e \in Visible(ts) : events[e].what \notin Replies}

\* The first outbound message names the thread, else its first reply.
Subject(ts) == IF Messages(ts) = {} THEN FirstOf(Visible(ts)) ELSE FirstOf(Messages(ts))

Row(ts) ==
  [subject |-> Subject(ts),
   lastText |-> LatestOf(Visible(ts)),
   draft |-> LatestOf({e \in Messages(ts) : events[e].what = "review_required"}),
   waiting |-> FirstOf({e \in Messages(ts) : events[e].what \in Due})]

ThreadRow(t) == [row |-> Row({t}), replied |-> threads[t].status = "replied"]

\* Mutation: the row shows the newest thread alone.
NewestAlone(t) == {t}

\* The threads a conversation's row is made of.
Siblings(t) == Threads(threads[t].ref)

\* conversation_rows: subject of the newest thread, all else of any of them; the
\* draft goes to the recipient of its own thread.
ConversationRow(t) ==
  LET row == Row(Siblings(t))
  IN  [row |-> [row EXCEPT !.subject = Subject({t})],
       recipient |-> IF row.draft = Nothing THEN "" ELSE threads[events[row.draft].thread].recipient,
       count |-> Cardinality(Threads(threads[t].ref)),
       replied |-> \E u \in Siblings(t) : threads[u].status = "replied"]

\* When an entry stands in a timeline: sent, else created or received.
At(e) == IF events[e].sent > 0 THEN 2 * events[e].sent + 1 ELSE 2 * e

\* Its entries in that order; entries of one time in any.
Timeline(t) ==
  CHOOSE line \in [1..Cardinality(Visible({t})) -> Visible({t})] :
    \A i, j \in DOMAIN line : i < j => At(line[i]) <= At(line[j]) /\ line[i] # line[j]

Shows(entry, state) ==
  CASE state = "draft" -> entry.row.draft # Nothing
    [] state = "waiting" -> entry.row.waiting # Nothing
    [] state = "replied" -> entry.replied

-----------------------------------------------------------------------------

\* The filters, the counts and the rows are separate queries and agree: a thread
\* or conversation is listed under a state exactly when its row shows it, and
\* the counts are the lengths of the lists (the docstrings of list_conversations
\* and count_conversations).
ViewsAgree ==
  \A s \in ThreadStates :
    /\ \A t \in Keys : t \in ListThreads(s) <=> Shows(ThreadRow(t), s)
    /\ \A ref \in Refs :
         LET t == LatestOf(Threads(ref))
         IN  t \in ListConversations(s) <=> Shows(ConversationRow(t), s)
    /\ CountConversations[s] = Cardinality(ListConversations(s))
    /\ CountConversations[s] <= CountStates[s]

\* What a conversation's row shows is found again in the timeline of one of its
\* threads, the draft in one to the row's recipient; its last text is followed
\* there only by what was written before it and sent after it (the row sorts by
\* creation, the timeline by sending).
RowsFromTimelines ==
  \A ref \in Refs :
    LET t == LatestOf(Threads(ref))
        shown == ConversationRow(t)
        stands(e, u) == e \in Range(Timeline(u))
    IN  /\ \A e \in {shown.row.lastText, shown.row.waiting, shown.row.subject} \ {Nothing} :
             \E u \in Threads(ref) : stands(e, u)
        /\ shown.row.draft # Nothing =>
             \E u \in Threads(ref) :
               stands(shown.row.draft, u) /\ threads[u].recipient = shown.recipient
        /\ \A u \in Threads(ref) : \A i \in DOMAIN Timeline(u) :
             LET e == Timeline(u)[i]
             IN  At(e) > 2 * shown.row.lastText =>
                   \/ e < shown.row.lastText /\ events[e].sent > 0
                   \/ e = shown.row.lastText

\* Every message written and every reply of a person moves its conversation up in
\* the list, in an older thread too; only automatic replies leave it in place
\* (list_conversations; the thread's last_message_at alone misses the drafts).
ActivityCovers ==
  \A ref \in Refs :
    LET t == LatestOf(Threads(ref))
        moving == {e \in Visible(Siblings(t)) : events[e].what # "auto"}
    IN  \A e \in moving : ConversationActivity(t) >= e
=============================================================================
