------------------------------ MODULE MCRules ------------------------------
(***************************************************************************)
(* The rules that keep no state of their own, on all inputs within bounds: *)
(* an initial state is one input of one of the modules, and no step        *)
(* follows it.  One initial input leaves the steps to TemplateVersions.    *)
(***************************************************************************)
EXTENDS Inbox, SendPolicy, MailReading, Wording, SuppressionList, TemplateVersions

VARIABLE kind  \* which rules the input is for

NoWords == -1
PublicSuffixes == {<<"com", "pl">>}
DottedAddresses == {<<"10", "0", "0", "1">>, <<"10", "1", "0", "1">>}
ErasedDomain == <<"anonymised", "invalid">>

inbox == <<threads, events>>
policies == <<policy, closed, sent, now>>
mails == <<known, messages, letter>>
wordings == <<templates, footers, default, call, html, texts>>
lists == <<rows, typed, asked>>

-----------------------------------------------------------------------------
\* Two threads and up to three messages and replies.

InboxThread == [ref : {"a", "b"}, status : {"open", "replied"}, recipient : {"x", "y"}]
Events ==
  [thread : 1..2, what : {"reply", "auto", "review_required", "scheduled", "superseded"}, sent : {0}]
    \cup [thread : 1..2, what : {"sent"}, sent : 1..3]

Answers(t) == {e \in DOMAIN events : events[e].thread = t /\ events[e].what = "reply"}

\* A reply sets last_message_at and the status of its thread (_mark_replied).
WithReplies(chosen) ==
  [t \in DOMAIN chosen |->
     [ref |-> chosen[t].ref, recipient |-> chosen[t].recipient, status |-> chosen[t].status,
      last |-> Max(Answers(t) \cup {0})]]

NoInbox == threads = <<>> /\ events = <<>>

InboxInput ==
  /\ events \in SeqOf(Events, 3)
  /\ \E chosen \in SeqOf(InboxThread, 2) :
       /\ chosen # <<>> /\ chosen[1].ref = "a" /\ chosen[1].recipient = "x"
       /\ threads = WithReplies(chosen)
  /\ \A e \in DOMAIN events :
       /\ events[e].thread \in DOMAIN threads
       /\ events[e].what = "sent" => events[e].sent \in e..Len(events)
       /\ \A f \in DOMAIN events \ {e} :
            events[f].sent = events[e].sent => events[e].sent = 0
  /\ \A t \in DOMAIN threads : threads[t].status = "replied" => threads[t].last > 0

-----------------------------------------------------------------------------
\* Up to two windows, overlapping or not, in a day of three beat runs.

Window == {w \in [start : 0..5, end : 1..6] : ValidWindow(w)}

Policies(businessDaysOnly, windows, caps, spread) ==
  [windows : windows, businessDaysOnly : businessDaysOnly, cap : caps, spread : spread]

NoPolicy ==
  /\ policy \in Policies({FALSE}, {<<>>}, {0}, {FALSE})
  /\ closed = {} /\ sent = 0 /\ now = [day |-> 0, tick |-> 0]

PolicyInput ==
  /\ now \in [day : {0}, tick : 0..5]
  /\ \/ /\ policy \in Policies(BOOLEAN, SeqOf(Window, 2), {5}, {TRUE})
        /\ closed \in {{}, {0}, {0, 1}, {0, 1, 2}} /\ sent = 0
     \/ /\ policy \in Policies({FALSE}, SeqOf(Window, 2), {1, 5}, BOOLEAN)
        /\ closed = {} /\ sent \in {0, 1, 4}

-----------------------------------------------------------------------------
\* Two threads of one channel or two, three messages, of which some left.

MailThread == [channel : 1..2, status : {"open", "replied"}, recipient : {"x", "y"}]
Outgoing == [thread : 1..2, status : {"sent", "scheduled"}, sentAt : 0..3]

\* A message that never left is scheduled; one that did may be so again, after
\* a soft bounce.
Leaves ==
  /\ \A m \in DOMAIN messages : messages[m].sentAt = 0 => messages[m].status = "scheduled"
  /\ \A m, n \in DOMAIN messages :
       m # n /\ messages[m].sentAt = messages[n].sentAt => messages[m].sentAt = 0

NoMail == known = <<>> /\ messages = <<>>

MailInput ==
  /\ messages \in SeqOf(Outgoing, 3) /\ Leaves
  /\ known \in TupleOf(MailThread, 2) /\ known[1].channel = 1 /\ known[1].recipient = "x"

\* Our lines stand quoted or below the introduction of the quoted mail.
Line ==
  {l \in [intro : {FALSE}, quoted : BOOLEAN, phrase : {"none", "pl", "en"}, author : {"us", "sender"}] :
     l.author = "sender" => ~l.quoted}

Quoted(lines) ==
  \A i \in DOMAIN lines :
    lines[i].author = "us" => lines[i].quoted \/ \E j \in 1..i : lines[j].intro

NoLetter == letter = [language |-> "en", automatic |-> FALSE, html |-> FALSE, lines |-> <<>>]

LetterInput ==
  /\ letter \in [language : {"pl", "en", "de"}, automatic : BOOLEAN, html : BOOLEAN,
                  lines : SeqOf(Line \cup {Intro}, 3)]
  /\ Quoted(letter.lines)

-----------------------------------------------------------------------------
\* Any templates and footers in two languages; any footer of four pieces.

Template == [language : {"en", "pl"}, audience : {"", "retail"}, usable : BOOLEAN]

OneOfAPlace(ts) ==
  \A t, u \in ts : t.language = u.language /\ t.audience = u.audience => t = u

NoTemplates ==
  /\ templates = {} /\ footers = {} /\ default = "en"
  /\ call = [language |-> "en", audience |-> ""]

NoFooter == html = <<>>
NoTexts == texts = [kind |-> "static", subject |-> {}, body |-> {}]

TemplateInput ==
  /\ templates \in SUBSET Template /\ OneOfAPlace(templates)
  /\ footers \in SUBSET {"en", "pl"} /\ default \in {"en", "none"}
  /\ call \in [language : {"en", "pl", "de", "none"}, audience : {"", "retail", "export"}]

FooterInput ==
  html \in SeqOf({"words", "link", "image", "legal", "spelled", "attribute", "hidden"}, 4)

Names == {"shop", "offer", "first_name", "email"}

TextInput == texts \in [kind : {"static", "ai_prompt"}, subject : SUBSET Names, body : SUBSET Names]

-----------------------------------------------------------------------------
\* Hosts of two owners under each kind of suffix, two IP addresses that end alike,
\* and a host without a dot.

Hosts ==
  DottedAddresses \cup
  {<<"shop", "pl">>, <<"www", "shop", "pl">>, <<"my-shop", "pl">>, <<"com", "pl">>,
   <<"shop", "com", "pl">>, <<"www", "shop", "com", "pl">>, <<"my-shop", "com", "pl">>, <<"intranet">>}

Typed(locals) == [local : locals, host : Hosts, capitals : BOOLEAN]
Addresses == Typed({<<"ala">>, <<"ola">>})

Entries ==
  [channel : 1..2, kind : {"email"}, value : {Value(<<"ala">>, <<"shop", "pl">>)}]
    \cup [channel : 1..2, kind : {"domain"}, value : {Value(<<>>, <<"shop", "com", "pl">>)}]
    \cup [channel : {0}, kind : {"email_token"},
           value : {AnonymisedAddress(Value(<<"ola">>, <<"www", "shop", "pl">>))}]

NoList ==
  /\ rows = {} /\ asked = {}
  /\ typed = [kind |-> "email", value |-> Value(<<"ala">>, <<"shop", "pl">>)]

ListInput ==
  /\ rows \in SUBSET Entries /\ asked = Addresses
  /\ typed \in [kind : {"email"}, value : Addresses] \cup [kind : {"domain"}, value : Typed({<<>>})]

-----------------------------------------------------------------------------

AnyContent == CHOOSE c \in Contents : TRUE

\* An input for one of the rules, nothing for the others.
MCInit ==
  /\ kind \in {"inbox", "policy", "mail", "letter", "template", "footer", "text", "list", "versions"}
  /\ IF kind = "inbox" THEN InboxInput ELSE NoInbox
  /\ IF kind = "policy" THEN PolicyInput ELSE NoPolicy
  /\ IF kind = "mail" THEN MailInput ELSE NoMail
  /\ IF kind = "letter" THEN LetterInput ELSE NoLetter
  /\ IF kind = "template" THEN TemplateInput ELSE NoTemplates
  /\ IF kind = "footer" THEN FooterInput ELSE NoFooter
  /\ IF kind = "text" THEN TextInput ELSE NoTexts
  /\ IF kind = "list" THEN ListInput ELSE NoList
  /\ Init /\ (kind # "versions" => versions = <<AnyContent>>)

MCNext == kind = "versions" /\ Next /\ UNCHANGED <<kind, inbox, policies, mails, wordings, lists>>

MCSpec == MCInit /\ [][MCNext]_<<vars, kind, inbox, policies, mails, wordings, lists>>
=============================================================================
