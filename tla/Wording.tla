------------------------------ MODULE Wording ------------------------------
(***************************************************************************)
(* The template and the footer of a mail (template_service,                *)
(* footer_service, mail_builder): two cascades over languages, the check   *)
(* of a saved footer, and the two parts of a mail around the caller's      *)
(* legal text.                                                             *)
(*                                                                         *)
(* HTML is a sequence of pieces: "words" and "link" (shown), "image" (not  *)
(* in the text part), "legal" and "spelled" (the placeholder as text, with *)
(* one blank around the name or otherwise), "attribute" (a tag with the    *)
(* placeholder in an attribute), "hidden" (the placeholder in a comment or *)
(* a removed element).                                                     *)
(***************************************************************************)
EXTENDS Integers, Sequences, FiniteSets, FiniteSetsExt

VARIABLES
  templates,  \* of one key: language, audience, usable (active, with a version)
  footers,    \* the languages with a footer
  default,    \* the channel's default language
  call,       \* language and audience asked for
  html,       \* a footer as it was pasted
  texts       \* of a template: kind, and the placeholders of its subject and body

NoLanguage == "none"

\* The first element of a sequence that passes, else none.
FirstIn(seq, passes(_), none) ==
  LET found == {i \in DOMAIN seq : passes(seq[i])}
  IN  IF found = {} THEN none ELSE seq[Min(found)]

Known(language) == IF language = NoLanguage THEN <<>> ELSE <<language>>

Languages(language) ==
  Known(language) \o (IF default = language THEN <<>> ELSE Known(default))

Audiences(audience) == IF audience = "" THEN <<"">> ELSE <<audience, "">>

\* Mutation: an audience is looked for in all languages first.
AudienceFirst(language, audience) ==
  LET ls == Languages(language)
      as == Audiences(audience)
  IN  [i \in 1..(Len(ls) * Len(as)) |->
         [language |-> ls[((i - 1) % Len(ls)) + 1], audience |-> as[((i - 1) \div Len(ls)) + 1]]]

\* Each language with each of its audiences.
Cascade(language, audience) ==
  LET ls == Languages(language)
      as == Audiences(audience)
  IN  [i \in 1..(Len(ls) * Len(as)) |->
         [language |-> ls[((i - 1) \div Len(as)) + 1], audience |-> as[((i - 1) % Len(as)) + 1]]]

Usable == {[language |-> t.language, audience |-> t.audience] : t \in {u \in templates : u.usable}}

NoTemplate == [language |-> NoLanguage, audience |-> ""]

Resolve(language, audience) ==
  FirstIn(Cascade(language, audience), LAMBDA place : place \in Usable, NoTemplate)

-----------------------------------------------------------------------------
\* The footer.

\* Mutation: the footer in the recipient's language.
RecipientLanguage(language, audience) == language

\* The template's language; the recipient's when the message has no template.
BodyLanguage(language, audience) ==
  LET found == Resolve(language, audience)
  IN  IF found = NoTemplate THEN language ELSE found.language

Footer(language) == FirstIn(Languages(language), LAMBDA l : l \in footers, NoLanguage)

\* What is removed leaves nothing; the placeholder gets its one spelling.
Sanitise(pasted) ==
  [i \in DOMAIN pasted |->
     IF pasted[i] = "hidden" THEN "nothing"
     ELSE IF pasted[i] = "spelled" THEN "legal" ELSE pasted[i]]

Times(piece, part) == Cardinality({i \in DOMAIN part : part[i] = piece})

InText(cleaned) == Times("legal", cleaned)
InAttributes(cleaned) == Times("attribute", cleaned)

\* html.count, wherever the placeholder stands.
Count(cleaned) == Cardinality({i \in DOMAIN cleaned : cleaned[i] \in {"legal", "attribute"}})

\* Mutation: the placeholder is only counted.
AcceptedByCount(cleaned) == Count(cleaned) = 1

\* _check_placeholder
Accepted(cleaned) ==
  InAttributes(cleaned) = 0 /\ InText(cleaned) = 1 /\ Count(cleaned) = 1

\* The first placeholder gives way to the legal text (nothing when there is none).
Render(footer, legal) ==
  LET at == FirstIn([i \in DOMAIN footer |-> i],
                    LAMBDA i : footer[i] \in {"legal", "attribute"}, 0)
  IN  [i \in DOMAIN footer |->
         IF i # at THEN footer[i]
         ELSE IF ~legal THEN "nothing"
         ELSE IF footer[i] = "legal" THEN "LEGAL" ELSE "in a tag"]

ToText(footer) ==
  [i \in DOMAIN footer |->
     IF footer[i] \in {"words", "link", "legal", "LEGAL"} THEN footer[i] ELSE "nothing"]

\* The footer of both parts; without one the legal text goes out alone.
Alone(legal) == IF legal THEN <<"LEGAL">> ELSE <<>>

Html(footer, legal) == IF footer = <<>> THEN Alone(legal) ELSE Render(footer, legal)
Text(footer, legal) == IF footer = <<>> THEN Alone(legal) ELSE ToText(Render(footer, legal))

-----------------------------------------------------------------------------
\* The placeholders.

\* render reports every missing name; names without a value fail it.
Missing(names, values) == names \ values

\* Mutation: the preview renders the body alone.
BodyAlone(template) == template.body

\* A static template renders its subject and body, a prompt its body.
Rendered(template) ==
  IF template.kind = "static" THEN template.subject \cup template.body ELSE template.body

\* generate_preview takes the sample context as it is.
PreviewMissing(template, context) == Missing(Rendered(template), context)

\* What communicate knows of the recipient.
RecipientValues == {"first_name", "last_name", "email"}

MessageMissing(template, context) ==
  Missing(IF template.kind = "static" THEN template.subject \cup template.body ELSE template.body,
          context \cup RecipientValues)

-----------------------------------------------------------------------------

\* No usable template for the call is more specific than the one found, a match
\* of the language before one of the audience, and a call fails only when no
\* template of its language or the default, for its audience or for any, is
\* usable (resolve).
TemplateMostSpecific ==
  LET fits(t) == t.language \in {call.language, default} \ {NoLanguage}
                 /\ t.audience \in {call.audience, ""}
      rank(t) == (IF t.language = call.language THEN 2 ELSE 0)
                 + (IF t.audience = call.audience THEN 1 ELSE 0)
      found == Resolve(call.language, call.audience)
  IN  IF found = NoTemplate THEN \A t \in Usable : ~fits(t)
      ELSE found \in Usable /\ fits(found) /\ \A t \in Usable : fits(t) => rank(t) <= rank(found)

\* A mail never mixes languages while it could do without: whatever the template
\* cascade fell back to, the footer is in the language of the body when the
\* channel has one, and else in the default language (body_language, resolve).
FooterFollowsBody ==
  LET found == Resolve(call.language, call.audience)
      footer == Footer(BodyLanguage(call.language, call.audience))
  IN  found # NoTemplate =>
        /\ found.language \in footers => footer = found.language
        /\ footer \in {found.language, default, NoLanguage}
        /\ footer = NoLanguage => footers \cap {found.language, default} = {}

\* The recipient sees the legal text of a call exactly once, in the HTML part and
\* in the text part, with any footer that was accepted and without a footer
\* (save_footer, render, to_text, the parts of mail_builder).
LegalTextOnce ==
  LET stray(part) == \E i \in DOMAIN part : part[i] \in {"legal", "in a tag"}
  IN  \A legal \in BOOLEAN :
        \A footer \in {<<>>} \cup (IF Accepted(Sanitise(html)) THEN {Sanitise(html)} ELSE {}) :
          \A part \in {Html(footer, legal), Text(footer, legal)} :
            Times("LEGAL", part) = (IF legal THEN 1 ELSE 0) /\ ~stray(part)

\* A template whose preview was shown for a context never fails a message with
\* that context for a missing value; the preview may miss only what communicate
\* adds about the recipient (generate_preview against communicate).
PreviewIsSafe ==
  \A context \in SUBSET {"shop", "offer", "first_name"} :
    LET preview == PreviewMissing(texts, context)
        message == MessageMissing(texts, context)
    IN  message \subseteq preview /\ preview \ message \subseteq RecipientValues
=============================================================================
