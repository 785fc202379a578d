-------------------------- MODULE SuppressionList --------------------------
(***************************************************************************)
(* Who is not written to (suppression_service, utils/domains,              *)
(* utils/emails): rows of a channel for an address or a domain, and global *)
(* rows for the token of an erased address.                                *)
(*                                                                         *)
(* A host is a sequence of labels; an IP address is what stands between    *)
(* its dots.  An address is a local part (a sequence too, so that tokens   *)
(* can be told apart) and a host; a value as it was typed may have         *)
(* capitals and blanks.  Tokens of different addresses differ.             *)
(***************************************************************************)
EXTENDS Integers, Sequences

CONSTANTS
  MultiPartSuffixes,  \* MULTI_PART_SUFFIXES
  IpAddresses,        \* the hosts that are IP addresses
  AnonymisedDomain,   \* LEADS_ANONYMISED_DOMAIN
  Channels            \* the channels, numbers from 1

VARIABLES
  rows,   \* channel (0 for all), kind, value
  typed,  \* what a person lists on channel 1: kind, value
  asked   \* the addresses is_suppressed is asked about

\* strip and lower.
Plain(raw) == [raw EXCEPT !.capitals = FALSE]

Ending(n, host) == SubSeq(host, Len(host) - n + 1, Len(host))

\* Mutation: the last two labels, whatever the suffix.
LastTwo(host) == IF host \in IpAddresses \/ Len(host) < 2 THEN host ELSE Ending(2, host)

RegistrableDomain(host) ==
  IF host \in IpAddresses \/ Len(host) < 2 THEN host
  ELSE IF Len(host) > 2 /\ Ending(2, host) \in MultiPartSuffixes THEN Ending(3, host)
  ELSE Ending(2, host)

Value(local, host) == [local |-> local, host |-> host, capitals |-> FALSE]

\* Mutation: the address is hashed as it was typed.
HashAsTyped(raw) ==
  (IF raw.capitals THEN <<"ANON">> ELSE <<"anon">>) \o raw.local \o <<"@">> \o raw.host

EmailHash(raw) == <<"anon">> \o Plain(raw).local \o <<"@">> \o raw.host

AnonymisedAddress(raw) == Value(EmailHash(raw), AnonymisedDomain)

IsAnonymised(raw) == raw.host = AnonymisedDomain

IsSuppressed(listed, channel, raw) ==
  LET email == Plain(raw)
  IN  \/ IsAnonymised(email)
      \/ [channel |-> 0, kind |-> "email_token", value |-> AnonymisedAddress(email)] \in listed
      \/ [channel |-> channel, kind |-> "email", value |-> email] \in listed
      \/ [channel |-> channel, kind |-> "domain", value |-> Value(<<>>, RegistrableDomain(email.host))]
           \in listed

\* normalise_value: an email needs a local part and a dotted host, a domain has no @.
Valid(kind, raw) ==
  IF kind = "domain" THEN raw.local = <<>> ELSE raw.local # <<>> /\ Len(raw.host) > 1

NormaliseValue(kind, raw) ==
  IF kind = "domain" THEN Value(<<>>, RegistrableDomain(raw.host)) ELSE Plain(raw)

CreateSuppression(channel, kind, raw) ==
  IF Valid(kind, raw)
  THEN rows \cup {[channel |-> channel, kind |-> kind, value |-> NormaliseValue(kind, raw)]}
  ELSE rows

\* Global, and without the plain address.
SuppressToken(raw) ==
  rows \cup {[channel |-> 0, kind |-> "email_token", value |-> AnonymisedAddress(raw)]}

-----------------------------------------------------------------------------

\* Hosts of one owner end with the same site: one label before a public suffix.
\* An IP address is a site of its own.
SameSite(a, b) ==
  \/ a = b
  \/ \E n \in 2..3 :
       /\ a \notin IpAddresses /\ b \notin IpAddresses
       /\ n <= Len(a) /\ n <= Len(b) /\ Ending(n, a) = Ending(n, b)
       /\ Ending(n, a) \notin MultiPartSuffixes
       /\ n = 3 => Ending(2, a) \in MultiPartSuffixes

\* Listing a value suppresses, on that channel and however they are typed, the
\* address or all hosts of the domain's owner, and nobody else: shops under one
\* public suffix, names that end alike and other channels stay reachable
\* (create_suppression against is_suppressed).
ListedExactly ==
  LET after == CreateSuppression(1, typed.kind, typed.value)
      meant(a) ==
        IF typed.kind = "domain" THEN SameSite(a.host, typed.value.host)
        ELSE Plain(a) = Plain(typed.value)
  IN  Valid(typed.kind, typed.value) =>
        \A a \in asked : \A c \in Channels :
          IsSuppressed(after, c, a) <=> IsSuppressed(rows, c, a) \/ (c = 1 /\ meant(a))

\* An erased person is reached on no channel, however the address is typed
\* afterwards, and neither is the token; nobody else is suppressed with them
\* (suppress_token, anonymised_address).
ErasedEverywhere ==
  \A a \in asked :
    LET after == SuppressToken(a)
    IN  /\ \A b \in asked : \A c \in Channels :
             IsSuppressed(after, c, b) <=> IsSuppressed(rows, c, b) \/ Plain(a) = Plain(b)
        /\ \A c \in Channels : IsSuppressed(rows, c, AnonymisedAddress(a))
=============================================================================
