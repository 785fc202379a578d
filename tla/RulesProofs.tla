---------------------------- MODULE RulesProofs ----------------------------
(***************************************************************************)
(* The rules that keep no state of their own, for all inputs: who is       *)
(* suppressed, for any lists and addresses; when a channel sends next and  *)
(* how much, for any policy; what the inbox lists, counts and shows, for   *)
(* any threads and messages.                                               *)
(***************************************************************************)
EXTENDS SuppressionList, SendPolicy, Inbox, Orders, SequenceTheorems

-----------------------------------------------------------------------------
\* Who is suppressed.

\* Addresses over some labels; what is listed has the same form.
Addresses(labels) == [local : Seq(labels), host : Seq(labels), capitals : BOOLEAN]

LEMMA PlainAddress ==
  ASSUME NEW labels, NEW a \in Addresses(labels)
  PROVE  /\ Plain(a) \in Addresses(labels)
         /\ Plain(a).local = a.local /\ Plain(a).host = a.host /\ Plain(a).capitals = FALSE
         /\ Plain(Plain(a)) = Plain(a)
  BY DEF Addresses, Plain

LEMMA SamePlain ==
  ASSUME NEW labels, NEW a \in Addresses(labels), NEW b \in Addresses(labels)
  PROVE  Plain(a) = Plain(b) <=> a.local = b.local /\ a.host = b.host
  BY DEF Addresses, Plain

\* Where the pieces of a token stand.
LEMMA AroundAt ==
  ASSUME NEW labels, NEW l \in Seq(labels), NEW h \in Seq(labels), NEW s, s = l \o <<"@">> \o h
  PROVE  /\ Len(l) \in Nat /\ Len(h) \in Nat /\ Len(s) = Len(l) + 1 + Len(h)
         /\ \A i \in 1..Len(l) : s[i] = l[i]
         /\ s[Len(l) + 1] = "@"
         /\ \A i \in 1..Len(h) : s[Len(l) + 1 + i] = h[i]
  <1>1. PICK all : all = labels \cup {"@"}
    OBVIOUS
  <1>2. l \in Seq(all) /\ h \in Seq(all) /\ <<"@">> \in Seq(all)
    <2>1. labels \subseteq all
      BY <1>1
    <2> QED
      BY <1>1, <2>1, SeqMonotonic
  <1>3. PICK p : p = l \o <<"@">>
    OBVIOUS
  <1>4. /\ p \in Seq(all) /\ Len(p) = Len(l) + 1
        /\ \A i \in 1..Len(l) : p[i] = l[i]
        /\ p[Len(l) + 1] = "@"
    BY <1>2, <1>3
  <1>5. /\ Len(s) = Len(p) + Len(h)
        /\ \A i \in 1..(Len(p) + Len(h)) : s[i] = IF i <= Len(p) THEN p[i] ELSE h[i - Len(p)]
    BY <1>2, <1>3, <1>4, ConcatProperties
  <1>6. Len(l) \in Nat /\ Len(h) \in Nat
    OBVIOUS
  <1>7. ASSUME NEW i \in 1..Len(h) PROVE s[Len(l) + 1 + i] = h[i]
    <2>1. /\ Len(l) + 1 + i \in 1..(Len(p) + Len(h)) /\ ~(Len(l) + 1 + i <= Len(p))
          /\ (Len(l) + 1 + i) - Len(p) = i
      BY <1>4, <1>6
    <2> QED
      BY <1>5, <2>1
  <1>8. /\ \A i \in 1..Len(l) : s[i] = l[i]
        /\ s[Len(l) + 1] = "@"
    <2>1. /\ 1..(Len(l) + 1) \subseteq 1..(Len(p) + Len(h))
          /\ \A i \in 1..(Len(l) + 1) : i <= Len(p)
      BY <1>4, <1>6
    <2> QED
      BY <1>4, <1>5, <1>6, <2>1
  <1> QED
    BY <1>4, <1>5, <1>6, <1>7, <1>8

\* A token tells its address: the first "@" ends the local part.
LEMMA TokenTells ==
  ASSUME NEW labels, "@" \notin labels, NEW l \in Seq(labels), NEW h \in Seq(labels),
         NEW m \in Seq(labels), NEW g \in Seq(labels),
         l \o <<"@">> \o h = m \o <<"@">> \o g
  PROVE  l = m /\ h = g
  <1>0. PICK s : s = l \o <<"@">> \o h
    OBVIOUS
  <1>1. s = m \o <<"@">> \o g
    BY <1>0
  <1>2. /\ Len(l) \in Nat /\ Len(h) \in Nat /\ Len(s) = Len(l) + 1 + Len(h)
        /\ \A i \in 1..Len(l) : s[i] = l[i]
        /\ s[Len(l) + 1] = "@"
        /\ \A i \in 1..Len(h) : s[Len(l) + 1 + i] = h[i]
    BY <1>0, AroundAt
  <1>3. /\ Len(m) \in Nat /\ Len(g) \in Nat /\ Len(s) = Len(m) + 1 + Len(g)
        /\ \A i \in 1..Len(m) : s[i] = m[i]
        /\ s[Len(m) + 1] = "@"
        /\ \A i \in 1..Len(g) : s[Len(m) + 1 + i] = g[i]
    BY <1>1, AroundAt
  <1>4. (\A i \in 1..Len(l) : l[i] # "@") /\ (\A i \in 1..Len(m) : m[i] # "@")
    OBVIOUS
  <1>5. Len(l) = Len(m)
    <2>1. ASSUME Len(l) < Len(m) PROVE FALSE
      <3>1. Len(l) + 1 \in 1..Len(m)
        BY <1>2, <1>3, <2>1
      <3> QED
        BY <1>2, <1>3, <1>4, <3>1
    <2>2. ASSUME Len(m) < Len(l) PROVE FALSE
      <3>1. Len(m) + 1 \in 1..Len(l)
        BY <1>2, <1>3, <2>2
      <3> QED
        BY <1>2, <1>3, <1>4, <3>1
    <2> QED
      BY <1>2, <1>3, <2>1, <2>2
  <1>6. \A i \in 1..Len(l) : l[i] = m[i]
    BY <1>2, <1>3, <1>5
  <1>7. Len(h) = Len(g) /\ \A i \in 1..Len(h) : h[i] = g[i]
    BY <1>2, <1>3, <1>5
  <1> QED
    BY <1>5, <1>6, <1>7, SeqEqual

LEMMA SameToken ==
  ASSUME NEW labels, "@" \notin labels, NEW a \in Addresses(labels), NEW b \in Addresses(labels)
  PROVE  AnonymisedAddress(a) = AnonymisedAddress(b) <=> Plain(a) = Plain(b)
  <1>1. PICK all : all = labels \cup {"anon"}
    OBVIOUS
  <1>2. /\ a.local \in Seq(all) /\ a.host \in Seq(all)
        /\ b.local \in Seq(all) /\ b.host \in Seq(all)
        /\ <<"anon">> \in Seq(all) /\ "@" \notin all
    <2>1. labels \subseteq all /\ "anon" \in all
      BY <1>1
    <2>2. "@" \notin all
      BY <1>1
    <2> QED
      BY <2>1, <2>2, SeqMonotonic DEF Addresses
  <1>3. PICK la, lb : la = <<"anon">> \o a.local /\ lb = <<"anon">> \o b.local
    OBVIOUS
  <1>4. la \in Seq(all) /\ lb \in Seq(all) /\ (la = lb <=> a.local = b.local)
    <2>1. la \in Seq(all) /\ lb \in Seq(all)
      BY <1>2, <1>3, ConcatProperties
    <2>2. la = lb => a.local = b.local
      BY <1>2, <1>3, ConcatSimplifications
    <2> QED
      BY <1>3, <2>1, <2>2
  <1>5. EmailHash(a) = la \o <<"@">> \o a.host /\ EmailHash(b) = lb \o <<"@">> \o b.host
    BY <1>3, PlainAddress DEF EmailHash
  <1>6. EmailHash(a) = EmailHash(b) <=> la = lb /\ a.host = b.host
    <2>1. ASSUME la \o <<"@">> \o a.host = lb \o <<"@">> \o b.host
          PROVE  la = lb /\ a.host = b.host
      <3>1. /\ la \in Seq(all) /\ lb \in Seq(all) /\ a.host \in Seq(all) /\ b.host \in Seq(all)
            /\ "@" \notin all
        BY <1>2, <1>4
      <3> QED
        BY <2>1, <3>1, TokenTells, Zenon
    <2> QED
      BY <1>5, <2>1
  <1>7. AnonymisedAddress(a) = AnonymisedAddress(b) <=> EmailHash(a) = EmailHash(b)
    BY DEF AnonymisedAddress, Value
  <1> QED
    BY <1>4, <1>6, <1>7, SamePlain

\* An erased person is reached on no channel, however the address is typed
\* afterwards, and nobody else is suppressed with them, for any lists, channels and
\* addresses; "@" is no label of an address (suppress_token, anonymised_address).
THEOREM ErasedNowhereReached ==
  ASSUME NEW labels, "@" \notin labels, asked \subseteq Addresses(labels)
  PROVE  ErasedEverywhere
  <1>1. ASSUME NEW a \in asked, NEW b \in asked, NEW c \in Channels
        PROVE  IsSuppressed(SuppressToken(a), c, b)
                 <=> IsSuppressed(rows, c, b) \/ Plain(a) = Plain(b)
    <2>1. PICK token : token = AnonymisedAddress(Plain(b))
      OBVIOUS
    <2>2. token = AnonymisedAddress(a) <=> Plain(a) = Plain(b)
      <3>1. Plain(b) \in Addresses(labels) /\ Plain(Plain(b)) = Plain(b)
        BY PlainAddress
      <3> QED
        BY <2>1, <3>1, SameToken
    <2>3. [channel |-> 0, kind |-> "email_token", value |-> token] \in SuppressToken(a)
            <=> [channel |-> 0, kind |-> "email_token", value |-> token] \in rows
                  \/ token = AnonymisedAddress(a)
      BY DEF SuppressToken
    <2>4. \A k \in {"email", "domain"} : \A v :
            [channel |-> c, kind |-> k, value |-> v] \in SuppressToken(a)
              <=> [channel |-> c, kind |-> k, value |-> v] \in rows
      BY DEF SuppressToken
    <2> QED
      BY <2>1, <2>2, <2>3, <2>4 DEF IsSuppressed
  <1>2. ASSUME NEW a \in asked, NEW c \in Channels
        PROVE  IsSuppressed(rows, c, AnonymisedAddress(a))
    BY DEF IsSuppressed, IsAnonymised, AnonymisedAddress, Value, Plain
  <1> QED
    BY <1>1, <1>2 DEF ErasedEverywhere

LEMMA EndingOf ==
  ASSUME NEW labels, NEW h \in Seq(labels), NEW n \in 1..Len(h)
  PROVE  /\ Ending(n, h) \in Seq(labels) /\ Len(Ending(n, h)) = n
         /\ \A i \in 1..n : Ending(n, h)[i] = h[Len(h) - n + i]
  <1>1. Len(h) \in Nat /\ Len(h) - n + 1 \in Int /\ Len(h) - n + 1 <= Len(h)
    OBVIOUS
  <1>2. \A i \in (Len(h) - n + 1)..Len(h) : h[i] \in labels
    BY <1>1
  <1>3. /\ Ending(n, h) \in Seq(labels)
        /\ Len(Ending(n, h)) = Len(h) - (Len(h) - n + 1) + 1
        /\ \A i \in 1..(Len(h) - (Len(h) - n + 1) + 1) :
             Ending(n, h)[i] = h[Len(h) - n + 1 + i - 1]
    BY <1>1, <1>2, SubSeqProperties DEF Ending
  <1>4. Len(h) - (Len(h) - n + 1) + 1 = n
    BY <1>1
  <1>5. \A i \in 1..n : Len(h) - n + 1 + i - 1 = Len(h) - n + i
    BY <1>1
  <1> QED
    BY <1>3, <1>4, <1>5

LEMMA WholeEnding ==
  ASSUME NEW labels, NEW h \in Seq(labels) PROVE Ending(Len(h), h) = h
  <1>1. Len(h) \in Nat /\ Len(h) - Len(h) + 1 = 1
    OBVIOUS
  <1> QED
    BY <1>1, SubSeqFull DEF Ending

\* Hosts with the same three last labels have the same two.
LEMMA ShorterEnding ==
  ASSUME NEW labels, NEW a \in Seq(labels), NEW b \in Seq(labels), 3 <= Len(a), 3 <= Len(b),
         Ending(3, a) = Ending(3, b)
  PROVE  Ending(2, a) = Ending(2, b)
  <1>1. Len(a) \in Nat /\ Len(b) \in Nat /\ 2 \in 1..Len(a) /\ 2 \in 1..Len(b)
        /\ 3 \in 1..Len(a) /\ 3 \in 1..Len(b)
    OBVIOUS
  <1>2. /\ Ending(2, a) \in Seq(labels) /\ Len(Ending(2, a)) = 2
        /\ Ending(2, b) \in Seq(labels) /\ Len(Ending(2, b)) = 2
    BY <1>1, EndingOf
  <1>3. ASSUME NEW i \in 1..2 PROVE Ending(2, a)[i] = Ending(2, b)[i]
    <2>1. Ending(2, a)[i] = a[Len(a) - 2 + i] /\ Ending(2, b)[i] = b[Len(b) - 2 + i]
      BY <1>1, EndingOf
    <2>2. i + 1 \in 1..3 /\ Len(a) - 3 + (i + 1) = Len(a) - 2 + i
          /\ Len(b) - 3 + (i + 1) = Len(b) - 2 + i
      BY <1>1
    <2>3. /\ Ending(3, a)[i + 1] = a[Len(a) - 3 + (i + 1)]
          /\ Ending(3, b)[i + 1] = b[Len(b) - 3 + (i + 1)]
      BY <1>1, <2>2, EndingOf
    <2> QED
      BY <2>1, <2>2, <2>3
  <1> QED
    BY <1>2, <1>3, SeqEqual

\* The suffix of a host has two labels and a third is before it.
Long(h) == Len(h) > 2 /\ Ending(2, h) \in MultiPartSuffixes

LEMMA DomainOf ==
  ASSUME NEW labels, NEW h \in Seq(labels), h \notin IpAddresses
  PROVE  /\ Len(h) \in Nat
         /\ Len(h) < 2 => RegistrableDomain(h) = h
         /\ Len(h) >= 2 /\ Long(h) =>
              RegistrableDomain(h) = Ending(3, h) /\ Len(RegistrableDomain(h)) = 3
         /\ Len(h) >= 2 /\ ~Long(h) =>
              RegistrableDomain(h) = Ending(2, h) /\ Len(RegistrableDomain(h)) = 2
  <1>1. Len(h) \in Nat
    OBVIOUS
  <1>2. ASSUME Len(h) >= 2 PROVE Len(Ending(2, h)) = 2
    <2>1. 2 \in 1..Len(h)
      BY <1>1, <1>2
    <2> QED
      BY <2>1, EndingOf
  <1>3. ASSUME Len(h) > 2 PROVE Len(Ending(3, h)) = 3
    <2>1. 3 \in 1..Len(h)
      BY <1>1, <1>3
    <2> QED
      BY <2>1, EndingOf
  <1> QED
    BY <1>1, <1>2, <1>3 DEF RegistrableDomain, Long

LEMMA DomainLength ==
  ASSUME NEW labels, NEW h \in Seq(labels), h \notin IpAddresses, ~(Len(h) < 2)
  PROVE  Len(RegistrableDomain(h)) \in 2..3
  <1>1. Len(h) >= 2
    OBVIOUS
  <1>2. Len(RegistrableDomain(h)) = 2 \/ Len(RegistrableDomain(h)) = 3
    BY <1>1, DomainOf, Zenon
  <1> QED
    BY <1>2

\* MULTI_PART_SUFFIXES
TwoLabels == \A s \in MultiPartSuffixes : Len(s) = 2

\* An IP address has four labels, or no dot at all.
OneOrFour == \A h \in IpAddresses : Len(h) \notin 2..3

\* One registrable domain is one site, when suffixes have two labels.
LEMMA NamesOfSite ==
  ASSUME NEW labels, NEW a \in Seq(labels), NEW b \in Seq(labels),
         a \notin IpAddresses, b \notin IpAddresses, TwoLabels
  PROVE  RegistrableDomain(a) = RegistrableDomain(b) <=> SameSite(a, b)
  <1>0. Len(a) \in Nat /\ Len(b) \in Nat /\ 2 # 3
    OBVIOUS
  <1>1. ASSUME RegistrableDomain(a) = RegistrableDomain(b) PROVE SameSite(a, b)
    <2>1. CASE Len(a) < 2 \/ Len(b) < 2
      <3>1. ASSUME NEW h \in Seq(labels), NEW k \in Seq(labels), Len(h) < 2,
                   h \notin IpAddresses, k \notin IpAddresses,
                   RegistrableDomain(h) = RegistrableDomain(k)
            PROVE  Len(k) < 2
        <4>1. RegistrableDomain(k) = h
          BY <3>1, DomainOf
        <4>2. PICK n \in Nat : n = Len(h)
          OBVIOUS
        <4>3. n < 2
          BY <3>1, <4>2, Zenon
        <4>4. n \notin 2..3
          BY <4>3
        <4> QED
          BY <3>1, <4>1, <4>2, <4>4, DomainLength, Zenon
      <3>2. a = b
        BY <1>1, <2>1, <3>1, DomainOf
      <3> QED
        BY <3>2 DEF SameSite
    <2>2. CASE Len(a) >= 2 /\ Len(b) >= 2 /\ Long(a)
      <3>1. RegistrableDomain(a) = Ending(3, a) /\ Len(RegistrableDomain(a)) = 3
        BY <2>2, DomainOf
      <3>2. Long(b) \/ Len(RegistrableDomain(b)) = 2
        BY <2>2, DomainOf
      <3>3. Long(b)
        BY <1>0, <1>1, <3>1, <3>2, Zenon
      <3>4. RegistrableDomain(b) = Ending(3, b)
        BY <2>2, <3>3, DomainOf
      <3>5. \A s \in MultiPartSuffixes : s # Ending(3, a)
        BY <1>0, <3>1, Zenon DEF TwoLabels
      <3>6. 3 \in 2..3 /\ 3 <= Len(a) /\ 3 <= Len(b)
        BY <1>0, <2>2, <3>3 DEF Long
      <3>7. Ending(2, a) \in MultiPartSuffixes
        BY <2>2 DEF Long
      <3> QED
        BY <1>1, <3>1, <3>4, <3>5, <3>6, <3>7 DEF SameSite
    <2>3. CASE Len(a) >= 2 /\ Len(b) >= 2 /\ ~Long(a)
      <3>1. RegistrableDomain(a) = Ending(2, a) /\ Len(RegistrableDomain(a)) = 2
        BY <2>3, DomainOf
      <3>2. ~Long(b) \/ Len(RegistrableDomain(b)) = 3
        BY <2>3, DomainOf
      <3>3. ~Long(b)
        BY <1>0, <1>1, <3>1, <3>2, Zenon
      <3>4. Ending(2, a) = Ending(2, b)
        BY <1>1, <2>3, <3>1, <3>3, DomainOf
      <3>5. CASE Ending(2, a) \in MultiPartSuffixes
        <4>1. PICK m, n \in Nat : m = Len(a) /\ n = Len(b)
          BY <1>0
        <4>2. m >= 2 /\ n >= 2 /\ ~(m > 2) /\ ~(n > 2)
          BY <2>3, <3>3, <3>4, <3>5, <4>1 DEF Long
        <4>3. m = 2 /\ n = 2
          BY <4>2
        <4>4. a = b
          BY <3>4, <4>1, <4>3, WholeEnding
        <4> QED
          BY <4>4 DEF SameSite
      <3>6. CASE Ending(2, a) \notin MultiPartSuffixes
        <4>1. 2 \in 2..3 /\ 2 <= Len(a) /\ 2 <= Len(b)
          BY <1>0, <2>3
        <4> QED
          BY <3>4, <3>6, <4>1 DEF SameSite
      <3> QED
        BY <3>5, <3>6
    <2> QED
      BY <1>0, <2>1, <2>2, <2>3
  <1>2. ASSUME SameSite(a, b), a # b PROVE RegistrableDomain(a) = RegistrableDomain(b)
    <2>1. PICK n \in 2..3 :
            /\ n <= Len(a) /\ n <= Len(b) /\ Ending(n, a) = Ending(n, b)
            /\ Ending(n, a) \notin MultiPartSuffixes
            /\ n = 3 => Ending(2, a) \in MultiPartSuffixes
      BY <1>2 DEF SameSite
    <2>2. Len(a) >= 2 /\ Len(b) >= 2
      BY <1>0, <2>1
    <2>3. CASE n = 2
      <3>1. ~Long(a) /\ ~Long(b)
        BY <2>1, <2>3 DEF Long
      <3> QED
        BY <2>1, <2>2, <2>3, <3>1, DomainOf
    <2>4. CASE n = 3
      <3>1. Ending(2, a) = Ending(2, b)
        BY <2>1, <2>4, ShorterEnding
      <3>2. Long(a) /\ Long(b)
        BY <1>0, <2>1, <2>4, <3>1 DEF Long
      <3> QED
        BY <2>1, <2>2, <2>4, <3>2, DomainOf
    <2> QED
      BY <2>3, <2>4
  <1> QED
    BY <1>1, <1>2

\* An IP address is the site of no other host.
LEMMA SiteOfAddress ==
  ASSUME NEW labels, NEW h \in IpAddresses, NEW k \in Seq(labels), OneOrFour
  PROVE  RegistrableDomain(h) = h /\ (RegistrableDomain(k) = h => k = h)
  <1>1. RegistrableDomain(h) = h
    BY DEF RegistrableDomain
  <1>2. CASE k \in IpAddresses \/ Len(k) < 2
    BY <1>1, <1>2 DEF RegistrableDomain
  <1>3. CASE k \notin IpAddresses /\ ~(Len(k) < 2)
    <2>1. Len(RegistrableDomain(k)) \in 2..3
      BY <1>3, DomainLength
    <2> QED
      BY <1>1, <2>1 DEF OneOrFour
  <1> QED
    BY <1>1, <1>2, <1>3

LEMMA DomainIsSite ==
  ASSUME NEW labels, NEW a \in Seq(labels), NEW b \in Seq(labels), TwoLabels, OneOrFour
  PROVE  RegistrableDomain(a) = RegistrableDomain(b) <=> SameSite(a, b)
  <1>1. CASE a \notin IpAddresses /\ b \notin IpAddresses
    BY <1>1, NamesOfSite
  <1>2. CASE a \in IpAddresses \/ b \in IpAddresses
    <2>1. SameSite(a, b) <=> a = b
      BY <1>2 DEF SameSite
    <2> QED
      BY <1>2, <2>1, SiteOfAddress
  <1> QED
    BY <1>1, <1>2

\* Listing a value suppresses, on that channel and however they are typed, the
\* address or all hosts of the domain's owner, and nobody else, for any lists,
\* channels and addresses and any suffixes of two labels (create_suppression,
\* is_suppressed).
THEOREM NobodyElseListed ==
  ASSUME NEW labels, asked \subseteq Addresses(labels),
         TwoLabels, OneOrFour,
         typed.kind \in {"email", "domain"}, typed.value \in Addresses(labels)
  PROVE  ListedExactly
  <1> DEFINE after == CreateSuppression(1, typed.kind, typed.value)
             meant(a) == IF typed.kind = "domain" THEN SameSite(a.host, typed.value.host)
                         ELSE Plain(a) = Plain(typed.value)
  <1>1. ASSUME Valid(typed.kind, typed.value), NEW a \in asked, NEW c \in Channels
        PROVE  IsSuppressed(after, c, a) <=> IsSuppressed(rows, c, a) \/ (c = 1 /\ meant(a))
    <2>1. a \in Addresses(labels) /\ a.host \in Seq(labels) /\ typed.value.host \in Seq(labels)
          /\ Plain(a).host = a.host
      BY PlainAddress DEF Addresses
    <2>2. PICK new : new = [channel |-> 1, kind |-> typed.kind,
                            value |-> NormaliseValue(typed.kind, typed.value)]
      OBVIOUS
    <2>3. \A row : row \in after <=> row \in rows \/ row = new
      BY <1>1, <2>2 DEF CreateSuppression
    <2>4. \A v : [channel |-> 0, kind |-> "email_token", value |-> v] # new
      BY <2>2
    <2>5. [channel |-> c, kind |-> "email", value |-> Plain(a)] = new
            <=> c = 1 /\ typed.kind = "email" /\ meant(a)
      BY <2>2 DEF NormaliseValue
    <2>6. [channel |-> c, kind |-> "domain",
           value |-> Value(<<>>, RegistrableDomain(Plain(a).host))] = new
            <=> c = 1 /\ typed.kind = "domain" /\ meant(a)
      <3>1. SameSite(a.host, typed.value.host)
              <=> RegistrableDomain(a.host) = RegistrableDomain(typed.value.host)
        BY <2>1, DomainIsSite
      <3>2. Value(<<>>, RegistrableDomain(a.host))
              = Value(<<>>, RegistrableDomain(typed.value.host))
              <=> RegistrableDomain(a.host) = RegistrableDomain(typed.value.host)
        BY DEF Value
      <3> QED
        BY <2>1, <2>2, <3>1, <3>2 DEF NormaliseValue
    <2> HIDE DEF after, meant
    <2> QED
      BY <2>3, <2>4, <2>5, <2>6 DEF IsSuppressed
  <1> QED
    BY <1>1 DEF ListedExactly

-----------------------------------------------------------------------------
\* When a channel sends.

\* A channel's windows and the time now.
PolicyTyped ==
  /\ policy.windows \in Seq([start : Nat, end : Nat])
  /\ \A i \in DOMAIN policy.windows : ValidWindow(policy.windows[i])
  /\ now \in [day : Nat, tick : Nat]
  /\ SearchDays \in Nat

LEMMA WindowsTyped ==
  ASSUME PolicyTyped
  PROVE  \A w \in Windows : w.start \in Nat /\ w.end \in Nat /\ w.start < w.end
  <1> SUFFICES ASSUME NEW i \in DOMAIN policy.windows
               PROVE  /\ policy.windows[i].start \in Nat /\ policy.windows[i].end \in Nat
                      /\ policy.windows[i].start < policy.windows[i].end
    BY DEF Windows
  <1>1. PICK ws \in Seq([start : Nat, end : Nat]) : ws = policy.windows
    BY DEF PolicyTyped
  <1>2. ws[i] \in [start : Nat, end : Nat]
    <2>1. i \in DOMAIN ws
      BY <1>1
    <2>2. i \in 1..Len(ws)
      BY <2>1, LenProperties
    <2> QED
      BY <2>2, ElementOfSeq
  <1> QED
    BY <1>1, <1>2 DEF PolicyTyped, ValidWindow

LEMMA UpcomingTyped ==
  ASSUME PolicyTyped, NEW d \in Nat, NEW t \in Upcoming(d, now)
  PROVE  /\ t \in [day : Nat, tick : Nat] /\ t.day = d /\ Later(t, now) /\ IsOpen(t)
  <1>1. PICK w \in Windows : t = [day |-> d, tick |-> w.start]
    BY DEF Upcoming
  <1>2. w.start \in Nat /\ w.end \in Nat /\ w.start < w.end
    BY WindowsTyped
  <1>3. IsBusinessDay(d) /\ Later(t, now)
    BY DEF Upcoming
  <1>4. t.day = d /\ t.tick = w.start /\ t \in [day : Nat, tick : Nat]
    BY <1>1, <1>2
  <1>5. w.start <= t.tick /\ t.tick < w.end
    BY <1>2, <1>4
  <1> QED
    BY <1>3, <1>4, <1>5 DEF IsOpen

\* While the channel is closed, an open time comes after a start of its day that
\* comes after now.
LEMMA OpenAfterStart ==
  ASSUME PolicyTyped, ~IsOpen(now), NEW t \in [day : Nat, tick : Nat], ~Later(now, t), IsOpen(t)
  PROVE  t.day >= now.day /\ \E u \in Upcoming(t.day, now) : u.tick <= t.tick
  <1>0. now.day \in Nat /\ now.tick \in Nat /\ t.day \in Nat /\ t.tick \in Nat
    BY DEF PolicyTyped
  <1>1. PICK w \in Windows : w.start <= t.tick /\ t.tick < w.end
    BY DEF IsOpen
  <1>2. w.start \in Nat /\ w.end \in Nat /\ IsBusinessDay(t.day)
    BY WindowsTyped DEF IsOpen
  <1>3. t.day > now.day \/ (t.day = now.day /\ now.tick <= t.tick)
    BY <1>0 DEF Later
  <1>4. t.day > now.day \/ (t.day = now.day /\ now.tick < w.start)
    <2>1. ASSUME t.day = now.day, now.tick <= t.tick PROVE now.tick < w.start
      <3>1. ~(w.start <= now.tick /\ now.tick < w.end)
        BY <1>2, <2>1 DEF IsOpen
      <3> QED
        BY <1>0, <1>1, <1>2, <2>1, <3>1
    <2> QED
      BY <1>3, <2>1
  <1>5. PICK u : u = [day |-> t.day, tick |-> w.start]
    OBVIOUS
  <1>6. Later(u, now)
    BY <1>0, <1>2, <1>4, <1>5 DEF Later
  <1>7. u \in Upcoming(t.day, now)
    BY <1>2, <1>5, <1>6 DEF Upcoming
  <1> QED
    BY <1>0, <1>1, <1>3, <1>5, <1>7

\* The first start of a day that has one.
LEMMA FirstStart ==
  ASSUME PolicyTyped, NEW d \in Nat, Upcoming(d, now) # {},
         NEW first,
         first = CHOOSE t \in Upcoming(d, now) : \A u \in Upcoming(d, now) : t.tick <= u.tick
  PROVE  first \in Upcoming(d, now) /\ \A u \in Upcoming(d, now) : first.tick <= u.tick
  <1>1. PICK ticks : ticks = {t.tick : t \in Upcoming(d, now)}
    OBVIOUS
  <1>2. ticks \in SUBSET Nat /\ ticks # {}
    BY <1>1, UpcomingTyped
  <1>3. PICK k \in ticks : \A y \in ticks : k <= y
    BY <1>2, Least
  <1>4. \E t \in Upcoming(d, now) : \A u \in Upcoming(d, now) : t.tick <= u.tick
    BY <1>1, <1>3
  <1> QED
    BY <1>4

\* The next slot is the first open time from now on, for any windows, overlapping
\* or not, any closed days and any time (next_slot, is_open).
THEOREM SlotIsFirst == ASSUME PolicyTyped PROVE NextSlotIsFirst
  <1> DEFINE slot == NextSlot(now)
             open == {t \in Time : ~Later(now, t) /\ IsOpen(t)}
  <1>0. /\ now \in [day : Nat, tick : Nat] /\ now.day \in Nat /\ now.tick \in Nat
        /\ SearchDays \in Nat
    BY DEF PolicyTyped
  <1>1. \A t \in open : t \in [day : Nat, tick : Nat] /\ ~Later(now, t) /\ IsOpen(t)
    BY <1>0 DEF Time
  <1>2. CASE IsOpen(now)
    <2>1. slot = now
      BY <1>2 DEF NextSlot
    <2>2. slot # None /\ ~Later(now, now)
      BY <1>0, <2>1 DEF None, Later
    <2> QED
      BY <1>1, <1>2, <2>1, <2>2 DEF NextSlotIsFirst
  <1>3. CASE ~IsOpen(now)
    <2>1. PICK days : days = {d \in Searched(now) : Upcoming(d, now) # {}}
      OBVIOUS
    <2>2. /\ \A d \in days : d \in Nat /\ now.day <= d /\ d < now.day + SearchDays
          /\ \A t \in open : t.day < now.day + SearchDays => t.day \in days
      <3>1. \A t \in open : t.day >= now.day /\ Upcoming(t.day, now) # {}
        BY <1>1, <1>3, OpenAfterStart
      <3>2. \A t \in open : t.day \in Nat
        BY <1>1
      <3> QED
        BY <1>0, <2>1, <3>1, <3>2 DEF Searched
    <2>3. CASE days = {}
      <3>1. slot = None
        BY <1>3, <2>1, <2>3 DEF NextSlot
      <3>2. ASSUME NEW t \in open PROVE t.day >= now.day + SearchDays
        BY <1>0, <1>1, <2>2, <2>3
      <3> QED
        BY <3>1, <3>2 DEF NextSlotIsFirst
    <2>4. CASE days # {}
      <3>1. PICK d : d = Min(days)
        OBVIOUS
      <3>2. d \in days /\ \A e \in days : d <= e
        BY <2>2, <2>4, <3>1, MinOf
      <3>3. d \in Nat /\ Upcoming(d, now) # {} /\ d < now.day + SearchDays
        BY <2>1, <2>2, <3>2
      <3>4. slot = CHOOSE t \in Upcoming(d, now) : \A u \in Upcoming(d, now) : t.tick <= u.tick
        BY <1>3, <2>1, <2>4, <3>1 DEF NextSlot
      <3>5. slot \in Upcoming(d, now) /\ \A u \in Upcoming(d, now) : slot.tick <= u.tick
        BY <3>3, <3>4, FirstStart
      <3>6. /\ slot \in [day : Nat, tick : Nat] /\ slot.day = d
            /\ Later(slot, now) /\ IsOpen(slot)
        BY <3>3, <3>5, UpcomingTyped
      <3>7. slot # None /\ ~Later(now, slot)
        BY <1>0, <3>6 DEF None, Later
      <3>8. ASSUME NEW t \in open PROVE ~Later(slot, t)
        <4>1. t.day \in Nat /\ t.tick \in Nat
          BY <1>1
        <4>2. PICK u \in Upcoming(t.day, now) : u.tick <= t.tick
          BY <1>1, <1>3, OpenAfterStart
        <4>3. t.day < now.day + SearchDays => d <= t.day
          BY <2>2, <3>2
        <4>4. u.tick \in Nat
          BY <4>1, <4>2, UpcomingTyped
        <4>5. t.day = d => slot.tick <= t.tick
          BY <3>5, <3>6, <4>1, <4>2, <4>4
        <4> QED
          BY <1>0, <3>3, <3>6, <4>1, <4>3, <4>5 DEF Later
      <3> HIDE DEF slot, open
      <3> QED
        BY <3>6, <3>7, <3>8 DEF NextSlotIsFirst, slot, open
    <2> QED
      BY <2>3, <2>4
  <1> QED
    BY <1>2, <1>3

-----------------------------------------------------------------------------
\* The spread of a day.

\* The runs in all, of which each window has some.
Numbered(runs) == UNION {{i} \X (1..runs[i]) : i \in DOMAIN runs}

LEMMA NumberedAre ==
  ASSUME NEW n \in Nat, NEW runs \in [1..n -> Nat]
  PROVE  /\ \A p : p \in Numbered(runs) <=> \E i \in 1..n : \E k \in 1..runs[i] : p = <<i, k>>
         /\ IsFiniteSet(Numbered(runs))
         /\ Total(runs) = Cardinality(Numbered(runs))
         /\ Total(runs) \in Nat
  <1>1. \A p : p \in Numbered(runs) <=> \E i \in 1..n : \E k \in 1..runs[i] : p = <<i, k>>
    BY DEF Numbered
  <1>2. PICK S : S = {{i} \X (1..runs[i]) : i \in 1..n}
    OBVIOUS
  <1>3. IsFiniteSet(S)
    <2>1. PICK image : image = [i \in 1..n |-> {i} \X (1..runs[i])]
      OBVIOUS
    <2>2. image \in Surjection(1..n, S)
      BY <1>2, <2>1 DEF Surjection
    <2>3. IsFiniteSet(1..n)
      BY FS_Interval
    <2> QED
      BY <2>2, <2>3, FS_Surjection
  <1>4. ASSUME NEW i \in 1..n PROVE IsFiniteSet({i} \X (1..runs[i]))
    <2>1. IsFiniteSet({i})
      BY FS_Singleton
    <2>2. runs[i] \in Int /\ 1 \in Int
      OBVIOUS
    <2>3. IsFiniteSet(1..runs[i])
      BY <2>2, FS_Interval
    <2> QED
      BY <2>1, <2>3, FS_Product
  <1>5. \A T \in S : IsFiniteSet(T)
    BY <1>2, <1>4
  <1>6. IsFiniteSet(UNION S)
    BY <1>3, <1>5, FS_UNION
  <1>7. IsFiniteSet(Numbered(runs))
    BY <1>2, <1>6 DEF Numbered
  <1>8. Total(runs) = Cardinality(Numbered(runs))
    BY DEF Total, Numbered
  <1>9. Total(runs) \in Nat
    BY <1>7, <1>8, FS_CardinalityType
  <1> QED
    BY <1>1, <1>7, <1>8, <1>9

LEMMA SumGrows ==
  ASSUME NEW n \in Nat, NEW few \in [1..n -> Nat], NEW many \in [1..n -> Nat],
         \A i \in 1..n : few[i] <= many[i]
  PROVE  Total(few) <= Total(many)
  <1>1. ASSUME NEW p, p \in Numbered(few) PROVE p \in Numbered(many)
    <2>0. \A q : q \in Numbered(few) => \E i \in 1..n : \E k \in 1..few[i] : q = <<i, k>>
      BY DEF Numbered
    <2>1. PICK i \in 1..n : \E k \in 1..few[i] : p = <<i, k>>
      BY <1>1, <2>0
    <2>2. 1..few[i] \subseteq 1..many[i]
      <3>1. few[i] \in Nat /\ many[i] \in Nat /\ few[i] <= many[i]
        OBVIOUS
      <3> QED
        BY <3>1
    <2> QED
      BY <2>1, <2>2, NumberedAre
  <1>2. Numbered(few) \in SUBSET Numbered(many)
    BY <1>1
  <1> QED
    BY <1>2, NumberedAre, FS_Subset

\* Of each window at most one run more.
LEMMA OneOfEach ==
  ASSUME NEW n \in Nat, NEW few \in [1..n -> Nat], NEW many \in [1..n -> Nat],
         \A i \in 1..n : many[i] <= few[i] + 1
  PROVE  Total(many) <= Total(few) + n
  <1>1. PICK A, B, C : A = Numbered(few) /\ B = Numbered(many) /\ C = B \ A
    OBVIOUS
  <1>2. /\ IsFiniteSet(A) /\ Total(few) = Cardinality(A)
        /\ IsFiniteSet(B) /\ Total(many) = Cardinality(B)
    BY <1>1, NumberedAre
  <1>3. ASSUME NEW p \in C PROVE \E i \in 1..n : p = <<i, few[i] + 1>>
    <2>1. PICK i \in 1..n : \E k \in 1..many[i] : p = <<i, k>>
      BY <1>1, NumberedAre
    <2>1a. PICK k \in 1..many[i] : p = <<i, k>>
      BY <2>1
    <2>2. k \notin 1..few[i]
      BY <1>1, <2>1a, NumberedAre
    <2>3. few[i] \in Nat /\ many[i] \in Nat /\ many[i] <= few[i] + 1
      OBVIOUS
    <2>4. k = few[i] + 1
      <3>1. PICK a \in Nat, b \in Nat : a = few[i] /\ b = many[i] /\ b <= a + 1
        BY <2>3
      <3>2. k \in 1..b /\ k \notin 1..a
        BY <2>2, <3>1
      <3>3. k = a + 1
        BY <3>1, <3>2
      <3> QED
        BY <3>1, <3>3
    <2> QED
      BY <2>1a, <2>4
  <1>4. PICK window : window = [p \in C |-> p[1]]
    OBVIOUS
  <1>5. \A p \in C : window[p] \in 1..n /\ p = <<window[p], few[window[p]] + 1>>
    BY <1>3, <1>4
  <1>6. window \in Injection(C, 1..n)
    BY <1>4, <1>5 DEF Injection, IsInjective
  <1>7. IsFiniteSet(1..n) /\ Cardinality(1..n) = n
    BY FS_Interval
  <1>8. IsFiniteSet(C) /\ Cardinality(C) <= n
    BY <1>6, <1>7, FS_Injection
  <1>9. Cardinality(C) = Cardinality(B) - Cardinality(B \cap A)
    BY <1>1, <1>2, FS_Difference
  <1>10. IsFiniteSet(B \cap A) /\ Cardinality(B \cap A) <= Cardinality(A)
    BY <1>2, FS_Subset
  <1>11. /\ Cardinality(A) \in Nat /\ Cardinality(B) \in Nat
         /\ Cardinality(C) \in Nat /\ Cardinality(B \cap A) \in Nat
    BY <1>2, <1>8, <1>10, FS_CardinalityType
  <1> QED
    BY <1>2, <1>8, <1>9, <1>10, <1>11

LEMMA SumOfNone ==
  ASSUME NEW n \in Nat, NEW runs \in [1..n -> Nat], \A i \in 1..n : runs[i] = 0
  PROVE  Total(runs) = 0
  <1>1. \A i \in 1..n : 1..runs[i] = {}
    OBVIOUS
  <1>2. \A p : p \notin Numbered(runs)
    BY <1>1, NumberedAre
  <1>3. Numbered(runs) = {}
    BY <1>2
  <1> QED
    BY <1>3, NumberedAre, FS_EmptySet

LEMMA SumOfSome ==
  ASSUME NEW n \in Nat, NEW runs \in [1..n -> Nat], NEW i \in 1..n, runs[i] > 0
  PROVE  Total(runs) > 0
  <1>1. 1 \in 1..runs[i]
    OBVIOUS
  <1>2. <<i, 1>> \in Numbered(runs)
    BY <1>1, NumberedAre
  <1>3. Total(runs) # 0
    BY <1>2, NumberedAre, FS_EmptySet
  <1> QED
    BY <1>3, NumberedAre

-----------------------------------------------------------------------------
\* Quotients.

LEMMA Quotient ==
  ASSUME NEW a \in Nat, NEW d \in Nat \ {0}
  PROVE  /\ a \div d \in Nat
         /\ d * (a \div d) <= a /\ a < d * (a \div d) + d
  OBVIOUS

LEMMA QuotientIs ==
  ASSUME NEW q \in Nat, NEW d \in Nat \ {0}, NEW a \in Nat, d * q <= a, a < d * q + d
  PROVE  a \div d = q
  OBVIOUS

LEMMA QuotientGrows ==
  ASSUME NEW a \in Nat, NEW b \in Nat, NEW d \in Nat \ {0}, a <= b
  PROVE  a \div d <= b \div d
  OBVIOUS

LEMMA QuotientOfSum ==
  ASSUME NEW a \in Nat, NEW b \in Nat, NEW c \in Nat, NEW d \in Nat \ {0}, b <= a + c
  PROVE  (b \div d) - (a \div d) <= (c + d - 1) \div d
  OBVIOUS

LEMMA QuotientOfProduct ==
  ASSUME NEW a \in Nat, NEW d \in Nat \ {0}
  PROVE  (a * d) \div d = a
  OBVIOUS

LEMMA LessOfTwo ==
  ASSUME NEW a \in Nat, NEW b \in Nat PROVE Min({a, b}) = IF a <= b THEN a ELSE b
  <1>1. Min({a, b}) \in {a, b} /\ \A y \in {a, b} : Min({a, b}) <= y
    <2>1. {a, b} \in SUBSET Nat /\ {a, b} # {}
      OBVIOUS
    <2> QED
      BY <2>1, MinOf
  <1> QED
    BY <1>1

LEMMA MoreOfTwo ==
  ASSUME NEW a \in Int, NEW b \in Int PROVE Max({a, b}) = IF a <= b THEN b ELSE a
  <1>1. \E x \in {a, b} : \A y \in {a, b} : x >= y
    OBVIOUS
  <1>2. Max({a, b}) \in {a, b} /\ \A y \in {a, b} : Max({a, b}) >= y
    BY <1>1 DEF Max
  <1> QED
    BY <1>2

\* The policy, within a day, and what the counter says.
DayTyped ==
  /\ PolicyTyped
  /\ Ticks \in Nat /\ Interval \in Nat \ {0}
  /\ policy.cap \in Nat /\ sent \in Nat
  /\ \A i \in DOMAIN policy.windows : policy.windows[i].end <= Ticks

\* The runs of one window over the day.
RunsWithin(w) ==
  /\ WindowRuns(w) \in Nat /\ WindowRuns(w) > 0
  /\ \A t \in Nat :
       /\ ElapsedRuns(w, t) \in 0..WindowRuns(w)
       /\ t <= w.start => ElapsedRuns(w, t) <= 1
       /\ w.end - 1 <= t => ElapsedRuns(w, t) = WindowRuns(w)
       /\ \A u \in Nat : t <= u => ElapsedRuns(w, t) <= ElapsedRuns(w, u)
       /\ Interval <= t => ElapsedRuns(w, t) <= ElapsedRuns(w, t - Interval) + 1

LEMMA WindowOverTheDay ==
  ASSUME Interval \in Nat \ {0}, NEW w, w.start \in Nat, w.end \in Nat, w.start < w.end
  PROVE  RunsWithin(w)
  <1>1. PICK s \in Nat : s = w.start
    OBVIOUS
  <1>2. PICK e \in Nat : e = w.end
    OBVIOUS
  <1>3. PICK d \in Nat \ {0} : d = Interval
    OBVIOUS
  <1>4. s < e
    BY <1>1, <1>2
  <1>5. e - s + d - 1 \in Nat /\ d <= e - s + d - 1
    BY <1>4
  <1>6. PICK n : n = WindowRuns(w)
    OBVIOUS
  <1>7. n = (e - s + d - 1) \div d
    BY <1>1, <1>2, <1>3, <1>6 DEF WindowRuns
  <1>8. n \in Nat
    BY <1>5, <1>7, Quotient
  <1>9. n > 0
    <2>1. d * n <= e - s + d - 1 /\ e - s + d - 1 < d * n + d
      BY <1>5, <1>7, Quotient
    <2>2. CASE n = 0
      BY <1>5, <2>1, <2>2
    <2> QED
      BY <1>8, <2>2
  <1>10. PICK by : by = [t \in Nat |-> IF t < s THEN 0 ELSE (t - s) \div d + 1]
    OBVIOUS
  <1>11. ASSUME NEW t \in Nat
         PROVE  /\ by[t] \in Nat
                /\ t <= s => by[t] <= 1
                /\ e - 1 <= t => n <= by[t]
    <2>1. CASE t < s
      BY <1>4, <1>10, <2>1
    <2>2. CASE s <= t
      <3>1. t - s \in Nat /\ by[t] = (t - s) \div d + 1
        BY <1>10, <2>2
      <3>2. (t - s) \div d \in Nat
        BY <3>1, Quotient
      <3>3. by[t] \in Nat
        BY <3>1, <3>2
      <3>4. t <= s => by[t] <= 1
        <4>1. ASSUME t <= s PROVE (t - s) \div d = 0
          <5>1. t - s = 0
            BY <2>2, <4>1
          <5>2. d * 0 <= 0 /\ 0 < d * 0 + d
            OBVIOUS
          <5> QED
            BY <5>1, <5>2, QuotientIs
        <4> QED
          BY <3>1, <4>1
      <3>5. ASSUME e - 1 <= t PROVE n <= by[t]
        <4>1. e - s + d - 1 <= (t - s) + d
          BY <3>5
        <4>2. ((t - s) + d) \div d = (t - s) \div d + 1
          <5>1. PICK q \in Nat : q = (t - s) \div d
            BY <3>2
          <5>2. d * q <= t - s /\ t - s < d * q + d
            BY <3>1, <5>1, Quotient
          <5>3. d * (q + 1) = d * q + d
            OBVIOUS
          <5>4. d * (q + 1) <= (t - s) + d /\ (t - s) + d < d * (q + 1) + d
            BY <3>1, <5>2, <5>3
          <5>5. q + 1 \in Nat /\ (t - s) + d \in Nat
            BY <3>1
          <5>6. ((t - s) + d) \div d = q + 1
            BY <5>4, <5>5, QuotientIs
          <5> QED
            BY <5>1, <5>6
        <4>3. (t - s) + d \in Nat
          BY <3>1
        <4>4. n <= ((t - s) + d) \div d
          BY <1>5, <1>7, <4>1, <4>3, QuotientGrows
        <4> QED
          BY <3>1, <4>2, <4>4
      <3> QED
        BY <3>3, <3>4, <3>5
    <2> QED
      BY <2>1, <2>2
  <1>12. ASSUME NEW t \in Nat, NEW u \in Nat, t <= u PROVE by[t] <= by[u]
    <2>1. CASE t < s
      BY <1>10, <1>11, <2>1
    <2>2. CASE s <= t
      <3>1. t - s \in Nat /\ u - s \in Nat /\ t - s <= u - s
        BY <1>12, <2>2
      <3>2. (t - s) \div d <= (u - s) \div d /\ (t - s) \div d \in Nat /\ (u - s) \div d \in Nat
        BY <3>1, Quotient, QuotientGrows
      <3>3. by[t] = (t - s) \div d + 1 /\ by[u] = (u - s) \div d + 1
        BY <1>10, <1>12, <2>2
      <3> QED
        BY <3>2, <3>3
    <2> QED
      BY <2>1, <2>2
  <1>13. ASSUME NEW t \in Nat, d <= t PROVE by[t] <= by[t - d] + 1
    <2>0. t - d \in Nat
      BY <1>13
    <2>1. CASE t < s
      BY <1>10, <1>11, <2>0, <2>1
    <2>2. CASE s <= t /\ t - d < s
      <3>1. t - s \in Nat /\ t - s < d * 0 + d /\ d * 0 <= t - s
        BY <2>2
      <3>2. (t - s) \div d = 0
        BY <3>1, QuotientIs
      <3>3. by[t] = 1 /\ by[t - d] = 0
        BY <1>10, <2>0, <2>2, <3>2
      <3> QED
        BY <3>3
    <2>3. CASE s <= t - d
      <3>1. PICK q \in Nat : q = ((t - d) - s) \div d
        BY <2>0, <2>3, Quotient
      <3>2. d * q <= (t - d) - s /\ (t - d) - s < d * q + d
        BY <2>0, <2>3, <3>1, Quotient
      <3>3. d * (q + 1) = d * q + d
        OBVIOUS
      <3>4. d * (q + 1) <= t - s /\ t - s < d * (q + 1) + d /\ t - s \in Nat /\ q + 1 \in Nat
        BY <2>0, <2>3, <3>2, <3>3
      <3>5. (t - s) \div d = q + 1
        BY <3>4, QuotientIs
      <3>6. by[t] = (t - s) \div d + 1 /\ by[t - d] = q + 1
        BY <1>10, <2>0, <2>3, <3>1
      <3> QED
        BY <3>5, <3>6
    <2> QED
      BY <2>0, <2>1, <2>2, <2>3
  <1>14. ASSUME NEW t \in Nat PROVE ElapsedRuns(w, t) = IF by[t] <= n THEN by[t] ELSE n
    <2>1. CASE t < s
      <3>1. ElapsedRuns(w, t) = 0 /\ by[t] = 0
        BY <1>1, <1>10, <2>1 DEF ElapsedRuns
      <3> QED
        BY <1>8, <3>1
    <2>2. CASE ~(t < s)
      <3>1. ElapsedRuns(w, t) = Min({(t - s) \div d + 1, n})
        BY <1>1, <1>3, <1>6, <2>2 DEF ElapsedRuns
      <3>2. by[t] = (t - s) \div d + 1
        BY <1>10, <2>2
      <3>3. ElapsedRuns(w, t) = Min({by[t], n})
        BY <3>1, <3>2
      <3>4. by[t] \in Nat
        BY <1>11
      <3> QED
        BY <1>8, <3>3, <3>4, LessOfTwo
    <2> QED
      BY <2>1, <2>2
  <1>15. ASSUME NEW t \in Nat
         PROVE  /\ ElapsedRuns(w, t) \in 0..n
                /\ t <= s => ElapsedRuns(w, t) <= 1
                /\ e - 1 <= t => ElapsedRuns(w, t) = n
    BY <1>8, <1>11, <1>14
  <1>16. ASSUME NEW t \in Nat, NEW u \in Nat, t <= u
         PROVE  ElapsedRuns(w, t) <= ElapsedRuns(w, u)
    <2>1. by[t] \in Nat /\ by[u] \in Nat /\ by[t] <= by[u]
      BY <1>11, <1>12, <1>16
    <2> QED
      BY <1>8, <1>14, <2>1
  <1>17. ASSUME NEW t \in Nat, d <= t PROVE ElapsedRuns(w, t) <= ElapsedRuns(w, t - d) + 1
    <2>1. t - d \in Nat
      BY <1>17
    <2>2. by[t] \in Nat /\ by[t - d] \in Nat /\ by[t] <= by[t - d] + 1
      BY <1>11, <1>13, <1>17, <2>1
    <2> QED
      BY <1>8, <1>14, <2>1, <2>2
  <1> QED
    BY <1>1, <1>2, <1>3, <1>6, <1>8, <1>9, <1>15, <1>16, <1>17 DEF RunsWithin

\* The runs of all windows over the day.
LEMMA RunsOverTheDay ==
  ASSUME DayTyped, NEW n, n = Len(policy.windows)
  PROVE  /\ n \in Nat /\ RunsToday \in Nat
         /\ n > 0 => RunsToday > 0
         /\ \A t \in Nat :
              /\ Elapsed(t) \in 0..RunsToday
              /\ \A u \in Nat : t <= u => Elapsed(t) <= Elapsed(u)
              /\ Interval <= t => Elapsed(t) <= Elapsed(t - Interval) + n
              /\ (\A w \in Windows : t <= w.start) => Elapsed(t) <= n
              /\ (\A w \in Windows : w.end - 1 <= t) => Elapsed(t) = RunsToday
  <1>1. n \in Nat /\ DOMAIN policy.windows = 1..n
    <2>1. policy.windows \in Seq([start : Nat, end : Nat])
      BY DEF DayTyped, PolicyTyped
    <2> QED
      BY <2>1, LenProperties
  <1>2. \A i \in 1..n : policy.windows[i] \in Windows
    BY <1>1 DEF Windows
  <1>3. ASSUME NEW i \in 1..n PROVE RunsWithin(policy.windows[i])
    <2>1. PolicyTyped /\ Interval \in Nat \ {0}
      BY DEF DayTyped
    <2>2. PICK w \in Windows : w = policy.windows[i]
      BY <1>2
    <2>3. w.start \in Nat /\ w.end \in Nat /\ w.start < w.end
      BY <2>1, WindowsTyped
    <2> QED
      BY <2>1, <2>2, <2>3, WindowOverTheDay
  <1>4. PICK all : all = [i \in 1..n |-> WindowRuns(policy.windows[i])]
    OBVIOUS
  <1>5. PICK by : by = [t \in Nat |-> [i \in 1..n |-> ElapsedRuns(policy.windows[i], t)]]
    OBVIOUS
  <1>6. RunsToday = Total(all) /\ \A t \in Nat : Elapsed(t) = Total(by[t])
    BY <1>1, <1>4, <1>5 DEF RunsToday, Elapsed
  <1>7. all \in [1..n -> Nat] /\ \A i \in 1..n : all[i] > 0
    BY <1>3, <1>4 DEF RunsWithin
  <1>8. ASSUME NEW t \in Nat
        PROVE  by[t] \in [1..n -> Nat] /\ \A i \in 1..n : by[t][i] <= all[i]
    <2>1. ASSUME NEW i \in 1..n PROVE by[t][i] \in 0..all[i]
      BY <1>3, <1>4, <1>5 DEF RunsWithin
    <2>2. \A i \in 1..n : by[t][i] \in Nat /\ by[t][i] <= all[i]
      BY <1>7, <2>1
    <2> QED
      BY <1>5, <2>2
  <1>9. RunsToday \in Nat /\ (n > 0 => RunsToday > 0)
    <2>1. RunsToday \in Nat
      BY <1>1, <1>6, <1>7, NumberedAre
    <2>2. ASSUME n > 0 PROVE Total(all) > 0
      <3>1. 1 \in 1..n /\ all[1] > 0
        BY <1>1, <1>7, <2>2
      <3> QED
        BY <1>1, <1>7, <3>1, SumOfSome
    <2> QED
      BY <1>6, <2>1, <2>2
  <1>10. ASSUME NEW t \in Nat PROVE Elapsed(t) \in 0..RunsToday
    <2>1. Total(by[t]) <= Total(all)
      BY <1>1, <1>7, <1>8, SumGrows
    <2>2. Total(by[t]) \in Nat
      BY <1>1, <1>8, NumberedAre
    <2> QED
      BY <1>6, <1>9, <2>1, <2>2
  <1>11. ASSUME NEW t \in Nat, NEW u \in Nat, t <= u PROVE Elapsed(t) <= Elapsed(u)
    <2>1. \A i \in 1..n : by[t][i] <= by[u][i]
      BY <1>3, <1>5, <1>11 DEF RunsWithin
    <2>2. Total(by[t]) <= Total(by[u])
      BY <1>1, <1>8, <2>1, SumGrows
    <2> QED
      BY <1>6, <2>2
  <1>12. ASSUME NEW t \in Nat, Interval <= t PROVE Elapsed(t) <= Elapsed(t - Interval) + n
    <2>1. PICK u \in Nat : u = t - Interval
      BY <1>12 DEF DayTyped
    <2>2. \A i \in 1..n : by[t][i] <= by[u][i] + 1
      BY <1>3, <1>5, <1>12, <2>1 DEF RunsWithin
    <2>3. Total(by[t]) <= Total(by[u]) + n
      BY <1>1, <1>8, <2>2, OneOfEach
    <2> QED
      BY <1>6, <2>1, <2>3
  <1>13. ASSUME NEW t \in Nat, \A w \in Windows : t <= w.start PROVE Elapsed(t) <= n
    <2>1. PICK none : none = [i \in 1..n |-> 0]
      OBVIOUS
    <2>2. none \in [1..n -> Nat] /\ \A i \in 1..n : none[i] = 0
      BY <2>1
    <2>3. \A i \in 1..n : by[t][i] <= 1
      BY <1>2, <1>3, <1>5, <1>13 DEF RunsWithin
    <2>4. \A i \in 1..n : by[t][i] <= none[i] + 1
      BY <2>2, <2>3
    <2>5. Total(by[t]) <= Total(none) + n
      BY <1>1, <1>8, <2>2, <2>4, OneOfEach
    <2>6. Total(none) = 0
      BY <1>1, <2>2, SumOfNone
    <2> QED
      BY <1>1, <1>6, <2>5, <2>6
  <1>14. ASSUME NEW t \in Nat, \A w \in Windows : w.end - 1 <= t PROVE Elapsed(t) = RunsToday
    <2>1. \A i \in 1..n : by[t][i] = all[i]
      BY <1>2, <1>3, <1>4, <1>5, <1>14 DEF RunsWithin
    <2>2. by[t] = all
      <3>1. PICK b \in [1..n -> Nat] : b = by[t]
        BY <1>8
      <3>2. \A i \in 1..n : b[i] = all[i]
        BY <2>1, <3>1
      <3>3. b = [i \in 1..n |-> b[i]] /\ all = [i \in 1..n |-> all[i]]
        BY <1>4, <3>1
      <3>4. b = all
        BY <3>2, <3>3
      <3> QED
        BY <3>1, <3>4
    <2> QED
      BY <1>6, <2>2
  <1> QED
    BY <1>1, <1>9, <1>10, <1>11, <1>12, <1>13, <1>14

\* An open moment has a window; the first one is no later than any start, the
\* last one is the end of all windows.
LEMMA OpenDay ==
  ASSUME DayTyped, OpenTicks # {}
  PROVE  /\ Len(policy.windows) > 0
         /\ Min(OpenTicks) \in Nat /\ \A w \in Windows : Min(OpenTicks) <= w.start
         /\ Max(OpenTicks) \in Nat /\ \A w \in Windows : w.end - 1 <= Max(OpenTicks)
  <1>1. now.tick \in Nat /\ now.day \in Nat /\ now = [day |-> now.day, tick |-> now.tick]
    BY DEF DayTyped, PolicyTyped
  <1>2. ASSUME NEW t \in Nat
        PROVE  [now EXCEPT !.tick = t].tick = t /\ [now EXCEPT !.tick = t].day = now.day
    <2>1. now \in [day : Nat, tick : Nat]
      BY DEF DayTyped, PolicyTyped
    <2> QED
      BY <2>1
  <1>3. \A t : t \in OpenTicks <=>
          /\ t \in 0..(Ticks - 1)
          /\ \E w \in Windows : w.start <= t /\ t < w.end
          /\ IsBusinessDay(now.day)
    BY <1>2 DEF OpenTicks, IsOpen
  <1>4. PICK T : T = OpenTicks
    OBVIOUS
  <1>5. T \in SUBSET Nat /\ T # {}
    BY <1>3, <1>4
  <1>6. IsBusinessDay(now.day)
    BY <1>3
  <1>7. \A w \in Windows : w.start \in Nat /\ w.end \in Nat /\ w.start < w.end /\ w.end <= Ticks
    BY WindowsTyped DEF DayTyped, Windows
  <1>8. ASSUME NEW w \in Windows PROVE w.start \in T /\ w.end - 1 \in T
    <2>1. /\ w.start \in 0..(Ticks - 1) /\ w.end - 1 \in 0..(Ticks - 1)
          /\ w.start <= w.end - 1 /\ w.end - 1 < w.end /\ w.start <= w.start
      BY <1>7 DEF DayTyped
    <2> QED
      BY <1>3, <1>4, <1>6, <1>7, <2>1
  <1>9. Min(T) \in T /\ \A y \in T : Min(T) <= y
    BY <1>5, MinOf
  <1>10. Max(T) \in T /\ \A y \in T : y <= Max(T)
    <2>1. Ticks \in Nat /\ T \in SUBSET (0..Ticks)
      BY <1>3, <1>4 DEF DayTyped
    <2> QED
      BY <1>5, <2>1, MaxOf
  <1>11. \E w \in Windows : TRUE
    BY <1>3
  <1>12. Len(policy.windows) > 0
    <2>1. PICK n \in Nat : n = Len(policy.windows) /\ DOMAIN policy.windows = 1..n
      <3>1. policy.windows \in Seq([start : Nat, end : Nat])
        BY DEF DayTyped, PolicyTyped
      <3> QED
        BY <3>1, LenProperties
    <2>2. \E i \in 1..n : TRUE
      BY <1>11, <2>1 DEF Windows
    <2> QED
      BY <2>1, <2>2
  <1> QED
    BY <1>4, <1>5, <1>8, <1>9, <1>10, <1>12

\* No run exceeds the cap, and the spread starts with and grows by shares up to
\* the whole cap, for any windows of a day, any interval, cap and counter
\* (run_budget, spread_allowed).
THEOREM SpreadSharesTheCap ==
  ASSUME DayTyped PROVE SpreadIsFair
  <1>1. PICK n : n = Len(policy.windows)
    OBVIOUS
  <1>2. PICK R \in Nat : R = RunsToday /\ (n > 0 => R > 0) /\ n \in Nat
    BY <1>1, RunsOverTheDay
  <1>3. PICK c \in Nat : c = policy.cap
    BY DEF DayTyped
  <1>4. PICK e : e = [t \in Nat |-> Elapsed(t)]
    OBVIOUS
  <1>5. \A t \in Nat :
          /\ e[t] \in Nat /\ e[t] <= R
          /\ \A u \in Nat : t <= u => e[t] <= e[u]
    <2>1. ASSUME NEW t \in Nat
          PROVE  Elapsed(t) \in 0..R /\ \A u \in Nat : t <= u => Elapsed(t) <= Elapsed(u)
      BY <1>1, <1>2, RunsOverTheDay, Zenon
    <2>2. \A t \in Nat : e[t] = Elapsed(t)
      BY <1>4
    <2>3. \A t \in Nat : e[t] \in 0..R
      BY <2>1, <2>2, Zenon
    <2>4. \A t, u \in Nat : t <= u => e[t] <= e[u]
      BY <2>1, <2>2, Zenon
    <2> QED
      BY <2>3, <2>4
  <1>6. ASSUME NEW t \in Nat PROVE SpreadAllowed(t) = IF R = 0 THEN 0 ELSE (c * e[t]) \div R
    BY <1>2, <1>3, <1>4 DEF SpreadAllowed
  <1>7. ASSUME NEW t \in Nat PROVE SpreadAllowed(t) \in Nat /\ SpreadAllowed(t) <= c
    <2>1. CASE R = 0
      BY <1>3, <1>6, <2>1
    <2>2. CASE R > 0
      <3>1. c * e[t] \in Nat /\ c * R \in Nat /\ c * e[t] <= c * R
        BY <1>5
      <3>2. (c * e[t]) \div R \in Nat
        BY <2>2, <3>1, Quotient
      <3>3. (c * e[t]) \div R <= (c * R) \div R
        BY <2>2, <3>1, QuotientGrows
      <3>4. (c * R) \div R = c
        BY <2>2, QuotientOfProduct
      <3> QED
        BY <1>6, <2>2, <3>2, <3>3, <3>4
    <2> QED
      BY <2>1, <2>2
  <1>8. ASSUME sent <= policy.cap PROVE RunBudget(now) + sent <= policy.cap
    <2>1. sent \in Nat /\ now.tick \in Nat
      BY DEF DayTyped, PolicyTyped
    <2>2. PICK q \in Nat : q = SpreadAllowed(now.tick) /\ q <= c
      BY <1>7, <2>1
    <2>3. Left(q) = IF q - sent <= 0 THEN 0 ELSE q - sent
      BY <2>1, MoreOfTwo DEF Left
    <2>4. Remaining = IF c - sent <= 0 THEN 0 ELSE c - sent
      BY <1>3, <2>1, MoreOfTwo DEF Remaining
    <2>5. RunBudget(now) \in {0, Left(q), Remaining}
      BY <2>2 DEF RunBudget
    <2> QED
      BY <1>3, <1>8, <2>1, <2>2, <2>3, <2>4, <2>5
  <1>9. \A t \in OpenTicks : t \in Nat
    BY DEF OpenTicks
  <1>10. ASSUME NEW t \in OpenTicks \ {0} PROVE SpreadAllowed(t - 1) <= SpreadAllowed(t)
    <2>1. t \in Nat /\ t - 1 \in Nat /\ t - 1 <= t
      BY <1>9
    <2>2. CASE R = 0
      BY <1>6, <2>1, <2>2
    <2>3. CASE R > 0
      <3>1. PICK a \in Nat, b \in Nat : a = e[t - 1] /\ b = e[t] /\ a <= b
        BY <1>5, <2>1
      <3>2. c * a \in Nat /\ c * b \in Nat /\ c * a <= c * b
        BY <3>1
      <3>3. (c * a) \div R <= (c * b) \div R
        BY <2>3, <3>2, QuotientGrows
      <3> QED
        BY <1>6, <2>1, <2>3, <3>1, <3>3
    <2> QED
      BY <2>2, <2>3
  <1>11. Share = (c * n + R - 1) \div R
    BY <1>1, <1>2, <1>3 DEF Share
  <1>12. ASSUME OpenTicks # {} PROVE R > 0
    BY <1>1, <1>2, <1>12, OpenDay
  <1>13. ASSUME NEW t \in OpenTicks, t >= Interval
         PROVE  SpreadAllowed(t) - SpreadAllowed(t - Interval) <= Share
    <2>1. t \in Nat /\ t - Interval \in Nat
      BY <1>9, <1>13 DEF DayTyped
    <2>2. R > 0
      BY <1>12
    <2>3. Elapsed(t) <= Elapsed(t - Interval) + n
      <3>1. Interval \in Nat /\ Interval <= t
        BY <1>13, <2>1 DEF DayTyped
      <3> QED
        BY <1>1, <2>1, <3>1, RunsOverTheDay
    <2>4. PICK a \in Nat, b \in Nat : a = e[t - Interval] /\ b = e[t] /\ b <= a + n
      BY <1>4, <1>5, <2>1, <2>3
    <2>5. c * b <= c * a + c * n
      <3>1. c * b <= c * (a + n)
        BY <1>2, <2>4
      <3>2. c * (a + n) = c * a + c * n
        BY <1>2
      <3> QED
        BY <3>1, <3>2
    <2>6. c * a \in Nat /\ c * b \in Nat /\ c * n \in Nat
      BY <1>2, <2>4
    <2>7. ((c * b) \div R) - ((c * a) \div R) <= (c * n + R - 1) \div R
      BY <2>2, <2>5, <2>6, QuotientOfSum
    <2>8. SpreadAllowed(t) = (c * b) \div R /\ SpreadAllowed(t - Interval) = (c * a) \div R
      BY <1>6, <2>1, <2>2, <2>4
    <2> QED
      BY <1>11, <2>7, <2>8
  <1>14. ASSUME OpenTicks # {} PROVE SpreadAllowed(Min(OpenTicks)) <= Share
    <2>1. PICK t \in Nat : t = Min(OpenTicks) /\ \A w \in Windows : t <= w.start
      BY <1>14, OpenDay
    <2>2. R > 0
      BY <1>12, <1>14
    <2>3. PICK b \in Nat : b = e[t] /\ b <= n
      BY <1>1, <1>4, <1>5, <2>1, RunsOverTheDay
    <2>4. c * b \in Nat /\ c * n \in Nat /\ c * b <= 0 + c * n
      BY <1>2, <2>3
    <2>5. ((c * b) \div R) - (0 \div R) <= (c * n + R - 1) \div R
      BY <2>2, <2>4, QuotientOfSum
    <2>6. 0 \div R = 0
      <3>1. R * 0 <= 0 /\ 0 < R * 0 + R
        BY <2>2
      <3> QED
        BY <2>2, <3>1, QuotientIs
    <2>7. SpreadAllowed(t) = (c * b) \div R
      BY <1>6, <2>2, <2>3
    <2>8. (c * b) \div R \in Nat
      BY <2>2, <2>4, Quotient
    <2> QED
      BY <1>11, <2>1, <2>5, <2>6, <2>7, <2>8
  <1>15. ASSUME OpenTicks # {} PROVE SpreadAllowed(Max(OpenTicks)) = policy.cap
    <2>1. PICK t \in Nat : t = Max(OpenTicks) /\ \A w \in Windows : w.end - 1 <= t
      BY <1>15, OpenDay
    <2>2. R > 0
      BY <1>12, <1>15
    <2>3. e[t] = R
      BY <1>1, <1>2, <1>4, <2>1, RunsOverTheDay
    <2>4. (c * R) \div R = c
      BY <2>2, QuotientOfProduct
    <2> QED
      BY <1>3, <1>6, <2>1, <2>2, <2>3, <2>4
  <1> QED
    BY <1>8, <1>10, <1>13, <1>14, <1>15 DEF SpreadIsFair

-----------------------------------------------------------------------------
\* What the inbox shows.

\* Rows are in the order of their keys; a message or reply belongs to a thread, and
\* last_message_at is no later than the newest.
InboxTyped ==
  /\ Len(threads) \in Nat /\ Keys = 1..Len(threads)
  /\ Len(events) \in Nat /\ DOMAIN events = 1..Len(events)
  /\ \A t \in Keys : threads[t].last \in 0..Len(events)
  /\ \A e \in DOMAIN events : events[e].thread \in Keys

\* The newest and the first of some rows are there exactly when some are.
LEMMA NewestOf ==
  ASSUME NEW n \in Nat, NEW S \in SUBSET (1..n)
  PROVE  /\ LatestOf(S) # Nothing <=> S # {}
         /\ S # {} => LatestOf(S) \in S /\ \A y \in S : y <= LatestOf(S)
  <1>1. CASE S = {}
    BY <1>1 DEF LatestOf, Nothing
  <1>2. CASE S # {}
    <2>1. S \in SUBSET (0..n)
      OBVIOUS
    <2>2. Max(S) \in S /\ \A y \in S : y <= Max(S)
      BY <1>2, <2>1, MaxOf
    <2>3. LatestOf(S) = Max(S)
      BY <1>2 DEF LatestOf
    <2>4. Max(S) # 0
      BY <2>2
    <2> QED
      BY <1>2, <2>2, <2>3, <2>4 DEF Nothing
  <1> QED
    BY <1>1, <1>2

LEMMA FirstOfSome ==
  ASSUME NEW n \in Nat, NEW S \in SUBSET (1..n)
  PROVE  /\ FirstOf(S) # Nothing <=> S # {}
         /\ S # {} => FirstOf(S) \in S
  <1>1. CASE S = {}
    BY <1>1 DEF FirstOf, Nothing
  <1>2. CASE S # {}
    <2>1. S \in SUBSET Nat
      OBVIOUS
    <2>2. Min(S) \in S
      BY <1>2, <2>1, MinOf
    <2>3. FirstOf(S) = Min(S)
      BY <1>2 DEF FirstOf
    <2>4. Min(S) # 0
      BY <2>2
    <2> QED
      BY <1>2, <2>2, <2>3, <2>4 DEF Nothing
  <1> QED
    BY <1>1, <1>2

\* A row made of some threads shows a draft or a waiting message that one of them has.
LEMMA RowAgrees ==
  ASSUME InboxTyped, NEW ts
  PROVE  /\ Row(ts).draft # Nothing
              <=> \E e \in DOMAIN events :
                    events[e].thread \in ts /\ events[e].what \in Statuses("draft")
         /\ Row(ts).waiting # Nothing
              <=> \E e \in DOMAIN events :
                    events[e].thread \in ts /\ events[e].what \in Statuses("waiting")
  <1>1. PICK n \in Nat : n = Len(events) /\ DOMAIN events = 1..n
    BY DEF InboxTyped
  <1>2. PICK drafts, due : /\ drafts = {e \in Messages(ts) : events[e].what = "review_required"}
                           /\ due = {e \in Messages(ts) : events[e].what \in Due}
    OBVIOUS
  <1>3. drafts \in SUBSET (1..n) /\ due \in SUBSET (1..n)
    BY <1>1, <1>2 DEF Messages, Visible
  <1>4. /\ drafts # {} <=> \E e \in DOMAIN events :
                             events[e].thread \in ts /\ events[e].what \in Statuses("draft")
        /\ due # {} <=> \E e \in DOMAIN events :
                          events[e].thread \in ts /\ events[e].what \in Statuses("waiting")
    BY <1>2 DEF Messages, Visible, Statuses, Due, Hidden, Replies
  <1>5. Row(ts).draft = LatestOf(drafts) /\ Row(ts).waiting = FirstOf(due)
    BY <1>2 DEF Row
  <1>6. LatestOf(drafts) # Nothing <=> drafts # {}
    BY <1>3, NewestOf
  <1>7. FirstOf(due) # Nothing <=> due # {}
    BY <1>3, FirstOfSome
  <1> QED
    BY <1>4, <1>5, <1>6, <1>7

\* The newest thread of a conversation stands for it.
LEMMA NewestStands ==
  ASSUME InboxTyped, NEW ref \in Refs
  PROVE  /\ LatestOf(Threads(ref)) \in Threads(ref) /\ LatestOf(Threads(ref)) \in Keys
         /\ threads[LatestOf(Threads(ref))].ref = ref
         /\ Siblings(LatestOf(Threads(ref))) = Threads(ref)
  <1>1. Len(threads) \in Nat /\ Threads(ref) \in SUBSET (1..Len(threads)) /\ Threads(ref) # {}
    BY DEF InboxTyped, Refs, Threads
  <1>2. LatestOf(Threads(ref)) \in Threads(ref)
    BY <1>1, NewestOf
  <1>3. LatestOf(Threads(ref)) \in Keys /\ threads[LatestOf(Threads(ref))].ref = ref
    BY <1>2 DEF Threads
  <1> QED
    BY <1>2, <1>3 DEF Siblings

LEMMA ThreadsAgree ==
  ASSUME InboxTyped, NEW s \in ThreadStates, NEW t \in Keys
  PROVE  t \in ListThreads(s) <=> Shows(ThreadRow(t), s)
  <1>1. CASE s = "replied"
    BY <1>1 DEF ListThreads, InState, Shows, ThreadRow
  <1>2. CASE s \in {"draft", "waiting"}
    <2>1. PICK row : row = Row({t})
      OBVIOUS
    <2>2. ThreadRow(t).row = row
      BY <2>1 DEF ThreadRow
    <2>3. InState(t, s)
            <=> \E e \in DOMAIN events :
                  events[e].thread \in {t} /\ events[e].what \in Statuses(s)
      BY <1>2 DEF InState
    <2>4. Shows(ThreadRow(t), s)
            <=> IF s = "draft" THEN row.draft # Nothing ELSE row.waiting # Nothing
      BY <1>2, <2>2 DEF Shows
    <2> QED
      BY <1>2, <2>1, <2>3, <2>4, RowAgrees DEF ListThreads
  <1> QED
    BY <1>1, <1>2 DEF ThreadStates

LEMMA ConversationsAgree ==
  ASSUME InboxTyped, NEW s \in ThreadStates, NEW ref \in Refs
  PROVE  /\ LatestOf(Threads(ref)) \in ListConversations(s) <=> AnyMatches(ref, s)
         /\ AnyMatches(ref, s) <=> Shows(ConversationRow(LatestOf(Threads(ref))), s)
  <1>1. PICK t : t = LatestOf(Threads(ref))
    OBVIOUS
  <1>2. t \in Keys /\ threads[t].ref = ref /\ Siblings(t) = Threads(ref)
    BY <1>1, NewestStands
  <1>3. t \in ListConversations(s) <=> AnyMatches(ref, s)
    <2>1. ASSUME t \in ListConversations(s) PROVE AnyMatches(ref, s)
      <3>1. PICK r \in Refs : AnyMatches(r, s) /\ t = LatestOf(Threads(r))
        BY <2>1 DEF ListConversations
      <3>2. r = ref
        BY <1>2, <3>1, NewestStands
      <3> QED
        BY <3>1, <3>2
    <2>2. ASSUME AnyMatches(ref, s) PROVE t \in ListConversations(s)
      BY <1>1, <2>2 DEF ListConversations
    <2> QED
      BY <2>1, <2>2
  <1>4. AnyMatches(ref, s) <=> Shows(ConversationRow(t), s)
    <2>1. CASE s = "replied"
      BY <1>2, <2>1 DEF AnyMatches, InState, Shows, ConversationRow
    <2>2. CASE s \in {"draft", "waiting"}
      <3>1. PICK row : row = Row(Threads(ref))
        OBVIOUS
      <3>2. /\ ConversationRow(t).row.draft = row.draft
            /\ ConversationRow(t).row.waiting = row.waiting
        BY <1>2, <3>1 DEF ConversationRow, Row
      <3>3. AnyMatches(ref, s)
              <=> \E e \in DOMAIN events :
                    events[e].thread \in Threads(ref) /\ events[e].what \in Statuses(s)
        BY <2>2 DEF AnyMatches, InState
      <3>4. Shows(ConversationRow(t), s)
              <=> IF s = "draft" THEN row.draft # Nothing ELSE row.waiting # Nothing
        BY <2>2, <3>2 DEF Shows
      <3> QED
        BY <2>2, <3>1, <3>3, <3>4, RowAgrees
    <2> QED
      BY <2>1, <2>2 DEF ThreadStates
  <1> QED
    BY <1>1, <1>3, <1>4

\* As many conversations are counted as are listed, and no more than threads.
LEMMA CountsAgree ==
  ASSUME InboxTyped, NEW s \in ThreadStates
  PROVE  /\ CountConversations[s] = Cardinality(ListConversations(s))
         /\ CountConversations[s] <= CountStates[s]
  <1>1. PICK refs, matched, newest :
          /\ refs = {threads[t].ref : t \in ListThreads(s)}
          /\ matched = ListThreads(s)
          /\ newest = [r \in refs |-> LatestOf(Threads(r))]
    OBVIOUS
  <1>2. IsFiniteSet(matched)
    <2>1. matched \subseteq 1..Len(threads) /\ Len(threads) \in Nat
      BY <1>1 DEF InboxTyped, ListThreads
    <2>2. IsFiniteSet(1..Len(threads))
      BY <2>1, FS_Interval
    <2> QED
      BY <2>1, <2>2, FS_Subset
  <1>3. IsFiniteSet(refs) /\ Cardinality(refs) <= Cardinality(matched)
    <2>1. PICK f : f = [t \in matched |-> threads[t].ref]
      OBVIOUS
    <2>2. f \in Surjection(matched, refs)
      BY <1>1, <2>1 DEF Surjection
    <2> QED
      BY <1>2, <2>2, FS_Surjection
  <1>4. refs = {r \in Refs : AnyMatches(r, s)}
    BY <1>1 DEF ListThreads, Refs, AnyMatches, Threads
  <1>5. newest \in Bijection(refs, ListConversations(s))
    <2>1. newest \in Surjection(refs, ListConversations(s))
      BY <1>1, <1>4 DEF Surjection, ListConversations
    <2>2. \A r, q \in refs : newest[r] = newest[q] => r = q
      BY <1>1, <1>4, NewestStands
    <2>3. newest \in Injection(refs, ListConversations(s))
      BY <1>1, <2>1, <2>2 DEF Surjection, Injection, IsInjective
    <2> QED
      BY <2>1, <2>3 DEF Bijection
  <1>6. Cardinality(ListConversations(s)) = Cardinality(refs)
    BY <1>3, <1>5, FS_Bijection DEF ExistsBijection
  <1>7. CountConversations[s] = Cardinality(refs) /\ CountStates[s] = Cardinality(matched)
    BY <1>1 DEF CountConversations, CountStates
  <1> QED
    BY <1>3, <1>6, <1>7

\* The filters, the counts and the rows agree, for any threads, messages and replies:
\* what is listed under a state is what shows it, and counted once
\* (list_conversations, count_conversations, conversation_rows).
THEOREM InboxViewsAgree == ASSUME InboxTyped PROVE ViewsAgree
  <1>1. ASSUME NEW s \in ThreadStates, NEW t \in Keys
        PROVE  t \in ListThreads(s) <=> Shows(ThreadRow(t), s)
    BY ThreadsAgree
  <1>2. ASSUME NEW s \in ThreadStates, NEW ref \in Refs
        PROVE  LatestOf(Threads(ref)) \in ListConversations(s)
                 <=> Shows(ConversationRow(LatestOf(Threads(ref))), s)
    BY ConversationsAgree
  <1>3. ASSUME NEW s \in ThreadStates
        PROVE  /\ CountConversations[s] = Cardinality(ListConversations(s))
               /\ CountConversations[s] <= CountStates[s]
    BY CountsAgree
  <1> QED
    BY <1>1, <1>2, <1>3 DEF ViewsAgree

LEMMA ActivityOf ==
  ASSUME InboxTyped, NEW t \in Keys
  PROVE  /\ Activity(t) \in 0..Len(events) /\ threads[t].last <= Activity(t)
         /\ \A e \in DOMAIN events :
              events[e].thread = t /\ events[e].what \notin Replies => e <= Activity(t)
  <1>1. PICK n \in Nat : n = Len(events) /\ DOMAIN events = 1..n
    BY DEF InboxTyped
  <1>2. PICK S : S = {threads[t].last} \cup
          {e \in DOMAIN events : events[e].thread = t /\ events[e].what \notin Replies} \cup {0}
    OBVIOUS
  <1>3. S \in SUBSET (0..n) /\ S # {}
    BY <1>1, <1>2 DEF InboxTyped
  <1>4. Max(S) \in S /\ \A y \in S : y <= Max(S)
    BY <1>3, MaxOf
  <1>5. Activity(t) = Max(S)
    BY <1>2 DEF Activity
  <1> QED
    BY <1>1, <1>2, <1>3, <1>4, <1>5

\* A reply of a person sets last_message_at of its thread (_mark_replied).
RepliesMark ==
  \A e \in DOMAIN events : events[e].what = "reply" => e <= threads[events[e].thread].last

\* Every message and every reply of a person moves its conversation up, for any
\* threads, messages and replies, in an older thread too (list_conversations).
THEOREM ActivityMoves == ASSUME InboxTyped, RepliesMark PROVE ActivityCovers
  <1>1. ASSUME NEW ref \in Refs, NEW e \in Visible(Siblings(LatestOf(Threads(ref)))),
               events[e].what # "auto"
        PROVE  ConversationActivity(LatestOf(Threads(ref))) >= e
    <2>1. PICK t : t = LatestOf(Threads(ref))
      OBVIOUS
    <2>2. t \in Threads(ref) /\ Siblings(t) = Threads(ref) /\ threads[t].ref = ref
      BY <2>1, NewestStands
    <2>3. PICK u : u = events[e].thread
      OBVIOUS
    <2>4. e \in DOMAIN events /\ u \in Threads(ref) /\ u \in Keys
      BY <1>1, <2>1, <2>2, <2>3 DEF Visible, Threads
    <2>5. e <= Activity(u) /\ Activity(u) \in 0..Len(events)
      <3>1. CASE events[e].what \notin Replies
        BY <2>3, <2>4, <3>1, ActivityOf
      <3>2. CASE events[e].what = "reply"
        <4>1. e <= threads[u].last /\ threads[u].last <= Activity(u)
          BY <2>3, <2>4, <3>2, ActivityOf DEF RepliesMark
        <4>2. Activity(u) \in 0..Len(events) /\ threads[u].last \in 0..Len(events)
          BY <2>4, ActivityOf DEF InboxTyped
        <4>3. e \in 1..Len(events) /\ Len(events) \in Nat
          BY <2>4 DEF InboxTyped
        <4> QED
          BY <4>1, <4>2, <4>3
      <3> QED
        BY <1>1, <3>1, <3>2 DEF Replies
    <2>6. PICK S : S = {Activity(v) : v \in Threads(ref)}
      OBVIOUS
    <2>7. S \in SUBSET (0..Len(events)) /\ Activity(u) \in S
      BY <2>4, <2>6, ActivityOf DEF Threads
    <2>8. Activity(u) <= Max(S) /\ Max(S) \in 0..Len(events)
      BY <2>7, MaxOf DEF InboxTyped
    <2>9. ConversationActivity(t) = Max(S)
      BY <2>2, <2>6 DEF ConversationActivity
    <2>10. e \in Nat /\ Len(events) \in Nat
      BY <2>4 DEF InboxTyped
    <2> QED
      BY <2>1, <2>5, <2>8, <2>9, <2>10
  <1> QED
    BY <1>1 DEF ActivityCovers


-----------------------------------------------------------------------------
\* What the row of a conversation shows and the timelines of its threads.

SentTyped == \A e \in DOMAIN events : events[e].sent \in Nat

LEMMA TimelineShows ==
  ASSUME InboxTyped, SentTyped, NEW t
  PROVE  Range(Timeline(t)) = Visible({t})
  <1>1. PICK V : V = Visible({t})
    OBVIOUS
  <1>2. PICK n \in Nat : DOMAIN events = 1..n
    BY DEF InboxTyped
  <1>3. V \in SUBSET (1..n)
    BY <1>1, <1>2 DEF Visible
  <1>4. V \in SUBSET Nat /\ IsFiniteSet(V)
    <2>1. IsFiniteSet(1..n)
      BY FS_Interval
    <2>2. IsFiniteSet(V)
      BY <1>3, <2>1, FS_Subset
    <2> QED
      BY <1>3, <2>2
  <1>5. PICK at : at = [e \in V |-> At(e)]
    OBVIOUS
  <1>6. at \in [V -> Int]
    <2>1. ASSUME NEW e \in V PROVE At(e) \in Int
      <3>1. e \in Int /\ events[e].sent \in Int
        BY <1>2, <1>3 DEF SentTyped
      <3> QED
        BY <3>1 DEF At
    <2> QED
      BY <1>5, <2>1
  <1>7. \A line \in [1..Cardinality(V) -> V] :
          InOrder(line, at)
            <=> \A i, j \in DOMAIN line :
                  i < j => At(line[i]) <= At(line[j]) /\ line[i] # line[j]
    BY <1>5 DEF InOrder
  <1>8. PICK line : line = Timeline(t)
    OBVIOUS
  <1>9. line \in [1..Cardinality(V) -> V] /\ InOrder(line, at)
    <2>1. \E l \in [1..Cardinality(V) -> V] : InOrder(l, at)
      BY <1>4, <1>6, OrderExists
    <2> QED
      BY <1>1, <1>7, <1>8, <2>1 DEF Timeline
  <1>10. \A e \in V : \E i \in DOMAIN line : line[i] = e
    BY <1>4, <1>9, OrderCovers
  <1>11. Range(line) = V
    BY <1>9, <1>10 DEF Range
  <1> QED
    BY <1>1, <1>8, <1>11

\* Where each part of a row comes from.
LEMMA RowPicks ==
  ASSUME InboxTyped, NEW ts
  PROVE  /\ \A e \in {Row(ts).lastText, Row(ts).waiting, Row(ts).draft, Row(ts).subject} :
              e # Nothing => e \in Visible(ts)
         /\ \A e \in Visible(ts) : e <= Row(ts).lastText
  <1>1. PICK n \in Nat : DOMAIN events = 1..n
    BY DEF InboxTyped
  <1>2. PICK V, M, drafts, due :
          /\ V = Visible(ts) /\ M = Messages(ts)
          /\ drafts = {e \in M : events[e].what = "review_required"}
          /\ due = {e \in M : events[e].what \in Due}
    OBVIOUS
  <1>3. V \in SUBSET (1..n) /\ M \subseteq V /\ drafts \subseteq V /\ due \subseteq V
    BY <1>1, <1>2 DEF Visible, Messages
  <1>4. M \in SUBSET (1..n) /\ drafts \in SUBSET (1..n) /\ due \in SUBSET (1..n)
    BY <1>3
  <1>5. /\ Row(ts).lastText = LatestOf(V) /\ Row(ts).draft = LatestOf(drafts)
        /\ Row(ts).waiting = FirstOf(due)
        /\ Row(ts).subject = IF M = {} THEN FirstOf(V) ELSE FirstOf(M)
    BY <1>2 DEF Row, Subject
  <1>6. LatestOf(V) # Nothing => LatestOf(V) \in V
    BY <1>3, NewestOf
  <1>7. LatestOf(drafts) # Nothing => LatestOf(drafts) \in V
    BY <1>3, <1>4, NewestOf
  <1>8. FirstOf(due) # Nothing => FirstOf(due) \in V
    BY <1>3, <1>4, FirstOfSome
  <1>9. FirstOf(V) # Nothing => FirstOf(V) \in V
    BY <1>3, FirstOfSome
  <1>10. FirstOf(M) # Nothing => FirstOf(M) \in V
    BY <1>3, <1>4, FirstOfSome
  <1>11. \A e \in V : e <= LatestOf(V)
    BY <1>3, NewestOf
  <1> QED
    BY <1>2, <1>5, <1>6, <1>7, <1>8, <1>9, <1>10, <1>11

\* What the row of a conversation shows is found again in the timelines, for any
\* threads, messages and replies, sent in any order and at equal times
\* (conversation_rows, timeline).
THEOREM RowsFoundAgain == ASSUME InboxTyped, SentTyped PROVE RowsFromTimelines
  <1> SUFFICES ASSUME NEW ref \in Refs,
                      NEW t, t = LatestOf(Threads(ref)),
                      NEW shown, shown = ConversationRow(t)
      PROVE  /\ \A e \in {shown.row.lastText, shown.row.waiting, shown.row.subject}
                         \ {Nothing} :
                  \E u \in Threads(ref) : e \in Range(Timeline(u))
             /\ shown.row.draft # Nothing =>
                  \E u \in Threads(ref) :
                    /\ shown.row.draft \in Range(Timeline(u))
                    /\ threads[u].recipient = shown.recipient
             /\ \A u \in Threads(ref) : \A i \in DOMAIN Timeline(u) :
                  LET e == Timeline(u)[i]
                  IN  At(e) > 2 * shown.row.lastText =>
                        \/ e < shown.row.lastText /\ events[e].sent > 0
                        \/ e = shown.row.lastText
    BY DEF RowsFromTimelines
  <1>1. t \in Threads(ref) /\ Siblings(t) = Threads(ref) /\ threads[t].ref = ref
    BY NewestStands
  <1>2. PICK row : row = Row(Threads(ref))
    OBVIOUS
  <1>3. /\ shown.row.lastText = row.lastText /\ shown.row.draft = row.draft
        /\ shown.row.waiting = row.waiting /\ shown.row.subject = Row({t}).subject
        /\ shown.recipient = IF row.draft = Nothing THEN ""
                             ELSE threads[events[row.draft].thread].recipient
    BY <1>1, <1>2 DEF ConversationRow, Row
  <1>4. ASSUME NEW e \in Visible(Threads(ref))
        PROVE  events[e].thread \in Threads(ref) /\ e \in Range(Timeline(events[e].thread))
    <2>1. events[e].thread \in Threads(ref) /\ e \in Visible({events[e].thread})
      BY DEF Visible
    <2> QED
      BY <2>1, TimelineShows
  <1>5. /\ \A e \in {row.lastText, row.waiting, row.draft} :
              e # Nothing => e \in Visible(Threads(ref))
        /\ \A e \in Visible(Threads(ref)) : e <= row.lastText
    BY <1>2, RowPicks
  <1>6. shown.row.subject # Nothing => shown.row.subject \in Visible(Threads(ref))
    <2>1. Visible({t}) \subseteq Visible(Threads(ref))
      BY <1>1 DEF Visible
    <2> QED
      BY <1>3, <2>1, RowPicks
  <1>7. ASSUME NEW e \in {shown.row.lastText, shown.row.waiting, shown.row.subject} \ {Nothing}
        PROVE  \E u \in Threads(ref) : e \in Range(Timeline(u))
    BY <1>3, <1>4, <1>5, <1>6, <1>7
  <1>8. ASSUME shown.row.draft # Nothing
        PROVE  \E u \in Threads(ref) :
                 /\ shown.row.draft \in Range(Timeline(u))
                 /\ threads[u].recipient = shown.recipient
    BY <1>3, <1>4, <1>5, <1>8
  <1>9. ASSUME NEW u \in Threads(ref), NEW i \in DOMAIN Timeline(u),
               NEW e, e = Timeline(u)[i], At(e) > 2 * shown.row.lastText
        PROVE  \/ e < shown.row.lastText /\ events[e].sent > 0
               \/ e = shown.row.lastText
    <2>1. e \in Visible({u})
      BY <1>9, TimelineShows DEF Range
    <2>2. e \in Visible(Threads(ref)) /\ e \in DOMAIN events
      BY <2>1 DEF Visible
    <2>3. PICK n \in Nat : DOMAIN events = 1..n
      BY DEF InboxTyped
    <2>4. e \in Nat /\ events[e].sent \in Nat
      BY <2>2, <2>3 DEF SentTyped
    <2>5. e <= shown.row.lastText
      BY <1>3, <1>5, <2>2
    <2>6. PICK last \in Nat : last = shown.row.lastText
      <3>1. row.lastText = Nothing \/ row.lastText \in DOMAIN events
        BY <1>5 DEF Visible
      <3>2. row.lastText = 0 \/ row.lastText \in 1..n
        BY <2>3, <3>1 DEF Nothing
      <3>3. row.lastText \in Nat
        BY <3>2
      <3> QED
        BY <1>3, <3>3
    <2>7. e <= last /\ At(e) > 2 * last
      BY <1>9, <2>5, <2>6
    <2>8. events[e].sent > 0 \/ At(e) = 2 * e
      BY <2>4 DEF At
    <2>9. e = last \/ (e < last /\ events[e].sent > 0)
      BY <2>4, <2>7, <2>8
    <2> QED
      BY <2>6, <2>9
  <1> QED
    BY <1>7, <1>8, <1>9
=============================================================================
