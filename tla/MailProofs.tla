----------------------------- MODULE MailProofs -----------------------------
(***************************************************************************)
(* What a mail says and what an inbound mail is about, for all inputs: the *)
(* versions of a template under any saves, the template and the footer for *)
(* any languages and audiences, the legal text in any footer, the thread   *)
(* of any answer, the message of any delivery report.                      *)
(***************************************************************************)
EXTENDS TemplateVersions, Wording, MailReading, Orders, SequenceTheorems

-----------------------------------------------------------------------------
\* The versions of a template.  An editor saves over what the row has become, so
\* the invariant adds that what an editor has read stays the number of a version:
\* versions are only ever added.

Rows == [content : Contents, current : Nat]

TypesHold ==
  /\ versions \in Seq(Contents)
  /\ template \in Rows
  /\ opened \in [Editors -> Rows \cup {NoEditor}]

ReadVersionsExist ==
  \A e \in Editors : opened[e] # NoEditor => opened[e].current \in 1..Len(versions)

IInv == TypesHold /\ CurrentVersionMatches /\ ReadVersionsExist

-----------------------------------------------------------------------------

\* The first save creates version 1 and points the template at it.
LEMMA InitHolds == Init => IInv
  <1> SUFFICES ASSUME Init PROVE IInv
    OBVIOUS
  <1>1. PICK content \in Contents : versions = <<content>> /\ template = Stored(content, 1)
    BY DEF Init
  <1>2. versions \in Seq(Contents) /\ Len(versions) = 1 /\ versions[1] = content
    BY <1>1
  <1>3. template \in Rows /\ template.current = 1 /\ template.content = content
    BY <1>1 DEF Stored, Rows
  <1> QED
    BY <1>2, <1>3 DEF Init, IInv, TypesHold, CurrentVersionMatches, ReadVersionsExist

\* An editor who opens the template reads the number of its current version.
LEMMA OpensHolds == ASSUME IInv, NEW e \in Editors, Opens(e) PROVE IInv'
  <1>1. TypesHold'
    BY DEF Opens, IInv, TypesHold
  <1>2. CurrentVersionMatches'
    BY DEF Opens, IInv, CurrentVersionMatches
  <1>3. template.current \in 1..Len(versions)
    BY DEF IInv, TypesHold, CurrentVersionMatches
  <1>4. ReadVersionsExist'
    BY <1>3 DEF Opens, IInv, TypesHold, ReadVersionsExist
  <1> QED
    BY <1>1, <1>2, <1>4 DEF IInv

\* A save that goes back to the version its editor has read makes it the current
\* one; any other adds a version and makes that the current one.
LEMMA SavesHolds ==
  ASSUME IInv, NEW e \in Editors, NEW content \in Contents, Saves(e, content) PROVE IInv'
  <1>1. opened[e] \in Rows /\ opened[e].current \in 1..Len(versions)
    BY DEF Saves, IInv, TypesHold, ReadVersionsExist
  <1>2. opened' \in [Editors -> Rows \cup {NoEditor}]
    BY DEF Saves, IInv, TypesHold
  <1>3. \A f \in Editors : opened'[f] # NoEditor => opened'[f] = opened[f] /\ opened[f] # NoEditor
    BY DEF Saves, IInv, TypesHold
  <1>4. CASE content = versions[opened[e].current] /\ template' = Stored(content, Current(e))
             /\ UNCHANGED versions
    <2>1. template' \in Rows /\ template'.current = opened[e].current /\ template'.content = content
      BY <1>1, <1>4 DEF Stored, Rows, Current
    <2>2. TypesHold'
      BY <1>2, <1>4, <2>1 DEF IInv, TypesHold
    <2>3. CurrentVersionMatches'
      BY <1>1, <1>4, <2>1 DEF IInv, TypesHold, CurrentVersionMatches
    <2>4. ReadVersionsExist'
      BY <1>3, <1>4 DEF IInv, ReadVersionsExist
    <2> QED
      BY <2>2, <2>3, <2>4 DEF IInv
  <1>5. CASE versions' = Append(versions, content) /\ template' = Stored(content, Len(versions) + 1)
    <2>1. versions \in Seq(Contents) /\ Len(versions) \in Nat
      BY DEF IInv, TypesHold
    <2>2. versions' \in Seq(Contents) /\ Len(versions') = Len(versions) + 1
      BY <1>5, <2>1
    <2>3. versions'[Len(versions) + 1] = content
      BY <1>5, <2>1
    <2>4. template' \in Rows /\ template'.current = Len(versions) + 1 /\ template'.content = content
      BY <1>5, <2>1 DEF Stored, Rows
    <2>5. TypesHold'
      BY <1>2, <2>2, <2>4 DEF TypesHold
    <2>6. CurrentVersionMatches'
      BY <2>1, <2>2, <2>3, <2>4 DEF CurrentVersionMatches
    <2>7. ReadVersionsExist'
      BY <1>3, <2>1, <2>2 DEF IInv, ReadVersionsExist
    <2> QED
      BY <2>5, <2>6, <2>7 DEF IInv
  <1> QED
    BY <1>4, <1>5 DEF Saves

-----------------------------------------------------------------------------

\* Drafts are written from the content editors see: the current version of a
\* template has the template's content, for any editors, contents and number of
\* overlapping saves (save_template).
THEOREM CurrentVersionMatchesHolds == Spec => []CurrentVersionMatches
  <1>1. Init => IInv
    BY InitHolds
  <1>2. IInv /\ [Next]_vars => IInv'
    <2> SUFFICES ASSUME IInv, [Next]_vars PROVE IInv'
      OBVIOUS
    <2>1. CASE UNCHANGED vars
      BY <2>1 DEF vars, IInv, TypesHold, CurrentVersionMatches, ReadVersionsExist
    <2>2. CASE Next
      BY <2>2, OpensHolds, SavesHolds DEF Next
    <2> QED
      BY <2>1, <2>2
  <1>3. IInv => CurrentVersionMatches
    BY DEF IInv
  <1> QED
    BY <1>1, <1>2, <1>3, PTL DEF Spec

-----------------------------------------------------------------------------
\* The template and the footer of a mail.

\* The places a call may be answered from, and how well they fit it.
Place(l, a) == [language |-> l, audience |-> a]
Fits(t, l, a) == t.language \in {l, default} \ {NoLanguage} /\ t.audience \in {a, ""}
Rank(t, l, a) == (IF t.language = l THEN 2 ELSE 0) + (IF t.audience = a THEN 1 ELSE 0)

LEMMA NoAudience == Len(Audiences("")) = 1 /\ Audiences("")[1] = ""
  BY DEF Audiences

LEMMA AnAudience ==
  ASSUME NEW a, a # ""
  PROVE  Len(Audiences(a)) = 2 /\ Audiences(a)[1] = a /\ Audiences(a)[2] = ""
  BY DEF Audiences

LEMMA NoLanguages ==
  ASSUME NEW l, l \in {default, NoLanguage}, default = NoLanguage
  PROVE  Len(Languages(l)) = 0
  BY DEF Languages, Known

LEMMA DefaultAlone ==
  ASSUME NEW l, l \in {default, NoLanguage}, default # NoLanguage
  PROVE  Len(Languages(l)) = 1 /\ Languages(l)[1] = default
  BY DEF Languages, Known

LEMMA LanguageAlone ==
  ASSUME NEW l, l \notin {default, NoLanguage}, default = NoLanguage
  PROVE  Len(Languages(l)) = 1 /\ Languages(l)[1] = l
  BY DEF Languages, Known

LEMMA LanguageThenDefault ==
  ASSUME NEW l, l \notin {default, NoLanguage}, default # NoLanguage
  PROVE  Len(Languages(l)) = 2 /\ Languages(l)[1] = l /\ Languages(l)[2] = default
  BY DEF Languages, Known

\* Where a place stands among two rows of two.
RowOf(i) == IF i <= 2 THEN 1 ELSE 2
ColumnOf(i) == IF i \in {1, 3} THEN 1 ELSE 2

\* A call that names an audience.
Named(a) == a # ""

LEMMA OneARow ==
  ASSUME NEW l, NEW a, Len(Audiences(a)) = 1, NEW n \in 0..2, n = Len(Languages(l))
  PROVE  /\ DOMAIN Cascade(l, a) = 1..n
         /\ \A i \in 1..n : Cascade(l, a)[i] = Place(Languages(l)[i], Audiences(a)[1])
  <1>1. PICK ls, as, p : ls = Languages(l) /\ as = Audiences(a) /\ p = Cascade(l, a)
    OBVIOUS
  <1>3. p = [i \in 1..(n * 1) |-> Place(ls[((i - 1) \div 1) + 1], as[((i - 1) % 1) + 1])]
    BY <1>1 DEF Cascade, Place
  <1>4. n * 1 = n /\ \A i \in 1..n : (i - 1) \div 1 = i - 1 /\ (i - 1) % 1 = 0
    OBVIOUS
  <1>5. \A i \in 1..n : ((i - 1) \div 1) + 1 = i /\ ((i - 1) % 1) + 1 = 1
    BY <1>4
  <1> QED
    BY <1>1, <1>3, <1>4, <1>5

LEMMA TwoARow ==
  ASSUME NEW l, NEW a, Len(Audiences(a)) = 2, NEW n \in 0..2, n = Len(Languages(l))
  PROVE  /\ DOMAIN Cascade(l, a) = 1..(n * 2)
         /\ \A i \in 1..(n * 2) :
              Cascade(l, a)[i] = Place(Languages(l)[RowOf(i)], Audiences(a)[ColumnOf(i)])
  <1>1. PICK ls, as, p : ls = Languages(l) /\ as = Audiences(a) /\ p = Cascade(l, a)
    OBVIOUS
  <1>3. p = [i \in 1..(n * 2) |-> Place(ls[((i - 1) \div 2) + 1], as[((i - 1) % 2) + 1])]
    BY <1>1 DEF Cascade, Place
  <1>4. \A i \in 1..4 : /\ (i - 1) \div 2 = IF i <= 2 THEN 0 ELSE 1
                        /\ (i - 1) % 2 = IF i \in {1, 3} THEN 0 ELSE 1
    OBVIOUS
  <1>5. \A i \in 1..4 : ((i - 1) \div 2) + 1 = RowOf(i) /\ ((i - 1) % 2) + 1 = ColumnOf(i)
    BY <1>4 DEF RowOf, ColumnOf
  <1>6. n * 2 \in 0..4
    <2>1. \A k \in 0..2 : k * 2 \in 0..4
      OBVIOUS
    <2> QED
      BY <2>1
  <1>7. 1..(n * 2) \subseteq 1..4
    BY <1>6
  <1> QED
    BY <1>1, <1>3, <1>5, <1>7

LEMMA Corners ==
  /\ RowOf(1) = 1 /\ RowOf(2) = 1 /\ RowOf(3) = 2 /\ RowOf(4) = 2
  /\ ColumnOf(1) = 1 /\ ColumnOf(2) = 2 /\ ColumnOf(3) = 1 /\ ColumnOf(4) = 2
  BY DEF RowOf, ColumnOf

LEMMA NoRow ==
  ASSUME NEW l, NEW a, Len(Languages(l)) = 0
  PROVE  DOMAIN Cascade(l, a) = 1..0
  <1>0. PICK n \in 0..2 : n = 0 /\ n = Len(Languages(l))
    OBVIOUS
  <1>1. CASE a = ""
    <2>1. DOMAIN Cascade(l, "") = 1..n
      BY <1>0, NoAudience, OneARow
    <2> QED
      BY <1>0, <1>1, <2>1
  <1>2. CASE a # ""
    <2>0. Len(Audiences(a)) = 2
      BY <1>2, AnAudience
    <2>1. DOMAIN Cascade(l, a) = 1..(n * 2)
      BY <1>0, <2>0, TwoARow
    <2> QED
      BY <1>0, <2>1
  <1> QED
    BY <1>1, <1>2

LEMMA OneRow ==
  ASSUME NEW l, NEW x, Len(Languages(l)) = 1, Languages(l)[1] = x
  PROVE  DOMAIN Cascade(l, "") = {1} /\ Cascade(l, "")[1] = Place(x, "")
  <1>0. PICK n \in 0..2 : n = 1 /\ n = Len(Languages(l))
    OBVIOUS
  <1>1. /\ DOMAIN Cascade(l, "") = 1..n
        /\ \A i \in 1..n : Cascade(l, "")[i] = Place(Languages(l)[i], Audiences("")[1])
    BY <1>0, NoAudience, OneARow
  <1>2. 1..n = {1}
    BY <1>0
  <1> QED
    BY <1>1, <1>2, NoAudience

LEMMA OneRowOfTwo ==
  ASSUME NEW l, NEW x, NEW a,
         Len(Languages(l)) = 1, Languages(l)[1] = x, Named(a)
  PROVE  /\ DOMAIN Cascade(l, a) = {1, 2}
         /\ Cascade(l, a)[1] = Place(x, a) /\ Cascade(l, a)[2] = Place(x, "")
  <1>0. PICK n \in 0..2 : n = 1 /\ n = Len(Languages(l))
    OBVIOUS
  <1>4. Len(Audiences(a)) = 2 /\ Audiences(a)[1] = a /\ Audiences(a)[2] = ""
    BY AnAudience DEF Named
  <1>1. /\ DOMAIN Cascade(l, a) = 1..(n * 2)
        /\ \A i \in 1..(n * 2) :
             Cascade(l, a)[i] = Place(Languages(l)[RowOf(i)], Audiences(a)[ColumnOf(i)])
    BY <1>0, <1>4, TwoARow
  <1>2. 1..(n * 2) = {1, 2}
    BY <1>0
  <1>3. /\ Cascade(l, a)[1] = Place(Languages(l)[1], Audiences(a)[1])
        /\ Cascade(l, a)[2] = Place(Languages(l)[1], Audiences(a)[2])
    BY <1>1, <1>2, Corners
  <1> QED
    BY <1>1, <1>2, <1>3, <1>4

LEMMA TwoRows ==
  ASSUME NEW l, NEW x, NEW y,
         Len(Languages(l)) = 2, Languages(l)[1] = x, Languages(l)[2] = y
  PROVE  /\ DOMAIN Cascade(l, "") = {1, 2}
         /\ Cascade(l, "")[1] = Place(x, "") /\ Cascade(l, "")[2] = Place(y, "")
  <1>0. PICK n \in 0..2 : n = 2 /\ n = Len(Languages(l))
    OBVIOUS
  <1>1. /\ DOMAIN Cascade(l, "") = 1..n
        /\ \A i \in 1..n : Cascade(l, "")[i] = Place(Languages(l)[i], Audiences("")[1])
    BY <1>0, NoAudience, OneARow
  <1>2. 1..n = {1, 2}
    BY <1>0
  <1> QED
    BY <1>1, <1>2, NoAudience

LEMMA TwoRowsOfTwo ==
  ASSUME NEW l, NEW a, Len(Languages(l)) = 2, Named(a)
  PROVE  /\ DOMAIN Cascade(l, a) = {1, 2, 3, 4}
         /\ Cascade(l, a)[1] = Place(Languages(l)[1], a)
         /\ Cascade(l, a)[2] = Place(Languages(l)[1], "")
         /\ Cascade(l, a)[3] = Place(Languages(l)[2], a)
         /\ Cascade(l, a)[4] = Place(Languages(l)[2], "")
  <1>0. PICK n \in 0..2 : n = 2 /\ n = Len(Languages(l))
    OBVIOUS
  <1>4. Len(Audiences(a)) = 2 /\ Audiences(a)[1] = a /\ Audiences(a)[2] = ""
    BY AnAudience DEF Named
  <1>1. /\ DOMAIN Cascade(l, a) = 1..(n * 2)
        /\ \A i \in 1..(n * 2) :
             Cascade(l, a)[i] = Place(Languages(l)[RowOf(i)], Audiences(a)[ColumnOf(i)])
    BY <1>0, <1>4, TwoARow
  <1>2. 1..(n * 2) = {1, 2, 3, 4}
    BY <1>0
  <1>3. /\ Cascade(l, a)[1] = Place(Languages(l)[1], Audiences(a)[1])
        /\ Cascade(l, a)[2] = Place(Languages(l)[1], Audiences(a)[2])
        /\ Cascade(l, a)[3] = Place(Languages(l)[2], Audiences(a)[1])
        /\ Cascade(l, a)[4] = Place(Languages(l)[2], Audiences(a)[2])
    BY <1>1, <1>2, Corners
  <1> QED
    BY <1>1, <1>2, <1>3, <1>4

\* The cascade names the places that fit, each one, the best first.
Ordered(l, a, p) ==
  /\ \E n \in Nat : DOMAIN p = 1..n
  /\ \A i \in DOMAIN p :
       Fits(p[i], l, a) /\ p[i] = Place(p[i].language, p[i].audience)
  /\ \A t : Fits(t, l, a) => \E i \in DOMAIN p : p[i] = Place(t.language, t.audience)
  /\ \A i, j \in DOMAIN p : i <= j => Rank(p[j], l, a) <= Rank(p[i], l, a)

LEMMA PlaceIs == \A x, y : Place(x, y).language = x /\ Place(x, y).audience = y
  BY DEF Place

LEMMA RankBoth == \A l, a : Rank(Place(l, a), l, a) = 3
  BY PlaceIs DEF Rank

LEMMA RankLanguage == \A l, a, y : y # a => Rank(Place(l, y), l, a) = 2
  BY PlaceIs DEF Rank

LEMMA RankAudience == \A l, a, x : x # l => Rank(Place(x, a), l, a) = 1
  BY PlaceIs DEF Rank

LEMMA RankNeither == \A l, a, x, y : x # l /\ y # a => Rank(Place(x, y), l, a) = 0
  BY PlaceIs DEF Rank

LEMMA FitsIs ==
  \A x, y, l, a :
    Fits(Place(x, y), l, a) <=> x \in {l, default} \ {NoLanguage} /\ y \in {a, ""}
  BY PlaceIs DEF Fits

LEMMA Spans == {1} = 1..1 /\ {1, 2} = 1..2 /\ {1, 2, 3, 4} = 1..4
  OBVIOUS

LEMMA Falling ==
  /\ 4 \in Nat
  /\ 4 - 1 = 3 /\ 4 - 2 = 2 /\ 4 - 3 = 1 /\ 4 - 4 = 0
  /\ \A i, j \in {1, 2, 3, 4} : i <= j => 4 - j <= 4 - i
  OBVIOUS

Whole(t) == t = Place(t.language, t.audience)

LEMMA PlaceWhole == \A x, y : Whole(Place(x, y))
  BY PlaceIs DEF Whole

LEMMA FourOrdered ==
  ASSUME NEW l, NEW a, NEW p, l \notin {default, NoLanguage}, default # NoLanguage, a # "",
         DOMAIN p = {1, 2, 3, 4},
         p[1] = Place(l, a), p[2] = Place(l, ""),
         p[3] = Place(default, a), p[4] = Place(default, "")
  PROVE  Ordered(l, a, p)
  <1>0. l # default /\ l # NoLanguage
    OBVIOUS
  <1>1. \E n \in Nat : DOMAIN p = 1..n
    BY Falling, Spans, Zenon
  <1>3. \A i \in DOMAIN p : Fits(p[i], l, a)
    <2>1. Fits(Place(l, a), l, a) /\ Fits(Place(l, ""), l, a)
      BY <1>0, FitsIs, Zenon
    <2>2. Fits(Place(default, a), l, a) /\ Fits(Place(default, ""), l, a)
      BY <1>0, FitsIs, Zenon
    <2>3. Fits(p[1], l, a) /\ Fits(p[2], l, a) /\ Fits(p[3], l, a) /\ Fits(p[4], l, a)
      BY <2>1, <2>2
    <2> QED
      BY <2>3, Zenon
  <1>4. \A i \in DOMAIN p : Whole(p[i])
    <2>1. Whole(p[1]) /\ Whole(p[2]) /\ Whole(p[3]) /\ Whole(p[4])
      BY PlaceWhole
    <2> QED
      BY <2>1, Zenon
  <1>5. ASSUME NEW t, Fits(t, l, a)
        PROVE  \E i \in DOMAIN p : p[i] = Place(t.language, t.audience)
    <2>1. t.language \in {l, default} /\ t.audience \in {a, ""}
      BY <1>5 DEF Fits
    <2> QED
      BY <2>1, Zenon
  <1>6. \A i \in DOMAIN p : Rank(p[i], l, a) = 4 - i
    <2>0. default # l /\ "" # a
      BY <1>0
    <2>1. Rank(Place(l, a), l, a) = 3
      BY RankBoth, Zenon
    <2>3. Rank(Place(l, ""), l, a) = 2
      BY <2>0, RankLanguage, Zenon
    <2>4. Rank(Place(default, a), l, a) = 1
      BY <2>0, RankAudience, Zenon
    <2>5. Rank(Place(default, ""), l, a) = 0
      BY <2>0, RankNeither, Zenon
    <2>2. /\ Rank(p[1], l, a) = 4 - 1 /\ Rank(p[2], l, a) = 4 - 2
          /\ Rank(p[3], l, a) = 4 - 3 /\ Rank(p[4], l, a) = 4 - 4
      BY <2>1, <2>3, <2>4, <2>5, Falling, Zenon
    <2> QED
      BY <2>2, Zenon
  <1> QED
    BY <1>1, <1>3, <1>4, <1>5, <1>6, Falling, Zenon DEF Ordered, Whole

\* One place ranks no better than another.
NoBetter(t, u, l, a) == Rank(t, l, a) <= Rank(u, l, a)

LEMMA NoBetterSelf == \A t, l, a : NoBetter(t, t, l, a)
  BY DEF NoBetter, Rank

LEMMA NoBetterWider == \A x, l, a : NoBetter(Place(x, ""), Place(x, a), l, a)
  <1>1. SUFFICES ASSUME NEW x, NEW l, NEW a PROVE NoBetter(Place(x, ""), Place(x, a), l, a)
    OBVIOUS
  <1>2. PICK t, u : t = Place(x, "") /\ u = Place(x, a)
    OBVIOUS
  <1>3. t.language = x /\ u.language = x /\ u.audience = a
    BY <1>2, PlaceIs
  <1>4. NoBetter(t, u, l, a)
    BY <1>3 DEF NoBetter, Rank
  <1> QED
    BY <1>2, <1>4

LEMMA NoBetterElsewhere == \A x, l, a : NoBetter(Place(x, a), Place(l, a), l, a)
  BY PlaceIs DEF NoBetter, Rank

LEMMA Singles == /\ \A i, j \in {1} : i = 1 /\ j = 1
                 /\ \A i, j \in {1, 2} :
                      i <= j => (i = 1 /\ j = 1) \/ (i = 1 /\ j = 2) \/ (i = 2 /\ j = 2)
  OBVIOUS

LEMMA NoneOrdered ==
  ASSUME NEW l, NEW a, NEW p, DOMAIN p = 1..0, \A t : ~Fits(t, l, a)
  PROVE  Ordered(l, a, p)
  <1>1. 0 \in Nat /\ 1..0 = {}
    OBVIOUS
  <1> QED
    BY <1>1, Zenon DEF Ordered

LEMMA OneOrdered ==
  ASSUME NEW l, NEW a, NEW p, NEW x, NEW b,
         DOMAIN p = {1}, p[1] = Place(x, b), Fits(Place(x, b), l, a),
         \A t : Fits(t, l, a) => t.language = x /\ t.audience = b
  PROVE  Ordered(l, a, p)
  <1>1. \E n \in Nat : DOMAIN p = 1..n
    BY Falling, Spans, Zenon
  <1>2. \A i \in DOMAIN p : Fits(p[i], l, a) /\ Whole(p[i])
    BY PlaceWhole, Zenon
  <1>3. \A t : Fits(t, l, a) => \E i \in DOMAIN p : p[i] = Place(t.language, t.audience)
    BY Zenon
  <1>4. \A i, j \in DOMAIN p : i <= j => NoBetter(p[j], p[i], l, a)
    BY NoBetterSelf, Singles, Zenon
  <1> QED
    BY <1>1, <1>2, <1>3, <1>4, Zenon DEF Ordered, Whole, NoBetter

LEMMA TwoOrdered ==
  ASSUME NEW l, NEW a, NEW p, NEW x, NEW b, NEW y, NEW c,
         DOMAIN p = {1, 2}, p[1] = Place(x, b), p[2] = Place(y, c),
         Fits(Place(x, b), l, a), Fits(Place(y, c), l, a),
         \A t : Fits(t, l, a) =>
           (t.language = x /\ t.audience = b) \/ (t.language = y /\ t.audience = c),
         NoBetter(Place(y, c), Place(x, b), l, a)
  PROVE  Ordered(l, a, p)
  <1>1. \E n \in Nat : DOMAIN p = 1..n
    BY Falling, Spans, Zenon
  <1>2. \A i \in DOMAIN p : Fits(p[i], l, a) /\ Whole(p[i])
    BY PlaceWhole, Zenon
  <1>3. \A t : Fits(t, l, a) => \E i \in DOMAIN p : p[i] = Place(t.language, t.audience)
    BY Zenon
  <1>4. \A i, j \in DOMAIN p : i <= j => NoBetter(p[j], p[i], l, a)
    BY NoBetterSelf, Singles, Zenon
  <1> QED
    BY <1>1, <1>2, <1>3, <1>4, Zenon DEF Ordered, Whole, NoBetter

\* The one language a call has.
Only(x, l) == {l, default} \ {NoLanguage} = {x}

\* The cascade of one language.
LEMMA OneLanguageOrdered ==
  ASSUME NEW l, NEW a, NEW x, Len(Languages(l)) = 1, Languages(l)[1] = x,
         Only(x, l)
  PROVE  Ordered(l, a, Cascade(l, a))
  <1>1. \A t : Fits(t, l, a) => t.language = x /\ t.audience \in {a, ""}
    BY DEF Fits, Only
  <1>2. Fits(Place(x, a), l, a) /\ Fits(Place(x, ""), l, a)
    BY FitsIs DEF Only
  <1>3. CASE a = ""
    <2>1. DOMAIN Cascade(l, "") = {1} /\ Cascade(l, "")[1] = Place(x, "")
      BY OneRow
    <2>2. \A t : Fits(t, l, "") => t.language = x /\ t.audience = ""
      BY <1>1, <1>3, Zenon
    <2> QED
      BY <1>2, <1>3, <2>1, <2>2, OneOrdered, Zenon
  <1>4. CASE a # ""
    <2>1. /\ DOMAIN Cascade(l, a) = {1, 2}
          /\ Cascade(l, a)[1] = Place(x, a) /\ Cascade(l, a)[2] = Place(x, "")
      <3>1. Named(a)
        BY <1>4, Zenon DEF Named
      <3> QED
        BY <3>1, OneRowOfTwo
    <2>2. NoBetter(Place(x, ""), Place(x, a), l, a)
      BY NoBetterWider, Zenon
    <2>3. \A t : Fits(t, l, a) =>
            (t.language = x /\ t.audience = a) \/ (t.language = x /\ t.audience = "")
      BY <1>1, Zenon
    <2> QED
      BY <1>2, <2>1, <2>2, <2>3, TwoOrdered, Zenon
  <1> QED
    BY <1>3, <1>4

\* The cascade names the places of a call, the best first.
LEMMA CascadeOrdered ==
  ASSUME NEW l, NEW a
  PROVE  Ordered(l, a, Cascade(l, a))
  <1>1. CASE l \in {default, NoLanguage} /\ default = NoLanguage
    <2>1. DOMAIN Cascade(l, a) = 1..0
      BY <1>1, NoLanguages, NoRow
    <2>2. \A t : ~Fits(t, l, a)
      BY <1>1 DEF Fits
    <2> QED
      BY <2>1, <2>2, NoneOrdered, Zenon
  <1>2. CASE l \in {default, NoLanguage} /\ default # NoLanguage
    <2>1. Len(Languages(l)) = 1 /\ Languages(l)[1] = default
      BY <1>2, DefaultAlone
    <2>2. Only(default, l)
      BY <1>2 DEF Only
    <2> QED
      BY <2>1, <2>2, OneLanguageOrdered
  <1>3. CASE l \notin {default, NoLanguage} /\ default = NoLanguage
    <2>1. Len(Languages(l)) = 1 /\ Languages(l)[1] = l
      BY <1>3, LanguageAlone
    <2>2. Only(l, l)
      BY <1>3 DEF Only
    <2> QED
      BY <2>1, <2>2, OneLanguageOrdered
  <1>4. CASE l \notin {default, NoLanguage} /\ default # NoLanguage
    <2>1. Len(Languages(l)) = 2 /\ Languages(l)[1] = l /\ Languages(l)[2] = default
      BY <1>4, LanguageThenDefault
    <2>2. CASE a = ""
      <3>1. /\ DOMAIN Cascade(l, "") = {1, 2}
            /\ Cascade(l, "")[1] = Place(l, "") /\ Cascade(l, "")[2] = Place(default, "")
        BY <2>1, TwoRows
      <3>2. Fits(Place(l, ""), l, "") /\ Fits(Place(default, ""), l, "")
        BY <1>4, FitsIs
      <3>3. \A t : Fits(t, l, "") =>
              (t.language = l /\ t.audience = "") \/ (t.language = default /\ t.audience = "")
        BY DEF Fits
      <3>4. NoBetter(Place(default, ""), Place(l, ""), l, "")
        BY NoBetterElsewhere, Zenon
      <3> QED
        BY <2>2, <3>1, <3>2, <3>3, <3>4, TwoOrdered, Zenon
    <2>3. CASE a # ""
      <3>1. /\ DOMAIN Cascade(l, a) = {1, 2, 3, 4}
            /\ Cascade(l, a)[1] = Place(l, a) /\ Cascade(l, a)[2] = Place(l, "")
            /\ Cascade(l, a)[3] = Place(default, a) /\ Cascade(l, a)[4] = Place(default, "")
        <4>1. Named(a)
          BY <2>3, Zenon DEF Named
        <4>2. PICK x, y : x = Languages(l)[1] /\ y = Languages(l)[2]
          OBVIOUS
        <4>3. /\ DOMAIN Cascade(l, a) = {1, 2, 3, 4}
              /\ Cascade(l, a)[1] = Place(x, a) /\ Cascade(l, a)[2] = Place(x, "")
              /\ Cascade(l, a)[3] = Place(y, a) /\ Cascade(l, a)[4] = Place(y, "")
          BY <2>1, <4>1, <4>2, TwoRowsOfTwo
        <4>4. x = l /\ y = default
          BY <2>1, <4>2
        <4> QED
          BY <4>3, <4>4, Zenon
      <3> QED
        BY <1>4, <2>3, <3>1, FourOrdered
    <2> QED
      BY <2>2, <2>3
  <1> QED
    BY <1>1, <1>2, <1>3, <1>4

\* What resolve finds: the best usable place, or no usable place fits.
LEMMA ResolveIs ==
  ASSUME NEW l, NEW a, NEW found, found = Resolve(l, a)
  PROVE  \/ found = NoTemplate /\ \A t \in Usable : ~Fits(t, l, a)
         \/ /\ found # NoTemplate /\ found \in Usable /\ Fits(found, l, a)
            /\ \A t \in Usable : Fits(t, l, a) => NoBetter(t, found, l, a)
  <1>1. PICK p : p = Cascade(l, a) /\ Ordered(l, a, p)
    BY CascadeOrdered
  <1>2. PICK S : S = {i \in DOMAIN p : p[i] \in Usable}
    OBVIOUS
  <1>3. found = IF S = {} THEN NoTemplate ELSE p[Min(S)]
    BY <1>1, <1>2 DEF Resolve, FirstIn
  <1>4. \A t \in Usable : Whole(t)
    BY PlaceIs DEF Usable, Whole, Place
  <1>5. ASSUME NEW t \in Usable, Fits(t, l, a) PROVE \E i \in S : p[i] = t
    <2>1. PICK i \in DOMAIN p : p[i] = Place(t.language, t.audience)
      BY <1>1, <1>5 DEF Ordered
    <2>2. p[i] = t
      BY <1>4, <2>1 DEF Whole
    <2> QED
      BY <1>2, <2>2
  <1>6. CASE S = {}
    BY <1>3, <1>5, <1>6
  <1>7. CASE S # {}
    <2>1. S \in SUBSET Nat
      BY <1>1, <1>2 DEF Ordered
    <2>2. PICK m : m = Min(S)
      OBVIOUS
    <2>3. m \in S /\ \A i \in S : m <= i
      BY <1>7, <2>1, <2>2, MinOf
    <2>4. found = p[m] /\ m \in DOMAIN p
      BY <1>2, <1>3, <1>7, <2>2, <2>3
    <2>5. found \in Usable /\ Fits(found, l, a)
      BY <1>1, <1>2, <2>3, <2>4 DEF Ordered
    <2>6. found # NoTemplate
      <3>1. found.language # NoLanguage /\ NoTemplate.language = NoLanguage
        BY <2>5 DEF Fits, NoTemplate
      <3> QED
        BY <3>1, Zenon
    <2>7. ASSUME NEW t \in Usable, Fits(t, l, a) PROVE NoBetter(t, found, l, a)
      <3>1. PICK i \in S : p[i] = t
        BY <1>5, <2>7
      <3>2. m <= i /\ i \in DOMAIN p
        BY <1>2, <2>3
      <3> QED
        BY <1>1, <2>4, <3>1, <3>2, Zenon DEF Ordered, NoBetter
    <2> QED
      BY <2>5, <2>6, <2>7
  <1> QED
    BY <1>6, <1>7

\* No usable template is more specific for a call than the one found, whatever
\* templates there are and whatever the call asks for (resolve).
THEOREM MostSpecificFound == TemplateMostSpecific
  <1>1. PICK l, a, found : l = call.language /\ a = call.audience /\ found = Resolve(l, a)
    OBVIOUS
  <1>2. \/ found = NoTemplate /\ \A t \in Usable : ~Fits(t, l, a)
        \/ /\ found # NoTemplate /\ found \in Usable /\ Fits(found, l, a)
           /\ \A t \in Usable : Fits(t, l, a) => Rank(t, l, a) <= Rank(found, l, a)
    BY <1>1, ResolveIs DEF NoBetter
  <1>3. TemplateMostSpecific
          <=> IF found = NoTemplate THEN \A t \in Usable : ~Fits(t, l, a)
              ELSE /\ found \in Usable /\ Fits(found, l, a)
                   /\ \A t \in Usable : Fits(t, l, a) => Rank(t, l, a) <= Rank(found, l, a)
    BY <1>1 DEF TemplateMostSpecific, Fits, Rank
  <1> QED
    BY <1>2, <1>3, Zenon

\* The languages with a footer are languages.
WordingTyped == NoLanguage \notin footers

\* The footer of a language: its own, else the default one, else none.
LEMMA FooterIs ==
  ASSUME NEW l, l # NoLanguage, WordingTyped
  PROVE  /\ l \in footers => Footer(l) = l
         /\ Footer(l) \in {l, default, NoLanguage}
         /\ Footer(l) = NoLanguage => footers \cap {l, default} = {}
  <1>1. PICK p, S, f : /\ p = Languages(l) /\ f = Footer(l)
                       /\ S = {i \in DOMAIN p : p[i] \in footers}
    OBVIOUS
  <1>2. f = IF S = {} THEN NoLanguage ELSE p[Min(S)]
    BY <1>1 DEF Footer, FirstIn
  <1>3. CASE l = default \/ default = NoLanguage
    <2>1. DOMAIN p = {1} /\ p[1] = l
      BY <1>1, <1>3 DEF Languages, Known
    <2>2. S = IF l \in footers THEN {1} ELSE {}
      BY <1>1, <2>1
    <2>3. Min({1}) = 1
      BY MinOf
    <2> QED
      BY <1>1, <1>2, <1>3, <2>1, <2>2, <2>3 DEF WordingTyped
  <1>4. CASE l # default /\ default # NoLanguage
    <2>1. DOMAIN p = {1, 2} /\ p[1] = l /\ p[2] = default
      BY <1>1, <1>4 DEF Languages, Known
    <2>2. l \in footers => 1 \in S
      BY <1>1, <2>1
    <2>3. /\ S \in SUBSET {1, 2} /\ (l \notin footers => 1 \notin S)
          /\ 2 \in S <=> default \in footers
      BY <1>1, <2>1
    <2>4. S # {} => Min(S) \in S /\ \A y \in S : Min(S) <= y
      BY <2>3, MinOf
    <2>5. 1 \in S => Min(S) = 1
      <3>1. 1 \in S => Min(S) <= 1
        BY <2>4
      <3>2. S # {} => Min(S) \in {1, 2}
        BY <2>3, <2>4
      <3> QED
        BY <3>1, <3>2
    <2>6. 1 \notin S /\ 2 \in S => Min(S) = 2
      BY <2>3, <2>4
    <2>7. S = {} \/ 1 \in S \/ 2 \in S
      BY <2>3
    <2>8. CASE l \in footers
      BY <1>1, <1>2, <2>1, <2>2, <2>5, <2>8
    <2>9. CASE l \notin footers /\ default \in footers
      BY <1>1, <1>2, <1>4, <2>1, <2>3, <2>6, <2>9
    <2>10. CASE l \notin footers /\ default \notin footers
      BY <1>1, <1>2, <2>3, <2>7, <2>10
    <2> QED
      BY <2>8, <2>9, <2>10
  <1> QED
    BY <1>3, <1>4

\* The footer is in the language of the body when the channel has one, and else
\* in the default language (body_language, resolve).
THEOREM FooterInTheBodysLanguage ==
  ASSUME WordingTyped
  PROVE  FooterFollowsBody
  <1>1. PICK l, a, found : l = call.language /\ a = call.audience /\ found = Resolve(l, a)
    OBVIOUS
  <1>2. SUFFICES ASSUME found # NoTemplate
        PROVE  /\ found.language \in footers => Footer(found.language) = found.language
               /\ Footer(found.language) \in {found.language, default, NoLanguage}
               /\ Footer(found.language) = NoLanguage =>
                    footers \cap {found.language, default} = {}
    BY <1>1, <1>2, Zenon DEF FooterFollowsBody, BodyLanguage
  <1>3. found.language # NoLanguage
    <2>1. Fits(found, l, a)
      BY <1>1, <1>2, ResolveIs
    <2> QED
      BY <2>1 DEF Fits
  <1> QED
    BY <1>3, FooterIs

-----------------------------------------------------------------------------
\* The legal text of a mail.

Pieces == {"words", "link", "image", "legal", "spelled", "attribute", "hidden"}

\* A sanitised footer.
LEMMA Sanitised ==
  ASSUME html \in Seq(Pieces)
  PROVE  /\ \E n \in Nat : DOMAIN Sanitise(html) = 1..n
         /\ \A i \in DOMAIN Sanitise(html) :
              Sanitise(html)[i] \in {"words", "link", "image", "legal", "attribute", "nothing"}
  <1>1. \E n \in Nat : DOMAIN html = 1..n
    <2>1. Len(html) \in Nat /\ DOMAIN html = 1..Len(html)
      OBVIOUS
    <2> QED
      BY <2>1
  <1>2. DOMAIN Sanitise(html) = DOMAIN html
    BY DEF Sanitise
  <1>3. \A i \in DOMAIN html : html[i] \in Pieces
    OBVIOUS
  <1>4. ASSUME NEW i \in DOMAIN html
        PROVE  Sanitise(html)[i] \in {"words", "link", "image", "legal", "attribute", "nothing"}
    BY <1>3 DEF Sanitise, Pieces
  <1> QED
    BY <1>1, <1>2, <1>4

\* The placeholder of a footer stands in one place.
Holds(f, k) == k \in DOMAIN f /\ \A i \in DOMAIN f : f[i] \in {"legal", "attribute"} <=> i = k
Plainly(f) == \A i \in DOMAIN f : f[i] # "LEGAL" /\ f[i] # "in a tag"

LEMMA OnePlace ==
  ASSUME NEW f, NEW n \in Nat, DOMAIN f = 1..n, Accepted(f)
  PROVE  \E k \in DOMAIN f : Holds(f, k) /\ f[k] = "legal"
  <1>1. IsFiniteSet({i \in DOMAIN f : f[i] = "legal"}) /\ IsFiniteSet({i \in DOMAIN f : f[i] = "attribute"})
    BY FS_Interval, FS_Subset
  <1>2. {i \in DOMAIN f : f[i] = "attribute"} = {}
    BY <1>1, FS_EmptySet DEF Accepted, InAttributes, Times
  <1>3. PICK k : {i \in DOMAIN f : f[i] = "legal"} = {k}
    BY <1>1, FS_Singleton DEF Accepted, InText, Times
  <1>4. k \in DOMAIN f /\ f[k] = "legal"
    BY <1>3
  <1>5. \A i \in DOMAIN f : f[i] = "legal" => i = k
    BY <1>3
  <1>6. \A i \in DOMAIN f : f[i] # "attribute"
    BY <1>2
  <1> QED
    BY <1>4, <1>5, <1>6 DEF Holds

\* What stands in the rendered footer.
LEMMA Rendering ==
  ASSUME NEW f, NEW n \in Nat, DOMAIN f = 1..n, NEW k \in DOMAIN f, Holds(f, k), f[k] = "legal",
         NEW legal \in BOOLEAN
  PROVE  /\ DOMAIN Render(f, legal) = DOMAIN f
         /\ \A i \in DOMAIN f : i # k => Render(f, legal)[i] = f[i]
         /\ Render(f, legal)[k] = IF legal THEN "LEGAL" ELSE "nothing"
  <1>1. PICK at : at = FirstIn([i \in DOMAIN f |-> i], LAMBDA i : f[i] \in {"legal", "attribute"}, 0)
    OBVIOUS
  <1>2. PICK S : S = {i \in DOMAIN f : f[i] \in {"legal", "attribute"}}
    OBVIOUS
  <1>3. S = {k}
    BY <1>2 DEF Holds
  <1>4. Min(S) = k
    BY <1>3, MinOf
  <1>5. at = k
    BY <1>1, <1>2, <1>3, <1>4 DEF FirstIn
  <1>6. Render(f, legal) =
          [i \in DOMAIN f |->
             IF i # at THEN f[i]
             ELSE IF ~legal THEN "nothing"
             ELSE IF f[i] = "legal" THEN "LEGAL" ELSE "in a tag"]
    BY <1>1 DEF Render
  <1> QED
    BY <1>5, <1>6

\* A part shows the legal text once when it stands in one place.
Shows(part, legal) ==
  /\ Times("LEGAL", part) = (IF legal THEN 1 ELSE 0)
  /\ \A i \in DOMAIN part : part[i] \notin {"legal", "in a tag"}

LEMMA ShownOnce ==
  ASSUME NEW part, NEW k, k \in DOMAIN part, NEW legal \in BOOLEAN,
         part[k] = (IF legal THEN "LEGAL" ELSE "nothing"),
         \A i \in DOMAIN part : i # k => part[i] \notin {"LEGAL", "legal", "in a tag"}
  PROVE  Shows(part, legal)
  <1>1. CASE legal
    <2>1. {i \in DOMAIN part : part[i] = "LEGAL"} = {k}
      BY <1>1
    <2>2. Times("LEGAL", part) = 1
      BY <2>1, FS_Singleton DEF Times
    <2>3. \A i \in DOMAIN part : part[i] \notin {"legal", "in a tag"}
      BY <1>1
    <2> QED
      BY <1>1, <2>2, <2>3 DEF Shows
  <1>2. CASE ~legal
    <2>1. {i \in DOMAIN part : part[i] = "LEGAL"} = {}
      BY <1>2
    <2>2. Times("LEGAL", part) = 0
      BY <2>1, FS_EmptySet DEF Times
    <2>3. \A i \in DOMAIN part : part[i] \notin {"legal", "in a tag"}
      BY <1>2
    <2> QED
      BY <1>2, <2>2, <2>3 DEF Shows
  <1> QED
    BY <1>1, <1>2

LEMMA AloneShows == ASSUME NEW legal \in BOOLEAN PROVE Shows(Alone(legal), legal)
  <1>1. CASE legal
    <2>1. PICK part : part = <<"LEGAL">>
      OBVIOUS
    <2>2. 1 \in DOMAIN part /\ part[1] = "LEGAL" /\ \A i \in DOMAIN part : i = 1
      BY <2>1
    <2>3. Shows(part, TRUE)
      BY <2>2, ShownOnce
    <2> QED
      BY <1>1, <2>1, <2>3 DEF Alone
  <1>2. CASE ~legal
    <2>1. DOMAIN Alone(legal) = {}
      BY <1>2 DEF Alone
    <2>2. {i \in DOMAIN Alone(legal) : Alone(legal)[i] = "LEGAL"} = {}
      BY <2>1
    <2> QED
      BY <1>2, <2>1, <2>2, FS_EmptySet DEF Shows, Times
  <1> QED
    BY <1>1, <1>2

\* The legal text of a call is seen once in both parts of a mail, with any footer
\* that was accepted and without one (save_footer, render, to_text).
THEOREM LegalTextShownOnce ==
  ASSUME html \in Seq(Pieces)
  PROVE  LegalTextOnce
  <1>1. PICK f : f = Sanitise(html)
    OBVIOUS
  <1>2. PICK n \in Nat : DOMAIN f = 1..n
    BY <1>1, Sanitised
  <1>3. \A i \in DOMAIN f : f[i] \in {"words", "link", "image", "legal", "attribute", "nothing"}
    BY <1>1, Sanitised
  <1>4. ASSUME NEW legal \in BOOLEAN, NEW part, Accepted(f), part \in {Html(f, legal), Text(f, legal)}
        PROVE  Shows(part, legal)
    <2>1. PICK k \in DOMAIN f : Holds(f, k) /\ f[k] = "legal"
      BY <1>2, <1>4, OnePlace
    <2>2. f # <<>>
      BY <2>1
    <2>3. PICK r : r = Render(f, legal)
      OBVIOUS
    <2>4. /\ DOMAIN r = DOMAIN f
          /\ \A i \in DOMAIN f : i # k => r[i] = f[i]
          /\ r[k] = IF legal THEN "LEGAL" ELSE "nothing"
      BY <1>2, <2>1, <2>3, Rendering
    <2>5. \A i \in DOMAIN f : i # k => r[i] \in {"words", "link", "image", "nothing"}
      BY <1>3, <2>1, <2>4 DEF Holds
    <2>6. CASE part = Html(f, legal)
      <3>1. part = r
        BY <2>2, <2>3, <2>6 DEF Html
      <3> QED
        BY <2>1, <2>4, <2>5, <3>1, ShownOnce
    <2>7. CASE part = Text(f, legal)
      <3>1. part = ToText(r)
        BY <2>2, <2>3, <2>7 DEF Text
      <3>2. DOMAIN part = DOMAIN f
        BY <2>4, <3>1 DEF ToText
      <3>3. \A i \in DOMAIN f :
              part[i] = IF r[i] \in {"words", "link", "legal", "LEGAL"} THEN r[i] ELSE "nothing"
        BY <2>4, <3>1 DEF ToText
      <3>4. part[k] = IF legal THEN "LEGAL" ELSE "nothing"
        BY <2>1, <2>4, <3>3
      <3>5. \A i \in DOMAIN f : i # k => part[i] \in {"words", "link", "image", "nothing"}
        BY <2>5, <3>3
      <3> QED
        BY <2>1, <3>2, <3>4, <3>5, ShownOnce
    <2> QED
      BY <1>4, <2>6, <2>7
  <1>5. ASSUME NEW legal \in BOOLEAN, NEW part \in {Html(<<>>, legal), Text(<<>>, legal)}
        PROVE  Shows(part, legal)
    BY <1>5, AloneShows DEF Html, Text
  <1>6. ASSUME NEW legal \in BOOLEAN, NEW footer \in {<<>>} \cup (IF Accepted(f) THEN {f} ELSE {}),
               NEW part \in {Html(footer, legal), Text(footer, legal)}
        PROVE  Shows(part, legal)
    BY <1>4, <1>5
  <1> QED
    BY <1>1, <1>6 DEF LegalTextOnce, Shows

-----------------------------------------------------------------------------
\* The preview of a template misses whatever its message would miss, and beyond
\* that only what the recipient's values fill, for any placeholders
\* (generate_preview against communicate).
THEOREM PreviewMissesAsMuch == PreviewIsSafe
  <1> SUFFICES ASSUME NEW context
               PROVE  /\ MessageMissing(texts, context) \subseteq PreviewMissing(texts, context)
                      /\ PreviewMissing(texts, context) \ MessageMissing(texts, context)
                           \subseteq RecipientValues
    BY DEF PreviewIsSafe
  <1>1. PICK names : names = Rendered(texts)
    OBVIOUS
  <1>2. PreviewMissing(texts, context) = names \ context
    BY <1>1 DEF PreviewMissing, Missing
  <1>3. MessageMissing(texts, context) = names \ (context \cup RecipientValues)
    BY <1>1 DEF MessageMissing, Missing, Rendered
  <1> QED
    BY <1>2, <1>3

-----------------------------------------------------------------------------
\* The thread of an answer and the message of a delivery report.

\* Threads and messages as the tables hold them; every mail left before now.
MailTyped ==
  /\ Len(known) \in Nat /\ DOMAIN known = 1..Len(known)
  /\ Len(messages) \in Nat /\ DOMAIN messages = 1..Len(messages)
  /\ Now \in Nat /\ Words \notin Nat
  /\ \A m \in DOMAIN messages :
       messages[m].thread \in DOMAIN known /\ messages[m].sentAt \in 0..(Now - 1)

\* What the headers of a mail may hold.
IdWords == Nat \cup {Words}

\* The references of a mail name mails of its thread.
LEMMA ReferencesOfThread ==
  ASSUME MailTyped, NEW m \in DOMAIN messages
  PROVE  /\ References(m) \in Seq(IdWords)
         /\ \A i \in DOMAIN References(m) : References(m)[i] \in Earlier(m)
  <1>1. PICK V : V = Earlier(m)
    OBVIOUS
  <1>2. V \in SUBSET (1..Len(messages)) /\ V \in SUBSET Nat
    BY <1>1 DEF Earlier, MailTyped
  <1>3. IsFiniteSet(V)
    <2>1. PICK n \in Nat : n = Len(messages)
      BY DEF MailTyped
    <2>2. IsFiniteSet(1..n)
      BY FS_Interval
    <2> QED
      BY <1>2, <2>1, <2>2, FS_Subset
  <1>4. PICK at : at = [o \in V |-> messages[o].sentAt]
    OBVIOUS
  <1>5. at \in [V -> Int]
    BY <1>2, <1>4 DEF MailTyped
  <1>6. PICK line \in [1..Cardinality(V) -> V] : InOrder(line, at)
    BY <1>2, <1>3, <1>5, OrderExists
  <1>7. \A i, j \in DOMAIN line :
          i < j => messages[line[i]].sentAt <= messages[line[j]].sentAt /\ line[i] # line[j]
    BY <1>4, <1>6 DEF InOrder
  <1>8. References(m) \in [1..Cardinality(V) -> V]
    BY <1>1, <1>6, <1>7 DEF References
  <1>9. Cardinality(V) \in Nat
    BY <1>3, FS_CardinalityType
  <1>10. References(m) \in Seq(V)
    BY <1>8, <1>9
  <1>11. V \subseteq IdWords
    BY <1>2 DEF IdWords
  <1>12. References(m) \in Seq(IdWords)
    BY <1>8, <1>9, <1>11
  <1> QED
    BY <1>1, <1>8, <1>12

LEMMA JoinedIds ==
  ASSUME NEW s \in Seq(IdWords), NEW t \in Seq(IdWords)
  PROVE  /\ s \o t \in Seq(IdWords)
         /\ Range(s \o t) = Range(s) \cup Range(t)
         /\ s = <<>> => s \o t = t
         /\ s # <<>> => 1 \in DOMAIN (s \o t) /\ (s \o t)[1] = s[1]
  <1>1. PICK k \in Nat, n \in Nat :
          k = Len(s) /\ n = Len(t) /\ DOMAIN s = 1..k /\ DOMAIN t = 1..n
    OBVIOUS
  <1>2. PICK u : u = s \o t
    OBVIOUS
  <1>3. /\ u \in Seq(IdWords) /\ Len(u) = k + n /\ DOMAIN u = 1..(k + n)
        /\ \A i \in 1..(k + n) : u[i] = IF i <= k THEN s[i] ELSE t[i - k]
    BY <1>1, <1>2, ConcatProperties
  <1>4. ASSUME NEW i \in DOMAIN u PROVE u[i] \in Range(s) \cup Range(t)
    <2>1. CASE i <= k
      BY <1>1, <1>3, <2>1 DEF Range
    <2>2. CASE i > k
      <3>1. i - k \in DOMAIN t /\ u[i] = t[i - k]
        BY <1>1, <1>3, <2>2
      <3> QED
        BY <3>1 DEF Range
    <2> QED
      BY <1>3, <2>1, <2>2
  <1>5. ASSUME NEW i \in DOMAIN s PROVE s[i] \in Range(u)
    <2>1. i \in DOMAIN u /\ u[i] = s[i]
      BY <1>1, <1>3
    <2> QED
      BY <2>1 DEF Range
  <1>6. ASSUME NEW i \in DOMAIN t PROVE t[i] \in Range(u)
    <2>1. i + k \in DOMAIN u /\ ~(i + k <= k) /\ (i + k) - k = i
      BY <1>1, <1>3
    <2>2. u[i + k] = t[i]
      BY <1>3, <2>1
    <2> QED
      BY <2>1, <2>2 DEF Range
  <1>7. Range(u) = Range(s) \cup Range(t)
    BY <1>4, <1>5, <1>6 DEF Range
  <1>8. s = <<>> => u = t
    BY <1>2, ConcatEmptySeq
  <1>9. ASSUME s # <<>> PROVE 1 \in DOMAIN u /\ u[1] = s[1]
    <2>1. k # 0
      BY <1>1, <1>9, EmptySeq
    <2> QED
      BY <1>3, <2>1
  <1> QED
    BY <1>2, <1>3, <1>7, <1>8, <1>9

\* Among ids that name a mail of a channel and others of its thread, one of that
\* thread is found.
LEMMA OneOfThread ==
  ASSUME MailTyped, NEW m \in Sent, NEW ids, m \in ids,
         \A n \in ids \cap DOMAIN messages : messages[n].thread = messages[m].thread
  PROVE  /\ OutboundByIds(ChannelOf(m), ids) \in ids \cap DOMAIN messages
         /\ OutboundByIds(ChannelOf(m), ids) # 0
  <1>1. PICK S : S = {n \in DOMAIN messages :
                        /\ messages[n].sentAt > 0 /\ n \in ids
                        /\ known[messages[n].thread].channel = ChannelOf(m)}
    OBVIOUS
  <1>2. m \in S
    BY <1>1 DEF Sent, ChannelOf
  <1>3. S \in SUBSET (0..Len(messages)) /\ S \subseteq ids \cap DOMAIN messages /\ 0 \notin S
    BY <1>1 DEF MailTyped
  <1>4. Max(S) \in S
    BY <1>2, <1>3, MaxOf DEF MailTyped
  <1>5. OutboundByIds(ChannelOf(m), ids) = Max(S)
    BY <1>1, <1>2 DEF OutboundByIds, NewestOf
  <1> QED
    BY <1>3, <1>4, <1>5

LEMMA NoneByNoIds == ASSUME NEW channel PROVE OutboundByIds(channel, {}) = 0
  <1>1. {m \in DOMAIN messages :
           /\ messages[m].sentAt > 0 /\ m \in {} /\ known[messages[m].thread].channel = channel} = {}
    OBVIOUS
  <1> QED
    BY <1>1 DEF OutboundByIds, NewestOf

\* When a thread last had a mail of ours.
LEMMA LastOutOfSent ==
  ASSUME MailTyped, NEW m \in Sent
  PROVE  LastOut(messages[m].thread) \in 1..(Now - 1)
  <1>1. PICK t : t = messages[m].thread
    OBVIOUS
  <1>2. PICK S : S = {messages[n].sentAt : n \in {o \in DOMAIN messages : messages[o].thread = t}}
    OBVIOUS
  <1>3. messages[m].sentAt \in S /\ messages[m].sentAt > 0
    BY <1>1, <1>2 DEF Sent
  <1>4. \A n \in DOMAIN messages : messages[n].sentAt \in 0..(Now - 1)
    BY DEF MailTyped
  <1>5. S \subseteq 0..(Now - 1)
    BY <1>2, <1>4
  <1>6. S \subseteq 0..Now
    BY <1>5 DEF MailTyped
  <1>7. Max(S) \in S /\ \A y \in S : y <= Max(S)
    BY <1>3, <1>6, MaxOf DEF MailTyped
  <1>8. LastOut(t) = Max(S)
    BY <1>2, <1>3 DEF LastOut, NewestOf
  <1>9. Max(S) \in 0..(Now - 1) /\ messages[m].sentAt <= Max(S)
    BY <1>3, <1>5, <1>7
  <1>10. Max(S) > 0
    BY <1>3, <1>4, <1>9 DEF Sent, MailTyped
  <1> QED
    BY <1>1, <1>8, <1>9, <1>10 DEF MailTyped

\* The only thread of the sender is found by a date after our last mail, and
\* none by an earlier one.
LEMMA OnlyOneFound ==
  ASSUME MailTyped, NEW m \in Sent, OnlyThread(m), NEW written \in Int
  PROVE  SenderThread(ChannelOf(m), known[messages[m].thread].recipient, written) =
           IF LastOut(messages[m].thread) < written THEN messages[m].thread ELSE NoThread
  <1>1. PICK t : t = messages[m].thread
    OBVIOUS
  <1>2. PICK S : S = {u \in DOMAIN known :
                        /\ known[u].channel = known[t].channel
                        /\ known[u].status = "open"
                        /\ known[u].recipient = known[t].recipient
                        /\ LastOut(u) # 0 /\ LastOut(u) < written}
    OBVIOUS
  <1>3. t \in DOMAIN known
    BY <1>1 DEF MailTyped, Sent
  <1>4. LastOut(t) # 0
    BY <1>1, LastOutOfSent DEF MailTyped
  <1>5. t \in S <=> LastOut(t) < written
    BY <1>1, <1>2, <1>3, <1>4 DEF OnlyThread
  <1>6. \A u \in S : u = t
    BY <1>1, <1>2 DEF OnlyThread
  <1>7. S \in SUBSET (0..Len(known))
    BY <1>2 DEF MailTyped
  <1>8. SenderThread(known[t].channel, known[t].recipient, written) =
          IF S = {} THEN 0 ELSE Max(S)
    BY <1>2 DEF SenderThread, NewestOf
  <1>9. CASE LastOut(t) < written
    <2>1. Max(S) \in S
      BY <1>5, <1>7, <1>9, MaxOf DEF MailTyped
    <2> QED
      BY <1>1, <1>6, <1>8, <1>9, <2>1 DEF ChannelOf
  <1>10. CASE ~(LastOut(t) < written)
    BY <1>1, <1>5, <1>6, <1>8, <1>10 DEF ChannelOf, NoThread
  <1> QED
    BY <1>9, <1>10

\* The ids in the headers of an answer.
LEMMA IdsOfAnswer ==
  ASSUME MailTyped, NEW m \in Sent
  PROVE  /\ HeaderIds(<<Words, m>>) = {m} /\ HeaderIds(<<>>) = {} /\ HeaderIds(<<Words>>) = {}
         /\ HeaderIds(References(m) \o <<Words, m>>) \subseteq Earlier(m) \cup {m}
         /\ m \in HeaderIds(References(m) \o <<Words, m>>)
  <1>1. m \in Nat /\ m # Words /\ m \in DOMAIN messages
    BY DEF Sent, MailTyped
  <1>2. PICK two : two = <<Words, m>>
    OBVIOUS
  <1>3. two \in Seq(IdWords)
    BY <1>1, <1>2 DEF IdWords
  <1>4. DOMAIN two = {1, 2} /\ two[1] = Words /\ two[2] = m
    BY <1>2
  <1>5. Range(two) = {Words, m}
    BY <1>4 DEF Range
  <1>6. Range(<<>>) = {}
    BY DEF Range
  <1>7. PICK one : one = <<Words>>
    OBVIOUS
  <1>8. DOMAIN one = {1} /\ one[1] = Words
    BY <1>7
  <1>9. Range(one) = {Words}
    BY <1>8 DEF Range
  <1>10. PICK before : before = References(m)
    OBVIOUS
  <1>11. before \in Seq(IdWords) /\ \A i \in DOMAIN before : before[i] \in Earlier(m)
    BY <1>1, <1>10, ReferencesOfThread
  <1>12. Range(before) \subseteq Earlier(m)
    BY <1>11 DEF Range
  <1>13. Range(before \o two) = Range(before) \cup Range(two)
    BY <1>3, <1>11, JoinedIds
  <1>14. HeaderIds(two) = {m} /\ HeaderIds(<<>>) = {} /\ HeaderIds(one) = {}
    BY <1>1, <1>5, <1>6, <1>9 DEF HeaderIds
  <1>15. HeaderIds(before \o two) \subseteq Earlier(m) \cup {m} /\ m \in HeaderIds(before \o two)
    BY <1>1, <1>5, <1>12, <1>13 DEF HeaderIds
  <1> QED
    BY <1>2, <1>7, <1>10, <1>14, <1>15

\* An answer that keeps the id of a mail reaches the thread of that mail in any
\* history of threads and mails; one without ids from the sender of one open
\* thread reaches it exactly when it was written after our last mail of the thread
\* (_match_thread, _sender_thread against threading_headers).
THEOREM AnswersReachTheirThread ==
  ASSUME MailTyped PROVE AnswersFindTheirThread
  <1> SUFFICES
        ASSUME NEW m \in Sent, NEW direct \in BOOLEAN, NEW listed \in BOOLEAN, NEW date \in 0..Now
        PROVE  LET thread == messages[m].thread
                   mail == Answer(m, direct, listed, date)
                   found == MatchThread(ChannelOf(m), mail)
                   late == LastOut(thread) < SentAt(mail)
               IN  /\ direct \/ listed => found = thread
                   /\ ~direct /\ ~listed /\ OnlyThread(m) =>
                        found = IF late THEN thread ELSE NoThread
    BY DEF AnswersFindTheirThread
  <1>1. m \in DOMAIN messages /\ m \in Nat
    BY DEF Sent, MailTyped
  <1>2. PICK mail : mail = Answer(m, direct, listed, date)
    OBVIOUS
  <1>3. /\ mail.inReplyTo = IF direct THEN <<Words, m>> ELSE <<>>
        /\ mail.references = IF listed THEN References(m) \o <<Words, m>> ELSE <<Words>>
        /\ mail.sender = known[messages[m].thread].recipient
        /\ mail.date = date
    BY <1>2 DEF Answer
  <1>4. PICK d, l : /\ d = OutboundByIds(ChannelOf(m), HeaderIds(mail.inReplyTo))
                    /\ l = OutboundByIds(ChannelOf(m), HeaderIds(mail.references))
    OBVIOUS
  <1>5. MatchThread(ChannelOf(m), mail) =
          IF d # 0 THEN messages[d].thread
          ELSE IF l # 0 THEN messages[l].thread
          ELSE SenderThread(ChannelOf(m), mail.sender, SentAt(mail))
    BY <1>4 DEF MatchThread
  <1>6. ASSUME direct PROVE d # 0 /\ messages[d].thread = messages[m].thread
    <2>1. HeaderIds(mail.inReplyTo) = {m}
      BY <1>3, <1>6, IdsOfAnswer
    <2>2. d \in {m} /\ d # 0
      BY <1>4, <2>1, OneOfThread
    <2> QED
      BY <2>2
  <1>7. ASSUME ~direct PROVE d = 0
    BY <1>3, <1>4, <1>7, IdsOfAnswer, NoneByNoIds
  <1>8. ASSUME listed PROVE l # 0 /\ messages[l].thread = messages[m].thread
    <2>1. PICK ids : ids = HeaderIds(mail.references)
      OBVIOUS
    <2>2. ids \subseteq Earlier(m) \cup {m} /\ m \in ids
      BY <1>3, <1>8, <2>1, IdsOfAnswer
    <2>3. \A n \in ids \cap DOMAIN messages : messages[n].thread = messages[m].thread
      BY <2>2 DEF Earlier
    <2>4. l \in ids \cap DOMAIN messages /\ l # 0
      BY <1>4, <2>1, <2>2, <2>3, OneOfThread
    <2> QED
      BY <2>3, <2>4
  <1>9. ASSUME ~listed PROVE l = 0
    BY <1>3, <1>4, <1>9, IdsOfAnswer, NoneByNoIds
  <1>10. ASSUME OnlyThread(m)
         PROVE  SenderThread(ChannelOf(m), mail.sender, SentAt(mail)) =
                  IF LastOut(messages[m].thread) < SentAt(mail) THEN messages[m].thread ELSE NoThread
    <2>1. SentAt(mail) \in Int
      BY <1>3 DEF SentAt, MailTyped
    <2> QED
      BY <1>3, <1>10, <2>1, OnlyOneFound
  <1> QED
    BY <1>2, <1>5, <1>6, <1>7, <1>8, <1>9, <1>10

\* The first field a report fills names its mail.
LEMMA FirstIsTheMail ==
  ASSUME MailTyped, NEW m \in Sent,
         NEW gives \in SUBSET {"original", "inReplyTo", "references", "returned"}, gives # {},
         "references" \in gives => gives \cap {"original", "inReplyTo"} # {}
  PROVE  OriginalMessageId(ReportOn(m, gives)) = m
  <1>1. m \in Nat /\ m # Words /\ m \in DOMAIN messages
    BY DEF Sent, MailTyped
  <1>2. PICK just : just = <<m>>
    OBVIOUS
  <1>3. just \in Seq(IdWords) /\ just # <<>> /\ just[1] = m
    BY <1>1, <1>2 DEF IdWords
  <1>4. PICK a, b, c, d : /\ a = ReportOn(m, gives).original
                          /\ b = ReportOn(m, gives).inReplyTo
                          /\ c = ReportOn(m, gives).references
                          /\ d = ReportOn(m, gives).returned
    OBVIOUS
  <1>5. /\ a = IF "original" \in gives THEN just ELSE <<>>
        /\ b = IF "inReplyTo" \in gives THEN just ELSE <<>>
        /\ c = IF "references" \in gives THEN References(m) \o just ELSE <<>>
        /\ d = IF "returned" \in gives THEN just ELSE <<>>
    BY <1>2, <1>4 DEF ReportOn
  <1>6. References(m) \o just \in Seq(IdWords)
    BY <1>1, <1>3, ReferencesOfThread, JoinedIds
  <1>7. <<>> \in Seq(IdWords)
    BY EmptySeq
  <1>8. a \in Seq(IdWords) /\ b \in Seq(IdWords) /\ c \in Seq(IdWords) /\ d \in Seq(IdWords)
    BY <1>3, <1>5, <1>6, <1>7
  <1>9. PICK ab, abc, f : ab = a \o b /\ abc = ab \o c /\ f = abc \o d
    OBVIOUS
  <1>10. ab \in Seq(IdWords) /\ abc \in Seq(IdWords) /\ f \in Seq(IdWords)
    BY <1>8, <1>9, JoinedIds
  <1>11. 1 \in DOMAIN f /\ f[1] = m
    <2>1. CASE "original" \in gives
      <3>1. a # <<>> /\ a[1] = m
        BY <1>3, <1>5, <2>1
      <3>2. 1 \in DOMAIN ab /\ ab[1] = m
        BY <1>8, <1>9, <3>1, JoinedIds
      <3>3. 1 \in DOMAIN abc /\ abc[1] = m
        BY <1>8, <1>9, <1>10, <3>2, JoinedIds
      <3> QED
        BY <1>8, <1>9, <1>10, <3>3, JoinedIds
    <2>2. CASE "original" \notin gives /\ "inReplyTo" \in gives
      <3>1. ab = just
        BY <1>5, <1>8, <1>9, <2>2, JoinedIds
      <3>2. 1 \in DOMAIN abc /\ abc[1] = m
        BY <1>3, <1>8, <1>9, <1>10, <3>1, JoinedIds
      <3> QED
        BY <1>8, <1>9, <1>10, <3>2, JoinedIds
    <2>3. CASE "original" \notin gives /\ "inReplyTo" \notin gives
      <3>1. "references" \notin gives /\ "returned" \in gives
        BY <2>3
      <3>2. a = <<>> /\ b = <<>> /\ c = <<>> /\ d = just
        BY <1>5, <2>3, <3>1
      <3>3. ab = <<>>
        BY <1>8, <1>9, <3>2, JoinedIds
      <3>4. abc = <<>>
        BY <1>8, <1>9, <3>2, <3>3, JoinedIds
      <3>5. f = just
        BY <1>8, <1>9, <1>10, <3>2, <3>4, JoinedIds
      <3> QED
        BY <1>2, <3>5
    <2> QED
      BY <2>1, <2>2, <2>3
  <1>12. PICK ids : ids = {i \in DOMAIN f : f[i] # Words}
    OBVIOUS
  <1>13. 1 \in ids
    BY <1>1, <1>11, <1>12
  <1>14. DOMAIN f = 1..Len(f) /\ Len(f) \in Nat
    BY <1>10
  <1>15. ids \in SUBSET Nat /\ \A i \in ids : 1 <= i
    BY <1>12, <1>14
  <1>16. Min(ids) = 1
    <2>1. Min(ids) \in ids /\ \A y \in ids : Min(ids) <= y
      BY <1>13, <1>15, MinOf
    <2>2. Min(ids) \in Nat /\ 1 <= Min(ids) /\ Min(ids) <= 1
      BY <1>13, <1>15, <2>1
    <2> QED
      BY <2>2
  <1>17. Candidates(ReportOn(m, gives)) = f
    BY <1>4, <1>9 DEF Candidates
  <1>18. OriginalMessageId(ReportOn(m, gives)) = IF ids = {} THEN NoId ELSE f[Min(ids)]
    BY <1>12, <1>17 DEF OriginalMessageId
  <1> QED
    BY <1>11, <1>13, <1>16, <1>18

\* A delivery report names its own mail, in any history of mails
\* (original_message_id, match_dsn).
THEOREM ReportsNameTheirMail ==
  ASSUME MailTyped PROVE ReportsFindTheirMail
  <1> SUFFICES ASSUME NEW m \in Sent,
                      NEW gives \in SUBSET {"original", "inReplyTo", "references", "returned"},
                      gives # {},
                      "references" \in gives => gives \cap {"original", "inReplyTo"} # {}
               PROVE  OutboundByIds(ChannelOf(m), {OriginalMessageId(ReportOn(m, gives))}) = m
    BY DEF ReportsFindTheirMail
  <1>1. OriginalMessageId(ReportOn(m, gives)) = m
    BY FirstIsTheMail
  <1>2. OutboundByIds(ChannelOf(m), {m}) \in {m} \cap DOMAIN messages
    BY OneOfThread
  <1> QED
    BY <1>1, <1>2

-----------------------------------------------------------------------------
\* What an answer asks for.

Lines == [intro : BOOLEAN, quoted : BOOLEAN, phrase : STRING, author : {"us", "sender", "client"}]

\* Our words stand quoted or below the line that introduces the quoted mail, and
\* a client writes that line only.
LetterTyped ==
  /\ "none" \notin Listed /\ ScanLines \in Int
  /\ Len(letter.lines) \in Nat /\ DOMAIN letter.lines = 1..Len(letter.lines)
  /\ \A i \in DOMAIN letter.lines :
       /\ letter.lines[i] \in Lines
       /\ letter.lines[i].author = "client" => letter.lines[i].intro
       /\ letter.lines[i].author = "us" =>
            letter.lines[i].quoted \/ \E j \in 1..i : letter.lines[j].intro

\* The body of an answer keeps all but the quotes of HTML.
LEMMA BodyKeeps ==
  ASSUME LetterTyped, NEW i \in DOMAIN letter.lines
  PROVE  /\ BodyText(letter)[i].intro = letter.lines[i].intro
         /\ BodyText(letter)[i].phrase = letter.lines[i].phrase
         /\ BodyText(letter)[i].quoted =
              IF letter.html THEN FALSE ELSE letter.lines[i].quoted
  <1>1. PICK line \in Lines : line = letter.lines[i]
    BY DEF LetterTyped
  <1>2. BodyText(letter)[i] = IF letter.html THEN [line EXCEPT !.quoted = FALSE] ELSE line
    BY <1>1 DEF BodyText
  <1>3. /\ [line EXCEPT !.quoted = FALSE].intro = line.intro
        /\ [line EXCEPT !.quoted = FALSE].phrase = line.phrase
        /\ [line EXCEPT !.quoted = FALSE].quoted = FALSE
    BY DEF Lines
  <1> QED
    BY <1>1, <1>2, <1>3

\* A line that stays is not quoted where the quotes are read, and stands above
\* the introduction.
LEMMA LineStays ==
  ASSUME LetterTyped, NEW i
  PROVE  i \in Unquoted(BodyText(letter)) <=>
           /\ i \in DOMAIN letter.lines
           /\ letter.html \/ ~letter.lines[i].quoted
           /\ \A j \in 1..i : ~letter.lines[j].intro
  <1>1. PICK body : body = BodyText(letter)
    OBVIOUS
  <1>2. DOMAIN body = DOMAIN letter.lines
    BY <1>1 DEF BodyText
  <1>3. i \in Unquoted(body) <=>
          i \in DOMAIN body /\ ~body[i].quoted /\ \A j \in 1..i : ~body[j].intro
    BY DEF Unquoted
  <1>4. ASSUME i \in DOMAIN letter.lines
        PROVE  /\ ~body[i].quoted <=> (letter.html \/ ~letter.lines[i].quoted)
               /\ \A j \in 1..i : body[j].intro <=> letter.lines[j].intro
    <2>1. ~body[i].quoted <=> (letter.html \/ ~letter.lines[i].quoted)
      BY <1>1, <1>4, BodyKeeps
    <2>2. \A j \in 1..i : j \in DOMAIN letter.lines
      BY <1>4 DEF LetterTyped
    <2>3. \A j \in 1..i : body[j].intro <=> letter.lines[j].intro
      BY <1>1, <2>2, BodyKeeps
    <2> QED
      BY <2>1, <2>3
  <1> QED
    BY <1>1, <1>2, <1>3, <1>4

\* When an answer is suspected to ask for an opt-out.
LEMMA Suspected ==
  ASSUME LetterTyped
  PROVE  /\ Classify(letter) = "suspected_optout" =>
              \E i \in Unquoted(BodyText(letter)) :
                letter.lines[i].phrase \in Phrases(letter.language)
         /\ Classify(letter) = "reply" =>
              ~ \E i \in Unquoted(BodyText(letter)) :
                  i <= ScanLines /\ letter.lines[i].phrase \in Phrases(letter.language)
  <1>1. PICK body, own : body = BodyText(letter) /\ own = Unquoted(body)
    OBVIOUS
  <1>2. PICK asks : asks = HasOptoutPhrase(letter.language, body, own)
    OBVIOUS
  <1>3. Classify(letter) = IF IsAutoreply(letter) THEN "auto"
                           ELSE IF asks THEN "suspected_optout" ELSE "reply"
    BY <1>1, <1>2 DEF Classify
  <1>4. asks <=> \E i \in own :
                   /\ Cardinality({j \in own : j <= i}) <= ScanLines
                   /\ body[i].phrase \in Phrases(letter.language)
    BY <1>2 DEF HasOptoutPhrase
  <1>5. own \subseteq DOMAIN letter.lines
    BY <1>1, LineStays
  <1>6. \A i \in own : body[i].phrase = letter.lines[i].phrase
    BY <1>1, <1>5, BodyKeeps
  <1>7. ASSUME NEW i \in own, i <= ScanLines
        PROVE  Cardinality({j \in own : j <= i}) <= ScanLines
    <2>1. PICK above, all : above = {j \in own : j <= i} /\ all = 1..i
      OBVIOUS
    <2>2. i \in Nat /\ above \subseteq all
      BY <1>5, <2>1 DEF LetterTyped
    <2>3. IsFiniteSet(all) /\ Cardinality(all) = i
      BY <2>1, <2>2, FS_Interval
    <2>4. IsFiniteSet(above) /\ Cardinality(above) <= i
      BY <2>2, <2>3, FS_Subset
    <2>5. Cardinality(above) \in Nat
      BY <2>4, FS_CardinalityType
    <2> QED
      BY <1>7, <2>1, <2>2, <2>4, <2>5 DEF LetterTyped
  <1> QED
    BY <1>1, <1>3, <1>4, <1>6, <1>7

\* Only the sender's own words make a suspicion, and those at the top in the
\* thread's language always do, for any letter (body_text, unquoted,
\* has_optout_phrase).
THEOREM OwnWordsOnly ==
  ASSUME LetterTyped PROVE OwnWordsDecide
  <1>1. ASSUME Classify(letter) = "suspected_optout",
               letter.html =>
                 \A i \in DOMAIN letter.lines :
                   letter.lines[i].author = "us" => \E j \in 1..i : letter.lines[j].intro
        PROVE  \E i \in DOMAIN letter.lines :
                 letter.lines[i].author = "sender" /\ letter.lines[i].phrase # "none"
    <2>1. PICK i \in Unquoted(BodyText(letter)) : letter.lines[i].phrase \in Phrases(letter.language)
      BY <1>1, Suspected
    <2>2. /\ i \in DOMAIN letter.lines
          /\ letter.html \/ ~letter.lines[i].quoted
          /\ \A j \in 1..i : ~letter.lines[j].intro
      BY <2>1, LineStays
    <2>3. i \in 1..i
      BY <2>2 DEF LetterTyped
    <2>4. letter.lines[i].author # "client"
      BY <2>2, <2>3 DEF LetterTyped
    <2>5. letter.lines[i].author # "us"
      BY <1>1, <2>2 DEF LetterTyped
    <2>6. letter.lines[i].author \in {"us", "sender", "client"}
      BY <2>2 DEF LetterTyped, Lines
    <2>7. Phrases(letter.language) \subseteq Listed /\ "none" \notin Listed
      BY DEF Phrases, LetterTyped
    <2> QED
      BY <2>1, <2>2, <2>4, <2>5, <2>6, <2>7
  <1>2. ASSUME NEW i \in DOMAIN letter.lines, letter.language \in Listed,
               letter.lines[i].phrase = letter.language, i <= ScanLines,
               \A j \in 1..i : ~letter.lines[j].intro, ~letter.lines[i].quoted
        PROVE  Classify(letter) # "reply"
    <2>1. i \in Unquoted(BodyText(letter))
      BY <1>2, LineStays
    <2>2. letter.lines[i].phrase \in Phrases(letter.language)
      BY <1>2 DEF Phrases
    <2> QED
      BY <1>2, <2>1, <2>2, Suspected
  <1> QED
    BY <1>1, <1>2 DEF OwnWordsDecide
=============================================================================
