---------------------------- MODULE ReadingProofs ----------------------------
(***************************************************************************)
(* Proofs about the loops that read texts: parseURLValues, getCookies, and *)
(* parse and check of translationCondition.  Each rests on a loop          *)
(* invariant that says where the reader may be in the text, for a text of  *)
(* any length.                                                             *)
(***************************************************************************)
EXTENDS RequestFields, Conditions, WellFoundedInduction, TLAPS

-----------------------------------------------------------------------------
(* Positions. *)

(* The least element of a set of numbers is the one all others exceed. *)
LEMMA LeastIs ==
  ASSUME NEW S \in SUBSET Int, NEW p \in S, \A j \in S : p <= j
  PROVE  Least(S) = p
<1>1. \E i \in S : \A j \in S : i <= j
  OBVIOUS
<1>2. Least(S) \in S /\ \A j \in S : Least(S) <= j
  BY <1>1 DEF Least
<1> DEFINE l == Least(S)
<1>3. l \in Int /\ p \in Int /\ l <= p /\ p <= l
  BY <1>2
<1> HIDE DEF l
<1>4. l = p
  BY <1>3
<1> QED
  BY <1>4 DEF l

(* Every set of numbers that is not empty has a least one. *)
LEMMA LeastExists ==
  ASSUME NEW S \in SUBSET Nat, S # {}
  PROVE  Least(S) \in S /\ \A j \in S : Least(S) <= j
<1> DEFINE R == OpToRel(<, Nat)
<1>1. IsWellFoundedOn(R, Nat)
  BY NatLessThanWellFounded, Zenon
<1>2. \A x, y \in Nat : <<y, x>> \in R <=> y < x
  BY DEF OpToRel
<1> HIDE DEF R
<1>3. \E x \in S : \A y \in S : ~(<<y, x>> \in R)
  BY <1>1, WFMin
<1>4. PICK x \in S : \A y \in S : ~(<<y, x>> \in R)
  BY <1>3
<1>5. \A y \in S : x <= y
  <2> TAKE y \in S
  <2>1. x \in Nat /\ y \in Nat
    OBVIOUS
  <2>2. ~(y < x)
    BY <1>2, <1>4, <2>1
  <2> QED
    BY <2>1, <2>2
<1>6. \E i \in S : \A j \in S : i <= j
  BY <1>5
<1> QED
  BY <1>6 DEF Least

(* A search ends where it may. *)
LEMMA FindAnyRange ==
  ASSUME NEW d, NEW marks, NEW begin \in Nat, NEW end \in Nat, begin <= end
  PROVE  findAny(d, begin, end, marks) \in begin..end
<1> DEFINE S == {i \in begin..(end - 1) : d[i] \in marks} \cup {end}
<1>1. S \in SUBSET Nat /\ S # {} /\ \A i \in S : i \in begin..end
  OBVIOUS
<1>2. findAny(d, begin, end, marks) = Least(S)
  BY DEF findAny
<1> HIDE DEF S
<1>3. Least(S) \in S
  BY <1>1, LeastExists
<1> QED
  BY <1>1, <1>2, <1>3

(* A search finds p if it holds a mark, or is the end, and no position      *)
(* before it holds one.                                                     *)
LEMMA FindAnyIs ==
  ASSUME NEW d, NEW marks, NEW begin \in Int, NEW end \in Int, NEW p \in begin..end,
         \A i \in begin..(p - 1) : d[i] \notin marks,
         p = end \/ d[p] \in marks
  PROVE  findAny(d, begin, end, marks) = p
<1> DEFINE S == {i \in begin..(end - 1) : d[i] \in marks} \cup {end}
<1>1. S \in SUBSET Int /\ p \in S
  OBVIOUS
<1>2. \A j \in S : p <= j
  OBVIOUS
<1> QED
  BY <1>1, <1>2, LeastIs DEF findAny

LEMMA FindInIs ==
  ASSUME NEW d, NEW mark, NEW begin \in Int, NEW end \in Int, NEW p \in begin..end,
         \A i \in begin..(p - 1) : d[i] # mark,
         p = end \/ d[p] = mark
  PROVE  findIn(d, begin, end, mark) = p
<1>1. \A i \in begin..(p - 1) : d[i] \notin {mark}
  OBVIOUS
<1>2. p = end \/ d[p] \in {mark}
  OBVIOUS
<1>3. findAny(d, begin, end, {mark}) = p
  BY <1>1, <1>2, FindAnyIs
<1> QED
  BY <1>3 DEF findIn

(* One text behind another. *)
LEMMA Behind ==
  ASSUME NEW a \in Seq(Chars), NEW b \in Seq(Chars)
  PROVE  /\ a \o b \in Seq(Chars)
         /\ Len(a \o b) = Len(a) + Len(b)
         /\ \A i \in 1..Len(a) : (a \o b)[i] = a[i]
         /\ \A i \in 1..Len(b) : (a \o b)[Len(a) + i] = b[i]
  OBVIOUS

(* A piece of a text that holds another text is that text. *)
LEMMA PieceIs ==
  ASSUME NEW s \in Seq(Chars), NEW t \in Seq(Chars), NEW b \in 1..(Len(s) + 1),
         b + Len(t) <= Len(s) + 1,
         \A i \in 1..Len(t) : s[b + i - 1] = t[i]
  PROVE  SubSeq(s, b, b + Len(t) - 1) = t
<1> DEFINE u == SubSeq(s, b, b + Len(t) - 1)
<1>1. u \in Seq(Chars) /\ Len(u) = Len(t)
  OBVIOUS
<1>2. \A i \in 1..Len(t) : u[i] = s[b + i - 1]
  OBVIOUS
<1>3. \A i \in 1..Len(t) : u[i] = t[i]
  BY <1>2
<1> QED
  BY <1>1, <1>3

LEMMA Single ==
  ASSUME NEW S, NEW m \in S
  PROVE  <<m>> \in Seq(S) /\ Len(<<m>>) = 1 /\ <<m>>[1] = m
  OBVIOUS

LEMMA Two ==
  ASSUME NEW S, NEW a \in S, NEW b \in S
  PROVE  <<a, b>> \in Seq(S) /\ Len(<<a, b>>) = 2 /\ <<a, b>>[1] = a /\ <<a, b>>[2] = b
  OBVIOUS

(* A name and a value with a mark between them, behind a text and a gap. *)
Pair(a, b, c, m, e) == a \o (b \o (c \o (<<m>> \o e)))

PairFacts(a, b, c, m, e) ==
  /\ Pair(a, b, c, m, e) \in Seq(Chars)
  /\ Len(Pair(a, b, c, m, e)) = Len(a) + Len(b) + Len(c) + 1 + Len(e)
  /\ \A i \in 1..Len(a) : Pair(a, b, c, m, e)[i] = a[i]
  /\ \A i \in 1..Len(b) : Pair(a, b, c, m, e)[Len(a) + i] = b[i]
  /\ \A i \in 1..Len(c) : Pair(a, b, c, m, e)[Len(a) + Len(b) + i] = c[i]
  /\ Pair(a, b, c, m, e)[Len(a) + Len(b) + Len(c) + 1] = m
  /\ \A i \in 1..Len(e) : Pair(a, b, c, m, e)[Len(a) + Len(b) + Len(c) + 1 + i] = e[i]

LEMMA PairBehind ==
  ASSUME NEW a \in Seq(Chars), NEW b \in Seq(Chars), NEW c \in Seq(Chars),
         NEW m \in Chars, NEW e \in Seq(Chars)
  PROVE  PairFacts(a, b, c, m, e)
<1> DEFINE t == <<m>> \o e
           u == c \o t
           v == b \o u
           s == Pair(a, b, c, m, e)
           w == <<m>>
<1>0. w \in Seq(Chars) /\ Len(w) = 1 /\ w[1] = m
  BY Single
<1>1. t \in Seq(Chars) /\ Len(t) = 1 + Len(e) /\ t[1] = m /\ \A i \in 1..Len(e) : t[1 + i] = e[i]
  <2> HIDE DEF w
  <2>1. /\ w \o e \in Seq(Chars) /\ Len(w \o e) = Len(w) + Len(e)
        /\ \A i \in 1..Len(w) : (w \o e)[i] = w[i]
        /\ \A i \in 1..Len(e) : (w \o e)[Len(w) + i] = e[i]
    BY <1>0, Behind
  <2>2. (w \o e)[1] = m
    BY <1>0, <2>1
  <2>3. \A i \in 1..Len(e) : (w \o e)[1 + i] = e[i]
    BY <1>0, <2>1
  <2>4. Len(w \o e) = 1 + Len(e)
    BY <1>0, <2>1
  <2> QED
    BY <2>1, <2>2, <2>3, <2>4 DEF w
<1> HIDE DEF s
<1> HIDE DEF t
<1>2. /\ u \in Seq(Chars) /\ Len(u) = Len(c) + Len(t)
      /\ \A i \in 1..Len(c) : u[i] = c[i]
      /\ \A i \in 1..Len(t) : u[Len(c) + i] = t[i]
  BY <1>1, Behind
<1> HIDE DEF u
<1>3. /\ v \in Seq(Chars) /\ Len(v) = Len(b) + Len(u)
      /\ \A i \in 1..Len(b) : v[i] = b[i]
      /\ \A i \in 1..Len(u) : v[Len(b) + i] = u[i]
  BY <1>2, Behind
<1> HIDE DEF v
<1>4. s = a \o v
  BY DEF s, t, u, v, Pair
<1>5. /\ s \in Seq(Chars) /\ Len(s) = Len(a) + Len(v)
      /\ \A i \in 1..Len(a) : s[i] = a[i]
      /\ \A i \in 1..Len(v) : s[Len(a) + i] = v[i]
  BY <1>3, <1>4, Behind
<1>6. Len(a) \in Nat /\ Len(b) \in Nat /\ Len(c) \in Nat /\ Len(e) \in Nat
  OBVIOUS
<1>7. Len(u) = Len(c) + 1 + Len(e) /\ Len(v) = Len(b) + Len(c) + 1 + Len(e)
  BY <1>1, <1>2, <1>3, <1>6
<1>8. \A i \in 1..Len(b) : s[Len(a) + i] = b[i]
  BY <1>3, <1>5, <1>6, <1>7
<1>9. \A i \in 1..Len(u) : s[Len(a) + Len(b) + i] = u[i]
  <2> TAKE i \in 1..Len(u)
  <2>1. Len(b) + i \in 1..Len(v) /\ v[Len(b) + i] = u[i]
    BY <1>3, <1>6, <1>7
  <2>2. s[Len(a) + (Len(b) + i)] = v[Len(b) + i]
    BY <2>1, <1>5
  <2> QED
    BY <2>1, <2>2, <1>6, <1>7
<1>10. \A i \in 1..Len(c) : s[Len(a) + Len(b) + i] = c[i]
  BY <1>2, <1>6, <1>7, <1>9
<1>11. \A i \in 1..Len(t) : s[Len(a) + Len(b) + Len(c) + i] = t[i]
  <2> TAKE i \in 1..Len(t)
  <2>1. Len(c) + i \in 1..Len(u) /\ u[Len(c) + i] = t[i]
    BY <1>1, <1>2, <1>6, <1>7
  <2>2. s[Len(a) + Len(b) + (Len(c) + i)] = u[Len(c) + i]
    BY <2>1, <1>9
  <2> QED
    BY <2>1, <2>2, <1>1, <1>6
<1>12. s[Len(a) + Len(b) + Len(c) + 1] = m
  BY <1>1, <1>6, <1>11
<1>13. \A i \in 1..Len(e) : s[Len(a) + Len(b) + Len(c) + 1 + i] = e[i]
  <2> TAKE i \in 1..Len(e)
  <2>1. 1 + i \in 1..Len(t) /\ t[1 + i] = e[i]
    BY <1>1, <1>6
  <2>2. s[Len(a) + Len(b) + Len(c) + (1 + i)] = t[1 + i]
    BY <2>1, <1>11
  <2> QED
    BY <2>1, <2>2, <1>6
<1> QED
  <2>1. Len(s) = Len(a) + Len(b) + Len(c) + 1 + Len(e)
    BY <1>5, <1>6, <1>7
  <2> QED
    BY <2>1, <1>5, <1>8, <1>10, <1>12, <1>13 DEF s, PairFacts

-----------------------------------------------------------------------------
(* The form as a text. *)
DivOf(f) == f.at + Len(f.name)
EndOf(f) == DivOf(f) + 1 + Len(f.value)

FormTypeOK ==
  /\ part \in {"fields", "cookies"}
  /\ form \in Seq([name : Names, value : Values, at : Nat])
  /\ sent \in Seq(Chars)
  /\ it \in 0..last

(* A field stands in the text at its place. *)
WrittenAt(f) ==
  /\ 1 <= f.at /\ EndOf(f) <= last
  /\ \A i \in 1..Len(f.name) : sent[f.at + i - 1] = f.name[i]
  /\ sent[DivOf(f)] = "="
  /\ \A i \in 1..Len(f.value) :
       sent[DivOf(f) + i] = IF part = "fields" THEN escape(f.value[i]) ELSE f.value[i]

(* What follows a field: a mark and the next one, or the end. *)
FollowedBy(f, g) ==
  /\ g.at = EndOf(f) + Len(between)
  /\ EndOf(f) + Len(between) <= Len(sent)
  /\ sent[EndOf(f)] = IF part = "fields" THEN "&" ELSE ";"
  /\ part = "cookies" => sent[EndOf(f) + 1] = " "

FormLayout ==
  /\ \A i \in 1..Len(form) : WrittenAt(form[i])
  /\ \A i \in 1..(Len(form) - 1) : FollowedBy(form[i], form[i + 1])
  /\ IF form = <<>> THEN sent = <<>>
     ELSE form[1].at = 1 /\ EndOf(form[Len(form)]) = last

(* Where the reader is when it has read k fields. *)
After(k) == IF k = Len(form) THEN last ELSE form[k + 1].at

ReadSoFar ==
  /\ it = 0 => DOMAIN ret = {}
  /\ it > 0 /\ (part = "cookies" => NoSemicolon) =>
       \E k \in 0..Len(form) : it = After(k) /\ HoldsFirst(ret, k)

FormInv == FormTypeOK /\ FormLayout /\ ReadSoFar

(* Unescaping undoes escaping, and what is escaped has no '&'. *)
LEMMA EscapeUndone ==
  ASSUME NEW c, c \notin Escapes
  PROVE  escape(c) # "&" /\ resolved(escape(c)) = c
<1>1. CASE c = " "
  BY <1>1 DEF escape, unescape, resolved
<1>2. CASE c = "&"
  BY <1>2 DEF escape, unescape, resolved
<1>3. CASE c = "="
  BY <1>3 DEF escape, unescape, resolved
<1>4. CASE c = "+"
  BY <1>4 DEF escape, unescape, resolved
<1>5. CASE c = "%"
  BY <1>5 DEF escape, unescape, resolved
<1>6. CASE c = ";"
  BY <1>6 DEF escape, unescape, resolved
<1>7. CASE c \notin {" ", "&", "=", "+", "%", ";"}
  <2>1. escape(c) = c
    BY <1>7 DEF escape
  <2>2. unescape(c) = c
    BY DEF unescape, Escapes
  <2> QED
    BY <1>7, <2>1, <2>2 DEF resolved
<1> QED
  BY <1>1, <1>2, <1>3, <1>4, <1>5, <1>6, <1>7

LEMMA EscapeType ==
  ASSUME NEW c \in Chars
  PROVE  escape(c) \in Chars
  BY FieldsAssumption DEF escape, Escapes

(* What the lengths and places of a form come to. *)
LEMMA FieldTypes ==
  ASSUME FormTypeOK, NEW i \in 1..Len(form)
  PROVE  /\ form[i].name \in Seq(Chars) /\ form[i].value \in Seq(Chars)
         /\ form[i].name \in Names /\ form[i].value \in Values
         /\ Len(form[i].name) \in Nat \ {0} /\ Len(form[i].value) \in Nat
         /\ form[i].at \in Nat /\ Len(form) \in Nat /\ Len(sent) \in Nat
         /\ DivOf(form[i]) \in Nat /\ EndOf(form[i]) \in Nat
         /\ form[i].at < DivOf(form[i]) /\ DivOf(form[i]) < EndOf(form[i])
<1> DEFINE R == [name : Names, value : Values, at : Nat]
<1>0. form \in Seq(R) /\ sent \in Seq(Chars)
  BY DEF FormTypeOK
<1>1. form[i] \in R
  <2> HIDE DEF R
  <2> QED  BY <1>0
<1>2. /\ form[i].name \in Names /\ form[i].value \in Values /\ form[i].at \in Nat
      /\ form[i].name \in Seq(Chars) /\ form[i].value \in Seq(Chars)
  BY <1>1, FieldsAssumption
<1> HIDE DEF R
<1>3. Len(form[i].name) \in Nat /\ Len(form[i].value) \in Nat
  BY <1>2
<1>4. Len(form[i].name) > 0
  BY <1>2, FieldsAssumption
<1>5. Len(form) \in Nat /\ Len(sent) \in Nat
  BY <1>0
<1>6. /\ DivOf(form[i]) \in Nat /\ EndOf(form[i]) \in Nat
      /\ form[i].at < DivOf(form[i]) /\ DivOf(form[i]) < EndOf(form[i])
  <2> DEFINE a == form[i].at
             n == Len(form[i].name)
             v == Len(form[i].value)
  <2>1. a \in Nat /\ n \in Nat /\ n > 0 /\ v \in Nat
    BY <1>2, <1>3, <1>4
  <2>2. DivOf(form[i]) = a + n /\ EndOf(form[i]) = a + n + 1 + v
    BY DEF DivOf, EndOf
  <2> HIDE DEF a, n, v
  <2>3. a + n \in Nat /\ a + n + 1 + v \in Nat /\ a < a + n /\ a + n < a + n + 1 + v
    BY <2>1
  <2> QED
    BY <2>2, <2>3 DEF a
<1> QED
  BY <1>2, <1>3, <1>4, <1>5, <1>6

LEMMA FormInitInv == FormInit => FormInv
<1> SUFFICES ASSUME FormInit PROVE FormInv
  OBVIOUS
<1>1. Len(form) = 0 /\ Len(sent) = 0
  BY DEF FormInit
<1>2. FormTypeOK
  BY <1>1 DEF FormInit, FormTypeOK, last
<1>3. FormLayout
  BY <1>1 DEF FormInit, FormLayout
<1>4. ReadSoFar
  BY DEF FormInit, ReadSoFar
<1> QED
  BY <1>2, <1>3, <1>4 DEF FormInv

(* The mark at the end of a field. *)
EndMark == IF part = "fields" THEN "&" ELSE ";"

(* No mark of its end stands in a field. *)
LEMMA NoEndMarkInside ==
  ASSUME FormTypeOK, FormLayout, part = "cookies" => NoSemicolon,
         NEW i \in 1..Len(form), NEW j \in form[i].at..(EndOf(form[i]) - 1)
  PROVE  sent[j] # EndMark
<1> DEFINE f == form[i]
           a == f.at
           n == Len(f.name)
           v == Len(f.value)
<1>1. /\ a \in Nat /\ n \in Nat /\ v \in Nat /\ DivOf(f) = a + n /\ EndOf(f) = a + n + 1 + v
      /\ f.name \in Names /\ f.value \in Values /\ f.name \in Seq(Chars) /\ f.value \in Seq(Chars)
  BY FieldTypes DEF DivOf, EndOf
<1>2. /\ \A p \in 1..n : sent[a + p - 1] = f.name[p]
      /\ sent[DivOf(f)] = "="
      /\ \A p \in 1..v :
           sent[DivOf(f) + p] = IF part = "fields" THEN escape(f.value[p]) ELSE f.value[p]
  BY DEF FormLayout, WrittenAt
<1>3. \A p \in 1..n : f.name[p] \notin {"&", "=", "+", "%", ";", " "}
  BY <1>1, FieldsAssumption
<1>4. \A p \in 1..v : f.value[p] \notin Escapes
  BY <1>1, FieldsAssumption
<1>5. part \in {"fields", "cookies"}
  BY DEF FormTypeOK
<1>6. part = "cookies" => \A p \in 1..v : f.value[p] # ";"
  BY DEF NoSemicolon
<1>7. EndMark \in {"&", ";"} /\ (part = "fields" => EndMark = "&") /\ (part = "cookies" => EndMark = ";")
  BY <1>5 DEF EndMark
<1>8. j \in a..(a + n + v)
  BY <1>1
<1> HIDE DEF f, a, n, v
<1>9. CASE j < a + n
  <2>1. j - a + 1 \in 1..n /\ a + (j - a + 1) - 1 = j
    BY <1>1, <1>8, <1>9
  <2>2. sent[j] = f.name[j - a + 1]
    BY <1>2, <2>1
  <2> QED
    BY <1>3, <1>7, <2>1, <2>2
<1>10. CASE j = a + n
  BY <1>1, <1>2, <1>7, <1>10
<1>11. CASE j > a + n
  <2>1. j - (a + n) \in 1..v /\ (a + n) + (j - (a + n)) = j
    BY <1>1, <1>8, <1>11
  <2> DEFINE c == f.value[j - (a + n)]
  <2>2. sent[j] = IF part = "fields" THEN escape(c) ELSE c
    BY <1>1, <1>2, <2>1
  <2>3. c \notin Escapes /\ (part = "cookies" => c # ";")
    BY <1>4, <1>6, <2>1
  <2> HIDE DEF c
  <2>4. escape(c) # "&"
    BY <2>3, EscapeUndone
  <2> QED
    BY <1>5, <1>7, <2>2, <2>3, <2>4
<1> QED
  BY <1>1, <1>8, <1>9, <1>10, <1>11

(* What a turn of either loop finds from the start of a field on. *)
LEMMA FieldFound ==
  ASSUME FormTypeOK, FormLayout, part = "cookies" => NoSemicolon, NEW i \in 1..Len(form)
  PROVE  /\ findIn(sent, form[i].at, last, EndMark) = EndOf(form[i])
         /\ findIn(sent, form[i].at, EndOf(form[i]), "=") = DivOf(form[i])
         /\ SubSeq(sent, form[i].at, DivOf(form[i]) - 1) = form[i].name
         /\ past(EndOf(form[i])) = IF i = Len(form) THEN last ELSE EndOf(form[i]) + 1
<1> DEFINE f == form[i]
           a == f.at
           n == Len(f.name)
           v == Len(f.value)
<1>1. /\ a \in Nat /\ n \in Nat /\ v \in Nat /\ DivOf(f) = a + n /\ EndOf(f) = a + n + 1 + v
      /\ f.name \in Names /\ f.name \in Seq(Chars) /\ Len(form) \in Nat /\ Len(sent) \in Nat
  BY FieldTypes DEF DivOf, EndOf
<1>2. /\ \A p \in 1..n : sent[a + p - 1] = f.name[p]
      /\ sent[DivOf(f)] = "="
      /\ 1 <= a /\ EndOf(f) <= last
  BY DEF FormLayout, WrittenAt
<1>3. i = Len(form) => EndOf(f) = last
  BY DEF FormLayout
<1>4. i # Len(form) => EndOf(f) <= Len(sent) /\ sent[EndOf(f)] = EndMark
  <2> SUFFICES ASSUME i # Len(form) PROVE EndOf(f) <= Len(sent) /\ sent[EndOf(f)] = EndMark
    OBVIOUS
  <2>1. i \in 1..(Len(form) - 1)
    BY <1>1
  <2>2. FollowedBy(f, form[i + 1])
    BY <2>1 DEF FormLayout
  <2>3. Len(between) \in Nat
    BY DEF between
  <2>4. EndOf(f) + Len(between) <= Len(sent) /\ sent[EndOf(f)] = EndMark
    BY <2>2 DEF FollowedBy, EndMark
  <2>5. EndOf(f) \in Nat /\ Len(sent) \in Nat
    BY <1>1
  <2> QED
    BY <2>3, <2>4, <2>5
<1>5. \A j \in a..(EndOf(f) - 1) : sent[j] # EndMark
  BY NoEndMarkInside
<1>6. \A p \in 1..n : f.name[p] \notin {"&", "=", "+", "%", ";", " "}
  BY <1>1, FieldsAssumption
<1>7. sent \in Seq(Chars)
  BY DEF FormTypeOK
<1> HIDE DEF f, a, n, v
<1>8. last \in Int /\ EndOf(f) \in a..last /\ DivOf(f) \in a..EndOf(f)
  BY <1>1, <1>2 DEF last
<1>9. findIn(sent, a, last, EndMark) = EndOf(f)
  <2>1. a \in Int
    BY <1>1
  <2>2. EndOf(f) = last \/ sent[EndOf(f)] = EndMark
    BY <1>3, <1>4
  <2> QED
    BY <1>5, <1>8, <2>1, <2>2, FindInIs
<1>10. \A j \in a..(DivOf(f) - 1) : sent[j] # "="
  <2> TAKE j \in a..(DivOf(f) - 1)
  <2>1. j - a + 1 \in 1..n /\ a + (j - a + 1) - 1 = j
    BY <1>1
  <2> QED
    BY <1>2, <1>6, <2>1
<1>11. findIn(sent, a, EndOf(f), "=") = DivOf(f)
  <2>1. a \in Int /\ EndOf(f) \in Int
    BY <1>1
  <2>2. sent[DivOf(f)] = "="
    BY <1>2
  <2> QED
    BY <1>8, <1>10, <2>1, <2>2, FindInIs
<1>12. SubSeq(sent, a, DivOf(f) - 1) = f.name
  <2>1. a \in 1..(Len(sent) + 1) /\ a + n <= Len(sent) + 1
    BY <1>1, <1>2 DEF last
  <2>2. SubSeq(sent, a, a + Len(f.name) - 1) = f.name
    BY <1>1, <1>2, <1>7, <2>1, PieceIs DEF n
  <2> QED
    BY <1>1, <2>2 DEF n
<1>13. past(EndOf(f)) = IF i = Len(form) THEN last ELSE EndOf(f) + 1
  <2>1. i # Len(form) => EndOf(f) # last
    BY <1>1, <1>4 DEF last
  <2> QED
    BY <1>3, <2>1 DEF past
<1> QED
  BY <1>9, <1>11, <1>12, <1>13 DEF f, a

(* The map with one field more. *)
LEMMA OneMore ==
  ASSUME NEW k \in Nat, NEW m, HoldsFirst(m, k)
  PROVE  HoldsFirst(put(m, form[k + 1].name, form[k + 1].value), k + 1)
<1> DEFINE id == form[k + 1].name
           w  == put(m, id, form[k + 1].value)
<1>1. DOMAIN w = DOMAIN m \cup {id}
  BY DEF put
<1>2. \A n \in DOMAIN m \cup {id} : w[n] = IF n = id THEN form[k + 1].value ELSE m[n]
  BY DEF put
<1> HIDE DEF w
<1>3. DOMAIN w = {form[i].name : i \in 1..(k + 1)}
  <2>1. {form[i].name : i \in 1..(k + 1)} = {form[i].name : i \in 1..k} \cup {form[k + 1].name}
    OBVIOUS
  <2> QED
    BY <1>1, <2>1 DEF HoldsFirst
<1>4. ASSUME NEW i \in 1..(k + 1),
             \A j \in (i + 1)..(k + 1) : form[j].name # form[i].name
      PROVE  w[form[i].name] = form[i].value
  <2>1. CASE i = k + 1
    BY <1>2, <2>1
  <2>2. CASE i # k + 1
    <3>1. i \in 1..k /\ form[i].name # id
      BY <1>4, <2>2
    <3>2. form[i].name \in DOMAIN m
      BY <3>1 DEF HoldsFirst
    <3>3. m[form[i].name] = form[i].value
      BY <1>4, <3>1 DEF HoldsFirst
    <3> QED
      BY <1>2, <3>1, <3>2, <3>3
  <2> QED
    BY <2>1, <2>2
<1> QED
  BY <1>3, <1>4 DEF HoldsFirst, w

(* A step that leaves the form and its text alone keeps their layout. *)
LEMMA LayoutKept ==
  ASSUME FormLayout, UNCHANGED <<part, form, sent>>
  PROVE  FormLayout'
  BY DEF FormLayout, WrittenAt, FollowedBy, EndOf, DivOf, last, between

(* A reader that is within the text is at the start of a field. *)
LEMMA AtField ==
  ASSUME FormInv, it > 0, it # last, part = "cookies" => NoSemicolon
  PROVE  \E k \in 0..(Len(form) - 1) : it = form[k + 1].at /\ HoldsFirst(ret, k)
<1>1. PICK k \in 0..Len(form) : it = After(k) /\ HoldsFirst(ret, k)
  BY DEF FormInv, ReadSoFar
<1>2. k # Len(form)
  BY <1>1 DEF After
<1>3. Len(form) \in Nat
  BY DEF FormInv, FormTypeOK
<1>4. k \in 0..(Len(form) - 1)
  BY <1>2, <1>3
<1> QED
  BY <1>1, <1>2, <1>4 DEF After

(* When a turn has put field k + 1 into the map and goes on behind it, the  *)
(* loop invariant holds of the first k + 1 fields.                          *)
LEMMA TurnDone ==
  ASSUME FormInv, UNCHANGED <<part, form, sent>>,
         NEW k \in 0..(Len(form) - 1), HoldsFirst(ret, k),
         ret' = put(ret, form[k + 1].name, form[k + 1].value),
         it' = After(k + 1)
  PROVE  FormInv'
<1>1. FormLayout'
  BY LayoutKept DEF FormInv
<1>2. k \in Nat /\ k + 1 \in 0..Len(form) /\ Len(form) \in Nat /\ Len(sent) \in Nat
  BY DEF FormInv, FormTypeOK
<1>3. HoldsFirst(put(ret, form[k + 1].name, form[k + 1].value), k + 1)
  BY <1>2, OneMore
<1>4. After(k + 1) \in 1..last
  <2>1. CASE k + 1 = Len(form)
    BY <1>2, <2>1 DEF After, last
  <2>2. CASE k + 1 # Len(form)
    <3>1. k + 2 \in 1..Len(form) /\ k + 1 + 1 = k + 2
      BY <1>2, <2>2
    <3>2. WrittenAt(form[k + 2]) /\ form[k + 2].at \in Nat /\ EndOf(form[k + 2]) \in Nat
          /\ form[k + 2].at < DivOf(form[k + 2]) /\ DivOf(form[k + 2]) < EndOf(form[k + 2])
          /\ DivOf(form[k + 2]) \in Nat
      BY <3>1, FieldTypes DEF FormInv, FormLayout
    <3>3. 1 <= form[k + 2].at /\ EndOf(form[k + 2]) <= last
      BY <3>2 DEF WrittenAt
    <3>4. After(k + 1) = form[k + 2].at
      BY <2>2, <3>1 DEF After
    <3>5. last \in Nat
      BY <1>2 DEF last
    <3> QED
      BY <3>2, <3>3, <3>4, <3>5
  <2> QED
    BY <2>1, <2>2
<1>5. FormTypeOK'
  <2>1. it' \in 0..last
    BY <1>2, <1>4 DEF last
  <2> QED
    BY <2>1 DEF FormInv, FormTypeOK, last
<1>6. ReadSoFar'
  <2>1. it' > 0 /\ it' # 0
    BY <1>4 DEF last
  <2>2. it' = After(k + 1)' /\ HoldsFirst(ret, k + 1)'
    BY <1>3 DEF After, last, HoldsFirst
  <2>3. k + 1 \in 0..Len(form')
    BY <1>2
  <2> QED
    BY <2>1, <2>2, <2>3 DEF ReadSoFar
<1> QED
  BY <1>1, <1>5, <1>6 DEF FormInv

LEMMA ReadFieldStep ==
  ASSUME FormInv, readField
  PROVE  FormInv'
<1>1. part = "fields" /\ it > 0 /\ it # last /\ UNCHANGED <<part, form, sent>>
  BY DEF readField
<1>2. PICK k \in 0..(Len(form) - 1) : it = form[k + 1].at /\ HoldsFirst(ret, k)
  BY <1>1, AtField
<1>3. Len(form) \in Nat /\ k + 1 \in 1..Len(form)
  BY DEF FormInv, FormTypeOK
<1> DEFINE f == form[k + 1]
<1>4. EndMark = "&"
  BY <1>1 DEF EndMark
<1>5. /\ findIn(sent, it, last, "&") = EndOf(f)
      /\ findIn(sent, it, EndOf(f), "=") = DivOf(f)
      /\ SubSeq(sent, it, DivOf(f) - 1) = f.name
      /\ past(EndOf(f)) = IF k + 1 = Len(form) THEN last ELSE EndOf(f) + 1
  BY <1>1, <1>2, <1>3, <1>4, FieldFound DEF FormInv
<1>6. /\ DivOf(f) \in Nat /\ EndOf(f) = DivOf(f) + 1 + Len(f.value) /\ Len(f.value) \in Nat
      /\ f.value \in Seq(Chars) /\ f.value \in Values
  BY <1>3, FieldTypes DEF FormInv, EndOf
<1>7. \A p \in 1..Len(f.value) : resolved(sent[DivOf(f) + p]) = f.value[p]
  <2> TAKE p \in 1..Len(f.value)
  <2>1. sent[DivOf(f) + p] = escape(f.value[p])
    BY <1>1, <1>3 DEF FormInv, FormLayout, WrittenAt
  <2>2. f.value[p] \notin Escapes
    BY <1>6, FieldsAssumption
  <2> QED
    BY <2>1, <2>2, EscapeUndone
<1> DEFINE v == IF DivOf(f) # EndOf(f) /\ EndOf(f) - DivOf(f) - 1 # 0
                THEN [p \in 1..(EndOf(f) - DivOf(f) - 1) |-> resolved(sent[DivOf(f) + p])]
                ELSE <<>>
<1>8. ret' = put(ret, f.name, v) /\ it' = past(EndOf(f))
  BY <1>5 DEF readField
<1>9. v = f.value
  <2>1. DivOf(f) # EndOf(f) /\ EndOf(f) - DivOf(f) - 1 = Len(f.value)
    BY <1>6
  <2>2. CASE Len(f.value) = 0
    <3>1. f.value = <<>>
      BY <1>6, <2>2
    <3> QED
      BY <2>1, <2>2, <3>1
  <2>3. CASE Len(f.value) # 0
    <3>1. v = [p \in 1..Len(f.value) |-> resolved(sent[DivOf(f) + p])]
      BY <2>1, <2>3
    <3>2. v = [p \in 1..Len(f.value) |-> f.value[p]]
      BY <3>1, <1>7
    <3> QED
      BY <3>2, <1>6
  <2> QED
    BY <2>2, <2>3
<1>10. past(EndOf(f)) = After(k + 1)
  <2>1. CASE k + 1 = Len(form)
    BY <1>5, <2>1 DEF After
  <2>2. CASE k + 1 # Len(form)
    <3>1. FollowedBy(f, form[k + 2]) /\ k + 1 + 1 = k + 2
      BY <1>3, <2>2 DEF FormInv, FormLayout
    <3>2. Len(between) = 1
      BY <1>1 DEF between
    <3> QED
      BY <1>5, <2>2, <3>1, <3>2 DEF After, FollowedBy
  <2> QED
    BY <2>1, <2>2
<1> QED
  BY <1>1, <1>2, <1>8, <1>9, <1>10, TurnDone

(* Cookies: the white space behind a ';' is skipped up to the next name. *)
LEMMA SpaceSkipped ==
  ASSUME FormTypeOK, FormLayout, part = "cookies", NoSemicolon, NEW i \in 1..Len(form)
  PROVE  skipSpace(past(EndOf(form[i]))) = After(i)
<1> DEFINE n == Len(sent)
           e == EndOf(form[i])
<1>1. Len(form) \in Nat /\ n \in Nat /\ e \in Nat /\ last = n + 1
  BY FieldTypes DEF last
<1>2. past(e) = IF i = Len(form) THEN last ELSE e + 1
  BY FieldFound
<1>3. CASE i = Len(form)
  <2>1. last \in Int /\ last \in last..last /\ \A j \in last..(last - 1) : FALSE
    BY <1>1
  <2>2. skipSpace(last) = last
    BY <2>1, FindAnyIs DEF skipSpace
  <2> QED
    BY <1>2, <1>3, <2>2 DEF After
<1>4. CASE i # Len(form)
  <2> DEFINE g == form[i + 1]
  <2>1. i + 1 \in 1..Len(form) /\ i \in 1..(Len(form) - 1)
    BY <1>1, <1>4
  <2>2. FollowedBy(form[i], g)
    BY <2>1 DEF FormLayout
  <2>3. Len(between) = 2
    BY DEF between
  <2>4. g.at = e + 2 /\ e + 2 <= n /\ sent[e + 1] = " "
    BY <2>2, <2>3 DEF FollowedBy
  <2>5. g.name \in Names /\ g.at \in Nat
    BY <2>1, FieldTypes
  <2>6. \A p \in 1..Len(g.name) : sent[g.at + p - 1] = g.name[p]
    BY <2>1 DEF FormLayout, WrittenAt
  <2>7. 1 \in 1..Len(g.name) /\ g.name[1] # " "
    <3>1. Len(g.name) \in Nat /\ Len(g.name) > 0
      BY <2>1, FieldTypes
    <3>2. 1 \in 1..Len(g.name)
      BY <3>1
    <3>3. \A p \in 1..Len(g.name) : g.name[p] \notin {"&", "=", "+", "%", ";", " "}
      BY <2>5, FieldsAssumption
    <3>4. g.name[1] \notin {"&", "=", "+", "%", ";", " "}
      BY <3>2, <3>3
    <3> QED
      BY <3>2, <3>4
  <2>8. e + 2 \in Nat /\ e + 1 \in Int /\ last \in Int
        /\ e + 2 \in (e + 1)..last /\ \A j \in (e + 1)..(e + 2 - 1) : j = e + 1
    <3>1. e + 2 <= n
      BY <2>4
    <3> HIDE DEF e, n
    <3>2. last \in Int /\ e + 2 <= last
      BY <1>1, <3>1
    <3> QED
      BY <1>1, <3>2
  <2>9. sent[e + 2] # " " /\ sent[e + 2] \in Chars
    <3>1. sent[g.at + 1 - 1] = g.name[1]
      BY <2>6, <2>7
    <3>2. sent[e + 2] = g.name[1]
      <4>1. g.at + 1 - 1 = g.at
        BY <2>5
      <4> QED
        BY <2>4, <3>1, <4>1
    <3>3. g.name[1] \in Chars
      <4>1. g.name \in Seq(Chars)
        BY <2>5, FieldsAssumption
      <4> DEFINE w == g.name
      <4>2. w \in Seq(Chars) /\ 1 \in 1..Len(w)
        BY <2>7, <4>1
      <4> HIDE DEF w
      <4>3. w[1] \in Chars
        BY <4>2
      <4> QED
        BY <4>3 DEF w
    <3> QED
      BY <2>7, <3>2, <3>3
  <2>10. After(i) = e + 2
    BY <1>4, <2>4 DEF After
  <2>11. past(e) = e + 1
    BY <1>2, <1>4
  <2> HIDE DEF e
  <2>12. skipSpace(e + 1) = e + 2
    <3> DEFINE marks == Chars \ {" "}
               b == e + 1
               q == e + 2
    <3>1. b \in Int /\ last \in Int /\ q \in b..last
      BY <2>8
    <3>2. sent[q] \in marks
      BY <2>9
    <3>3. \A j \in b..(q - 1) : j = b
      <4>1. b \in Int /\ q = b + 1
        <5> HIDE DEF e
        <5> QED  BY <1>1
      <4> HIDE DEF b, q
      <4> QED
        BY <4>1
    <3>4. sent[b] \notin marks
      BY <2>4
    <3> HIDE DEF b, q, marks
    <3>5. \A j \in b..(q - 1) : sent[j] \notin marks
      BY <3>3, <3>4
    <3>6. findAny(sent, b, last, marks) = q
      BY <3>1, <3>2, <3>5, FindAnyIs
    <3> QED
      BY <3>6 DEF marks, b, q, skipSpace
  <2> QED
    BY <2>10, <2>11, <2>12 DEF e
<1> QED
  BY <1>3, <1>4

(* Wherever a turn of the cookie loop goes, it stays within the text. *)
LEMMA CookieTurnWithin ==
  ASSUME FormTypeOK, readCookie
  PROVE  it' \in 1..last
<1> DEFINE e == findIn(sent, it, last, ";")
<1>1. it \in Nat /\ last \in Nat /\ it <= last /\ it > 0 /\ Len(sent) \in Nat /\ last = Len(sent) + 1
  <2>1. sent \in Seq(Chars) /\ it \in 0..last /\ it > 0
    BY DEF FormTypeOK, readCookie
  <2>2. Len(sent) \in Nat /\ last = Len(sent) + 1
    BY <2>1 DEF last
  <2> QED
    BY <2>1, <2>2
<1>2. e \in it..last
  BY <1>1, FindAnyRange DEF findIn
<1>3. past(e) \in 1..last
  <2> HIDE DEF e
  <2> QED
    BY <1>1, <1>2 DEF past
<1>4. \A b \in 1..last : skipSpace(b) \in 1..last
  <2> TAKE b \in 1..last
  <2>1. b \in Nat /\ b <= last /\ b >= 1
    BY <1>1
  <2>2. skipSpace(b) \in b..last
    BY <1>1, <2>1, FindAnyRange DEF skipSpace
  <2> QED
    BY <1>1, <2>1, <2>2
<1>5. it' = past(e) \/ it' = skipSpace(past(e))
  BY DEF readCookie
<1> QED
  BY <1>3, <1>4, <1>5

LEMMA ReadCookieStep ==
  ASSUME FormInv, readCookie
  PROVE  FormInv'
<1>1. part = "cookies" /\ it > 0 /\ it # last /\ UNCHANGED <<part, form, sent>>
  BY DEF readCookie
<1>2. CASE ~NoSemicolon
  <2>1. it' \in 1..last
    BY CookieTurnWithin DEF FormInv
  <2>2. FormTypeOK'
    <3>1. it' \in 0..last
      BY <2>1 DEF FormInv, FormTypeOK, last
    <3> QED
      BY <1>1, <3>1 DEF FormInv, FormTypeOK, last
  <2>3. FormLayout'
    BY <1>1, LayoutKept DEF FormInv
  <2>4. ~NoSemicolon' /\ part' = "cookies"
    BY <1>1, <1>2 DEF NoSemicolon
  <2>5. it' # 0
    BY <2>1
  <2>6. ReadSoFar'
    BY <2>4, <2>5 DEF ReadSoFar
  <2> QED
    BY <2>2, <2>3, <2>6 DEF FormInv
<1>3. CASE NoSemicolon
  <2>1. PICK k \in 0..(Len(form) - 1) : it = form[k + 1].at /\ HoldsFirst(ret, k)
    BY <1>1, <1>3, AtField
  <2>2. Len(form) \in Nat /\ k + 1 \in 1..Len(form)
    BY DEF FormInv, FormTypeOK
  <2> DEFINE f == form[k + 1]
  <2>3. EndMark = ";"
    BY <1>1 DEF EndMark
  <2>4. /\ findIn(sent, it, last, ";") = EndOf(f)
        /\ findIn(sent, it, EndOf(f), "=") = DivOf(f)
        /\ SubSeq(sent, it, DivOf(f) - 1) = f.name
    BY <1>3, <2>1, <2>2, <2>3, FieldFound DEF FormInv
  <2>5. /\ DivOf(f) \in Nat /\ EndOf(f) = DivOf(f) + 1 + Len(f.value) /\ Len(f.value) \in Nat
        /\ f.value \in Seq(Chars) /\ f.at < DivOf(f) /\ f.at \in Nat
    BY <2>2, FieldTypes DEF FormInv, EndOf
  <2>6. it # DivOf(f) /\ DivOf(f) # EndOf(f)
    BY <2>1, <2>5
  <2>7. /\ ret' = put(ret, f.name, SubSeq(sent, DivOf(f) + 1, EndOf(f) - 1))
        /\ it' = skipSpace(past(EndOf(f)))
    BY <2>4, <2>6 DEF readCookie
  <2>8. SubSeq(sent, DivOf(f) + 1, EndOf(f) - 1) = f.value
    <3> DEFINE b == DivOf(f) + 1
    <3>1. EndOf(f) <= last /\ last = Len(sent) + 1 /\ Len(sent) \in Nat /\ sent \in Seq(Chars)
      BY <2>2 DEF FormInv, FormLayout, WrittenAt, FormTypeOK, last
    <3>2. \A p \in 1..Len(f.value) : sent[DivOf(f) + p] = f.value[p]
      BY <1>1, <2>2 DEF FormInv, FormLayout, WrittenAt
    <3>3. b \in 1..(Len(sent) + 1) /\ b + Len(f.value) <= Len(sent) + 1 /\ EndOf(f) - 1 = b + Len(f.value) - 1
      BY <2>5, <3>1
    <3>4. \A p \in 1..Len(f.value) : sent[b + p - 1] = f.value[p]
      <4> TAKE p \in 1..Len(f.value)
      <4>1. b + p - 1 = DivOf(f) + p
        BY <2>5
      <4> QED
        BY <3>2, <4>1
    <3> HIDE DEF b
    <3>5. SubSeq(sent, b, b + Len(f.value) - 1) = f.value
      BY <2>5, <3>1, <3>3, <3>4, PieceIs
    <3> QED
      BY <3>3, <3>5 DEF b
  <2>9. it' = After(k + 1)
    BY <1>1, <1>3, <2>2, <2>7, SpaceSkipped DEF FormInv
  <2> QED
    BY <1>1, <2>1, <2>7, <2>8, <2>9, TurnDone
<1> QED
  BY <1>2, <1>3

LEMMA BetweenType ==
  ASSUME FormTypeOK
  PROVE  /\ between \in Seq(Chars) /\ Len(between) \in Nat \ {0}
         /\ between[1] = EndMark
         /\ part = "cookies" => Len(between) = 2 /\ between[2] = " "
<1>1. "&" \in Chars /\ ";" \in Chars /\ " " \in Chars
  BY FieldsAssumption
<1>2. part \in {"fields", "cookies"}
  BY DEF FormTypeOK
<1>3. CASE part = "fields"
  <2>1. <<"&">> \in Seq(Chars) /\ Len(<<"&">>) = 1 /\ <<"&">>[1] = "&"
    BY <1>1, Single
  <2>2. between = <<"&">> /\ EndMark = "&" /\ part # "cookies"
    BY <1>3 DEF between, EndMark
  <2>3. between \in Seq(Chars) /\ Len(between) = 1 /\ between[1] = EndMark
    BY <2>1, <2>2, Zenon
  <2>4. Len(between) \in Nat \ {0}
    BY <2>3
  <2> QED
    BY <2>2, <2>3, <2>4
<1>4. CASE part = "cookies"
  <2>1. /\ <<";", " ">> \in Seq(Chars) /\ Len(<<";", " ">>) = 2
        /\ <<";", " ">>[1] = ";" /\ <<";", " ">>[2] = " "
    BY <1>1, Two
  <2>2. between = <<";", " ">> /\ EndMark = ";"
    BY <1>4 DEF between, EndMark
  <2>3. between \in Seq(Chars) /\ Len(between) = 2 /\ between[1] = EndMark /\ between[2] = " "
    BY <2>1, <2>2, Zenon
  <2>4. 2 \in Nat \ {0}
    OBVIOUS
  <2> QED
    BY <2>3, <2>4, Zenon
<1> QED
  BY <1>2, <1>3, <1>4

(* A field that stands in the text still does when more text is behind it. *)
LEMMA StillWritten ==
  ASSUME FormTypeOK, NEW i \in 1..Len(form), WrittenAt(form[i]), part' = part,
         sent' \in Seq(Chars), Len(sent) <= Len(sent'),
         \A j \in 1..Len(sent) : sent'[j] = sent[j],
         form'[i] = form[i]
  PROVE  WrittenAt(form[i])'
<1> DEFINE f == form[i]
           a == f.at
           n == Len(f.name)
           v == Len(f.value)
           m == Len(sent)
<1>1. /\ a \in Nat /\ n \in Nat /\ v \in Nat /\ m \in Nat /\ Len(sent') \in Nat
      /\ DivOf(f) = a + n /\ EndOf(f) = a + n + 1 + v
  BY FieldTypes DEF DivOf, EndOf
<1>2. /\ 1 <= a /\ EndOf(f) <= m + 1
      /\ \A p \in 1..n : sent[a + p - 1] = f.name[p]
      /\ sent[DivOf(f)] = "="
      /\ \A p \in 1..v : sent[DivOf(f) + p] = IF part = "fields" THEN escape(f.value[p]) ELSE f.value[p]
  BY DEF WrittenAt, last
<1>3. (f.at)' = a /\ (f.name)' = f.name /\ (f.value)' = f.value /\ DivOf(f)' = DivOf(f) /\ EndOf(f)' = EndOf(f)
  BY DEF DivOf, EndOf
<1>4. EndOf(f) <= Len(sent') + 1
  <2> HIDE DEF f, m
  <2> QED
    BY <1>1, <1>2 DEF m
<1>5. \A p \in 1..n : a + p - 1 \in 1..m
  <2> HIDE DEF f, a, n, v, m
  <2> QED
    BY <1>1, <1>2
<1>6. DivOf(f) \in 1..m
  <2> HIDE DEF f, a, n, v, m
  <2> QED
    BY <1>1, <1>2
<1>7. \A p \in 1..v : DivOf(f) + p \in 1..m
  <2> HIDE DEF f, a, n, v, m
  <2> QED
    BY <1>1, <1>2
<1>8. \A p \in 1..n : sent'[a + p - 1] = f.name[p]
  BY <1>2, <1>5
<1>9. sent'[DivOf(f)] = "="
  BY <1>2, <1>6
<1>10. \A p \in 1..v : sent'[DivOf(f) + p] = IF part = "fields" THEN escape(f.value[p]) ELSE f.value[p]
  BY <1>2, <1>7
<1> QED
  BY <1>2, <1>3, <1>4, <1>8, <1>9, <1>10 DEF WrittenAt, last

LEMMA FillInStep ==
  ASSUME FormInv, NEW name \in Names, NEW v \in Values, fillIn(name, v)
  PROVE  FormInv'
<1> DEFINE gap == IF form = <<>> THEN <<>> ELSE between
           w   == written(v)
           f   == [name |-> name, value |-> v, at |-> Len(sent) + Len(gap) + 1]
           N   == Len(form)
           m   == Len(sent)
           R   == [name : Names, value : Values, at : Nat]
<1>1. /\ it = 0 /\ UNCHANGED <<part, it, ret>>
      /\ form' = Append(form, f)
      /\ sent' = Pair(sent, gap, name, "=", w)
  BY DEF fillIn, Pair
<1>2. /\ FormTypeOK /\ FormLayout /\ ReadSoFar
      /\ sent \in Seq(Chars) /\ form \in Seq(R) /\ part \in {"fields", "cookies"}
      /\ m \in Nat /\ N \in Nat
  BY DEF FormInv, FormTypeOK
<1>3. /\ name \in Seq(Chars) /\ v \in Seq(Chars) /\ Len(name) \in Nat /\ Len(v) \in Nat
      /\ "=" \in Chars /\ Len(name) > 0
  <2>1. name \in Seq(Chars) /\ v \in Seq(Chars) /\ Len(name) > 0
    BY FieldsAssumption
  <2>2. "=" \in Chars
    BY FieldsAssumption
  <2> QED
    BY <2>1, <2>2
<1>4. gap \in Seq(Chars) /\ Len(gap) \in Nat /\ (N = 0 => Len(gap) = 0)
  <2>2. between \in Seq(Chars)
    BY <1>2, BetweenType
  <2>3. N = 0 => form = <<>>
    BY <1>2
  <2> QED
    BY <2>2, <2>3
<1>5. w \in Seq(Chars) /\ Len(w) = Len(v)
      /\ \A p \in 1..Len(v) : w[p] = IF part = "fields" THEN escape(v[p]) ELSE v[p]
  <2>1. \A p \in 1..Len(v) : v[p] \in Chars /\ escape(v[p]) \in Chars
    BY <1>3, EscapeType
  <2>2. w = [p \in 1..Len(v) |-> IF part = "fields" THEN escape(v[p]) ELSE v[p]]
    BY DEF written
  <2> QED
    BY <1>3, <2>1, <2>2
<1> HIDE DEF w, gap
<1>6. /\ sent' \in Seq(Chars)
      /\ Len(sent') = m + Len(gap) + Len(name) + 1 + Len(v)
      /\ \A i \in 1..m : sent'[i] = sent[i]
      /\ \A i \in 1..Len(gap) : sent'[m + i] = gap[i]
      /\ \A i \in 1..Len(name) : sent'[m + Len(gap) + i] = name[i]
      /\ sent'[m + Len(gap) + Len(name) + 1] = "="
      /\ \A i \in 1..Len(v) : sent'[m + Len(gap) + Len(name) + 1 + i] = w[i]
  <2> DEFINE c == "="
             P == Pair(sent, gap, name, c, w)
  <2>0. sent \in Seq(Chars) /\ gap \in Seq(Chars) /\ name \in Seq(Chars) /\ c \in Chars /\ w \in Seq(Chars)
    BY <1>2, <1>3, <1>4, <1>5
  <2>1. /\ P \in Seq(Chars)
        /\ Len(P) = Len(sent) + Len(gap) + Len(name) + 1 + Len(w)
        /\ \A i \in 1..Len(sent) : P[i] = sent[i]
        /\ \A i \in 1..Len(gap) : P[Len(sent) + i] = gap[i]
        /\ \A i \in 1..Len(name) : P[Len(sent) + Len(gap) + i] = name[i]
        /\ P[Len(sent) + Len(gap) + Len(name) + 1] = c
        /\ \A i \in 1..Len(w) : P[Len(sent) + Len(gap) + Len(name) + 1 + i] = w[i]
    <3> HIDE DEF c
    <3>1. PairFacts(sent, gap, name, c, w)
      BY <2>0, PairBehind
    <3> QED
      BY <3>1 DEF PairFacts
  <2>2. sent' = P
    BY <1>1
  <2> HIDE DEF P
  <2> QED
    BY <1>5, <2>1, <2>2
<1>7. f \in R
  BY <1>2, <1>4
<1>8. /\ form' \in Seq(R) /\ Len(form') = N + 1 /\ form'[N + 1] = f
      /\ \A i \in 1..N : form'[i] = form[i]
  <2> HIDE DEF f, R
  <2> QED
    BY <1>1, <1>2, <1>7
<1>9. Len(sent') \in Nat /\ m <= Len(sent')
  <2> HIDE DEF m
  <2> QED
    BY <1>2, <1>3, <1>4, <1>6
<1>10. FormTypeOK'
  <2>1. it' \in 0..last'
    BY <1>1, <1>9 DEF last
  <2> QED
    BY <1>1, <1>2, <1>6, <1>8, <2>1 DEF FormTypeOK
<1>11. \A i \in 1..N : WrittenAt(form[i])'
  <2> TAKE i \in 1..N
  <2>1. WrittenAt(form[i])
    BY <1>2 DEF FormLayout
  <2> QED
    BY <1>1, <1>2, <1>6, <1>8, <1>9, <2>1, StillWritten
<1>12. /\ f.name = name /\ f.value = v /\ f.at = m + Len(gap) + 1
       /\ DivOf(f) = m + Len(gap) + 1 + Len(name)
       /\ EndOf(f) = m + Len(gap) + 1 + Len(name) + 1 + Len(v)
  BY DEF DivOf, EndOf
<1>13. EndOf(f) = Len(sent') + 1
  <2> HIDE DEF f, m
  <2> QED
    BY <1>2, <1>3, <1>4, <1>6, <1>12
<1>14. ASSUME NEW i, i = N + 1 PROVE WrittenAt(form[i])'
  <2> HIDE DEF f, m
  <2>1. 1 <= f.at /\ EndOf(f) <= last'
    BY <1>2, <1>4, <1>9, <1>12, <1>13 DEF last
  <2>2. \A p \in 1..Len(f.name) : sent'[f.at + p - 1] = f.name[p]
    <3> TAKE p \in 1..Len(f.name)
    <3>1. p \in 1..Len(name) /\ f.at + p - 1 = m + Len(gap) + p
      BY <1>2, <1>3, <1>4, <1>12
    <3> QED
      BY <1>6, <1>12, <3>1
  <2>3. sent'[DivOf(f)] = "="
    <3>1. DivOf(f) = m + Len(gap) + Len(name) + 1
      BY <1>2, <1>3, <1>4, <1>12
    <3> QED
      BY <1>6, <3>1
  <2>4. \A p \in 1..Len(f.value) :
          sent'[DivOf(f) + p] = IF part = "fields" THEN escape(f.value[p]) ELSE f.value[p]
    <3> TAKE p \in 1..Len(f.value)
    <3>1. p \in 1..Len(v) /\ DivOf(f) + p = m + Len(gap) + Len(name) + 1 + p
      BY <1>2, <1>3, <1>4, <1>12
    <3>2. sent'[DivOf(f) + p] = w[p]
      BY <1>6, <3>1
    <3> QED
      BY <1>5, <1>12, <3>1, <3>2
  <2>5. form'[i] = f /\ part' = part
    BY <1>1, <1>8, <1>14
  <2> QED
    BY <2>1, <2>2, <2>3, <2>4, <2>5 DEF WrittenAt
<1>15. ASSUME NEW i \in 1..(N - 1) PROVE FollowedBy(form[i], form[i + 1])'
  <2>1. FollowedBy(form[i], form[i + 1]) /\ i \in 1..N /\ i + 1 \in 1..N
    BY <1>2 DEF FormLayout
  <2>2. form'[i] = form[i] /\ form'[i + 1] = form[i + 1] /\ part' = part /\ between' = between
    BY <1>1, <1>8, <2>1 DEF between
  <2> DEFINE e == EndOf(form[i])
  <2>3. e \in Nat /\ e > 0 /\ Len(between) \in Nat \ {0} /\ (part = "cookies" => Len(between) = 2)
    <3>1. DivOf(form[i]) \in Nat /\ e \in Nat /\ DivOf(form[i]) < e
      BY <1>2, <2>1, FieldTypes
    <3>2. Len(between) \in Nat \ {0} /\ (part = "cookies" => Len(between) = 2)
      BY <1>2, BetweenType
    <3> HIDE DEF e
    <3> QED
      BY <3>1, <3>2
  <2>4. e + Len(between) <= m
    BY <2>1 DEF FollowedBy
  <2> HIDE DEF e, m
  <2>5. e \in 1..m /\ (part = "cookies" => e + 1 \in 1..m) /\ e + Len(between) <= Len(sent')
    BY <1>2, <1>9, <2>3, <2>4
  <2>6. sent'[e] = sent[e] /\ (part = "cookies" => sent'[e + 1] = sent[e + 1])
    BY <1>6, <2>5
  <2> QED
    BY <2>1, <2>2, <2>5, <2>6 DEF FollowedBy, e
<1>16. ASSUME NEW i, i = N, N > 0 PROVE FollowedBy(form[i], form[i + 1])'
  <2>1. form'[i] = form[i] /\ form'[i + 1] = f /\ part' = part /\ between' = between
    BY <1>1, <1>2, <1>8, <1>16 DEF between
  <2>2. form # <<>> /\ gap = between
    BY <1>2, <1>16 DEF gap
  <2>3. EndOf(form[i]) = m + 1
    BY <1>2, <1>16, <2>2 DEF FormLayout, last
  <2>4. /\ Len(between) \in Nat \ {0} /\ between[1] = EndMark
        /\ part = "cookies" => Len(between) = 2 /\ between[2] = " "
    BY <1>2, BetweenType
  <2> HIDE DEF f, m
  <2>5. f.at = m + 1 + Len(between) /\ m + 1 + Len(between) <= Len(sent')
    <3> DEFINE b == Len(between)
               n == Len(name)
    <3>1. /\ b \in Nat /\ n \in Nat /\ n > 0 /\ m \in Nat /\ Len(v) \in Nat
          /\ f.at = m + b + 1 /\ Len(sent') = m + b + n + 1 + Len(v)
      BY <1>2, <1>3, <1>6, <1>12, <2>2, <2>4
    <3> HIDE DEF b, n
    <3>2. m + b + 1 = m + 1 + b /\ m + 1 + b <= m + b + n + 1 + Len(v)
      BY <3>1
    <3> QED
      BY <3>1, <3>2 DEF b
  <2>6. sent'[m + 1] = EndMark
    <3> DEFINE n == Len(gap)
    <3>1. n \in Nat \ {0} /\ gap[1] = EndMark /\ \A j \in 1..n : sent'[m + j] = gap[j]
      BY <1>6, <2>2, <2>4
    <3> HIDE DEF n
    <3>2. 1 \in 1..n
      BY <3>1
    <3> QED
      BY <3>1, <3>2
  <2>7. part = "cookies" => sent'[m + 1 + 1] = " "
    <3> SUFFICES ASSUME part = "cookies" PROVE sent'[m + 1 + 1] = " "
      OBVIOUS
    <3>1. Len(gap) = 2 /\ gap[2] = " "
      BY <2>2, <2>4
    <3> DEFINE n == Len(gap)
    <3>2. n = 2 /\ m \in Nat /\ \A j \in 1..n : sent'[m + j] = gap[j]
      BY <1>2, <1>6, <3>1
    <3> HIDE DEF n
    <3>3. 2 \in 1..n /\ m + 2 = m + 1 + 1
      BY <3>2
    <3> QED
      BY <3>1, <3>2, <3>3
  <2> QED
    BY <2>1, <2>3, <2>5, <2>6, <2>7 DEF FollowedBy, EndMark
<1>17. form'[1].at = 1 /\ form' # <<>>
  <2>1. form' # <<>>
    BY <1>2, <1>8
  <2>2. CASE N = 0
    <3>1. form = <<>> /\ sent = <<>> /\ Len(gap) = 0 /\ m = 0
      BY <1>2, <1>4, <2>2 DEF FormLayout
    <3>2. form'[1] = f
      BY <1>8, <2>2
    <3> QED
      BY <1>12, <2>1, <3>1, <3>2
  <2>3. CASE N # 0
    <3>1. form # <<>> /\ 1 \in 1..N
      BY <1>2, <2>3
    <3>2. form[1].at = 1
      BY <1>2, <3>1 DEF FormLayout
    <3>3. form'[1] = form[1]
      BY <1>8, <3>1
    <3> QED
      BY <2>1, <3>2, <3>3
  <2> QED
    BY <2>2, <2>3
<1>18. FormLayout'
  <2>1. \A i \in 1..Len(form') : WrittenAt(form[i])'
    <3> TAKE i \in 1..Len(form')
    <3>1. i \in 1..N \/ i = N + 1
      BY <1>2, <1>8
    <3> QED
      BY <1>11, <1>14, <3>1
  <2>2. \A i \in 1..(Len(form') - 1) : FollowedBy(form[i], form[i + 1])'
    <3> TAKE i \in 1..(Len(form') - 1)
    <3>1. i \in 1..(N - 1) \/ (i = N /\ N > 0)
      BY <1>2, <1>8
    <3> QED
      BY <1>15, <1>16, <3>1
  <2>3. EndOf(form'[Len(form')]) = last'
    BY <1>8, <1>13 DEF last
  <2> QED
    BY <1>17, <2>1, <2>2, <2>3 DEF FormLayout
<1>19. ReadSoFar'
  BY <1>1, <1>2 DEF ReadSoFar
<1> QED
  BY <1>10, <1>18, <1>19 DEF FormInv

(* The loop invariant of both readers: the form stands in the text as it    *)
(* was filled in, and a reader is at the start of a field, or at the end,   *)
(* with the fields before it in its map; within the text it always is.      *)
THEOREM ReadingInvariant == FormSpec => []FormInv
<1>1. FormInit => FormInv
  BY FormInitInv
<1>2. FormInv /\ [FormNext]_formVars => FormInv'
  <2> SUFFICES ASSUME FormInv, [FormNext]_formVars PROVE FormInv'
    OBVIOUS
  <2>1. ASSUME NEW name \in Names, NEW v \in Values, fillIn(name, v) PROVE FormInv'
    BY <2>1, FillInStep
  <2>2. CASE send
    <3>1. it = 0 /\ it' = 1 /\ UNCHANGED <<part, form, sent, ret>>
      BY <2>2 DEF send
    <3>2. FormTypeOK /\ FormLayout /\ ReadSoFar /\ Len(sent) \in Nat /\ Len(form) \in Nat
      BY DEF FormInv, FormTypeOK
    <3>3. FormLayout'
      BY <3>1, <3>2, LayoutKept
    <3>4. FormTypeOK'
      <4>1. it' \in 0..last
        BY <3>1, <3>2 DEF last
      <4> QED
        BY <3>1, <3>2, <4>1 DEF FormTypeOK, last
    <3>5. After(0) = 1
      <4>1. CASE Len(form) = 0
        <5>1. form = <<>> /\ sent = <<>>
          BY <3>2, <4>1 DEF FormTypeOK, FormLayout
        <5> QED
          BY <4>1, <5>1 DEF After, last
      <4>2. CASE Len(form) # 0
        <5>1. form # <<>>
          BY <4>2
        <5> QED
          BY <3>2, <4>2, <5>1 DEF After, FormLayout
      <4> QED
        BY <4>1, <4>2
    <3>6. HoldsFirst(ret, 0)
      BY <3>1, <3>2 DEF ReadSoFar, HoldsFirst
    <3>7. it' = After(0)' /\ HoldsFirst(ret, 0)' /\ 0 \in 0..Len(form') /\ it' # 0
      BY <3>1, <3>2, <3>5, <3>6 DEF After, HoldsFirst, last
    <3>8. ReadSoFar'
      BY <3>7 DEF ReadSoFar
    <3> QED
      BY <3>3, <3>4, <3>8 DEF FormInv
  <2>3. CASE readField
    BY <2>3, ReadFieldStep
  <2>4. CASE readCookie
    BY <2>4, ReadCookieStep
  <2>5. CASE UNCHANGED formVars
    <3>1. UNCHANGED <<part, form, sent, it, ret>>
      BY <2>5 DEF formVars
    <3>2. FormLayout'
      BY <3>1, LayoutKept DEF FormInv
    <3>3. FormTypeOK'
      BY <3>1 DEF FormInv, FormTypeOK, last
    <3>4. ReadSoFar'
      BY <3>1 DEF FormInv, ReadSoFar, HoldsFirst, After, last, NoSemicolon
    <3> QED
      BY <3>2, <3>3, <3>4 DEF FormInv
  <2> QED
    BY <2>1, <2>2, <2>3, <2>4, <2>5 DEF FormNext
<1> QED
  BY <1>1, <1>2, PTL DEF FormSpec

(* At the end of the text every field has been read. *)
LEMMA AllRead ==
  ASSUME FormInv, it = last, part = "cookies" => NoSemicolon
  PROVE  HoldsFirst(ret, Len(form))
<1>1. FormTypeOK /\ FormLayout /\ Len(sent) \in Nat /\ Len(form) \in Nat /\ last \in Nat /\ it > 0
  BY DEF FormInv, FormTypeOK, last
<1>2. PICK k \in 0..Len(form) : it = After(k) /\ HoldsFirst(ret, k)
  BY <1>1 DEF FormInv, ReadSoFar
<1>3. CASE k = Len(form)
  BY <1>2, <1>3
<1>4. CASE k # Len(form)
  <2>1. k + 1 \in 1..Len(form)
    BY <1>1, <1>4
  <2> DEFINE f == form[k + 1]
  <2>2. it = f.at
    BY <1>2, <1>4 DEF After
  <2>3. EndOf(f) <= last
    BY <1>1, <2>1 DEF FormLayout, WrittenAt
  <2>4. f.at \in Nat /\ DivOf(f) \in Nat /\ EndOf(f) \in Nat /\ f.at < DivOf(f) /\ DivOf(f) < EndOf(f)
    BY <1>1, <2>1, FieldTypes
  <2> HIDE DEF f
  <2>5. f.at < last
    BY <1>1, <2>3, <2>4
  <2> QED
    BY <1>1, <2>2, <2>4, <2>5
<1> QED
  BY <1>3, <1>4

(* For any names and values, and forms of any length: a handler sees every  *)
(* field as it was filled in (parseURLValues).                              *)
THEOREM FieldsArriveAlways == FormSpec => []FieldsArrive
<1>1. FormInv => FieldsArrive
  BY AllRead DEF FieldsArrive
<1> QED
  BY <1>1, ReadingInvariant, PTL

(* For any names and values, and any number of them: a handler sees every   *)
(* cookie the browser holds if no value has a ';' (getCookies).             *)
THEOREM CookiesArriveAlways == FormSpec => []CookiesArrive
<1>1. FormInv => CookiesArrive
  BY AllRead DEF CookiesArrive
<1> QED
  BY <1>1, ReadingInvariant, PTL

(* Every turn of either loop brings the reader nearer to the end of the     *)
(* text, whatever the text, and never beyond it: both loops end.            *)
THEOREM ReadingEnds == FormSpec => [][readField \/ readCookie => it' > it /\ it' <= last]_formVars
<1>1. ASSUME FormInv, readField \/ readCookie PROVE it' > it /\ it' <= last
  <2>1. it \in Nat /\ last \in Nat /\ it > 0 /\ it < last
    <3>1. sent \in Seq(Chars) /\ it \in 0..last
      BY <1>1 DEF FormInv, FormTypeOK
    <3>2. Len(sent) \in Nat /\ last = Len(sent) + 1
      BY <3>1 DEF last
    <3>3. it > 0 /\ it # last
      BY <1>1 DEF readField, readCookie
    <3> QED
      BY <3>1, <3>2, <3>3
  <2>2. \A mark : past(findIn(sent, it, last, mark)) \in (it + 1)..last
    <3> TAKE mark
    <3> DEFINE e == findIn(sent, it, last, mark)
    <3>1. e \in it..last
      BY <2>1, FindAnyRange DEF findIn
    <3> HIDE DEF e
    <3>2. past(e) \in (it + 1)..last
      BY <2>1, <3>1 DEF past
    <3> QED
      BY <3>2 DEF e
  <2>3. \A b \in (it + 1)..last : skipSpace(b) \in (it + 1)..last
    <3> TAKE b \in (it + 1)..last
    <3>1. b \in Nat /\ b <= last /\ b > it
      BY <2>1
    <3>2. skipSpace(b) \in b..last
      BY <2>1, <3>1, FindAnyRange DEF skipSpace
    <3> QED
      BY <2>1, <3>1, <3>2
  <2>4. it' \in (it + 1)..last
    <3>1. CASE readField
      BY <2>2, <3>1 DEF readField
    <3>2. CASE readCookie
      BY <2>2, <2>3, <3>2 DEF readCookie
    <3> QED
      BY <1>1, <3>1, <3>2
  <2> QED
    BY <2>1, <2>4
<1>2. FormInv /\ [FormNext]_formVars => [readField \/ readCookie => it' > it /\ it' <= last]_formVars
  BY <1>1
<1> QED
  BY <1>2, ReadingInvariant, PTL DEF FormSpec

-----------------------------------------------------------------------------
(* A condition as a text. *)
OpOf(p)  == p.at + Len(p.variable)
StopOf(p) == IF p.action = "always" THEN OpOf(p) ELSE OpOf(p) + 1 + Len(p.constant)

CondTypeOK ==
  /\ parts \in Seq([join : Joins, at : Nat, variable : Variables,
                    action : {"equal", "notEqual", "always"}, constant : Operands \cup {<<>>}])
  /\ source \in Seq(Chars)
  /\ leftAt \in Int
  /\ condition.conditions \in Seq([variable : Seq(Chars), constant : Seq(Chars),
                                   action : {"equal", "notEqual", "always"}])
  /\ condition.conjunctions \in Seq(Chars)
  /\ checked \in Nat /\ currentState \in BOOLEAN

(* A test stands in the text at its place. *)
TestAt(p) ==
  /\ 1 <= p.at /\ StopOf(p) <= Len(source) + 1
  /\ \A i \in 1..Len(p.variable) : source[p.at + i - 1] = p.variable[i]
  /\ p.action # "always" =>
       /\ source[OpOf(p)] = IF p.action = "equal" THEN "=" ELSE "!"
       /\ \A i \in 1..Len(p.constant) : source[OpOf(p) + i] = p.constant[i]
  /\ p.action = "notEqual" => \A i \in 1..Len(p.constant) : p.constant[i] # "="

CondLayout ==
  /\ \A i \in 1..Len(parts) : TestAt(parts[i])
  /\ \A i \in 1..(Len(parts) - 1) : /\ parts[i + 1].at = StopOf(parts[i]) + 1
                                    /\ StopOf(parts[i]) <= Len(source)
                                    /\ source[StopOf(parts[i])] = parts[i + 1].join
  /\ IF parts = <<>> THEN source = <<>>
     ELSE parts[1].at = 1 /\ StopOf(parts[Len(parts)]) = Len(source) + 1

(* What parse makes of a test. *)
TestOf(p) == IF p.action = "always" THEN test(<<>>, "always", <<>>)
             ELSE test(p.variable, p.action, p.constant)

(* The first k tests and n conjunctions have been read. *)
ReadParts(k, n) ==
  /\ Len(condition.conditions) = k /\ Len(condition.conjunctions) = n
  /\ \A i \in 1..k : condition.conditions[i] = TestOf(parts[i])
  /\ \A i \in 1..n : condition.conjunctions[i] = parts[i + 1].join

ParsedSoFar ==
  /\ leftAt >= -1
  /\ leftAt >= 0 => checked = 0
  /\ leftAt = 0 => ReadParts(0, 0)
  /\ leftAt > 0 => \E k \in 0..(Len(parts) - 1) : leftAt = parts[k + 1].at /\ ReadParts(k, k)
  /\ leftAt = -1 => Len(parts) > 0 /\ ReadParts(Len(parts), Len(parts) - 1)

CheckedSoFar ==
  checked > 0 => /\ checked <= Len(parts) /\ response \in Responses
                 /\ currentState <=> SayTogether(checked, response)

CondInv == CondTypeOK /\ CondLayout /\ ParsedSoFar /\ CheckedSoFar

(* What the lengths and places of a condition come to. *)
LEMMA TestTypes ==
  ASSUME CondTypeOK, NEW i \in 1..Len(parts)
  PROVE  /\ parts[i].variable \in Variables /\ parts[i].constant \in Operands \cup {<<>>}
         /\ parts[i].variable \in Seq(Chars) /\ parts[i].constant \in Seq(Chars)
         /\ parts[i].action \in {"equal", "notEqual", "always"} /\ parts[i].join \in Joins
         /\ parts[i].at \in Nat /\ Len(parts[i].variable) \in Nat /\ Len(parts[i].constant) \in Nat
         /\ Len(parts) \in Nat /\ Len(source) \in Nat
<1> DEFINE R == [join : Joins, at : Nat, variable : Variables,
                 action : {"equal", "notEqual", "always"}, constant : Operands \cup {<<>>}]
<1>0. parts \in Seq(R) /\ source \in Seq(Chars)
  BY DEF CondTypeOK
<1>1. parts[i] \in R /\ Len(parts) \in Nat /\ Len(source) \in Nat
  <2> HIDE DEF R
  <2> QED  BY <1>0
<1>2. /\ parts[i].variable \in Variables /\ parts[i].constant \in Operands \cup {<<>>}
      /\ parts[i].action \in {"equal", "notEqual", "always"} /\ parts[i].join \in Joins
      /\ parts[i].at \in Nat
  BY <1>1
<1> HIDE DEF R
<1>3. parts[i].variable \in Seq(Chars)
  BY <1>2, ConditionsAssumption
<1>4. parts[i].constant \in Seq(Chars)
  <2>1. CASE parts[i].constant \in Operands
    BY <2>1, ConditionsAssumption
  <2>2. CASE parts[i].constant = <<>>
    <3>1. <<>> \in Seq(Chars)
      OBVIOUS
    <3> QED
      BY <2>2, <3>1
  <2> QED
    BY <1>2, <2>1, <2>2
<1>5. Len(parts[i].variable) \in Nat /\ Len(parts[i].constant) \in Nat
  BY <1>3, <1>4
<1> QED
  BY <1>1, <1>2, <1>3, <1>4, <1>5

(* The characters of a test, and where they stand. *)
LEMMA TestChars ==
  ASSUME CondTypeOK, CondLayout, NEW i \in 1..Len(parts)
  PROVE  /\ \A j \in parts[i].at..(OpOf(parts[i]) - 1) : source[j] \notin Joins \cup {"=", "!"}
         /\ \A j \in (OpOf(parts[i]) + 1)..(StopOf(parts[i]) - 1) :
              /\ source[j] \notin Joins
              /\ parts[i].action = "notEqual" => source[j] # "="
<1> DEFINE p == parts[i]
           a == p.at
           n == Len(p.variable)
           c == Len(p.constant)
           o == OpOf(p)
<1>1. /\ p.variable \in Variables /\ p.constant \in Operands \cup {<<>>}
      /\ a \in Nat /\ n \in Nat /\ c \in Nat /\ o = a + n
      /\ p.action \in {"equal", "notEqual", "always"}
  BY TestTypes DEF OpOf
<1>2. TestAt(p)
  BY DEF CondLayout
<1>3. \A j \in 1..n : source[a + j - 1] = p.variable[j]
  BY <1>2 DEF TestAt
<1>4. p.action # "always" => \A j \in 1..c : source[o + j] = p.constant[j]
  BY <1>2 DEF TestAt
<1>5. \A j \in 1..n : p.variable[j] \notin Joins \cup {"=", "!"}
  BY <1>1, ConditionsAssumption
<1>6. \A j \in 1..c : p.constant[j] \notin Joins
  <2>1. CASE p.constant \in Operands
    BY <2>1, ConditionsAssumption
  <2>2. CASE p.constant = <<>>
    <3>1. c = 0
      BY <2>2
    <3> HIDE DEF p, c
    <3> QED
      BY <3>1
  <2> QED
    BY <1>1, <2>1, <2>2
<1>7. p.action = "notEqual" => \A j \in 1..c : p.constant[j] # "="
  BY <1>2 DEF TestAt
<1>8. StopOf(p) = IF p.action = "always" THEN o ELSE o + 1 + c
  BY DEF StopOf
<1> HIDE DEF p, a, n, c, o
<1>9. ASSUME NEW j \in a..(o - 1) PROVE source[j] \notin Joins \cup {"=", "!"}
  <2>1. j - a + 1 \in 1..n /\ a + (j - a + 1) - 1 = j
    BY <1>1
  <2> QED
    BY <1>3, <1>5, <2>1
<1>10. ASSUME NEW j \in (o + 1)..(StopOf(p) - 1)
       PROVE  source[j] \notin Joins /\ (p.action = "notEqual" => source[j] # "=")
  <2>1. p.action # "always"
    BY <1>1, <1>8
  <2>2. j - o \in 1..c /\ o + (j - o) = j
    BY <1>1, <1>8, <2>1
  <2>3. source[j] = p.constant[j - o]
    BY <1>4, <2>1, <2>2
  <2> QED
    BY <1>6, <1>7, <2>2, <2>3
<1> QED
  BY <1>9, <1>10 DEF p, a, o

(* Where a test begins and ends. *)
LEMMA TestPlaces ==
  ASSUME CondTypeOK, CondLayout, NEW i \in 1..Len(parts)
  PROVE  /\ parts[i].at \in Int /\ OpOf(parts[i]) \in Int /\ StopOf(parts[i]) \in Int
         /\ Len(source) \in Nat
         /\ 1 <= parts[i].at /\ parts[i].at <= OpOf(parts[i])
         /\ OpOf(parts[i]) <= StopOf(parts[i]) /\ StopOf(parts[i]) <= Len(source) + 1
         /\ parts[i].action = "always" => StopOf(parts[i]) = OpOf(parts[i])
         /\ parts[i].action # "always" => OpOf(parts[i]) < StopOf(parts[i])
<1> DEFINE p == parts[i]
           a == p.at
           n == Len(p.variable)
           c == Len(p.constant)
           o == OpOf(p)
           e == StopOf(p)
           m == Len(source)
<1>1. a \in Nat /\ n \in Nat /\ c \in Nat /\ m \in Nat
  BY TestTypes
<1>2. TestAt(p)
  BY DEF CondLayout
<1>3. 1 <= a /\ e <= m + 1
  BY <1>2 DEF TestAt
<1>4. o = a + n
  BY DEF OpOf
<1>5. CASE p.action = "always"
  <2>1. e = o
    BY <1>5 DEF StopOf
  <2> HIDE DEF a, n, c, o, e, m
  <2>2. a \in Int /\ o \in Int /\ e \in Int /\ a <= o /\ o <= e
    BY <1>1, <1>4, <2>1
  <2> QED
    BY <1>1, <1>3, <1>5, <2>1, <2>2 DEF p, a, o, e, m
<1>6. CASE p.action # "always"
  <2>1. e = o + 1 + c
    BY <1>6 DEF StopOf
  <2> HIDE DEF a, n, c, o, e, m
  <2>2. a \in Int /\ o \in Int /\ e \in Int /\ a <= o /\ o <= e /\ o < e
    BY <1>1, <1>4, <2>1
  <2> QED
    BY <1>1, <1>3, <1>6, <2>2 DEF p, a, o, e, m
<1> QED
  BY <1>5, <1>6

(* What a turn of parse finds from the start of a test on. *)
LEMMA DivisorFound ==
  ASSUME CondTypeOK, CondLayout, NEW i \in 1..Len(parts)
  PROVE  /\ divisor(source, parts[i].at) = StopOf(parts[i])
         /\ StopOf(parts[i]) = Len(source) + 1 <=> i = Len(parts)
         /\ i # Len(parts) => /\ source[StopOf(parts[i])] = parts[i + 1].join
                              /\ parts[i + 1].at = StopOf(parts[i]) + 1
<1> DEFINE p == parts[i]
           a == p.at
           o == OpOf(p)
           e == StopOf(p)
           m == Len(source)
<1>1. /\ a \in Nat /\ Len(p.variable) \in Nat /\ Len(p.constant) \in Nat /\ m \in Nat
      /\ Len(parts) \in Nat /\ p.action \in {"equal", "notEqual", "always"}
  BY TestTypes
<1>2. o = a + Len(p.variable) /\ e = IF p.action = "always" THEN o ELSE o + 1 + Len(p.constant)
  BY DEF OpOf, StopOf
<1>3. TestAt(p)
  BY DEF CondLayout
<1>4. 1 <= a /\ e <= m + 1 /\ (p.action # "always" => source[o] = IF p.action = "equal" THEN "=" ELSE "!")
  BY <1>3 DEF TestAt
<1>5. i = Len(parts) => e = m + 1
  BY <1>1 DEF CondLayout
<1>6. i # Len(parts) => e <= m /\ source[e] = parts[i + 1].join /\ parts[i + 1].at = e + 1
  <2> SUFFICES ASSUME i # Len(parts)
               PROVE  e <= m /\ source[e] = parts[i + 1].join /\ parts[i + 1].at = e + 1
    OBVIOUS
  <2>1. i \in 1..(Len(parts) - 1)
    BY <1>1
  <2> QED
    BY <2>1 DEF CondLayout
<1>7. i # Len(parts) => source[e] \in Joins
  <2> SUFFICES ASSUME i # Len(parts) PROVE source[e] \in Joins
    OBVIOUS
  <2>1. i + 1 \in 1..Len(parts)
    BY <1>1
  <2>2. parts[i + 1].join \in Joins
    BY <2>1, TestTypes
  <2> QED
    BY <1>6, <2>2
<1>8. /\ \A j \in a..(o - 1) : source[j] \notin Joins \cup {"=", "!"}
      /\ \A j \in (o + 1)..(e - 1) : source[j] \notin Joins
  BY TestChars
<1>9. p.action # "always" => source[o] \notin Joins
  BY <1>4 DEF Joins
<1>p. /\ a \in Int /\ o \in Int /\ e \in Int /\ m \in Nat /\ a <= o /\ o <= e /\ e <= m + 1
      /\ p.action = "always" => e = o
  BY TestPlaces
<1> HIDE DEF p, a, o, e, m
<1>10. e \in a..(m + 1) /\ o \in a..e /\ (p.action = "always" => e = o)
  BY <1>p
<1>11. \A j \in a..(e - 1) : source[j] \notin Joins
  <2> TAKE j \in a..(e - 1)
  <2>1. CASE j < o
    <3>1. j \in a..(o - 1)
      BY <1>1, <1>10, <2>1
    <3> QED
      BY <1>8, <3>1
  <2>2. CASE j = o
    <3>1. p.action # "always"
      BY <1>1, <1>10, <2>2
    <3> QED
      BY <1>9, <2>2, <3>1
  <2>3. CASE j > o
    <3>1. j \in (o + 1)..(e - 1)
      BY <1>1, <1>10, <2>3
    <3> QED
      BY <1>8, <3>1
  <2> QED
    BY <1>1, <1>10, <2>1, <2>2, <2>3
<1>12. a \in Int /\ m + 1 \in Int /\ (e = m + 1 \/ source[e] \in Joins)
  BY <1>1, <1>5, <1>7
<1>13. findAny(source, a, m + 1, Joins) = e
  <2> DEFINE z == m + 1
  <2>1. z \in Int /\ e \in a..z /\ (e = z \/ source[e] \in Joins)
    BY <1>10, <1>12
  <2> HIDE DEF z
  <2>2. findAny(source, a, z, Joins) = e
    BY <1>11, <1>12, <2>1, FindAnyIs
  <2> QED
    BY <2>2 DEF z
<1>14. divisor(source, a) = e
  BY <1>13 DEF divisor, m
<1>15. e = m + 1 <=> i = Len(parts)
  BY <1>1, <1>5, <1>6
<1> QED
  BY <1>6, <1>14, <1>15 DEF p, a, e, m

(* And what it makes of it. *)
LEMMA TestFound ==
  ASSUME CondTypeOK, CondLayout, NEW i \in 1..Len(parts)
  PROVE  parseSubCondition(source, parts[i].at, StopOf(parts[i])) = TestOf(parts[i])
<1> DEFINE p == parts[i]
           a == p.at
           o == OpOf(p)
           e == StopOf(p)
           m == Len(source)
           equal    == findIn(source, a, e, "=")
           notEqual == findIn(source, a, e, "!")
<1>1. /\ a \in Nat /\ Len(p.variable) \in Nat /\ Len(p.constant) \in Nat /\ m \in Nat
      /\ p.action \in {"equal", "notEqual", "always"}
      /\ p.variable \in Seq(Chars) /\ p.constant \in Seq(Chars)
  BY TestTypes
<1>2. o = a + Len(p.variable) /\ e = IF p.action = "always" THEN o ELSE o + 1 + Len(p.constant)
  BY DEF OpOf, StopOf
<1>3. TestAt(p)
  BY DEF CondLayout
<1>4. /\ 1 <= a /\ e <= m + 1
      /\ p.action = "equal" => source[o] = "="
      /\ p.action = "notEqual" => source[o] = "!"
      /\ \A j \in 1..Len(p.variable) : source[a + j - 1] = p.variable[j]
      /\ p.action # "always" => \A j \in 1..Len(p.constant) : source[o + j] = p.constant[j]
  BY <1>3 DEF TestAt
<1>5. /\ \A j \in a..(o - 1) : source[j] \notin Joins \cup {"=", "!"}
      /\ \A j \in (o + 1)..(e - 1) : p.action = "notEqual" => source[j] # "="
  BY TestChars
<1>6. source \in Seq(Chars)
  BY DEF CondTypeOK
<1>7. parseSubCondition(source, a, e) =
        IF equal # e
        THEN test(SubSeq(source, a, equal - 1), "equal", SubSeq(source, equal + 1, e - 1))
        ELSE IF notEqual # e
        THEN test(SubSeq(source, a, notEqual - 1), "notEqual", SubSeq(source, notEqual + 1, e - 1))
        ELSE test(<<>>, "always", <<>>)
  BY DEF parseSubCondition
<1>p. /\ a \in Int /\ o \in Int /\ e \in Int /\ a <= o /\ o <= e
      /\ p.action = "always" => e = o
      /\ p.action # "always" => o < e
  BY TestPlaces
<1> HIDE DEF a, o, e, m
<1>8. a \in Int /\ e \in Int /\ o \in Int /\ o \in a..e /\ (p.action = "always" => e = o) /\ (p.action # "always" => o < e)
  BY <1>p
<1>9. SubSeq(source, a, o - 1) = p.variable
  <2> DEFINE w == p.variable
  <2>1. w \in Seq(Chars) /\ Len(w) \in Nat /\ o = a + Len(w) /\ \A j \in 1..Len(w) : source[a + j - 1] = w[j]
    BY <1>1, <1>2, <1>4
  <2> HIDE DEF w
  <2>2. a \in 1..(m + 1) /\ a + Len(w) <= m + 1 /\ o - 1 = a + Len(w) - 1
    BY <1>1, <1>4, <1>8, <2>1
  <2>3. SubSeq(source, a, a + Len(w) - 1) = w
    BY <1>6, <2>1, <2>2, PieceIs DEF m
  <2> QED
    BY <2>2, <2>3 DEF w
<1>10. p.action # "always" => SubSeq(source, o + 1, e - 1) = p.constant
  <2> SUFFICES ASSUME p.action # "always" PROVE SubSeq(source, o + 1, e - 1) = p.constant
    OBVIOUS
  <2> DEFINE w == p.constant
             b == o + 1
  <2>1. w \in Seq(Chars) /\ Len(w) \in Nat /\ e = o + 1 + Len(w) /\ \A j \in 1..Len(w) : source[o + j] = w[j]
    BY <1>1, <1>2, <1>4
  <2> HIDE DEF w
  <2>2. b \in 1..(m + 1) /\ b + Len(w) <= m + 1 /\ e - 1 = b + Len(w) - 1
    BY <1>1, <1>4, <1>8, <2>1
  <2>3. \A j \in 1..Len(w) : source[b + j - 1] = w[j]
    <3> TAKE j \in 1..Len(w)
    <3>1. b + j - 1 = o + j
      BY <1>8, <2>1
    <3> QED
      BY <2>1, <3>1
  <2> HIDE DEF b
  <2>4. SubSeq(source, b, b + Len(w) - 1) = w
    BY <1>6, <2>1, <2>2, <2>3, PieceIs DEF m
  <2> QED
    BY <2>2, <2>4 DEF w, b
<1>11. CASE p.action = "always"
  <2>1. \A j \in a..(e - 1) : source[j] # "=" /\ source[j] # "!"
    BY <1>5, <1>8, <1>11
  <2>2. e \in a..e
    BY <1>8
  <2>3. equal = e /\ notEqual = e
    BY <1>8, <2>1, <2>2, FindInIs
  <2> QED
    BY <1>7, <1>11, <2>3 DEF TestOf, a, e
<1>12. CASE p.action = "equal"
  <2>1. \A j \in a..(o - 1) : source[j] # "="
    BY <1>5
  <2>2. source[o] = "=" /\ p.action # "always"
    BY <1>4, <1>12
  <2>3. equal = o
    BY <1>8, <2>1, <2>2, FindInIs
  <2>4. equal # e
    BY <1>8, <2>2, <2>3
  <2>5. parseSubCondition(source, a, e) = test(p.variable, "equal", p.constant)
    BY <1>7, <1>9, <1>10, <2>2, <2>3, <2>4
  <2> QED
    BY <1>12, <2>2, <2>5 DEF TestOf, a, e
<1>13. CASE p.action = "notEqual"
  <2>1. \A j \in a..(o - 1) : source[j] # "!" /\ source[j] # "="
    BY <1>5
  <2>2. source[o] = "!" /\ p.action # "always"
    BY <1>4, <1>13
  <2>3. notEqual = o
    BY <1>8, <2>1, <2>2, FindInIs
  <2>4. notEqual # e
    BY <1>8, <2>2, <2>3
  <2>5. \A j \in a..(e - 1) : source[j] # "="
    <3> TAKE j \in a..(e - 1)
    <3>1. j \in a..(o - 1) \/ j = o \/ j \in (o + 1)..(e - 1)
      BY <1>8
    <3> QED
      BY <1>5, <1>13, <2>1, <2>2, <3>1
  <2>6. e \in a..e
    BY <1>8
  <2>7. equal = e
    BY <1>8, <2>5, <2>6, FindInIs
  <2>8. parseSubCondition(source, a, e) = test(p.variable, "notEqual", p.constant)
    BY <1>7, <1>9, <1>10, <2>2, <2>3, <2>4, <2>7
  <2> QED
    BY <1>13, <2>2, <2>8 DEF TestOf, a, e
<1> QED
  BY <1>1, <1>11, <1>12, <1>13

-----------------------------------------------------------------------------
(* Writing a condition. *)
TripleFacts(a, b, c, t, s) ==
  /\ s \in Seq(Chars)
  /\ Len(s) = Len(a) + Len(b) + Len(c) + Len(t)
  /\ \A i \in 1..Len(a) : s[i] = a[i]
  /\ \A i \in 1..Len(b) : s[Len(a) + i] = b[i]
  /\ \A i \in 1..Len(c) : s[Len(a) + Len(b) + i] = c[i]
  /\ \A i \in 1..Len(t) : s[Len(a) + Len(b) + Len(c) + i] = t[i]

(* Three texts behind another. *)
LEMMA TripleBehind ==
  ASSUME NEW a \in Seq(Chars), NEW b \in Seq(Chars), NEW c \in Seq(Chars), NEW t \in Seq(Chars)
  PROVE  TripleFacts(a, b, c, t, a \o (b \o (c \o t)))
<1> DEFINE u == c \o t
           v == b \o u
           s == a \o v
<1>1. /\ u \in Seq(Chars) /\ Len(u) = Len(c) + Len(t)
      /\ \A i \in 1..Len(c) : u[i] = c[i]
      /\ \A i \in 1..Len(t) : u[Len(c) + i] = t[i]
  BY Behind
<1> HIDE DEF u
<1>2. /\ v \in Seq(Chars) /\ Len(v) = Len(b) + Len(u)
      /\ \A i \in 1..Len(b) : v[i] = b[i]
      /\ \A i \in 1..Len(u) : v[Len(b) + i] = u[i]
  BY <1>1, Behind
<1> HIDE DEF v
<1>3. /\ s \in Seq(Chars) /\ Len(s) = Len(a) + Len(v)
      /\ \A i \in 1..Len(a) : s[i] = a[i]
      /\ \A i \in 1..Len(v) : s[Len(a) + i] = v[i]
  BY <1>2, Behind
<1> HIDE DEF s
<1>4. Len(a) \in Nat /\ Len(b) \in Nat /\ Len(c) \in Nat /\ Len(t) \in Nat
  OBVIOUS
<1>5. Len(u) = Len(c) + Len(t) /\ Len(v) = Len(b) + Len(c) + Len(t)
      /\ Len(s) = Len(a) + Len(b) + Len(c) + Len(t)
  BY <1>1, <1>2, <1>3, <1>4
<1>6. \A i \in 1..Len(b) : s[Len(a) + i] = b[i]
  BY <1>2, <1>3, <1>4, <1>5
<1>7. \A i \in 1..Len(u) : s[Len(a) + Len(b) + i] = u[i]
  <2> TAKE i \in 1..Len(u)
  <2>1. Len(b) + i \in 1..Len(v) /\ v[Len(b) + i] = u[i]
    BY <1>2, <1>4, <1>5
  <2>2. s[Len(a) + (Len(b) + i)] = v[Len(b) + i]
    BY <2>1, <1>3
  <2> QED
    BY <2>1, <2>2, <1>4, <1>5
<1>8. \A i \in 1..Len(c) : s[Len(a) + Len(b) + i] = c[i]
  BY <1>1, <1>4, <1>5, <1>7
<1>9. \A i \in 1..Len(t) : s[Len(a) + Len(b) + Len(c) + i] = t[i]
  <2> TAKE i \in 1..Len(t)
  <2>1. Len(c) + i \in 1..Len(u) /\ u[Len(c) + i] = t[i]
    BY <1>1, <1>4, <1>5
  <2>2. s[Len(a) + Len(b) + (Len(c) + i)] = u[Len(c) + i]
    BY <2>1, <1>7
  <2> QED
    BY <2>1, <2>2, <1>4
<1>10. TripleFacts(a, b, c, t, s)
  BY <1>3, <1>5, <1>6, <1>8, <1>9 DEF TripleFacts
<1> QED
  BY <1>10 DEF s, v, u

(* The text of a test behind its variable. *)
TailOf(action, constant) ==
  IF action = "always" THEN <<>>
  ELSE <<IF action = "equal" THEN "=" ELSE "!">> \o constant

LEMMA TailIs ==
  ASSUME NEW action \in {"equal", "notEqual", "always"}, NEW constant \in Seq(Chars)
  PROVE  /\ TailOf(action, constant) \in Seq(Chars) /\ Len(TailOf(action, constant)) \in Nat
         /\ action = "always" => Len(TailOf(action, constant)) = 0
         /\ action # "always" =>
              /\ Len(TailOf(action, constant)) = 1 + Len(constant)
              /\ TailOf(action, constant)[1] = IF action = "equal" THEN "=" ELSE "!"
              /\ \A i \in 1..Len(constant) : TailOf(action, constant)[1 + i] = constant[i]
<1>1. CASE action = "always"
  <2>1. TailOf(action, constant) = <<>>
    BY <1>1 DEF TailOf
  <2>2. <<>> \in Seq(Chars) /\ Len(<<>>) = 0 /\ 0 \in Nat
    OBVIOUS
  <2> QED
    BY <1>1, <2>1, <2>2, Zenon
<1>2. CASE action # "always"
  <2> DEFINE m == IF action = "equal" THEN "=" ELSE "!"
             w == <<m>>
             t == w \o constant
  <2>1. m \in Chars
    BY ConditionsAssumption
  <2>2. TailOf(action, constant) = t
    BY <1>2 DEF TailOf
  <2> HIDE DEF m
  <2>3. w \in Seq(Chars) /\ Len(w) = 1 /\ w[1] = m
    BY <2>1, Single
  <2> HIDE DEF w
  <2>4. /\ t \in Seq(Chars) /\ Len(t) = Len(w) + Len(constant)
        /\ \A i \in 1..Len(w) : t[i] = w[i]
        /\ \A i \in 1..Len(constant) : t[Len(w) + i] = constant[i]
    BY <2>3, Behind
  <2> HIDE DEF t
  <2>5. Len(constant) \in Nat
    OBVIOUS
  <2>6. t[1] = m /\ Len(t) = 1 + Len(constant) /\ \A i \in 1..Len(constant) : t[1 + i] = constant[i]
    BY <2>3, <2>4, <2>5
  <2>7. Len(t) \in Nat
    BY <2>5, <2>6
  <2> QED
    BY <1>2, <2>2, <2>4, <2>6, <2>7 DEF m
<1> QED
  BY <1>1, <1>2

LEMMA CondInitInv == CondInit => CondInv
<1> SUFFICES ASSUME CondInit PROVE CondInv
  OBVIOUS
<1>1. /\ parts = <<>> /\ source = <<>> /\ leftAt = 0 /\ condition = noCondition
      /\ checked = 0 /\ currentState = TRUE
  BY DEF CondInit
<1>2. condition.conditions = <<>> /\ condition.conjunctions = <<>>
  BY <1>1 DEF noCondition
<1>3. CondTypeOK
  <2>1. \A S : <<>> \in Seq(S)
    OBVIOUS
  <2> QED
    BY <1>1, <1>2, <2>1 DEF CondTypeOK
<1>4. CondLayout
  <2>1. Len(parts) = 0
    BY <1>1
  <2>2. \A i \in 1..Len(parts) : FALSE
    BY <2>1
  <2>3. \A i \in 1..(Len(parts) - 1) : FALSE
    BY <2>1
  <2> QED
    BY <1>1, <2>2, <2>3 DEF CondLayout
<1>5. ParsedSoFar
  BY <1>1, <1>2 DEF ParsedSoFar, ReadParts
<1>6. CheckedSoFar
  BY <1>1 DEF CheckedSoFar
<1> QED
  BY <1>3, <1>4, <1>5, <1>6 DEF CondInv

(* A test that stands in the text still does when more text is behind it. *)
LEMMA StillTest ==
  ASSUME CondTypeOK, CondLayout, NEW i \in 1..Len(parts),
         source' \in Seq(Chars), Len(source) <= Len(source'),
         \A j \in 1..Len(source) : source'[j] = source[j],
         parts'[i] = parts[i]
  PROVE  TestAt(parts[i])'
<1> DEFINE p == parts[i]
           a == p.at
           n == Len(p.variable)
           c == Len(p.constant)
           o == OpOf(p)
           e == StopOf(p)
           m == Len(source)
<1>1. a \in Nat /\ n \in Nat /\ c \in Nat /\ m \in Nat /\ Len(source') \in Nat
  BY TestTypes
<1>2. /\ a \in Int /\ o \in Int /\ e \in Int /\ 1 <= a /\ a <= o /\ o <= e /\ e <= m + 1
      /\ p.action # "always" => o < e
  BY TestPlaces
<1>3. TestAt(p)
  BY DEF CondLayout
<1>4. /\ \A j \in 1..n : source[a + j - 1] = p.variable[j]
      /\ p.action # "always" => /\ source[o] = IF p.action = "equal" THEN "=" ELSE "!"
                                /\ \A j \in 1..c : source[o + j] = p.constant[j]
      /\ p.action = "notEqual" => \A j \in 1..c : p.constant[j] # "="
  BY <1>3 DEF TestAt
<1>5. o = a + n /\ (p.action # "always" => e = o + 1 + c)
  BY DEF OpOf, StopOf
<1>6. e <= Len(source') + 1
  <2> HIDE DEF p, e
  <2> QED
    BY <1>1, <1>2
<1>7. \A j \in 1..n : a + j - 1 \in 1..m
  <2> HIDE DEF p, a, n, c, o, e, m
  <2> QED
    BY <1>1, <1>2, <1>5
<1>8. p.action # "always" => o \in 1..m /\ \A j \in 1..c : o + j \in 1..m
  <2> SUFFICES ASSUME p.action # "always" PROVE o \in 1..m /\ \A j \in 1..c : o + j \in 1..m
    OBVIOUS
  <2>1. e = o + 1 + c
    BY <1>5
  <2> HIDE DEF p, a, n, c, o, e, m
  <2> QED
    BY <1>1, <1>2, <2>1
<1>9. /\ \A j \in 1..n : source'[a + j - 1] = p.variable[j]
      /\ p.action # "always" => /\ source'[o] = source[o]
                                /\ \A j \in 1..c : source'[o + j] = p.constant[j]
  BY <1>4, <1>7, <1>8
<1>10. parts'[i] = p /\ OpOf(p)' = o /\ StopOf(p)' = e
  BY DEF OpOf, StopOf
<1> QED
  BY <1>2, <1>4, <1>6, <1>9, <1>10 DEF TestAt

LEMMA WriteTestStep ==
  ASSUME CondInv, NEW join \in Joins, NEW variable \in Variables,
         NEW action \in {"equal", "notEqual", "always"}, NEW constant \in Operands \cup {<<>>},
         writeTest(join, variable, action, constant)
  PROVE  CondInv'
<1> DEFINE gap == IF parts = <<>> THEN <<>> ELSE <<join>>
           g == Len(gap)
           t == TailOf(action, constant)
           f == [join |-> join, at |-> Len(source) + Len(gap) + 1, variable |-> variable,
                 action |-> action, constant |-> constant]
           N == Len(parts)
           m == Len(source)
           n == Len(variable)
           R == [join : Joins, at : Nat, variable : Variables,
                 action : {"equal", "notEqual", "always"}, constant : Operands \cup {<<>>}]
<1>1. /\ leftAt = 0 /\ UNCHANGED <<leftAt, condition, response, checked, currentState>>
      /\ action = "notEqual" => \A i \in 1..Len(constant) : constant[i] # "="
      /\ parts' = Append(parts, f)
      /\ source' = source \o (gap \o (variable \o t))
  BY DEF writeTest, TailOf
<1>2. /\ CondTypeOK /\ CondLayout /\ ParsedSoFar /\ CheckedSoFar
      /\ source \in Seq(Chars) /\ parts \in Seq(R) /\ m \in Nat /\ N \in Nat
  BY DEF CondInv, CondTypeOK
<1>3. variable \in Seq(Chars) /\ constant \in Seq(Chars) /\ n \in Nat /\ Len(constant) \in Nat
  <2>1. variable \in Seq(Chars) /\ (constant \in Operands => constant \in Seq(Chars))
    BY ConditionsAssumption
  <2>2. <<>> \in Seq(Chars)
    OBVIOUS
  <2>3. constant \in Seq(Chars)
    BY <2>1, <2>2
  <2> QED
    BY <2>1, <2>3
<1>4. gap \in Seq(Chars) /\ g \in Nat /\ (N = 0 => g = 0) /\ (N # 0 => g = 1 /\ gap[1] = join)
  <2>1. join \in Chars
    BY ConditionsAssumption
  <2>2. <<join>> \in Seq(Chars) /\ Len(<<join>>) = 1 /\ <<join>>[1] = join
    BY <2>1, Single
  <2>3. <<>> \in Seq(Chars) /\ Len(<<>>) = 0
    OBVIOUS
  <2>4. N = 0 <=> parts = <<>>
    BY <1>2
  <2>5. CASE parts = <<>>
    <3>1. gap = <<>>
      BY <2>5
    <3> QED
      BY <2>3, <2>4, <2>5, <3>1
  <2>6. CASE parts # <<>>
    <3>1. gap = <<join>>
      BY <2>6
    <3> QED
      BY <2>2, <2>4, <2>6, <3>1
  <2> QED
    BY <2>5, <2>6
<1>5. /\ t \in Seq(Chars) /\ Len(t) \in Nat
      /\ action = "always" => Len(t) = 0
      /\ action # "always" => /\ Len(t) = 1 + Len(constant)
                              /\ t[1] = IF action = "equal" THEN "=" ELSE "!"
                              /\ \A i \in 1..Len(constant) : t[1 + i] = constant[i]
  BY <1>3, TailIs
<1> HIDE DEF t, gap
<1>6. TripleFacts(source, gap, variable, t, source')
  BY <1>1, <1>2, <1>3, <1>4, <1>5, TripleBehind
<1>7. /\ source' \in Seq(Chars) /\ Len(source') = m + g + n + Len(t)
      /\ \A i \in 1..m : source'[i] = source[i]
      /\ \A i \in 1..g : source'[m + i] = gap[i]
      /\ \A i \in 1..n : source'[m + g + i] = variable[i]
      /\ \A i \in 1..Len(t) : source'[m + g + n + i] = t[i]
  BY <1>6 DEF TripleFacts
<1>8. f \in R
  BY <1>2, <1>4
<1>9. /\ parts' \in Seq(R) /\ Len(parts') = N + 1 /\ parts'[N + 1] = f
      /\ \A i \in 1..N : parts'[i] = parts[i]
  <2> HIDE DEF f, R
  <2> QED
    BY <1>1, <1>2, <1>8
<1>10. Len(source') \in Nat /\ m <= Len(source')
  <2> HIDE DEF m, g, n
  <2> QED
    BY <1>2, <1>3, <1>4, <1>5, <1>7
<1>11. CondTypeOK'
  BY <1>1, <1>2, <1>7, <1>9 DEF CondTypeOK
<1>12. \A i \in 1..N : TestAt(parts[i])'
  <2> TAKE i \in 1..N
  <2> QED
    BY <1>2, <1>7, <1>9, <1>10, StillTest
<1>13. /\ f.variable = variable /\ f.constant = constant /\ f.action = action /\ f.join = join
       /\ f.at = m + g + 1 /\ OpOf(f) = m + g + 1 + n
  BY DEF OpOf
<1>14. StopOf(f) = OpOf(f) + Len(t) /\ StopOf(f) = Len(source') + 1
  <2> HIDE DEF f, m, n, g
  <2>1. StopOf(f) = OpOf(f) + Len(t)
    <3>1. CASE action = "always"
      <4>1. StopOf(f) = OpOf(f) /\ OpOf(f) \in Nat
        BY <1>2, <1>3, <1>4, <1>13, <3>1 DEF StopOf
      <4> QED
        BY <1>5, <3>1, <4>1
    <3>2. CASE action # "always"
      <4>1. StopOf(f) = OpOf(f) + 1 + Len(constant) /\ OpOf(f) \in Nat
        BY <1>2, <1>3, <1>4, <1>13, <3>2 DEF StopOf
      <4>2. Len(t) = 1 + Len(constant)
        BY <1>5, <3>2
      <4>3. OpOf(f) + 1 + Len(constant) = OpOf(f) + (1 + Len(constant))
        BY <1>3, <4>1
      <4> QED
        BY <4>1, <4>2, <4>3, Zenon
    <3> QED
      BY <3>1, <3>2
  <2>2. OpOf(f) = m + g + 1 + n /\ Len(source') = m + g + n + Len(t)
    BY <1>7, <1>13
  <2> QED
    BY <1>2, <1>3, <1>4, <1>5, <2>1, <2>2
<1>15. ASSUME NEW i, i = N + 1 PROVE TestAt(parts[i])'
  <2> HIDE DEF f, m, n, g
  <2>1. 1 <= f.at /\ StopOf(f) <= Len(source') + 1
    BY <1>2, <1>4, <1>10, <1>13, <1>14
  <2>2. \A j \in 1..Len(f.variable) : source'[f.at + j - 1] = f.variable[j]
    <3> TAKE j \in 1..Len(f.variable)
    <3>1. j \in 1..n /\ f.at + j - 1 = m + g + j
      BY <1>2, <1>3, <1>4, <1>13 DEF n
    <3> QED
      BY <1>7, <1>13, <3>1
  <2>3. f.action # "always" =>
          /\ source'[OpOf(f)] = IF f.action = "equal" THEN "=" ELSE "!"
          /\ \A j \in 1..Len(f.constant) : source'[OpOf(f) + j] = f.constant[j]
    <3> SUFFICES ASSUME f.action # "always"
                 PROVE  /\ source'[OpOf(f)] = IF f.action = "equal" THEN "=" ELSE "!"
                        /\ \A j \in 1..Len(f.constant) : source'[OpOf(f) + j] = f.constant[j]
      OBVIOUS
    <3> DEFINE c == Len(constant)
               l == Len(t)
    <3>1. /\ l = 1 + c /\ t[1] = IF action = "equal" THEN "=" ELSE "!"
          /\ \A j \in 1..c : t[1 + j] = constant[j]
          /\ c \in Nat
      BY <1>3, <1>5, <1>13
    <3>2. \A j \in 1..l : source'[m + g + n + j] = t[j]
      BY <1>7
    <3> HIDE DEF c, l
    <3>3. 1 \in 1..l /\ \A j \in 1..c : 1 + j \in 1..l
      BY <3>1
    <3>4. source'[m + g + n + 1] = t[1] /\ \A j \in 1..c : source'[m + g + n + (1 + j)] = t[1 + j]
      BY <3>2, <3>3
    <3>5. OpOf(f) = m + g + n + 1 /\ \A j \in 1..c : OpOf(f) + j = m + g + n + (1 + j)
      BY <1>2, <1>3, <1>4, <1>13, <3>1
    <3>6. \A j \in 1..c : source'[OpOf(f) + j] = constant[j]
      BY <3>1, <3>4, <3>5
    <3>7. source'[OpOf(f)] = t[1]
      BY <3>4, <3>5
    <3> QED
      BY <1>13, <3>1, <3>6, <3>7 DEF c
  <2>4. f.action = "notEqual" => \A j \in 1..Len(f.constant) : f.constant[j] # "="
    BY <1>1, <1>13
  <2>5. parts'[i] = f
    BY <1>9, <1>15
  <2> QED
    BY <2>1, <2>2, <2>3, <2>4, <2>5 DEF TestAt
<1>16. ASSUME NEW i \in 1..(N - 1)
       PROVE  /\ parts'[i + 1].at = StopOf(parts'[i]) + 1
              /\ StopOf(parts'[i]) <= Len(source')
              /\ source'[StopOf(parts'[i])] = parts'[i + 1].join
  <2>0. i \in 1..N /\ i + 1 \in 1..N
    BY <1>2
  <2>1. /\ parts[i + 1].at = StopOf(parts[i]) + 1
        /\ StopOf(parts[i]) <= m
        /\ source[StopOf(parts[i])] = parts[i + 1].join
    BY <1>2, Zenon DEF CondLayout
  <2>2. parts'[i] = parts[i] /\ parts'[i + 1] = parts[i + 1]
    BY <1>9, <2>0
  <2> DEFINE e == StopOf(parts[i])
  <2>3. e \in Int /\ 1 <= e
    <3> DEFINE a == parts[i].at
               o == OpOf(parts[i])
    <3>1. a \in Int /\ o \in Int /\ e \in Int /\ 1 <= a /\ a <= o /\ o <= e
      BY <1>2, <2>0, TestPlaces
    <3> HIDE DEF a, o, e
    <3> QED
      BY <3>1
  <2>4. e <= m
    BY <2>1
  <2> HIDE DEF e, m
  <2>5. e \in 1..m /\ e <= Len(source')
    BY <1>2, <1>10, <2>3, <2>4
  <2>6. source'[e] = source[e]
    BY <1>7, <2>5
  <2> QED
    BY <2>1, <2>2, <2>5, <2>6 DEF e
<1>17. ASSUME NEW i, i = N, N > 0
       PROVE  /\ parts'[i + 1].at = StopOf(parts'[i]) + 1
              /\ StopOf(parts'[i]) <= Len(source')
              /\ source'[StopOf(parts'[i])] = parts'[i + 1].join
  <2>1. parts'[i] = parts[i] /\ parts'[i + 1] = f
    BY <1>2, <1>9, <1>17
  <2>2. StopOf(parts[i]) = m + 1
    BY <1>2, <1>17 DEF CondLayout
  <2>3. g = 1 /\ gap[1] = join
    BY <1>2, <1>4, <1>17
  <2> HIDE DEF f, m, g, n
  <2>4. f.at = m + 1 + 1 /\ m + 1 <= Len(source') /\ 1 \in 1..g
    BY <1>2, <1>3, <1>5, <1>7, <1>13, <2>3
  <2>5. source'[m + 1] = join
    BY <1>7, <2>3, <2>4
  <2> QED
    BY <1>13, <2>1, <2>2, <2>4, <2>5
<1>18. parts' # <<>> /\ parts'[1].at = 1
  <2>1. parts' # <<>>
    BY <1>2, <1>9
  <2>2. CASE N = 0
    <3>1. parts = <<>> /\ source = <<>> /\ g = 0 /\ m = 0
      BY <1>2, <1>4, <2>2 DEF CondLayout
    <3>2. parts'[1] = f
      BY <1>9, <2>2
    <3> QED
      BY <1>13, <2>1, <3>1, <3>2
  <2>3. CASE N # 0
    <3>1. parts # <<>> /\ 1 \in 1..N
      BY <1>2, <2>3
    <3>2. parts[1].at = 1
      BY <1>2, <3>1 DEF CondLayout
    <3>3. parts'[1] = parts[1]
      BY <1>9, <3>1
    <3> QED
      BY <2>1, <3>2, <3>3
  <2> QED
    BY <2>2, <2>3
<1>19. CondLayout'
  <2>1. \A i \in 1..Len(parts') : TestAt(parts[i])'
    <3> TAKE i \in 1..Len(parts')
    <3>1. i \in 1..N \/ i = N + 1
      BY <1>2, <1>9
    <3> QED
      BY <1>12, <1>15, <3>1
  <2>2. \A i \in 1..(Len(parts') - 1) : /\ parts'[i + 1].at = StopOf(parts'[i]) + 1
                                        /\ StopOf(parts'[i]) <= Len(source')
                                        /\ source'[StopOf(parts'[i])] = parts'[i + 1].join
    <3> TAKE i \in 1..(Len(parts') - 1)
    <3>1. i \in 1..(N - 1) \/ (i = N /\ N > 0)
      BY <1>2, <1>9
    <3> QED
      BY <1>16, <1>17, <3>1
  <2>3. StopOf(parts'[Len(parts')]) = Len(source') + 1
    BY <1>9, <1>14
  <2> QED
    BY <1>18, <2>1, <2>2, <2>3 DEF CondLayout, StopOf, OpOf
<1>20. ParsedSoFar'
  <2>1. ReadParts(0, 0) /\ checked = 0
    BY <1>1, <1>2 DEF ParsedSoFar
  <2>2. ReadParts(0, 0)'
    BY <1>1, <2>1 DEF ReadParts
  <2> QED
    BY <1>1, <2>1, <2>2 DEF ParsedSoFar
<1>21. CheckedSoFar'
  <2>1. checked' = 0
    BY <1>1, <1>2 DEF ParsedSoFar
  <2> QED
    BY <2>1 DEF CheckedSoFar
<1> QED
  BY <1>11, <1>19, <1>20, <1>21 DEF CondInv

-----------------------------------------------------------------------------
(* Parsing a condition. *)

(* A step that leaves a condition's text alone keeps its layout. *)
LEMMA CondLayoutKept ==
  ASSUME CondLayout, UNCHANGED <<parts, source>>
  PROVE  CondLayout'
  BY DEF CondLayout, TestAt, StopOf, OpOf

LEMMA TestOfType ==
  ASSUME CondTypeOK, NEW i \in 1..Len(parts)
  PROVE  TestOf(parts[i]) \in [variable : Seq(Chars), constant : Seq(Chars),
                               action : {"equal", "notEqual", "always"}]
<1>1. /\ parts[i].variable \in Seq(Chars) /\ parts[i].constant \in Seq(Chars)
      /\ parts[i].action \in {"equal", "notEqual", "always"}
  BY TestTypes
<1>2. <<>> \in Seq(Chars)
  OBVIOUS
<1> QED
  BY <1>1, <1>2 DEF TestOf, test

LEMMA StartParseStep ==
  ASSUME CondInv, startParse
  PROVE  CondInv'
<1>1. leftAt = 0 /\ parts # <<>> /\ leftAt' = 1
      /\ UNCHANGED <<parts, source, condition, response, checked, currentState>>
  BY DEF startParse
<1>2. CondTypeOK /\ CondLayout /\ ParsedSoFar /\ CheckedSoFar
  BY DEF CondInv
<1>3. CondTypeOK'
  BY <1>1, <1>2 DEF CondTypeOK
<1>4. CondLayout'
  BY <1>1, <1>2, CondLayoutKept
<1>5. parts[1].at = 1 /\ Len(parts) \in Nat /\ Len(parts) > 0
  BY <1>1, <1>2 DEF CondLayout, CondTypeOK
<1>6. ReadParts(0, 0) /\ checked = 0
  BY <1>1, <1>2 DEF ParsedSoFar
<1>7. ReadParts(0, 0)'
  BY <1>1, <1>6 DEF ReadParts
<1>8. 0 \in 0..(Len(parts') - 1) /\ leftAt' = parts'[0 + 1].at
  BY <1>1, <1>5
<1>9. ParsedSoFar'
  BY <1>1, <1>6, <1>7, <1>8 DEF ParsedSoFar
<1>10. CheckedSoFar'
  BY <1>1, <1>6 DEF CheckedSoFar
<1> QED
  BY <1>3, <1>4, <1>9, <1>10 DEF CondInv

(* A turn of parse takes the next test off the text. *)
LEMMA ParseNextStep ==
  ASSUME CondInv, parseNext
  PROVE  CondInv'
<1>1. leftAt > 0 /\ UNCHANGED <<parts, source, response, checked, currentState>>
      /\ condition' = parseTurn(condition, source, leftAt)
      /\ leftAt' = IF divisor(source, leftAt) = Len(source) + 1 THEN -1 ELSE divisor(source, leftAt) + 1
  BY DEF parseNext
<1>2. CondTypeOK /\ CondLayout /\ ParsedSoFar /\ CheckedSoFar /\ Len(parts) \in Nat /\ leftAt \in Int
  BY DEF CondInv, CondTypeOK
<1>3. PICK k \in 0..(Len(parts) - 1) : leftAt = parts[k + 1].at /\ ReadParts(k, k)
  BY <1>1, <1>2 DEF ParsedSoFar
<1> DEFINE N == Len(parts)
           e == StopOf(parts[k + 1])
           T == [variable : Seq(Chars), constant : Seq(Chars), action : {"equal", "notEqual", "always"}]
           tests == condition.conditions
           joins == condition.conjunctions
           next  == TestOf(parts[k + 1])
<1>4. checked = 0
  BY <1>1, <1>2 DEF ParsedSoFar
<1>5. k \in Nat /\ k + 1 \in 1..N /\ N \in Nat
  BY <1>2
<1>6. /\ divisor(source, leftAt) = e
      /\ e = Len(source) + 1 <=> k + 1 = N
      /\ k + 1 # N => source[e] = parts[k + 1 + 1].join /\ parts[k + 1 + 1].at = e + 1
  BY <1>2, <1>3, <1>5, DivisorFound
<1>7. parseSubCondition(source, leftAt, e) = next
  BY <1>2, <1>3, <1>5, TestFound
<1>8. e \in Int /\ e >= 1
  <2> DEFINE a == parts[k + 1].at
             o == OpOf(parts[k + 1])
  <2>1. a \in Int /\ o \in Int /\ e \in Int /\ 1 <= a /\ a <= o /\ o <= e
    BY <1>2, <1>5, TestPlaces
  <2> HIDE DEF a, o, e
  <2> QED
    BY <2>1
<1>9. next \in T /\ tests \in Seq(T) /\ joins \in Seq(Chars)
  BY <1>2, <1>5, TestOfType DEF CondTypeOK
<1>10. /\ Len(tests) = k /\ Len(joins) = k
       /\ \A i \in 1..k : tests[i] = TestOf(parts[i])
       /\ \A i \in 1..k : joins[i] = parts[i + 1].join
  BY <1>3 DEF ReadParts
<1>11. /\ condition'.conditions = Append(tests, next)
       /\ condition'.conjunctions = IF k + 1 = N THEN joins ELSE Append(joins, source[e])
  BY <1>1, <1>6, <1>7 DEF parseTurn
<1>12. /\ condition'.conditions \in Seq(T) /\ Len(condition'.conditions) = k + 1
       /\ \A i \in 1..(k + 1) : condition'.conditions[i] = TestOf(parts[i])
  <2> DEFINE new == Append(tests, next)
  <2>1. new \in Seq(T) /\ Len(new) = k + 1 /\ new[k + 1] = next /\ \A i \in 1..k : new[i] = tests[i]
    <3> HIDE DEF T, tests, next
    <3> QED
      BY <1>9, <1>10
  <2> HIDE DEF new, T
  <2>2. \A i \in 1..(k + 1) : new[i] = TestOf(parts[i])
    <3> TAKE i \in 1..(k + 1)
    <3>1. i \in 1..k \/ i = k + 1
      BY <1>5
    <3> QED
      BY <1>10, <2>1, <3>1
  <2>3. condition'.conditions = new
    BY <1>11 DEF new
  <2> QED
    BY <2>1, <2>2, <2>3
<1> HIDE DEF T
<1>13. CondLayout'
  BY <1>1, <1>2, CondLayoutKept
<1>14. CheckedSoFar'
  BY <1>1, <1>4 DEF CheckedSoFar
<1>15. CASE k + 1 = N
  <2>1. leftAt' = -1 /\ condition'.conjunctions = joins
    BY <1>1, <1>6, <1>11, <1>15
  <2>2. N - 1 = k
    BY <1>5, <1>15
  <2>3. CondTypeOK'
    BY <1>1, <1>2, <1>9, <1>12, <2>1 DEF CondTypeOK, T
  <2>4. ReadParts(k + 1, k)'
    BY <1>1, <1>10, <1>12, <2>1 DEF ReadParts, TestOf
  <2>5. ReadParts(Len(parts), Len(parts) - 1)'
    <3>1. Len(parts') = k + 1 /\ Len(parts') - 1 = k
      BY <1>1, <1>15, <2>2
    <3> QED
      BY <2>4, <3>1 DEF ReadParts
  <2>6. ParsedSoFar'
    <3>1. Len(parts') > 0
      BY <1>1, <1>5
    <3> QED
      BY <2>1, <2>5, <3>1 DEF ParsedSoFar
  <2> QED
    BY <1>13, <1>14, <2>3, <2>6 DEF CondInv
<1>16. CASE k + 1 # N
  <2>1. leftAt' = e + 1 /\ condition'.conjunctions = Append(joins, source[e])
    BY <1>1, <1>6, <1>11, <1>16
  <2>2. source[e] = parts[k + 1 + 1].join /\ parts[k + 1 + 1].at = e + 1
    BY <1>6, <1>16
  <2>3. k + 1 + 1 \in 1..N /\ k + 1 \in 0..(N - 1)
    BY <1>5, <1>16
  <2>4. source[e] \in Chars
    <3>1. parts[k + 1 + 1].join \in Joins
      BY <1>2, <2>3, TestTypes
    <3> QED
      BY <2>2, <3>1, ConditionsAssumption
  <2>5. /\ condition'.conjunctions \in Seq(Chars) /\ Len(condition'.conjunctions) = k + 1
        /\ \A i \in 1..(k + 1) : condition'.conjunctions[i] = parts[i + 1].join
    <3> DEFINE x == source[e]
               new == Append(joins, x)
    <3>1. new \in Seq(Chars) /\ Len(new) = k + 1 /\ new[k + 1] = x /\ \A i \in 1..k : new[i] = joins[i]
      <4> HIDE DEF x, joins
      <4> QED
        BY <1>9, <1>10, <2>4 DEF x
    <3> HIDE DEF new
    <3>2. \A i \in 1..(k + 1) : new[i] = parts[i + 1].join
      <4> TAKE i \in 1..(k + 1)
      <4>1. i \in 1..k \/ i = k + 1
        BY <1>5
      <4> QED
        BY <1>10, <2>2, <3>1, <4>1
    <3>3. condition'.conjunctions = new
      BY <2>1 DEF new
    <3> QED
      BY <3>1, <3>2, <3>3
  <2>6. leftAt' > 0 /\ leftAt' \in Int
    <3> HIDE DEF e
    <3> QED
      BY <1>8, <2>1
  <2>7. CondTypeOK'
    BY <1>1, <1>2, <1>12, <2>5, <2>6 DEF CondTypeOK, T
  <2>8. ReadParts(k + 1, k + 1)'
    BY <1>1, <1>12, <2>5 DEF ReadParts, TestOf
  <2>9. leftAt' = parts'[k + 1 + 1].at /\ k + 1 \in 0..(Len(parts') - 1)
    BY <1>1, <2>1, <2>2, <2>3
  <2>10. ParsedSoFar'
    <3>1. leftAt' >= -1 /\ leftAt' # 0 /\ leftAt' # -1 /\ checked' = 0
      BY <1>1, <1>4, <2>6
    <3> QED
      BY <2>8, <2>9, <3>1 DEF ParsedSoFar
  <2> QED
    BY <1>13, <1>14, <2>7, <2>10 DEF CondInv
<1> QED
  BY <1>15, <1>16

-----------------------------------------------------------------------------
(* Checking a condition. *)

(* checkTest on what parse made of a test decides what the test says. *)
LEMMA CheckTestIs ==
  ASSUME CondTypeOK, NEW i \in 1..Len(parts), NEW r \in Responses
  PROVE  /\ checkTest(TestOf(parts[i]), r) \in BOOLEAN
         /\ checkTest(TestOf(parts[i]), r) <=> Says(parts[i], r)
<1> DEFINE p == parts[i]
           t == TestOf(p)
           v == p.variable
           c == p.constant
           j == find(r, v)
           isEqual == /\ j # 0
                      /\ ~isObjects(r[j]) /\ size(r[j]) = 1
                      /\ r[j].texts[1] = c
           present == \E l \in 1..Len(r) : /\ r[l].key = v /\ r[l].texts = <<c>>
                                           /\ \A k \in 1..(l - 1) : r[k].key # v
           S == {l \in 1..Len(r) : r[l].key = v}
<1>1. c \in Seq(Chars) /\ p.action \in {"equal", "notEqual", "always"}
  BY TestTypes
<1>2. /\ Len(r) \in Nat
      /\ \A l \in 1..Len(r) : /\ r[l].texts \in Seq(Seq(Chars))
                              /\ Len(r[l].objects) \in Nat
                              /\ r[l].texts = <<>> \/ r[l].objects = <<>>
  BY ConditionsAssumption
<1>3. j = IF S = {} THEN 0 ELSE Least(S)
  BY DEF find
<1>4. isEqual <=> present
  <2>1. CASE S = {}
    <3>1. j = 0
      BY <1>3, <2>1
    <3>2. ~present
      BY <2>1
    <3> QED
      BY <3>1, <3>2
  <2>2. CASE S # {}
    <3>1. S \in SUBSET Nat
      BY <1>2
    <3>2. j \in S /\ \A k \in S : j <= k
      <4> HIDE DEF S
      <4>1. Least(S) \in S /\ \A k \in S : Least(S) <= k
        BY <2>2, <3>1, LeastExists
      <4> QED
        BY <1>3, <2>2, <4>1
    <3>3. j \in 1..Len(r) /\ r[j].key = v /\ j # 0
      BY <1>2, <3>2
    <3> DEFINE x == r[j].texts
               y == r[j].objects
    <3>4. x \in Seq(Seq(Chars)) /\ Len(y) \in Nat /\ (x = <<>> \/ y = <<>>)
      BY <1>2, <3>3
    <3>5. present <=> x = <<c>>
      <4> HIDE DEF j
      <4>1. ASSUME NEW l \in 1..Len(r), r[l].key = v, \A k \in 1..(l - 1) : r[k].key # v
            PROVE  l = j
        <5>1. l \in S /\ j <= l
          BY <3>2, <4>1
        <5>2. ~(j \in 1..(l - 1))
          BY <3>3, <4>1
        <5> QED
          BY <1>2, <3>3, <5>1, <5>2
      <4>2. \A k \in 1..(j - 1) : r[k].key # v
        <5> TAKE k \in 1..(j - 1)
        <5>1. k \in 1..Len(r) /\ ~(j <= k)
          BY <1>2, <3>3
        <5> QED
          BY <3>2, <5>1
      <4>3. present => x = <<c>>
        BY <4>1
      <4>4. x = <<c>> => present
        BY <3>3, <4>2
      <4> QED
        BY <4>3, <4>4
    <3>6. isEqual <=> y = <<>> /\ Len(x) + Len(y) = 1 /\ x[1] = c
      BY <3>3 DEF isObjects, size
    <3> HIDE DEF x, y, present, isEqual, c, S
    <3>7. ASSUME y = <<>>, Len(x) + Len(y) = 1, x[1] = c PROVE x = <<c>>
      <4>1. Len(y) = 0 /\ Len(x) \in Nat
        BY <3>4, <3>7
      <4>2. Len(x) = 1
        BY <3>7, <4>1
      <4> QED
        BY <3>4, <3>7, <4>2
    <3>8. ASSUME x = <<c>> PROVE y = <<>> /\ Len(x) + Len(y) = 1 /\ x[1] = c
      <4>1. Len(x) = 1 /\ x[1] = c /\ x # <<>>
        BY <3>8
      <4>2. y = <<>>
        BY <3>4, <4>1
      <4>3. Len(y) = 0
        BY <4>2
      <4> QED
        BY <4>1, <4>2, <4>3
    <3> QED
      BY <3>5, <3>6, <3>7, <3>8
  <2> QED
    BY <2>1, <2>2
<1>5. isEqual \in BOOLEAN /\ present \in BOOLEAN
  OBVIOUS
<1>6. Says(p, r) = CASE p.action = "equal" -> present
                     [] p.action = "notEqual" -> ~present
                     [] OTHER -> TRUE
  BY DEF Says
<1>7. CASE p.action = "always"
  <2>1. t.action = "always"
    BY <1>7 DEF TestOf, test
  <2>2. checkTest(t, r) = TRUE
    BY <2>1 DEF checkTest
  <2>3. Says(p, r) = TRUE
    BY <1>6, <1>7
  <2> QED
    BY <2>2, <2>3
<1>8. CASE p.action = "equal"
  <2>1. t.action = "equal" /\ t.variable = v /\ t.constant = c
    BY <1>8 DEF TestOf, test
  <2>2. checkTest(t, r) = isEqual
    BY <2>1 DEF checkTest
  <2> HIDE DEF isEqual, present
  <2>3. Says(p, r) = present
    BY <1>6, <1>8
  <2> QED
    BY <1>4, <1>5, <2>2, <2>3
<1>9. CASE p.action = "notEqual"
  <2>1. t.action = "notEqual" /\ t.variable = v /\ t.constant = c
    BY <1>9 DEF TestOf, test
  <2>2. checkTest(t, r) = ~isEqual
    BY <2>1 DEF checkTest
  <2> HIDE DEF isEqual, present
  <2>3. Says(p, r) = ~present
    BY <1>6, <1>9
  <2> QED
    BY <1>4, <1>5, <2>2, <2>3
<1> QED
  BY <1>1, <1>7, <1>8, <1>9

(* What the first n + 1 tests say together, from what the first n do. *)
LEMMA FirstSays ==
  ASSUME NEW r
  PROVE  SayTogether(1, r) <=> Says(parts[1], r)
<1>1. 1..1 = {1} /\ (1 + 1)..1 = {}
  OBVIOUS
<1> QED
  BY <1>1 DEF SayTogether

LEMMA TogetherNext ==
  ASSUME NEW n \in Nat, n >= 1, NEW r, parts[n + 1].join \in Joins
  PROVE  SayTogether(n + 1, r) <=>
           applyConjunction(SayTogether(n, r), parts[n + 1].join, Says(parts[n + 1], r))
<1> DEFINE Q(i) == Says(parts[i], r)
           J(i) == parts[i].join
           A(i, m) == \A k \in (i + 1)..m : J(k) = "&" => Q(k)
<1>1. SayTogether(n, r) <=> \E i \in 1..n : Q(i) /\ (i = 1 \/ J(i) = "|") /\ A(i, n)
  BY DEF SayTogether
<1>2. SayTogether(n + 1, r) <=> \E i \in 1..(n + 1) : Q(i) /\ (i = 1 \/ J(i) = "|") /\ A(i, n + 1)
  BY DEF SayTogether
<1>3. ASSUME NEW i \in 1..n PROVE A(i, n + 1) <=> A(i, n) /\ (J(n + 1) = "&" => Q(n + 1))
  <2> HIDE DEF Q, J
  <2>1. (i + 1)..(n + 1) = ((i + 1)..n) \cup {n + 1}
    OBVIOUS
  <2> QED
    BY <2>1
<1>4. A(n + 1, n + 1)
  <2> HIDE DEF Q, J
  <2> QED
    OBVIOUS
<1>5. 1..(n + 1) = (1..n) \cup {n + 1} /\ n + 1 # 1
  OBVIOUS
<1>6. J(n + 1) = "&" \/ J(n + 1) = "|"
  BY DEF Joins
<1>7. /\ J(n + 1) = "&" => (applyConjunction(SayTogether(n, r), J(n + 1), Q(n + 1)) <=> SayTogether(n, r) /\ Q(n + 1))
      /\ J(n + 1) = "|" => (applyConjunction(SayTogether(n, r), J(n + 1), Q(n + 1)) <=> SayTogether(n, r) \/ Q(n + 1))
  BY DEF applyConjunction
<1> HIDE DEF Q, J, A
<1>8. CASE J(n + 1) = "&"
  <2>1. SayTogether(n + 1, r) <=>
          \E i \in 1..n : Q(i) /\ (i = 1 \/ J(i) = "|") /\ A(i, n) /\ Q(n + 1)
    BY <1>2, <1>3, <1>5, <1>8
  <2>2. SayTogether(n + 1, r) <=> SayTogether(n, r) /\ Q(n + 1)
    BY <1>1, <2>1
  <2> QED
    BY <1>7, <1>8, <2>2 DEF J, Q
<1>9. CASE J(n + 1) = "|"
  <2>1. SayTogether(n + 1, r) <=>
          \/ \E i \in 1..n : Q(i) /\ (i = 1 \/ J(i) = "|") /\ A(i, n)
          \/ Q(n + 1)
    BY <1>2, <1>3, <1>4, <1>5, <1>9
  <2>2. SayTogether(n + 1, r) <=> SayTogether(n, r) \/ Q(n + 1)
    BY <1>1, <2>1
  <2> QED
    BY <1>7, <1>9, <2>2 DEF J, Q
<1> QED
  BY <1>6, <1>8, <1>9

(* When every test has been parsed, and how a test is found then. *)
LEMMA Parsed ==
  ASSUME CondInv, leftAt = -1
  PROVE  /\ Len(parts) \in Nat /\ Len(parts) > 0 /\ Len(condition.conditions) = Len(parts)
         /\ \A i \in 1..Len(parts) : condition.conditions[i] = TestOf(parts[i])
         /\ \A i \in 1..(Len(parts) - 1) : condition.conjunctions[i] = parts[i + 1].join
<1>1. ReadParts(Len(parts), Len(parts) - 1) /\ Len(parts) > 0 /\ Len(parts) \in Nat
  BY DEF CondInv, ParsedSoFar, CondTypeOK
<1> QED
  BY <1>1 DEF ReadParts

LEMMA StartCheckStep ==
  ASSUME CondInv, NEW r \in Responses, startCheck(r)
  PROVE  CondInv'
<1>1. /\ leftAt = -1 /\ checked = 0 /\ response' = r /\ checked' = 1
      /\ currentState' = checkTest(condition.conditions[1], r)
      /\ UNCHANGED <<parts, source, leftAt, condition>>
  BY DEF startCheck
<1>2. CondTypeOK /\ CondLayout /\ ParsedSoFar
  BY DEF CondInv
<1>3. Len(parts) \in Nat /\ Len(parts) > 0 /\ condition.conditions[1] = TestOf(parts[1])
  BY <1>1, Parsed
<1>4. 1 \in 1..Len(parts) /\ 1 <= Len(parts)
  BY <1>3
<1>5. currentState' \in BOOLEAN /\ (currentState' <=> Says(parts[1], r))
  <2>1. /\ checkTest(TestOf(parts[1]), r) \in BOOLEAN
        /\ checkTest(TestOf(parts[1]), r) <=> Says(parts[1], r)
    BY <1>2, <1>4, CheckTestIs
  <2> QED
    BY <1>1, <1>3, <2>1
<1>6. currentState' <=> SayTogether(1, r)
  BY <1>5, FirstSays
<1>7. CheckedSoFar'
  <2>1. SayTogether(checked, response)' <=> SayTogether(1, r)
    BY <1>1 DEF SayTogether, Says
  <2> QED
    BY <1>1, <1>4, <1>6, <2>1 DEF CheckedSoFar
<1>8. CondTypeOK'
  BY <1>1, <1>2, <1>5 DEF CondTypeOK
<1>9. CondLayout'
  BY <1>1, <1>2, CondLayoutKept
<1>10. ParsedSoFar'
  BY <1>1, <1>2 DEF ParsedSoFar, ReadParts, TestOf
<1> QED
  BY <1>7, <1>8, <1>9, <1>10 DEF CondInv

(* A turn of check takes one test more from left to right. *)
LEMMA CheckNextStep ==
  ASSUME CondInv, checkNext
  PROVE  CondInv'
<1>1. /\ checked > 0 /\ checked < Len(condition.conditions) /\ checked' = checked + 1
      /\ currentState' = applyConjunction(currentState, condition.conjunctions[checked],
                                          checkTest(condition.conditions[checked + 1], response))
      /\ UNCHANGED <<parts, source, leftAt, condition, response>>
  BY DEF checkNext
<1>2. /\ CondTypeOK /\ CondLayout /\ ParsedSoFar /\ CheckedSoFar
      /\ checked \in Nat /\ currentState \in BOOLEAN /\ leftAt \in Int
  BY DEF CondInv, CondTypeOK
<1>3. leftAt = -1
  <2>1. leftAt >= -1 /\ (leftAt >= 0 => checked = 0)
    BY <1>2 DEF ParsedSoFar
  <2> QED
    BY <1>1, <1>2, <2>1
<1> DEFINE n == checked
           b == checkTest(TestOf(parts[n + 1]), response)
<1>4. /\ Len(parts) \in Nat /\ Len(condition.conditions) = Len(parts)
      /\ \A i \in 1..Len(parts) : condition.conditions[i] = TestOf(parts[i])
      /\ \A i \in 1..(Len(parts) - 1) : condition.conjunctions[i] = parts[i + 1].join
  BY <1>3, Parsed
<1>5. n + 1 \in 1..Len(parts) /\ n \in 1..(Len(parts) - 1) /\ n >= 1 /\ n + 1 <= Len(parts)
  BY <1>1, <1>2, <1>4
<1>6. currentState' = applyConjunction(currentState, parts[n + 1].join, b)
  BY <1>1, <1>4, <1>5
<1>7. response \in Responses /\ (currentState <=> SayTogether(n, response))
  BY <1>1, <1>2 DEF CheckedSoFar
<1>8. b \in BOOLEAN /\ (b <=> Says(parts[n + 1], response))
  BY <1>2, <1>5, <1>7, CheckTestIs
<1>9. parts[n + 1].join \in Joins
  BY <1>2, <1>5, TestTypes
<1>10. SayTogether(n + 1, response) <=>
         applyConjunction(SayTogether(n, response), parts[n + 1].join, Says(parts[n + 1], response))
  BY <1>2, <1>5, <1>9, TogetherNext
<1>11. currentState' \in BOOLEAN /\ (currentState' <=> SayTogether(n + 1, response))
  <2> DEFINE j == parts[n + 1].join
  <2>1. j = "&" \/ j = "|"
    BY <1>9 DEF Joins
  <2> HIDE DEF b, j
  <2>2. CASE j = "&"
    <3>1. currentState' = (currentState /\ b)
      BY <1>6, <2>2 DEF applyConjunction, j
    <3>2. SayTogether(n + 1, response) <=> SayTogether(n, response) /\ Says(parts[n + 1], response)
      BY <1>10, <2>2 DEF applyConjunction, j
    <3> QED
      BY <1>2, <1>7, <1>8, <3>1, <3>2
  <2>3. CASE j = "|"
    <3>1. currentState' = (currentState \/ b)
      BY <1>6, <2>3 DEF applyConjunction, j
    <3>2. SayTogether(n + 1, response) <=> SayTogether(n, response) \/ Says(parts[n + 1], response)
      BY <1>10, <2>3 DEF applyConjunction, j
    <3> QED
      BY <1>2, <1>7, <1>8, <3>1, <3>2
  <2> QED
    BY <2>1, <2>2, <2>3
<1>12. CheckedSoFar'
  <2>1. SayTogether(checked, response)' <=> SayTogether(n + 1, response)
    BY <1>1 DEF SayTogether, Says
  <2> QED
    BY <1>1, <1>5, <1>7, <1>11, <2>1 DEF CheckedSoFar
<1>13. CondTypeOK'
  BY <1>1, <1>2, <1>11 DEF CondTypeOK
<1>14. CondLayout'
  BY <1>1, <1>2, CondLayoutKept
<1>15. ParsedSoFar'
  BY <1>1, <1>2, <1>3 DEF ParsedSoFar, ReadParts, TestOf
<1> QED
  BY <1>12, <1>13, <1>14, <1>15 DEF CondInv

(* The loop invariant of parse and of check: the tests stand in the text as *)
(* they were written, parse is at the start of one with those before it     *)
(* taken apart, and the state check carries is what the tests it has run    *)
(* over say together.                                                       *)
THEOREM ConditionInvariant == CondSpec => []CondInv
<1>1. CondInit => CondInv
  BY CondInitInv
<1>2. CondInv /\ [CondNext]_condVars => CondInv'
  <2> SUFFICES ASSUME CondInv, [CondNext]_condVars PROVE CondInv'
    OBVIOUS
  <2>1. ASSUME NEW join \in Joins, NEW variable \in Variables, NEW constant \in Operands,
               NEW action \in {"equal", "notEqual"}, writeTest(join, variable, action, constant)
        PROVE  CondInv'
    BY <2>1, WriteTestStep
  <2>2. ASSUME NEW join \in Joins, NEW word \in Variables, writeTest(join, word, "always", <<>>)
        PROVE  CondInv'
    BY <2>2, WriteTestStep
  <2>3. CASE startParse
    BY <2>3, StartParseStep
  <2>4. CASE parseNext
    BY <2>4, ParseNextStep
  <2>5. ASSUME NEW r \in Responses, startCheck(r) PROVE CondInv'
    BY <2>5, StartCheckStep
  <2>6. CASE checkNext
    BY <2>6, CheckNextStep
  <2>7. CASE UNCHANGED condVars
    <3>1. UNCHANGED <<parts, source, leftAt, condition, response, checked, currentState>>
      BY <2>7 DEF condVars
    <3>2. CondLayout'
      BY <3>1, CondLayoutKept DEF CondInv
    <3>3. CondTypeOK'
      BY <3>1 DEF CondInv, CondTypeOK
    <3>4. ParsedSoFar'
      BY <3>1 DEF CondInv, ParsedSoFar, ReadParts, TestOf
    <3>5. CheckedSoFar'
      <4>1. SayTogether(checked, response)' <=> SayTogether(checked, response)
        BY <3>1 DEF SayTogether, Says
      <4>2. CheckedSoFar
        BY DEF CondInv
      <4> QED
        BY <3>1, <4>1, <4>2 DEF CheckedSoFar
    <3> QED
      BY <3>2, <3>3, <3>4, <3>5 DEF CondInv
  <2> QED
    BY <2>1, <2>2, <2>3, <2>4, <2>5, <2>6, <2>7 DEF CondNext
<1> QED
  BY <1>1, <1>2, PTL DEF CondSpec

(* check comes to what the tests say from left to right, for conditions of  *)
(* any number of tests and any operands an author may write (parse, check). *)
THEOREM ConditionsLeftToRightAlways == CondSpec => []ConditionsLeftToRight
<1>1. CondInv => ConditionsLeftToRight
  <2> SUFFICES ASSUME CondInv, leftAt = -1, checked = Len(condition.conditions)
               PROVE  currentState <=> SayTogether(Len(parts), response)
    BY DEF ConditionsLeftToRight
  <2>1. checked = Len(parts) /\ checked > 0
    BY Parsed
  <2> QED
    BY <2>1 DEF CondInv, CheckedSoFar
<1> QED
  BY <1>1, ConditionInvariant, PTL

(* What parse asserts before it returns holds: there is one conjunction     *)
(* fewer than there are tests, so check finds one before each test.         *)
THEOREM OneConjunctionFewer ==
  CondSpec => [](leftAt = -1 => Len(condition.conditions) = Len(condition.conjunctions) + 1)
<1>1. CondInv => (leftAt = -1 => Len(condition.conditions) = Len(condition.conjunctions) + 1)
  <2> SUFFICES ASSUME CondInv, leftAt = -1
               PROVE  Len(condition.conditions) = Len(condition.conjunctions) + 1
    OBVIOUS
  <2>1. ReadParts(Len(parts), Len(parts) - 1) /\ Len(parts) \in Nat
    BY DEF CondInv, ParsedSoFar, CondTypeOK
  <2>2. Len(condition.conditions) = Len(parts) /\ Len(condition.conjunctions) = Len(parts) - 1
    BY <2>1 DEF ReadParts
  <2> QED
    BY <2>1, <2>2
<1> QED
  BY <1>1, ConditionInvariant, PTL

(* Every turn of parse but the last goes on behind the divisor it found, so *)
(* parse ends, and no turn of check leaves the lists parse made: a test and *)
(* the conjunction before it are there (parse, check).                      *)
THEOREM ConditionTurnsWithin ==
  CondSpec => [][/\ parseNext => (leftAt' > leftAt /\ leftAt' <= Len(source) + 1) \/ leftAt' = -1
                 /\ checkNext => checked \in 1..Len(condition.conjunctions)]_condVars
<1>1. ASSUME CondInv, parseNext
      PROVE  (leftAt' > leftAt /\ leftAt' <= Len(source) + 1) \/ leftAt' = -1
  <2>1. /\ leftAt > 0 /\ CondTypeOK /\ CondLayout /\ ParsedSoFar
        /\ leftAt' = IF divisor(source, leftAt) = Len(source) + 1 THEN -1 ELSE divisor(source, leftAt) + 1
    BY <1>1 DEF parseNext, CondInv
  <2>2. PICK k \in 0..(Len(parts) - 1) : leftAt = parts[k + 1].at
    BY <2>1 DEF ParsedSoFar
  <2> DEFINE a == parts[k + 1].at
             o == OpOf(parts[k + 1])
             e == StopOf(parts[k + 1])
             m == Len(source)
  <2>3. k + 1 \in 1..Len(parts)
    BY <2>1 DEF CondTypeOK
  <2>4. divisor(source, leftAt) = e
    BY <2>1, <2>2, <2>3, DivisorFound
  <2>5. a \in Int /\ o \in Int /\ e \in Int /\ m \in Nat /\ a <= o /\ o <= e /\ e <= m + 1
    BY <2>1, <2>3, TestPlaces
  <2>6. leftAt = a /\ leftAt' = IF e = m + 1 THEN -1 ELSE e + 1
    BY <2>1, <2>2, <2>4
  <2> HIDE DEF a, o, e, m
  <2>7. (leftAt' > leftAt /\ leftAt' <= m + 1) \/ leftAt' = -1
    BY <2>5, <2>6
  <2> QED
    BY <2>7 DEF m
<1>2. ASSUME CondInv, checkNext PROVE checked \in 1..Len(condition.conjunctions)
  <2>1. /\ checked > 0 /\ checked < Len(condition.conditions) /\ ParsedSoFar
        /\ checked \in Nat /\ leftAt \in Int /\ Len(parts) \in Nat
    BY <1>2 DEF checkNext, CondInv, CondTypeOK
  <2>2. leftAt >= -1 /\ (leftAt >= 0 => checked = 0)
    BY <2>1 DEF ParsedSoFar
  <2>3. leftAt = -1
    BY <2>1, <2>2
  <2>4. ReadParts(Len(parts), Len(parts) - 1)
    BY <2>1, <2>3 DEF ParsedSoFar
  <2>5. Len(condition.conditions) = Len(parts) /\ Len(condition.conjunctions) = Len(parts) - 1
    BY <2>4 DEF ReadParts
  <2> QED
    BY <2>1, <2>5
<1>3. CondInv /\ [CondNext]_condVars =>
        [/\ parseNext => (leftAt' > leftAt /\ leftAt' <= Len(source) + 1) \/ leftAt' = -1
         /\ checkNext => checked \in 1..Len(condition.conjunctions)]_condVars
  BY <1>1, <1>2
<1> QED
  BY <1>3, ConditionInvariant, PTL DEF CondSpec
=============================================================================
