---------------------------- MODULE RequestFields ----------------------------
(***************************************************************************)
(* Taking a request apart: the fields of a query or a body                 *)
(* (parseURLValues in Query.h) and the cookies of its header               *)
(* (cookieManager::getCookies in Network.h).  A text is a sequence of      *)
(* characters or words.  A browser writes a form or its cookies as one     *)
(* text; then one of the two loops reads it, a turn being a step.          *)
(***************************************************************************)
EXTENDS Positions

CONSTANTS
  Names,          \* names of fields and cookies
  Values,         \* what a field is filled in with
  MaxFields       \* bound on the fields of a form

VARIABLES
  part,           \* what is sent: "fields" of a form, or "cookies"
  form,           \* what the browser fills in, in order, and where it is written
  sent,           \* the text of the request
  it,             \* where the reader is in it; 0 before it is sent
  ret             \* the map the reader has made so far

formVars == <<part, form, sent, it, ret>>

(* What a browser makes of a character in a field, and what                 *)
(* curl_easy_unescape makes of an escape.                                   *)
Escapes == {"%26", "%3D", "%2B", "%25", "%3B"}

escape(c) == CASE c = " " -> "+"
               [] c = "&" -> "%26"
               [] c = "=" -> "%3D"
               [] c = "+" -> "%2B"
               [] c = "%" -> "%25"
               [] c = ";" -> "%3B"
               [] OTHER   -> c

unescape(t) == CASE t = "%26" -> "&"
                 [] t = "%3D" -> "="
                 [] t = "%2B" -> "+"
                 [] t = "%25" -> "%"
                 [] t = "%3B" -> ";"
                 [] OTHER     -> t

(* Names are words of the pages; a browser escapes only values of fields.   *)
ASSUME FieldsAssumption ==
  /\ Names \subseteq Seq(Chars) /\ Values \subseteq Seq(Chars)
  /\ Escapes \subseteq Chars /\ {"&", "=", "+", "%", ";", " "} \subseteq Chars
  /\ \A n \in Names : /\ Len(n) > 0
                      /\ \A i \in 1..Len(n) : n[i] \notin {"&", "=", "+", "%", ";", " "}
  /\ \A v \in Values : \A i \in 1..Len(v) : v[i] \notin Escapes
  /\ MaxFields \in Nat

-----------------------------------------------------------------------------
(* The browser: a form is sent as name=value pairs with '&' between them,   *)
(* cookies with "; " between them and nothing escaped.                      *)
between == IF part = "fields" THEN <<"&">> ELSE <<";", " ">>

written(v) == [i \in 1..Len(v) |-> IF part = "fields" THEN escape(v[i]) ELSE v[i]]

fillIn(name, v) ==
  LET gap == IF form = <<>> THEN <<>> ELSE between
  IN  /\ it = 0 /\ Len(form) < MaxFields
      /\ form' = Append(form, [name |-> name, value |-> v, at |-> Len(sent) + Len(gap) + 1])
      /\ sent' = sent \o (gap \o (name \o (<<"=">> \o written(v))))
      /\ UNCHANGED <<part, it, ret>>

send ==
  /\ it = 0
  /\ it' = 1
  /\ UNCHANGED <<part, form, sent, ret>>

-----------------------------------------------------------------------------
(* ret[id] = value. *)
put(m, id, v) == [n \in DOMAIN m \cup {id} |-> IF n = id THEN v ELSE m[n]]

last        == Len(sent) + 1
past(end)   == IF end = last THEN end ELSE end + 1

(* Mutated form: '+' is made a space after unescaping. *)
resolved_PlusLast(t) == IF unescape(t) = "+" THEN " " ELSE unescape(t)

(* std::replace makes '+' a space, then the escapes are resolved. *)
resolved(t) == unescape(IF t = "+" THEN " " ELSE t)

(* One turn of the loop of parseURLValues.  Without '=' or a value the      *)
(* field is empty.                                                          *)
readField ==
  LET end == findIn(sent, it, last, "&")
      div == findIn(sent, it, end, "=")
      id  == SubSeq(sent, it, div - 1)
  IN  /\ part = "fields" /\ it > 0 /\ it # last
      /\ ret' = put(ret, id, IF div # end /\ end - div - 1 # 0
                             THEN [i \in 1..(end - div - 1) |-> resolved(sent[div + i])]
                             ELSE <<>>)
      /\ it' = past(end)
      /\ UNCHANGED <<part, form, sent>>

(* Mutated form: the white space after a ';' is kept. *)
skipSpace_Keep(i) == i

skipSpace(i) == findAny(sent, i, last, Chars \ {" "})

(* One turn of the loop of getCookies.  A piece without a name or without   *)
(* '=' is passed over, and then the white space in front of the next one    *)
(* stays.  A name with an empty value is stored, although the comment above *)
(* the test (Network.h:93) says "Empty names/values are ignored".           *)
readCookie ==
  LET end == findIn(sent, it, last, ";")
      div == findIn(sent, it, end, "=")
  IN  /\ part = "cookies" /\ it > 0 /\ it # last
      /\ IF it = div \/ div = end
         THEN /\ it' = past(end)
              /\ UNCHANGED ret
         ELSE /\ ret' = put(ret, SubSeq(sent, it, div - 1), SubSeq(sent, div + 1, end - 1))
              /\ it' = skipSpace(past(end))
      /\ UNCHANGED <<part, form, sent>>

(* hasElement of queryBase. *)
hasElement(q, name) == name \in DOMAIN q /\ q[name] # <<>>

-----------------------------------------------------------------------------
FormInit ==
  /\ part \in {"fields", "cookies"}
  /\ form = <<>> /\ sent = <<>> /\ it = 0
  /\ ret = [n \in {} |-> <<>>]

FormNext ==
  \/ \E name \in Names, v \in Values : fillIn(name, v)
  \/ send
  \/ readField
  \/ readCookie

FormSpec == FormInit /\ [][FormNext]_formVars

-----------------------------------------------------------------------------
(* A map holds the first n fields of the form, under each name the value of *)
(* the last one with that name.                                             *)
HoldsFirst(m, n) ==
  /\ DOMAIN m = {form[i].name : i \in 1..n}
  /\ \A i \in 1..n :
       (\A j \in (i + 1)..n : form[j].name # form[i].name) => m[form[i].name] = form[i].value

(* A handler sees every field as it was filled in, marks and spaces         *)
(* included, and of two fields with one name the later (parseURLValues).    *)
FieldsArrive == part = "fields" /\ it = last => HoldsFirst(ret, Len(form))

NoSemicolon == \A i \in 1..Len(form) : \A j \in 1..Len(form[i].value) : form[i].value[j] # ";"

(* A handler sees every cookie the browser holds, with '=', '&' or spaces   *)
(* in its value, as long as no value has a ';' (getCookies).  That includes *)
(* cookies with an empty value: the code keeps them, against its comment    *)
(* "Empty names/values are ignored" (Network.h:93).                         *)
CookiesArrive == part = "cookies" /\ it = last /\ NoSemicolon => HoldsFirst(ret, Len(form))
=============================================================================
