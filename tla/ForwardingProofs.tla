--------------------------- MODULE ForwardingProofs ---------------------------
(* Proofs about Forwarding, for any number of requests, pieces and codes.   *)
EXTENDS Forwarding, TLAPS

(* Where the parts of one request's state stand to each other.  The server  *)
(* holds a request only while, or after, the translator calls for it; what  *)
(* it may still run has not run, and what is answered is not called for.    *)
FrontOK(r) ==
  /\ sent[r] <= Pieces[r]
  /\ front[r].stage # "none" => front[r].cookie = r /\ front[r].buffer <= sent[r]
  /\ calling = r =>
       front[r].stage = "called" /\ front[r].buffer = Pieces[r] /\ sent[r] = Pieces[r]
  /\ front[r].stage = "called" => calling = r

BackOK(r) ==
  /\ back[r].stage # "none" =>
       front[r].stage \in {"called", "ended"} /\ back[r].cookie = r
  /\ back[r].stage # "ended" => ran[r] = <<>>
  /\ front[r].stage \notin {"called", "ended"} => ran[r] = <<>>

RanOK(r) ==
  /\ Len(ran[r]) <= 1
  /\ ran[r] # <<>> =>
       /\ sent[r] = Pieces[r] /\ ran[r][1].body = Pieces[r]
       /\ back[r].alive => ran[r][1].caller = r
       /\ calling = r => ran[r][1].code = Failed

AnswerOK(r) ==
  answer[r] # NoAnswer =>
    /\ front[r].stage = "ended"
    /\ answer[r].code = IF ran[r] = <<>> THEN Failed ELSE ran[r][1].code

RequestOK(r) == FrontOK(r) /\ BackOK(r) /\ RanOK(r) /\ AnswerOK(r)

IInv == TypeOK /\ \A r \in Requests : RequestOK(r)

-----------------------------------------------------------------------------
LEMMA InitIInv == Init => IInv
  BY ForwardingAssumption
  DEF Init, IInv, RequestOK, FrontOK, BackOK, RanOK, AnswerOK, TypeOK, Collectors,
      Stages, NotThere, Answers, NoAnswer, Runs, Unsent, Failed

(* What collect and append make of a request's record.                      *)
LEMMA CollectFacts ==
  ASSUME NEW size \in Nat, NEW n \in 0..size, NEW k \in Requests \cup {Nobody}
  PROVE  LET c == collect(size, n, k) IN
         /\ c \in Collectors
         /\ c.stage \in {"called", "collecting"}
         /\ c.cookie = k /\ c.buffer = n
         /\ c.stage = "called" <=> n = size
  BY DEF collect, Collectors, Stages

LEMMA EndedRecord ==
  ASSUME NEW c \in Collectors PROVE [c EXCEPT !.stage = "ended"] \in Collectors
  BY DEF Collectors, Stages

LEMMA GoneRecord ==
  ASSUME NEW c \in Collectors PROVE [c EXCEPT !.alive = FALSE] \in Collectors
  BY DEF Collectors, Stages

LEMMA AppendFacts ==
  ASSUME NEW size \in Nat, NEW b \in Collectors, b.stage = "collecting", b.buffer < size
  PROVE  LET c == append(b, size) IN
         /\ c \in Collectors
         /\ c.stage \in {"called", "collecting"}
         /\ c.cookie = b.cookie /\ c.buffer = b.buffer + 1
         /\ c.stage = "called" <=> b.buffer + 1 = size
<1> DEFINE c == append(b, size)
<1>1. b.buffer \in Nat /\ b.cookie \in Requests \cup {Nobody}
  BY DEF Collectors
<1>2. collect(size, b.buffer + 1, b.cookie) \in Collectors
  BY <1>1 DEF collect, Collectors, Stages
<1>3. c \in Collectors
  BY <1>2, GoneRecord DEF append
<1>4. c.stage = (IF b.buffer + 1 = size THEN "called" ELSE "collecting")
  BY DEF append, collect
<1>5. c.cookie = b.cookie /\ c.buffer = b.buffer + 1
  BY DEF append, collect
<1> QED BY <1>3, <1>4, <1>5

-----------------------------------------------------------------------------
(* The translator takes a step for r that ends in record c: it goes on      *)
(* waiting, or it calls the server with the whole body.                     *)
LEMMA CollectStep ==
  ASSUME IInv, NEW r \in Requests, NEW c \in Collectors,
         Free, front[r].stage \in {"none", "collecting"},
         c.stage \in {"called", "collecting"}, c.cookie = r,
         c.buffer <= sent[r],
         c.stage = "called" => c.buffer = Pieces[r],
         front' = [front EXCEPT ![r] = c], callServer(r, c),
         UNCHANGED <<sent, back, up, restarts, ran, answer>>
  PROVE  IInv'
<1>1. TypeOK'
  BY DEF IInv, TypeOK, callServer
<1>2. ASSUME NEW q \in Requests PROVE RequestOK(q)'
  <2>1. RequestOK(q) /\ Pieces[q] \in Nat /\ sent[q] \in Nat \cup {Unsent} /\ c.buffer \in Nat
    BY ForwardingAssumption DEF IInv, TypeOK, Collectors
  <2>2. calling = Nobody /\ Nobody \notin Requests
    BY ForwardingAssumption DEF Free
  <2>3. CASE q = r
    <3>1. front'[q] = c /\ back[q].stage = "none" /\ ran[q] = <<>> /\ answer[q] = NoAnswer
      BY <2>1, <2>3 DEF IInv, TypeOK, RequestOK, BackOK, AnswerOK, Collectors, Stages
    <3>2. calling' = q <=> c.stage = "called"
      BY <2>2, <2>3 DEF callServer
    <3>3. FrontOK(q)'
      BY <2>1, <2>3, <3>1, <3>2 DEF RequestOK, FrontOK, Unsent
    <3>4. BackOK(q)' /\ RanOK(q)' /\ AnswerOK(q)'
      BY <2>1, <2>3, <3>1 DEF RequestOK, BackOK, RanOK, AnswerOK
    <3> QED BY <3>3, <3>4 DEF RequestOK
  <2>4. CASE q # r
    <3>1. front'[q] = front[q] /\ calling' # q
      BY <2>2, <2>4 DEF IInv, TypeOK, callServer
    <3> QED BY <2>1, <2>2, <3>1 DEF RequestOK, FrontOK, BackOK, RanOK, AnswerOK
  <2> QED BY <2>3, <2>4
<1> QED BY <1>1, <1>2 DEF IInv

(* The call for r returns with a code that agrees with what r's handler did.*)
LEMMA ReturnStep ==
  ASSUME IInv, NEW r \in Requests, NEW code \in Codes \cup {Failed}, calling = r,
         applyTranslation(r, code), sent' = sent,
         back' \in [Requests -> Collectors],
         back'[r].stage = "ended", back'[r].cookie = r,
         \A q \in Requests \ {r} : back'[q] = back[q],
         ran' \in [Requests -> Seq(Runs)],
         \A q \in Requests \ {r} : ran'[q] = ran[q],
         Len(ran'[r]) <= 1,
         ran'[r] # <<>> => /\ ran'[r][1].body = Pieces[r]
                           /\ back'[r].alive => ran'[r][1].caller = r,
         code = IF ran'[r] = <<>> THEN Failed ELSE ran'[r][1].code,
         up' \in BOOLEAN, restarts' = restarts
  PROVE  IInv'
<1>1. PICK x \in Requests \cup {Nobody} :
        answer' = [answer EXCEPT ![r] = [code |-> code, query |-> x]]
  BY DEF applyTranslation, readRequest
<1>2. front' = [front EXCEPT ![r].stage = "ended"] /\ calling' = Nobody
  BY DEF applyTranslation
<1>3. TypeOK'
  <2>1. front' \in [Requests -> Collectors]
    <3>1. front \in [Requests -> Collectors]
      BY DEF IInv, TypeOK
    <3>2. [front[r] EXCEPT !.stage = "ended"] \in Collectors
      BY <3>1, EndedRecord
    <3> QED BY <1>2, <3>1, <3>2
  <2>2. [code |-> code, query |-> x] \in Answers
    BY DEF Answers
  <2>3. answer' \in [Requests -> Answers]
    BY <1>1, <2>2 DEF IInv, TypeOK
  <2> QED BY <1>2, <2>1, <2>3 DEF IInv, TypeOK
<1>4. ASSUME NEW q \in Requests PROVE RequestOK(q)'
  <2>1. RequestOK(q) /\ Nobody \notin Requests
    BY ForwardingAssumption DEF IInv
  <2>2. CASE q = r
    <3>1. /\ front'[q].stage = "ended" /\ front'[q].cookie = front[q].cookie
          /\ front'[q].buffer = front[q].buffer
      BY <1>2, <2>2 DEF IInv, TypeOK, Collectors
    <3>2. answer'[q].code = code
      BY <1>1, <2>2 DEF IInv, TypeOK
    <3>3. FrontOK(q)' /\ BackOK(q)'
      BY <1>2, <2>1, <2>2, <3>1 DEF RequestOK, FrontOK, BackOK
    <3>4. RanOK(q)' /\ AnswerOK(q)'
      BY <1>2, <2>1, <2>2, <3>1, <3>2 DEF RequestOK, FrontOK, RanOK, AnswerOK
    <3> QED BY <3>3, <3>4 DEF RequestOK
  <2>3. CASE q # r
    <3>1. front'[q] = front[q] /\ answer'[q] = answer[q] /\ calling' # q /\ calling # q
      BY <1>1, <1>2, <2>1, <2>3 DEF IInv, TypeOK
    <3> QED BY <2>1, <2>3, <3>1 DEF RequestOK, FrontOK, BackOK, RanOK, AnswerOK
  <2> QED BY <2>2, <2>3
<1> QED BY <1>3, <1>4 DEF IInv

(* The server has c of the request it is called for and goes on with it.    *)
LEMMA ProceedStep ==
  ASSUME IInv, NEW r \in Requests, NEW c \in Collectors, up, calling = r,
         back[r].stage # "ended", c.cookie = r,
         c.stage = "called" => c.buffer = Pieces[r],
         proceed(r, c), UNCHANGED <<sent, restarts>>
  PROVE  IInv'
<1>0. RequestOK(r) /\ ran[r] = <<>>
  BY DEF IInv, RequestOK, BackOK
<1>1. CASE c.stage = "called" /\ runHandler(r, c)
  <2>1. PICK who \in Requests \cup {Nobody}, code \in Codes \cup {Failed} :
          /\ c.alive => who = r
          /\ ran' = [ran EXCEPT ![r] = Append(@, [caller |-> who, body |-> c.buffer, code |-> code])]
          /\ back' = [back EXCEPT ![r] = [c EXCEPT !.stage = "ended"]]
          /\ IF code = Failed
               THEN up' = FALSE /\ UNCHANGED <<front, calling, answer>>
               ELSE applyTranslation(r, code) /\ UNCHANGED up
    BY <1>1 DEF runHandler, readRequest
  <2> DEFINE run == [caller |-> who, body |-> c.buffer, code |-> code]
  <2>2. run \in Runs
    BY DEF Runs, Collectors
  <2>3. ran'[r] = <<run>> /\ \A q \in Requests \ {r} : ran'[q] = ran[q]
    BY <1>0, <2>1, <2>2 DEF IInv, TypeOK
  <2>4. ran' \in [Requests -> Seq(Runs)]
    BY <2>1, <2>2 DEF IInv, TypeOK
  <2>5. Len(ran'[r]) = 1 /\ ran'[r] # <<>> /\ ran'[r][1] = run
    BY <2>3
  <2>6. /\ back' \in [Requests -> Collectors]
        /\ back'[r].stage = "ended" /\ back'[r].cookie = r /\ back'[r].alive = c.alive
        /\ \A q \in Requests \ {r} : back'[q] = back[q]
    BY <2>1 DEF IInv, TypeOK, Collectors, Stages
  <2>7. CASE code # Failed
    <3>1. applyTranslation(r, code) /\ up' \in BOOLEAN
      BY <2>1, <2>7 DEF IInv, TypeOK
    <3> QED BY <1>1, <2>1, <2>3, <2>4, <2>5, <2>6, <3>1, ReturnStep
  <2>8. CASE code = Failed
    <3>1. up' = FALSE /\ UNCHANGED <<front, calling, answer>>
      BY <2>1, <2>8
    <3>2. TypeOK'
      BY <2>4, <2>6, <3>1 DEF IInv, TypeOK
    <3>3. ASSUME NEW q \in Requests PROVE RequestOK(q)'
      <4>1. RequestOK(q)
        BY DEF IInv
      <4>2. CASE q = r
        <5>1. FrontOK(q)' /\ AnswerOK(q)'
          BY <3>1, <4>1, <4>2 DEF RequestOK, FrontOK, AnswerOK
        <5>2. BackOK(q)' /\ RanOK(q)'
          BY <1>1, <2>1, <2>5, <2>6, <2>8, <3>1, <4>1, <4>2
          DEF RequestOK, FrontOK, BackOK, RanOK
        <5> QED BY <5>1, <5>2 DEF RequestOK
      <4>3. CASE q # r
        BY <2>3, <2>6, <3>1, <4>1, <4>3
        DEF RequestOK, FrontOK, BackOK, RanOK, AnswerOK
      <4> QED BY <4>2, <4>3
    <3> QED BY <3>2, <3>3 DEF IInv
  <2> QED BY <2>7, <2>8
<1>2. CASE /\ c.stage = "collecting"
           /\ back' = [back EXCEPT ![r] = c]
           /\ UNCHANGED <<front, calling, up, ran, answer>>
  <2>1. TypeOK'
    BY <1>2 DEF IInv, TypeOK
  <2>2. ASSUME NEW q \in Requests PROVE RequestOK(q)'
    <3>1. RequestOK(q) /\ (q # r => back'[q] = back[q]) /\ back'[r] = c
      BY <1>2 DEF IInv, TypeOK
    <3> QED BY <1>0, <1>2, <3>1 DEF RequestOK, FrontOK, BackOK, RanOK, AnswerOK
  <2> QED BY <2>1, <2>2 DEF IInv
<1> QED BY <1>1, <1>2 DEF proceed

-----------------------------------------------------------------------------
LEMMA NextIInv == IInv /\ [Next]_vars => IInv'
<1> SUFFICES ASSUME IInv, [Next]_vars PROVE IInv'
  OBVIOUS
<1>0. /\ Nobody \notin Requests /\ MaxRestarts \in Nat
      /\ TypeOK /\ \A q \in Requests : RequestOK(q) /\ Pieces[q] \in Nat
  BY ForwardingAssumption DEF IInv
<1>1. ASSUME NEW r \in Requests, NEW n \in 0..Pieces[r], Send(r, n) PROVE IInv'
  <2>1. TypeOK'
    BY <1>0, <1>1 DEF TypeOK, Send
  <2>2. ASSUME NEW q \in Requests PROVE RequestOK(q)'
    <3>1. /\ q # r => sent'[q] = sent[q]
          /\ sent'[r] = n /\ sent[r] < n
          /\ UNCHANGED <<front, back, calling, ran, answer>>
      BY <1>0, <1>1 DEF TypeOK, Send
    <3>2. sent[q] \in Int /\ front[q].buffer \in Nat
      BY <1>0 DEF TypeOK, Unsent, Collectors
    <3> QED BY <1>0, <3>1, <3>2 DEF RequestOK, FrontOK, BackOK, RanOK, AnswerOK
  <2> QED BY <2>1, <2>2 DEF IInv
<1>2. ASSUME NEW r \in Requests, NEW n \in 0..Pieces[r], apply(r, n) PROVE IInv'
  <2> DEFINE c == collect(Pieces[r], n, r)
  <2>1. /\ c \in Collectors /\ c.stage \in {"called", "collecting"}
        /\ c.cookie = r /\ c.buffer = n /\ (c.stage = "called" => n = Pieces[r])
    BY <1>0, CollectFacts
  <2>2. n <= sent[r] /\ Free /\ front[r].stage = "none"
    BY <1>0, <1>2 DEF TypeOK, apply, Unsent
  <2> HIDE DEF c
  <2> QED BY <1>2, <2>1, <2>2, CollectStep DEF apply, c
<1>3. ASSUME NEW r \in Requests, onData(r) PROVE IInv'
  <2> DEFINE c == append(front[r], Pieces[r])
  <2>1. /\ front[r] \in Collectors /\ front[r].stage = "collecting" /\ Free
        /\ front[r].buffer < sent[r] /\ front[r].cookie = r
    BY <1>0, <1>3 DEF TypeOK, RequestOK, FrontOK, onData
  <2>2. sent[r] \in Int /\ sent[r] <= Pieces[r] /\ front[r].buffer \in Nat
    BY <1>0 DEF TypeOK, RequestOK, FrontOK, Unsent, Collectors
  <2>3. front[r].buffer < Pieces[r]
    BY <1>0, <2>1, <2>2
  <2>4. /\ c \in Collectors /\ c.stage \in {"called", "collecting"} /\ c.cookie = r
        /\ c.buffer = front[r].buffer + 1 /\ (c.stage = "called" => c.buffer = Pieces[r])
    BY <1>0, <2>1, <2>3, AppendFacts
  <2>5. c.buffer <= sent[r]
    BY <2>1, <2>2, <2>4
  <2>6. front' = [front EXCEPT ![r] = c] /\ callServer(r, c)
        /\ UNCHANGED <<sent, back, up, restarts, ran, answer>>
    BY <1>3 DEF onData
  <2> HIDE DEF c
  <2> QED BY <2>1, <2>4, <2>5, <2>6, CollectStep
<1>4. ASSUME NEW r \in Requests, onAborted(r) PROVE IInv'
  <2>1. TypeOK'
    BY <1>0, <1>4 DEF TypeOK, onAborted, Collectors, Stages
  <2>2. ASSUME NEW q \in Requests PROVE RequestOK(q)'
    <3>1. /\ UNCHANGED <<sent, back, calling, ran, answer>>
          /\ front[r].stage = "collecting" /\ front'[r].stage = "ended"
          /\ front'[q].buffer = front[q].buffer /\ front'[q].cookie = front[q].cookie
          /\ q # r => front'[q] = front[q]
      BY <1>0, <1>4 DEF TypeOK, onAborted, Collectors
    <3> QED BY <1>0, <3>1 DEF RequestOK, FrontOK, BackOK, RanOK, AnswerOK
  <2> QED BY <2>1, <2>2 DEF IInv
<1>5. ASSUME NEW r \in Requests, performFails(r) PROVE IInv'
  <2>1. calling = r /\ applyTranslation(r, Failed) /\ UNCHANGED <<sent, back, up, restarts, ran>>
    BY <1>5 DEF performFails
  <2>2. /\ RequestOK(r) /\ back \in [Requests -> Collectors] /\ up \in BOOLEAN
        /\ ran \in [Requests -> Seq(Runs)]
    BY <1>0 DEF TypeOK
  <2>3. Failed = IF ran[r] = <<>> THEN Failed ELSE ran[r][1].code
    BY <2>1, <2>2 DEF RequestOK, RanOK
  <2>4. CASE back[r].stage = "ended"
    <3>1. back[r].cookie = r
      BY <2>2, <2>4 DEF RequestOK, BackOK
    <3>2. Len(ran[r]) <= 1 /\ (ran[r] # <<>> => ran[r][1].body = Pieces[r]
                                  /\ (back[r].alive => ran[r][1].caller = r))
      BY <2>2 DEF RequestOK, RanOK
    <3> QED BY <2>1, <2>2, <2>3, <2>4, <3>1, <3>2, ReturnStep
  <2>5. CASE back[r].stage = "none"
    <3>1. ran[r] = <<>> /\ answer[r] = NoAnswer
      BY <2>1, <2>2, <2>5 DEF RequestOK, FrontOK, BackOK, AnswerOK
    <3>2. PICK x \in Requests \cup {Nobody} :
            answer' = [answer EXCEPT ![r] = [code |-> Failed, query |-> x]]
      BY <2>1 DEF applyTranslation, readRequest
    <3>3. front' = [front EXCEPT ![r].stage = "ended"] /\ calling' = Nobody
      BY <2>1 DEF applyTranslation
    <3>4. TypeOK'
      BY <1>0, <2>1, <3>2, <3>3 DEF TypeOK, Collectors, Stages, Answers
    <3>5. ASSUME NEW q \in Requests PROVE RequestOK(q)'
      <4>1. /\ RequestOK(q) /\ calling' # q
            /\ front'[q].buffer = front[q].buffer /\ front'[q].cookie = front[q].cookie
            /\ q # r => front'[q] = front[q] /\ answer'[q] = answer[q] /\ calling # q
            /\ front'[r].stage = "ended" /\ answer'[r].code = Failed
        BY <1>0, <2>1, <3>2, <3>3 DEF TypeOK, Collectors
      <4> QED BY <2>1, <2>2, <2>5, <3>1, <4>1 DEF RequestOK, FrontOK, BackOK, RanOK, AnswerOK
    <3> QED BY <3>4, <3>5 DEF IInv
  <2> QED BY <1>5, <2>4, <2>5 DEF performFails
<1>6. ASSUME NEW r \in Requests, NEW n \in 0..Pieces[r], HttpCallWrapper(r, n) PROVE IInv'
  <2> DEFINE c == collect(front[r].buffer, n, front[r].cookie)
  <2>1. /\ up /\ calling = r /\ back[r].stage = "none" /\ n \in 0..front[r].buffer
        /\ front[r].buffer = Pieces[r] /\ front[r].cookie = r
        /\ UNCHANGED <<sent, restarts>> /\ proceed(r, c)
    BY <1>0, <1>6 DEF HttpCallWrapper, RequestOK, FrontOK
  <2>2. /\ c \in Collectors /\ c.cookie = r
        /\ c.stage = "called" => c.buffer = Pieces[r]
    BY <1>0, <2>1, CollectFacts
  <2> HIDE DEF c
  <2> QED BY <2>1, <2>2, ProceedStep
<1>7. ASSUME NEW r \in Requests, serverOnData(r) PROVE IInv'
  <2> DEFINE c == append(back[r], front[r].buffer)
  <2>1. /\ up /\ calling = r /\ back[r].stage = "collecting"
        /\ front[r].buffer = Pieces[r] /\ back[r].cookie = r
        /\ back[r].buffer < Pieces[r] /\ back[r] \in Collectors
        /\ UNCHANGED <<sent, restarts>> /\ proceed(r, c)
    BY <1>0, <1>7 DEF serverOnData, RequestOK, FrontOK, BackOK, TypeOK
  <2>2. /\ c \in Collectors /\ c.cookie = r
        /\ c.stage = "called" => c.buffer = Pieces[r]
    BY <1>0, <2>1, AppendFacts
  <2> HIDE DEF c
  <2> QED BY <2>1, <2>2, ProceedStep
<1>8. CASE Stop
  <2>1. /\ UNCHANGED <<sent, front, calling, restarts, ran, answer>> /\ up' = FALSE
        /\ back' \in [Requests -> Collectors]
    BY <1>0, <1>8 DEF TypeOK, Stop, Collectors, Stages
  <2>2. ASSUME NEW q \in Requests PROVE RequestOK(q)'
    <3>1. /\ back'[q].alive = back[q].alive /\ back'[q].cookie = back[q].cookie
          /\ \/ back'[q].stage = back[q].stage
             \/ back[q].stage = "collecting" /\ back'[q].stage = "ended"
      BY <1>0, <1>8 DEF TypeOK, Stop, Collectors
    <3> QED BY <1>0, <2>1, <3>1 DEF RequestOK, FrontOK, BackOK, RanOK, AnswerOK
  <2> QED BY <1>0, <2>1, <2>2 DEF IInv, TypeOK
<1>9. CASE Restart
  BY <1>0, <1>9 DEF Restart, IInv, TypeOK, RequestOK, FrontOK, BackOK, RanOK, AnswerOK
<1>10. CASE UNCHANGED vars
  BY <1>0, <1>10 DEF vars, IInv, TypeOK, RequestOK, FrontOK, BackOK, RanOK, AnswerOK
<1> QED
  BY <1>1, <1>2, <1>3, <1>4, <1>5, <1>6, <1>7, <1>8, <1>9, <1>10
  DEF Next, TranslatorStep, ServerStep

LEMMA SpecIInv == Spec => []IInv
  BY InitIInv, NextIInv, PTL DEF Spec

-----------------------------------------------------------------------------
(* Types are kept in every step of the translator and the server.           *)
THEOREM TypeCorrect == Spec => []TypeOK
<1>1. IInv => TypeOK
  BY DEF IInv
<1> QED BY <1>1, SpecIInv, PTL

(* Whatever the cuts between reads, a handler runs at most once and with    *)
(* the whole body (extractPostBody, HttpCallWrapper).                       *)
THEOREM BodiesWhole == Spec => []HandledWhole
<1>1. IInv => HandledWhole
  BY DEF IInv, HandledWhole, RequestOK, RanOK
<1> QED BY <1>1, SpecIInv, PTL

(* The code on a page is the code of the handler that ran for it, and code  *)
(* 0 stands for none having answered (applyTranslation).                    *)
THEOREM AnswersTrue == Spec => []AnswersAreTheHandlers
<1>1. IInv => AnswersAreTheHandlers
  BY DEF IInv, AnswersAreTheHandlers, RequestOK, AnswerOK
<1> QED BY <1>1, SpecIInv, PTL

(* A handler whose request the server read in one go acts for the browser   *)
(* that made the request (forwardingWrapper::apply, HttpCallWrapper).       *)
THEOREM CallerTrue == Spec => []ActsForItsCaller
<1>1. IInv => ActsForItsCaller
  BY DEF IInv, ActsForItsCaller, RequestOK, RanOK
<1> QED BY <1>1, SpecIInv, PTL
=============================================================================
