------------------------------ MODULE Forwarding ------------------------------
(***************************************************************************)
(* The two processes between a browser and a handler.  The translator      *)
(* (Translator/src/Source.cpp) takes a browser's request, sends it on to   *)
(* the server with curl and turns the answer into a page; the server's     *)
(* HttpCallWrapper (Network.h) takes the request apart and calls the       *)
(* handler.                                                                *)
(*                                                                         *)
(* Both are single threads around an event loop.  Both collect a body that *)
(* comes in pieces with the same code, a callback that appends each piece  *)
(* and calls on with the last one.  The translator calls the server from   *)
(* inside that callback, with curl_easy_perform and no time limit, so it   *)
(* looks at no other connection until the call returns.                    *)
(***************************************************************************)
EXTENDS Integers, Sequences

CONSTANTS
  Requests,       \* requests that browsers make, one connection for each
  Posts,          \* those with the method POST; the others are GETs
  Pieces,         \* the length of each request's body, in pieces
  Codes,          \* the status codes handlers answer with
  Nobody,         \* no request
  MaxRestarts     \* bound on how often the server is started again

VARIABLES
  sent,           \* pieces of each request the browser has sent, or Unsent
  front,          \* each request as the translator has it
  back,           \* each request as the server has it
  calling,        \* the request whose curl_easy_perform has not returned
  up,             \* the server process is running
  restarts,
  ran,            \* the runs of each request's handler (history)
  answer          \* what each browser was answered

vars == <<sent, front, back, calling, up, restarts, ran, answer>>

Unsent == -1
Failed == 0       \* response_code when curl got no answer

(* Where a request is in one of the processes, how many pieces its buffer   *)
(* holds, whether the request object it arrived in still exists, and the    *)
(* request whose cookie is sent on with it.                                 *)
Stages     == {"none", "collecting", "called", "ended"}
Collectors == [stage : Stages, buffer : Nat, alive : BOOLEAN,
               cookie : Requests \cup {Nobody}]
NotThere   == [stage |-> "none", buffer |-> 0, alive |-> FALSE, cookie |-> Nobody]

(* What a handler ran with, the request whose cookie it read and a body,    *)
(* and the code it answered with, Failed when it threw.                     *)
Runs == [caller : Requests \cup {Nobody}, body : Nat, code : Codes \cup {Failed}]

NoAnswer == [code |-> Unsent, query |-> Nobody]
Answers  == [code : Codes \cup {Failed}, query : Requests \cup {Nobody}] \cup {NoAnswer}

ASSUME ForwardingAssumption ==
  /\ Posts \subseteq Requests
  /\ Pieces \in [Requests -> Nat]
  /\ \A r \in Requests \ Posts : Pieces[r] = 0
  /\ Codes \subseteq Nat \ {Failed}
  /\ Nobody \notin Requests
  /\ MaxRestarts \in Nat

-----------------------------------------------------------------------------
Init ==
  /\ sent     = [r \in Requests |-> Unsent]
  /\ front    = [r \in Requests |-> NotThere]
  /\ back     = [r \in Requests |-> NotThere]
  /\ calling  = Nobody
  /\ up       = TRUE /\ restarts = 0
  /\ ran      = [r \in Requests |-> <<>>]
  /\ answer   = [r \in Requests |-> NoAnswer]

(* The browser sends the head of a request and, sooner or later, its body.  *)
Send(r, n) ==
  /\ sent[r] < n
  /\ sent' = [sent EXCEPT ![r] = n]
  /\ UNCHANGED <<front, back, calling, up, restarts, ran, answer>>

-----------------------------------------------------------------------------
(* extractPostBody and HttpCallWrapper::operator().  The head and the first *)
(* n of size pieces have been read together.  Without a content-length (or  *)
(* with 0, or one that is no number) the callback is called at once.  The   *)
(* request object lives until this read has been dealt with.                *)
collect(size, n, cookie) ==
  [stage |-> IF n = size THEN "called" ELSE "collecting",
   buffer |-> n, alive |-> n = size, cookie |-> cookie]

(* Mutated form: the callback is called with every piece, not the last.     *)
append_EachPiece(c, size) == [c EXCEPT !.stage = "called", !.buffer = @ + 1]

(* The lambda given to onData, in a later turn of the event loop: the       *)
(* buffer is its own copy, the request object is gone.                      *)
append(c, size) == [collect(size, c.buffer + 1, c.cookie) EXCEPT !.alive = FALSE]

(* What reading a request object with content x gives: x or, once the       *)
(* object is gone, whatever is in its place, of this request or another.    *)
readRequest(c, x) == IF c.alive THEN {x} ELSE Requests \cup {Nobody}

-----------------------------------------------------------------------------
(* The translator.  forwardingWrapper::apply makes the curl object with the *)
(* query and the cookie of the request before anything else; GETs call      *)
(* curl_easy_perform at once, POSTs from the callback.                      *)
Free == calling = Nobody

callServer(r, c) == calling' = IF c.stage = "called" THEN r ELSE calling

(* Mutated form: requests without a body wait for one as well.              *)
apply_AlwaysWaits(r, n) ==
  /\ Free /\ front[r].stage = "none"
  /\ n \in 0..sent[r]
  /\ LET c == [collect(Pieces[r], n, r) EXCEPT
                 !.stage = IF n = 0 THEN "collecting" ELSE @]
     IN  front' = [front EXCEPT ![r] = c] /\ callServer(r, c)
  /\ UNCHANGED <<sent, back, up, restarts, ran, answer>>

(* Mutated form: the curl object is made in the callback, so the cookie of  *)
(* a request whose body comes later is read when the request is gone.       *)
apply_CookieLate(r, n) ==
  /\ Free /\ front[r].stage = "none"
  /\ n \in 0..sent[r]
  /\ LET c == collect(Pieces[r], n, IF n = Pieces[r] THEN r ELSE Nobody)
     IN  front' = [front EXCEPT ![r] = c] /\ callServer(r, c)
  /\ UNCHANGED <<sent, back, up, restarts, ran, answer>>

apply(r, n) ==
  /\ Free /\ front[r].stage = "none"
  /\ n \in 0..sent[r]
  /\ front' = [front EXCEPT ![r] = collect(Pieces[r], n, r)]
  /\ callServer(r, collect(Pieces[r], n, r))
  /\ UNCHANGED <<sent, back, up, restarts, ran, answer>>

onData(r) ==
  /\ Free /\ front[r].stage = "collecting"
  /\ front[r].buffer < sent[r]
  /\ front' = [front EXCEPT ![r] = append(@, Pieces[r])]
  /\ callServer(r, append(front[r], Pieces[r]))
  /\ UNCHANGED <<sent, back, up, restarts, ran, answer>>

(* The browser closes the connection before the body is complete: the       *)
(* answer 500 reaches nobody and the callback is dropped uncalled.          *)
onAborted(r) ==
  /\ Free /\ front[r].stage = "collecting"
  /\ front' = [front EXCEPT ![r].stage = "ended"]
  /\ UNCHANGED <<sent, back, calling, up, restarts, ran, answer>>

(* curl_easy_perform has returned.  Its result is not looked at: without an *)
(* answer the code is 0 and the body empty, which fromData takes for an     *)
(* empty response, and the page is made from that.  query(req) is read from *)
(* the request object now.                                                  *)
applyTranslation(r, code) ==
  /\ \E q \in readRequest(front[r], r) :
       answer' = [answer EXCEPT ![r] = [code |-> code, query |-> q]]
  /\ front' = [front EXCEPT ![r].stage = "ended"]
  /\ calling' = Nobody

(* Mutated form: response_code has no initial value.                        *)
performFails_NoInitialCode(r) ==
  /\ calling = r
  /\ back[r].stage = "ended" \/ (back[r].stage = "none" /\ ~up)
  /\ applyTranslation(r, Unsent)
  /\ UNCHANGED <<sent, back, up, restarts, ran>>

(* Mutated form: response_code is 200 unless an answer says otherwise.      *)
performFails_ReportsOK(r) ==
  /\ calling = r
  /\ back[r].stage = "ended" \/ (back[r].stage = "none" /\ ~up)
  /\ \E ok \in Codes : applyTranslation(r, ok)
  /\ UNCHANGED <<sent, back, up, restarts, ran>>

(* Refused, or reset because the process ended during the call. *)
performFails(r) ==
  /\ calling = r
  /\ back[r].stage = "ended" \/ (back[r].stage = "none" /\ ~up)
  /\ applyTranslation(r, Failed)
  /\ UNCHANGED <<sent, back, up, restarts, ran>>

-----------------------------------------------------------------------------
(* The server.  A handler runs within the step in which its body is         *)
(* complete.  It answers, and the call of the translator returns; or it     *)
(* throws, and the process ends.                                            *)
runHandler(r, c) ==
  \E who \in readRequest(c, c.cookie), code \in Codes \cup {Failed} :
    /\ ran' = [ran EXCEPT ![r] = Append(@, [caller |-> who, body |-> c.buffer, code |-> code])]
    /\ back' = [back EXCEPT ![r] = [c EXCEPT !.stage = "ended"]]
    /\ IF code = Failed
         THEN up' = FALSE /\ UNCHANGED <<front, calling, answer>>
         ELSE applyTranslation(r, code) /\ UNCHANGED up

(* The handler is called once the whole body is there. *)
proceed(r, c) ==
  \/ c.stage = "called" /\ runHandler(r, c)
  \/ /\ c.stage = "collecting"
     /\ back' = [back EXCEPT ![r] = c]
     /\ UNCHANGED <<front, calling, up, ran, answer>>

(* curl sends the cookie it was given and the whole of the buffer. *)
HttpCallWrapper(r, n) ==
  /\ up /\ calling = r /\ back[r].stage = "none"
  /\ n \in 0..front[r].buffer
  /\ proceed(r, collect(front[r].buffer, n, front[r].cookie))
  /\ UNCHANGED <<sent, restarts>>

serverOnData(r) ==
  /\ up /\ calling = r /\ back[r].stage = "collecting"
  /\ back[r].buffer < front[r].buffer
  /\ proceed(r, append(back[r], front[r].buffer))
  /\ UNCHANGED <<sent, restarts>>

(* The process is stopped; it is started again with nothing of the old one. *)
Stop ==
  /\ up /\ up' = FALSE
  /\ back' = [r \in Requests |->
                IF back[r].stage = "collecting" THEN [back[r] EXCEPT !.stage = "ended"]
                                                ELSE back[r]]
  /\ UNCHANGED <<sent, front, calling, restarts, ran, answer>>

Restart ==
  /\ ~up /\ restarts < MaxRestarts
  /\ up' = TRUE /\ restarts' = restarts + 1
  /\ UNCHANGED <<sent, front, back, calling, ran, answer>>

-----------------------------------------------------------------------------
TranslatorStep(r) == onData(r) \/ performFails(r) \/ \E n \in 0..Pieces[r] : apply(r, n)

ServerStep(r) == serverOnData(r) \/ \E n \in 0..Pieces[r] : HttpCallWrapper(r, n)

Next ==
  \/ \E r \in Requests :
       \/ \E n \in 0..Pieces[r] : Send(r, n)
       \/ TranslatorStep(r)
       \/ ServerStep(r)
       \/ onAborted(r)
  \/ Stop
  \/ Restart

(* Both processes are event loops that deal with what has arrived; nothing  *)
(* is asked of the browsers, nor that a server is started again.            *)
Fairness ==
  \A r \in Requests : WF_vars(TranslatorStep(r)) /\ WF_vars(ServerStep(r))

Spec == Init /\ [][Next]_vars /\ Fairness

-----------------------------------------------------------------------------
TypeOK ==
  /\ sent \in [Requests -> Nat \cup {Unsent}]
  /\ front \in [Requests -> Collectors]
  /\ back \in [Requests -> Collectors]
  /\ calling \in Requests \cup {Nobody}
  /\ up \in BOOLEAN /\ restarts \in 0..MaxRestarts
  /\ ran \in [Requests -> Seq(Runs)]
  /\ answer \in [Requests -> Answers]

(* However a body is cut into pieces on its two ways, its handler runs at   *)
(* most once, with the whole of it, and never for a body that the browser   *)
(* gave up on half way (the lambdas of extractPostBody and HttpCallWrapper).*)
HandledWhole ==
  \A r \in Requests :
    /\ Len(ran[r]) <= 1
    /\ ran[r] # <<>> => sent[r] = Pieces[r] /\ ran[r][1].body = Pieces[r]

(* A page with a handler's code is only shown when that handler ran and     *)
(* answered so.  One with code 0 is shown when no handler ran or the server *)
(* went down during it; the page cannot tell these two apart                *)
(* (requestWrapper::perform ignores curl's result).                         *)
AnswersAreTheHandlers ==
  \A r \in Requests :
    answer[r] # NoAnswer =>
      answer[r].code = IF ran[r] = <<>> THEN Failed ELSE ran[r][1].code

(* A handler acts for the browser that sent the request, unless its body    *)
(* came to the server in a later read than its head: reading the cookie at  *)
(* that time is reading an object that is gone (HttpCallWrapper keeps req). *)
(* The same pause on the way to the translator does no harm: apply has put  *)
(* the cookie into the curl object before it waits for the body.            *)
ActsForItsCaller ==
  \A r \in Requests :
    ran[r] # <<>> /\ back[r].alive => ran[r][1].caller = r

(* A request that was sent whole is answered or given up on: neither a slow *)
(* body of somebody else nor a server that goes down holds it up for ever.  *)
Served ==
  \A r \in Requests : (sent[r] = Pieces[r]) ~> (front[r].stage = "ended")
=============================================================================
