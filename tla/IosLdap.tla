-------------------------------- MODULE IosLdap --------------------------------
(***************************************************************************)
(* The iOS half of ti.ldap: one TiLdapConnectionProxy, the request proxies *)
(* it creates and the search results they hand over, on top of LibLdap.    *)
(*                                                                         *)
(* Everything runs on the JavaScript thread.  A bind and a search, also an *)
(* "asynchronous" one, keep it inside ldap_result until they are over; the *)
(* server, the network and the destruction of proxies interleave with it.  *)
(* A connect does so only to start TLS, if the script has asked for it.    *)
(***************************************************************************)
EXTENDS LibLdap

CONSTANT Req    \* request proxies the application can create

VARIABLES
  ld,         \* _ld
  bound,      \* _bound
  wait,       \* the request the JavaScript thread is busy with, or Null
  messageId,  \* _messageId of each request, 0 for its -1
  message,    \* _ldapMessage of each request: a chain of items, or Null
  results,    \* _searchResult of the request's search result proxy, or Null
  freed,      \* how often the chain of each request has been freed
  gone,       \* requests whose proxy has been destroyed
  aborted,    \* an assertion of the library has ended the application
  op,         \* history: the operation each request sent last
  taken,      \* history: requests for which ldap_result returned a chain
  calls       \* history: callbacks fired for each request

memVars == <<message, results, freed, gone, taken>>
proxyVars == <<ld, bound, wait, messageId, memVars, aborted, op, calls>>
vars == <<libVars, proxyVars>>

Ops == [h : Handle, id : Id]

\* What the JavaScript thread is doing: ldap_start_tls_s, before and after its
\* request is sent, and the options set after it; ldap_simple_bind_s; the
\* search for the server's SASL mechanisms; a SASL round, before and after it
\* is sent; ldap_search_ext_s; waitForResultInThread.
Calls == {"starttls", "tls", "options", "simple", "mechs", "step", "sasl", "sync", "async"}
Waits == [req : Req, how : Calls, id : Nat, timed : BOOLEAN]
Callback == [code : Codes, result : Seq(Item) \cup {Null}]

ASSUME NullAssumption == Null \notin Waits /\ Null \notin Seq(Item) /\ Null \notin Ops

Init ==
  /\ LibInit
  /\ ld = Null
  /\ bound = FALSE
  /\ wait = Null
  /\ messageId = [r \in Req |-> 0]
  /\ message = [r \in Req |-> Null]
  /\ results = [r \in Req |-> Null]
  /\ freed = [r \in Req |-> 0]
  /\ gone = {}
  /\ aborted = FALSE
  /\ op = [r \in Req |-> Null]
  /\ taken = {}
  /\ calls = [r \in Req |-> <<>>]

-------------------------------------------------------------------------------
(* The request proxies' common part. *)

JsIdle == wait = Null /\ ~aborted

isBound == ld # Null /\ bound

start(r) == JsIdle /\ calls[r] = <<>>

Told(code) == [code |-> code, result |-> Null]

\* handleSuccess and handleError fire the application's callback.
fire(r, cs) == calls' = [calls EXCEPT ![r] = @ \o cs]

\* sendRequest ends without having waited.
answerNow(r, cs) ==
  /\ fire(r, cs)
  /\ UNCHANGED <<bound, wait, messageId, memVars, aborted, op>>

\* An assertion of the library fails.
abort ==
  /\ aborted' = TRUE
  /\ UNCHANGED <<libVars, ld, bound, wait, messageId, memVars, op, calls>>

\* r has sent a request and goes on in ldap_result.
listen(r, how, limit) ==
  LET id == msgid[ld] + 1 IN
  /\ wait' = [req |-> r, how |-> how, id |-> id, timed |-> limit]
  /\ op' = [op EXCEPT ![r] = [h |-> ld, id |-> id]]
  /\ messageId' = [messageId EXCEPT ![r] = IF how = "async" THEN id ELSE @]
  /\ UNCHANGED <<ld, bound, memVars, aborted, calls>>

\* The request could not be sent.
notSent(r) ==
  /\ ldap_open_fails(ld, 1) \/ ldap_write_fails(ld)
  /\ answerNow(r, <<Told("down")>>)
  /\ UNCHANGED ld

-------------------------------------------------------------------------------
(* Connection. *)

\* A uri that does not parse is reported.  A new handle replaces _ld whatever
\* _ld was and takes the connection's time limit, if one is set; with useTLS
\* it starts TLS first.
connect(r) ==
  /\ start(r)
  /\ \/ \E h \in Handle, limit \in BOOLEAN :
          /\ ldap_initialize(h, limit)
          /\ ld' = h
          /\ answerNow(r, <<Told("success")>>)
     \/ \E h \in Handle :
          /\ ldap_initialize(h, FALSE)
          /\ ld' = h
          /\ wait' = [req |-> r, how |-> "starttls", id |-> 0, timed |-> FALSE]
          /\ UNCHANGED <<bound, messageId, memVars, aborted, op, calls>>
     \/ answerNow(r, <<Told("error")>>) /\ UNCHANGED <<ld, libVars>>

\* The JavaScript thread is through with r.
finish(r, cs) ==
  /\ wait' = Null
  /\ fire(r, cs)
  /\ UNCHANGED <<ld, messageId, aborted, op>>

\* The library goes on inside the same call.
goOn(how) ==
  /\ wait' = [wait EXCEPT !.how = how]
  /\ UNCHANGED <<ld, bound, messageId, memVars, aborted, op, calls>>

\* ldap_start_tls_s sends its request and waits without a limit.  Whatever
\* comes of it, also of the handshake after it, is only logged.
startTLS ==
  /\ wait # Null
  /\ wait.how = "starttls"
  /\ \/ ldap_send(ld, "extended") /\ listen(wait.req, "tls", FALSE)
     \/ (ldap_open_fails(ld, 1) \/ ldap_write_fails(ld)) /\ goOn("options")

\* setSizeLimit and setTimeLimit, and the end of connect.
setLimits ==
  /\ wait # Null
  /\ wait.how = "options"
  /\ \E limit \in BOOLEAN : timed' = [timed EXCEPT ![ld] = limit]
  /\ finish(wait.req, <<Told("success")>>)
  /\ UNCHANGED <<heap, errno, msgid, requests, responses, abandoned, conn, refs, net, sent,
                 bound, memVars>>

\* Mutant: the handle is forgotten without being unbound.
disconnect_forgets ==
  /\ JsIdle
  /\ ld # Null
  /\ ld' = Null
  /\ bound' = FALSE
  /\ UNCHANGED <<libVars, wait, messageId, memVars, aborted, op, calls>>

\* Only a bound handle is unbound.  The proxy's _destroy does the same.
disconnect ==
  /\ JsIdle
  /\ ld # Null
  /\ IF bound THEN ldap_unbind_ext(ld) ELSE UNCHANGED libVars
  /\ ld' = Null
  /\ bound' = FALSE
  /\ UNCHANGED <<wait, messageId, memVars, aborted, op, calls>>

-------------------------------------------------------------------------------
(* Bind. *)

simpleBind(r) ==
  /\ start(r)
  /\ \/ ld = Null /\ abort
     \/ /\ ld # Null
        /\ room(ld, 1)
        /\ \/ ldap_send(ld, "bind") /\ listen(r, "simple", timed[ld])
           \/ notSent(r)

\* With a mechanism the first round starts at once; without one the server is
\* asked for its mechanisms first.
saslBind(r) ==
  /\ start(r)
  /\ \/ ld = Null /\ abort
     \/ /\ ld # Null
        /\ room(ld, 1)
        /\ wait' = [req |-> r, how |-> "step", id |-> 0, timed |-> timed[ld]]
        /\ UNCHANGED <<libVars, ld, bound, messageId, memVars, aborted, op, calls>>
     \/ /\ ld # Null
        /\ room(ld, 2)
        /\ \/ ldap_send(ld, "search") /\ listen(r, "mechs", timed[ld])
           \/ notSent(r)

\* ldap_int_sasl_bind: a missing connection is opened before the mechanism is
\* started or stepped; the step can fail, otherwise its token is sent.
saslStep ==
  /\ wait # Null
  /\ wait.how = "step"
  /\ \/ ldap_send(ld, "bind") /\ listen(wait.req, "sasl", wait.timed)
     \/ /\ ldap_open_fails(ld, 0) \/ ldap_write_fails(ld)
        /\ finish(wait.req, <<Told("down")>>)
        /\ UNCHANGED <<bound, memVars>>
     \/ LET opened == conn[ld] = "none" IN
        /\ setErrno(ld, "error")
        /\ conn' = [conn EXCEPT ![ld] = IF opened THEN "up" ELSE @]
        /\ refs' = [refs EXCEPT ![ld] = IF opened THEN 1 ELSE @]
        /\ net' = [net EXCEPT ![ld] = IF opened THEN Opened ELSE @]
        /\ finish(wait.req, <<Told("error")>>)
        /\ UNCHANGED <<heap, msgid, timed, requests, responses, abandoned, sent, bound, memVars>>

\* Mutant: any answer to a bind counts as success.
bindDone_unchecked(r, code) ==
  /\ bound' = TRUE
  /\ finish(r, <<Told(code)>>)
  /\ UNCHANGED memVars

\* handleSuccess of the bind requests records the bind.
bindDone(r, code) ==
  /\ bound' = (bound \/ code = "success")
  /\ finish(r, <<Told(code)>>)
  /\ UNCHANGED memVars

-------------------------------------------------------------------------------
(* Search. *)

\* isConnectionBound reports the error and execute returns a failure, which
\* sendRequest reports again.
searchUnbound(r) ==
  /\ ~isBound
  /\ answerNow(r, <<Told("error"), Told("error")>>)
  /\ UNCHANGED <<ld, libVars>>

\* A time limit of zero is refused by ldap_pvt_search, which leaves ld_errno
\* alone.  The asynchronous branch reports what it finds there.
searchZeroLimit(r, async) ==
  /\ isBound
  /\ answerNow(r, <<Told(IF async THEN errno[ld] ELSE "error")>>)
  /\ UNCHANGED <<ld, libVars>>

\* The filter does not parse.
searchBadFilter(r) ==
  /\ isBound
  /\ room(ld, 1)
  /\ setErrno(ld, "error")
  /\ msgid' = [msgid EXCEPT ![ld] = @ + 1]
  /\ answerNow(r, <<Told("error")>>)
  /\ UNCHANGED <<ld, heap, timed, requests, responses, abandoned, conn, refs, net, sent>>

\* ldap_search_ext_s waits as long as the search's own limit says, and may
\* have to send an abandon; waitForResultInThread as long as the connection's.
searchSend(r) ==
  /\ isBound
  /\ \/ \E limit \in BOOLEAN :
          room(ld, 2) /\ ldap_send(ld, "search") /\ listen(r, "sync", limit)
     \/ room(ld, 1) /\ ldap_send(ld, "search") /\ listen(r, "async", timed[ld])
     \/ room(ld, 1) /\ notSent(r)

search(r) ==
  /\ start(r)
  /\ \/ searchUnbound(r)
     \/ searchBadFilter(r)
     \/ searchSend(r)
     \/ \E async \in BOOLEAN : searchZeroLimit(r, async)

\* Mutant: the request proxy keeps its pointer to the chain it hands over.
searchDone_bothOwn(r, code, chain) ==
  /\ taken' = taken \cup {r}
  /\ message' = [message EXCEPT ![r] = chain]
  /\ results' = [results EXCEPT ![r] = IF code = "success" THEN chain ELSE @]
  /\ finish(r, <<[code |-> code, result |-> IF code = "success" THEN chain ELSE Null]>>)
  /\ UNCHANGED <<bound, freed, gone>>

\* Mutant: the final result is handed over as one of the items.
searchDone_withResult(r, code, chain) ==
  LET all == Append(chain, code) IN
  /\ taken' = taken \cup {r}
  /\ message' = [message EXCEPT ![r] = IF code = "success" THEN Null ELSE all]
  /\ results' = [results EXCEPT ![r] = IF code = "success" THEN all ELSE @]
  /\ finish(r, <<[code |-> code, result |-> IF code = "success" THEN all ELSE Null]>>)
  /\ UNCHANGED <<bound, freed, gone>>

\* handleSuccess hands the chain to a new search result proxy; with an error
\* the chain stays with the request proxy.
searchDone(r, code, chain) ==
  /\ taken' = taken \cup {r}
  /\ message' = [message EXCEPT ![r] = IF code = "success" THEN Null ELSE chain]
  /\ results' = [results EXCEPT ![r] = IF code = "success" THEN chain ELSE @]
  /\ finish(r, <<[code |-> code, result |-> IF code = "success" THEN chain ELSE Null]>>)
  /\ UNCHANGED <<bound, freed, gone>>

-------------------------------------------------------------------------------
(* Waiting in ldap_result. *)

listening == wait # Null /\ wait.how \notin {"starttls", "options", "step"}

keepLooking ==
  /\ listening
  /\ toss(ld) \/ queue(ld, wait.id)
  /\ UNCHANGED proxyVars

\* What the caller makes of the server's verdict.  A list of mechanisms can be
\* empty, and the client can reject the server's last SASL token, or the
\* certificate it shows in the TLS handshake.
codesFor(how, verdict, chain) ==
  CASE verdict = "success" /\ how = "mechs" ->
         IF chain = <<>> THEN {"error"} ELSE {"success", "error"}
    [] verdict = "success" /\ how \in {"sasl", "tls"} -> {"success", "error"}
    [] OTHER -> {verdict}

\* The whole chain has arrived.  A list of mechanisms and an unfinished SASL
\* bind lead to the next round.
answered ==
  /\ listening
  /\ arrived(ld, wait.id)
  /\ LET chain == responses[ld][wait.id] IN
     \E code \in codesFor(wait.how, nextMsg(ld).body, chain) :
     /\ take(ld, wait.id, code)
     /\ \/ wait.how = "simple" /\ bindDone(wait.req, code)
        \/ wait.how = "sasl" /\ code # "more" /\ bindDone(wait.req, code)
        \/ wait.how = "sasl" /\ code = "more" /\ goOn("step")
        \/ wait.how = "mechs" /\ code = "success" /\ goOn("step")
        \/ wait.how = "tls" /\ goOn("options")
        \/ /\ wait.how = "mechs"
           /\ code # "success"
           /\ finish(wait.req, <<Told(code)>>)
           /\ UNCHANGED <<bound, memVars>>
        \/ wait.how \in {"sync", "async"} /\ searchDone(wait.req, code, chain)

\* Mutant: the end of the stream is not an error.
lost_unnoticed == FALSE

\* The link is lost.
lost ==
  /\ listening
  /\ readError(ld)
  /\ \/ wait.how = "tls" /\ goOn("options")
     \/ /\ wait.how # "tls"
        /\ finish(wait.req, <<Told("down")>>)
        /\ UNCHANGED <<bound, memVars>>

\* Mutant: the wait of a request with a time limit is not timed.
timedOut_never == FALSE

\* Mutant: the time-out is reported and the wait goes on.
timedOut_goesOn ==
  /\ listening
  /\ wait.timed
  /\ calls[wait.req] = <<>>
  /\ fire(wait.req, <<Told("timeout")>>)
  /\ UNCHANGED <<libVars, ld, bound, wait, messageId, memVars, aborted, op>>

\* The time limit is over.  Only ldap_search_ext_s abandons its request.
timedOut ==
  /\ listening
  /\ wait.timed
  /\ setErrno(ld, "timeout")
  /\ IF wait.how = "sync" THEN do_abandon(ld, wait.id)
     ELSE UNCHANGED <<heap, msgid, timed, requests, responses, abandoned, conn, refs, net, sent>>
  /\ finish(wait.req, <<Told("timeout")>>)
  /\ UNCHANGED <<bound, memVars>>

-------------------------------------------------------------------------------
(* Abandon, and the destruction of proxies. *)

\* The script has the request only after sendRequest has returned.  abandon
\* uses the handle that is current now.
abandon(r) ==
  /\ JsIdle
  /\ r \notin gone
  /\ messageId[r] # 0
  /\ \/ ld = Null /\ abort
     \/ /\ ld # Null
        /\ room(ld, 1)
        /\ do_abandon(ld, messageId[r])
        /\ \E code \in abandonCodes(ld, messageId[r]) : setErrno(ld, code)
        /\ UNCHANGED proxyVars

destroyRequest(r) ==
  /\ calls[r] # <<>>
  /\ r \notin gone
  /\ gone' = gone \cup {r}
  /\ message' = [message EXCEPT ![r] = Null]
  /\ freed' = [freed EXCEPT ![r] = IF message[r] # Null THEN @ + 1 ELSE @]
  /\ UNCHANGED <<libVars, ld, bound, wait, messageId, results, taken, aborted, op, calls>>

destroyResult(r) ==
  /\ results[r] # Null
  /\ results' = [results EXCEPT ![r] = Null]
  /\ freed' = [freed EXCEPT ![r] = @ + 1]
  /\ UNCHANGED <<libVars, ld, bound, wait, messageId, message, gone, taken, aborted, op, calls>>

-------------------------------------------------------------------------------
Script(r) == connect(r) \/ simpleBind(r) \/ saslBind(r) \/ search(r) \/ abandon(r)

Waiting == keepLooking \/ answered \/ lost \/ timedOut \/ saslStep \/ startTLS \/ setLimits

Destroy == \E r \in Req : destroyRequest(r) \/ destroyResult(r)

itemSent(h) ==
  /\ \E w \in net[h].working, item \in Item : serverItem(h, w, item)
  /\ UNCHANGED proxyVars

verdictSent(h) ==
  /\ \E w \in net[h].working, verdict \in Verdicts : serverDone(h, w, verdict)
  /\ UNCHANGED proxyVars

linkDropped(h) == dropped(h) /\ UNCHANGED proxyVars

Environment == \E h \in Handle : itemSent(h) \/ verdictSent(h) \/ linkDropped(h)

Next ==
  \/ \E r \in Req : Script(r)
  \/ disconnect \/ Waiting \/ Destroy \/ Environment

Spec == Init /\ [][Next]_vars

\* An application that connects only when it is disconnected, binds only when
\* it is connected and not bound, and disconnects only when it is bound ...
sessionScript(r) ==
  \/ ld = Null /\ connect(r)
  \/ ld # Null /\ ~bound /\ (simpleBind(r) \/ saslBind(r))
  \/ search(r)

\* ... and abandons only a search that timed out on the current handle.
ownTimeout(r) ==
  op[r] # Null /\ op[r].h = ld /\ calls[r] # <<>> /\ calls[r][1].code = "timeout"

CarefulNext ==
  \/ \E r \in Req : sessionScript(r) \/ (ownTimeout(r) /\ abandon(r))
  \/ (bound /\ disconnect) \/ Waiting \/ Destroy \/ Environment

CarefulSpec == Init /\ [][CarefulNext]_vars

\* The JavaScript thread goes on when it can, and a time limit ends a wait.
Fairness == WF_vars(Waiting)

\* A server that finishes what it has been asked, as long as the link holds.
serverAnswers(h, id) ==
  /\ \E w \in net[h].working, verdict \in Verdicts : w.id = id /\ serverDone(h, w, verdict)
  /\ UNCHANGED proxyVars

ServerFairness == \A h \in Handle, id \in Id : WF_vars(serverAnswers(h, id))

-------------------------------------------------------------------------------
(* Properties. *)

\* Every field of the proxies and of the library has its type.
TypeOK ==
  /\ LibTypeOK
  /\ ld \in Handle \cup {Null}
  /\ bound \in BOOLEAN
  /\ wait \in Waits \cup {Null}
  /\ messageId \in [Req -> 0 .. MaxId]
  /\ message \in [Req -> Seq(Item) \cup {Null}]
  /\ results \in [Req -> Seq(Item) \cup {Null}]
  /\ freed \in [Req -> Nat]
  /\ gone \subseteq Req
  /\ aborted \in BOOLEAN
  /\ op \in [Req -> Ops \cup {Null}]
  /\ taken \subseteq Req
  /\ calls \in [Req -> Seq(Callback)]

\* The chain a search received has one owner, the request proxy or the search
\* result proxy, until it is freed, and it is freed once: handleSuccess moves
\* the pointer and each _destroy frees what is left to it.
OneOwner ==
  \A r \in Req :
    LET holders == {p \in {"request", "result"} :
                      (IF p = "request" THEN message ELSE results)[r] # Null} IN
    Cardinality(holders) + freed[r] = IF r \in taken THEN 1 ELSE 0

\* A search hands over exactly what the server sent for it, in order, also
\* when late answers to earlier requests are read in between.
ResultIntegrity ==
  \A r \in Req : \A i \in DOMAIN calls[r] :
    LET res == calls[r][i].result IN res # Null => res = sent[op[r].h][op[r].id]

told(r) ==
  IF calls[r] # <<>>
  THEN IF calls[r][Len(calls[r])].code = "success" THEN "success" ELSE "error"
  ELSE IF wait # Null /\ wait.req = r THEN "pending" ELSE "none"

Contract == INSTANCE RequestContract WITH outcome <- [r \in Req |-> told(r)]

\* The request proxies implement the contract of RequestContract: an answer is
\* final, whatever path through sendRequest and ldap_result led to it.
ImplementsContract == Contract!Spec

\* For a careful application: while a request is waited for, the library knows
\* it and does not throw its answers away.
AnswersHeard == listening => wait.id \in requests[ld] \ abandoned[ld]

\* For a careful application: what isBound says of a session that is up is
\* what the server says, also after time-outs, abandons and lost links.
BoundIsAuthenticated ==
  isBound /\ wait = Null /\ conn[ld] = "up" /\ net[ld].alive => net[ld].auth

\* For a careful application: no handle but _ld is live.
NoHandleLeft == \A h \in Handle : heap[h] = "live" => h = ld

\* r is being waited for.
waitedFor(r) == wait # Null /\ wait.req = r

\* A request whose wait has a time limit ends in a callback even if the server
\* never answers.  A limit set on the connection is enough, except for a
\* synchronous search, which goes by its own.
TimedRequestEnds ==
  \A r \in Req :
    (waitedFor(r) /\ (wait.timed \/ (timed[ld] /\ wait.how # "sync"))) ~> calls[r] # <<>>

\* Every request that sendRequest waits for ends in a callback, with a time
\* limit or without, if the server answers what it is asked as long as the
\* link holds.
RequestEnds == ServerFairness => \A r \in Req : waitedFor(r) ~> calls[r] # <<>>
===============================================================================
