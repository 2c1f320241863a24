------------------------------ MODULE AndroidLdap ------------------------------
(***************************************************************************)
(* The Android half of ti.ldap: one ConnectionProxy, the request proxies   *)
(* it creates, and the threads they meet on.                               *)
(*                                                                         *)
(*   - the JavaScript thread runs every proxy method and every callback;   *)
(*   - one LDAPConnectionReader thread per LDAPConnection reads responses  *)
(*     and calls the search listener;                                      *)
(*   - a Timer thread per LDAPConnection times asynchronous searches out;  *)
(*   - the LDAP server answers, or does not.                               *)
(*                                                                         *)
(* A synchronous operation blocks the JavaScript thread and touches no     *)
(* state of the other threads, so it is one step.  An asynchronous search  *)
(* is three steps of the JavaScript thread, because the reader, the timer  *)
(* and the loss of the link come in between.                               *)
(***************************************************************************)
EXTENDS Naturals, Sequences

CONSTANTS
  Req,              \* request proxies the application can create
  Handle,           \* LDAPConnection objects that can be created
  Entry, Reference, \* what a search can return
  MaxItems,         \* bound: entries and references a server sends per search
  Null              \* Java's null

ASSUME ConstantsAssumption ==
  /\ Entry \cap Reference = {}
  /\ {"success", "error"} \cap (Entry \cup Reference) = {}
  /\ MaxItems \in Nat
  /\ Null \notin Handle
  /\ Null \notin [h : Handle, m : Nat]

VARIABLES
  ld,         \* ConnectionProxy._ld
  bound,      \* ConnectionProxy._bound
  link,       \* state of each LDAPConnection: "unused", "open", "closed"
  timeLimit,  \* _options has a response timeout
  timed,      \* the copy of it each LDAPConnection took when it was created
  auth,       \* whether the server considers the session authenticated
  nextId,     \* next message ID of each LDAPConnection
  phase,      \* how far sendRequest has come for each request
  op,         \* the operation asyncSearch started for the request
  asyncId,    \* RequestProxy._asyncRequestId
  lists,      \* _entryList and _referenceList of the request's listener
  returned,   \* AsyncSearchHelper.responseReturned
  armed,      \* the request's timeout task is scheduled
  acceptors,  \* requests registered in the readers' acceptor maps
  reader,     \* the message each reader thread is handing to a listener
  stream,     \* responses on the wire, per LDAPConnection
  working,    \* operations the server is still working on
  served,     \* history: what the server has sent for each search
  calls,      \* history: callbacks handed to callAsync for each request
  threw       \* requests on which a call threw a Java exception at the script

conVars == <<ld, bound, link, timed, auth>>
sdkVars == <<returned, armed, acceptors, reader, stream, working, served, lists>>
vars == <<timeLimit, conVars, nextId, phase, op, asyncId, sdkVars, calls, threw>>

None == [entries |-> <<>>, refs |-> <<>>]
Results == [entries : Seq(Entry), refs : Seq(Reference)]
Failure == [outcome |-> "error", result |-> None]
Success(res) == [outcome |-> "success", result |-> res]
Outcomes == {"success", "error"}
Callback == [outcome : Outcomes, result : Results]
Ops == [h : Handle, m : Nat]
Phases == {"new", "registered", "written", "sent", "finished"}

\* Messages of the server: a search entry or reference, or the final result.
Message == [m : Nat, body : Entry \cup Reference \cup Outcomes]
IsFinal(msg) == msg.body \in Outcomes

ASSUME ReaderAssumption == Null \notin [req : Req, msg : Message]

Init ==
  /\ ld = Null
  /\ bound = FALSE
  /\ link = [h \in Handle |-> "unused"]
  /\ timeLimit = TRUE         \* the SDK's default, five minutes
  /\ timed = [h \in Handle |-> FALSE]
  /\ auth = [h \in Handle |-> FALSE]
  /\ nextId = [h \in Handle |-> 1]
  /\ phase = [r \in Req |-> "new"]
  /\ op = [r \in Req |-> Null]
  /\ asyncId = [r \in Req |-> Null]
  /\ lists = [r \in Req |-> None]
  /\ returned = [r \in Req |-> FALSE]
  /\ armed = [r \in Req |-> FALSE]
  /\ acceptors = {}
  /\ reader = [h \in Handle |-> Null]
  /\ stream = [h \in Handle |-> <<>>]
  /\ working = {}
  /\ served = [r \in Req |-> None]
  /\ calls = [r \in Req |-> <<>>]
  /\ threw = {}

-------------------------------------------------------------------------------
(* The request proxies' common part. *)

\* The JavaScript thread is not inside asyncSearch.
JsIdle == \A r \in Req : phase[r] \notin {"registered", "written"}

isBound == ld # Null /\ bound

\* handleSuccess and handleError post the application's callback with
\* callAsync; Titanium runs it on the JavaScript thread, later.
post(r, cs) == calls' = [calls EXCEPT ![r] = @ \o cs]

\* sendRequest answers the request itself, with the callbacks cs.
finish(r, cs) ==
  /\ phase' = [phase EXCEPT ![r] = "finished"]
  /\ post(r, cs)
  /\ UNCHANGED threw

\* execute throws what sendRequest does not catch: no callback is posted.
throwOut(r) ==
  /\ phase' = [phase EXCEPT ![r] = "finished"]
  /\ threw' = threw \cup {r}
  /\ UNCHANGED calls

start(r) == JsIdle /\ phase[r] = "new"

takeId(h) == nextId' = [nextId EXCEPT ![h] = @ + 1]

-------------------------------------------------------------------------------
(* Connection. *)

\* LDAPConnection closes h: its reader forgets the acceptors without telling
\* the search listeners, its Timer is cancelled, unread responses are lost.
close(h) ==
  LET here == {r \in Req : op[r] # Null /\ op[r].h = h} IN
  /\ link' = [link EXCEPT ![h] = "closed"]
  /\ acceptors' = acceptors \ here
  /\ armed' = [r \in Req |-> armed[r] /\ r \notin here]
  /\ stream' = [stream EXCEPT ![h] = <<>>]
  /\ working' = {o \in working : o.h # h}
  /\ UNCHANGED <<returned, reader, served, lists>>

\* A malformed uri and a refused connection are reported and change nothing;
\* a new LDAPConnection copies the options and replaces _ld whatever _ld was.
connect(r) ==
  /\ start(r)
  /\ \/ /\ finish(r, <<Failure>>)
        /\ UNCHANGED conVars
     \/ \E h \in Handle :
          /\ link[h] = "unused"
          /\ link' = [link EXCEPT ![h] = "open"]
          /\ timed' = [timed EXCEPT ![h] = timeLimit]
          /\ ld' = h
          /\ finish(r, <<Success(None)>>)
          /\ UNCHANGED <<bound, auth>>
  /\ UNCHANGED <<timeLimit, nextId, op, asyncId, sdkVars>>

\* A positive limit is a response timeout, zero and negative ones are none.
\* Connections that exist already keep theirs.
setTimeLimit(positive) ==
  /\ JsIdle
  /\ timeLimit' = positive
  /\ UNCHANGED <<conVars, nextId, phase, op, asyncId, sdkVars, calls, threw>>

\* Mutant: _bound survives disconnect.
disconnect_staysBound ==
  /\ JsIdle
  /\ ld # Null
  /\ close(ld)
  /\ ld' = Null
  /\ UNCHANGED <<bound, timeLimit, timed, auth, nextId, phase, op, asyncId, calls, threw>>

\* Mutant: an unbound connection is forgotten without being closed.
disconnect_onlyBound ==
  /\ JsIdle
  /\ ld # Null
  /\ IF bound THEN close(ld) ELSE UNCHANGED <<link, sdkVars>>
  /\ ld' = Null
  /\ bound' = FALSE
  /\ UNCHANGED <<timeLimit, timed, auth, nextId, phase, op, asyncId, calls, threw>>

\* The proxy's release does the same.
disconnect ==
  /\ JsIdle
  /\ ld # Null
  /\ close(ld)
  /\ ld' = Null
  /\ bound' = FALSE
  /\ UNCHANGED <<timeLimit, timed, auth, nextId, phase, op, asyncId, calls, threw>>

\* The link to the server is lost: the reader thread notices and closes the
\* LDAPConnection.  Nobody tells the ConnectionProxy.
dropped(h) ==
  /\ link[h] = "open"
  /\ reader[h] = Null
  /\ close(h)
  /\ UNCHANGED <<timeLimit, ld, bound, timed, auth, nextId, phase, op, asyncId, calls, threw>>

-------------------------------------------------------------------------------
(* Bind.  The server's verdict decides the session's state; a client that   *)
(* times out does not learn it.                                             *)

bindSucceeds(r) ==
  /\ link[ld] = "open"
  /\ auth' = [auth EXCEPT ![ld] = TRUE]
  /\ bound' = TRUE
  /\ takeId(ld)
  /\ finish(r, <<Success(None)>>)

\* Refused or timed out after the request was sent.
bindFails(r) ==
  /\ link[ld] = "open"
  /\ \E a \in BOOLEAN : auth' = [auth EXCEPT ![ld] = a]
  /\ takeId(ld)
  /\ finish(r, <<Failure>>)
  /\ UNCHANGED bound

\* The SDK refuses the request, or the link is already closed.
bindNotSent(r) ==
  /\ finish(r, <<Failure>>)
  /\ UNCHANGED <<auth, bound, nextId>>

bind(r) ==
  /\ \/ /\ ld = Null            \* getLd().bind(...) on null
        /\ throwOut(r)
        /\ UNCHANGED <<auth, bound, nextId>>
     \/ /\ ld # Null
        /\ bindSucceeds(r) \/ bindFails(r) \/ bindNotSent(r)
  /\ UNCHANGED <<timeLimit, ld, link, timed, op, asyncId, sdkVars>>

simpleBind(r) == start(r) /\ bind(r)

\* An unknown mechanism or a missing option is refused before _ld is used.
saslBind(r) ==
  /\ start(r)
  /\ \/ bind(r)
     \/ bindNotSent(r) /\ UNCHANGED <<timeLimit, ld, link, timed, op, asyncId, sdkVars>>

-------------------------------------------------------------------------------
(* Search. *)

\* isConnectionBound reports the error and execute returns a failure, which
\* sendRequest reports again.
searchUnbound(r) ==
  /\ ~isBound
  /\ finish(r, <<Failure, Failure>>)
  /\ UNCHANGED <<nextId, op, sdkVars>>

\* The filter does not parse, or the link is already closed.
searchNotSent(r) ==
  /\ isBound
  /\ finish(r, <<Failure>>)
  /\ UNCHANGED <<nextId, op, sdkVars>>

\* A synchronous search: the result is handed to the success callback; a
\* request without a scope makes the SDK dereference null.
searchSync(r) ==
  /\ isBound
  /\ link[ld] = "open"
  /\ takeId(ld)
  /\ \/ \E n, k \in 0 .. MaxItems : \E es \in [1 .. n -> Entry], fs \in [1 .. k -> Reference] :
          LET res == [entries |-> es, refs |-> fs] IN
          /\ n + k <= MaxItems
          /\ served' = [served EXCEPT ![r] = res]
          /\ finish(r, <<Success(res)>>)
     \/ finish(r, <<Failure>>) /\ UNCHANGED served
     \/ throwOut(r) /\ UNCHANGED served
  /\ UNCHANGED <<op, returned, armed, acceptors, reader, stream, working, lists>>

\* Mutant: the timeout is never scheduled.
searchAsync_untimed(r) ==
  /\ isBound
  /\ link[ld] = "open"
  /\ op' = [op EXCEPT ![r] = [h |-> ld, m |-> nextId[ld]]]
  /\ takeId(ld)
  /\ acceptors' = acceptors \cup {r}
  /\ phase' = [phase EXCEPT ![r] = "registered"]
  /\ UNCHANGED <<armed, returned, reader, stream, working, served, lists, calls, threw>>

\* asyncSearch registers the listener and schedules its timeout ...
searchAsync(r) ==
  /\ isBound
  /\ link[ld] = "open"
  /\ op' = [op EXCEPT ![r] = [h |-> ld, m |-> nextId[ld]]]
  /\ takeId(ld)
  /\ acceptors' = acceptors \cup {r}
  /\ armed' = [armed EXCEPT ![r] = timed[ld]]
  /\ phase' = [phase EXCEPT ![r] = "registered"]
  /\ UNCHANGED <<returned, reader, stream, working, served, lists, calls, threw>>

search(r) ==
  /\ start(r)
  /\ searchUnbound(r) \/ searchNotSent(r) \/ searchSync(r) \/ searchAsync(r)
  /\ UNCHANGED <<timeLimit, conVars, asyncId>>

\* ... then writes the request.  A write that fails deregisters the listener
\* and is reported; a request without a scope throws and leaves it registered.
asyncSend(r) ==
  /\ phase[r] = "registered"
  /\ \/ /\ link[op[r].h] = "open"
        /\ working' = working \cup {op[r]}
        /\ phase' = [phase EXCEPT ![r] = "written"]
        /\ UNCHANGED <<acceptors, calls, threw>>
     \/ /\ finish(r, <<Failure>>)
        /\ acceptors' = acceptors \ {r}
        /\ UNCHANGED working
     \/ /\ link[op[r].h] = "open"
        /\ throwOut(r)
        /\ UNCHANGED <<acceptors, working>>
  /\ UNCHANGED <<timeLimit, conVars, nextId, op, asyncId, returned, armed, reader,
                 stream, served, lists>>

\* Mutant: sendRequest reports execute's null result of an asynchronous search.
asyncReturn_reported(r) ==
  /\ phase[r] = "written"
  /\ asyncId' = [asyncId EXCEPT ![r] = op[r]]
  /\ phase' = [phase EXCEPT ![r] = "sent"]
  /\ post(r, <<Failure>>)
  /\ UNCHANGED <<timeLimit, conVars, nextId, op, sdkVars, threw>>

\* asyncSearch returns: _asyncRequestId is set, sendRequest posts nothing.
asyncReturn(r) ==
  /\ phase[r] = "written"
  /\ asyncId' = [asyncId EXCEPT ![r] = op[r]]
  /\ phase' = [phase EXCEPT ![r] = "sent"]
  /\ UNCHANGED <<timeLimit, conVars, nextId, op, sdkVars, calls, threw>>

\* Mutant: the latest operation of the connection is abandoned.
abandon_latest(r) ==
  /\ JsIdle
  /\ asyncId[r] # Null
  /\ ld # Null
  /\ link[ld] = "open"
  /\ takeId(ld)
  /\ working' = working \ {[h |-> ld, m |-> nextId[ld] - 1]}
  /\ asyncId' = [asyncId EXCEPT ![r] = Null]
  /\ UNCHANGED <<timeLimit, conVars, phase, op, returned, armed, acceptors, reader,
                 stream, served, lists, calls, threw>>

\* abandon names the request's message ID on the connection that is current
\* now.  On a closed link the SDK's exception is logged and nothing changes.
abandon(r) ==
  /\ JsIdle
  /\ asyncId[r] # Null
  /\ \/ /\ ld = Null            \* getLd().abandon(...) on null
        /\ threw' = threw \cup {r}
        /\ UNCHANGED <<asyncId, nextId, working>>
     \/ /\ ld # Null
        /\ link[ld] = "open"
        /\ takeId(ld)
        /\ working' = working \ {[h |-> ld, m |-> asyncId[r].m]}
        /\ asyncId' = [asyncId EXCEPT ![r] = Null]
        /\ UNCHANGED threw
  /\ UNCHANGED <<timeLimit, conVars, phase, op, returned, armed, acceptors, reader,
                 stream, served, lists, calls>>

-------------------------------------------------------------------------------
(* The reader and timer threads.  AsyncSearchHelper.responseReceived hands  *)
(* a listener nothing after its first final result.                         *)

\* Mutant: references are put among the entries.
add_mixed(res, item) == [res EXCEPT !.entries = Append(@, item)]

add(res, item) ==
  [entries |-> IF item \in Entry THEN Append(res.entries, item) ELSE res.entries,
   refs    |-> IF item \in Entry THEN res.refs ELSE Append(res.refs, item)]

\* The reader takes a message and looks its listener up by message ID.
readerTake(h) ==
  /\ link[h] = "open"
  /\ reader[h] = Null
  /\ stream[h] # <<>>
  /\ LET msg == Head(stream[h])
         for == {r \in acceptors : op[r] = [h |-> h, m |-> msg.m]} IN
     /\ stream' = [stream EXCEPT ![h] = Tail(@)]
     /\ \/ for = {} /\ UNCHANGED <<reader, acceptors>>
        \/ \E r \in for :
             /\ reader' = [reader EXCEPT ![h] = [req |-> r, msg |-> msg]]
             /\ acceptors' = IF IsFinal(msg) THEN acceptors \ {r} ELSE acceptors
  /\ UNCHANGED <<timeLimit, conVars, nextId, phase, op, asyncId, returned, armed, working,
                 served, lists, calls, threw>>

\* Mutant: references are dropped.
itemReturned_noRefs(r, item) ==
  /\ lists' = IF item \in Entry THEN [lists EXCEPT ![r] = add(@, item)] ELSE lists
  /\ UNCHANGED <<returned, calls>>

\* searchEntryReturned and searchReferenceReturned.
itemReturned(r, item) ==
  /\ lists' = [lists EXCEPT ![r] = add(@, item)]
  /\ UNCHANGED <<returned, calls>>

\* Mutant: the error branch falls through to the success branch.
searchResultReceived_fallsThrough(r, outcome) ==
  /\ returned' = [returned EXCEPT ![r] = TRUE]
  /\ post(r, IF outcome = "success" THEN <<Success(lists[r])>>
             ELSE <<Failure, Success(lists[r])>>)
  /\ UNCHANGED lists

\* searchResultReceived: the first final result ends the request.
searchResultReceived(r, outcome) ==
  /\ returned' = [returned EXCEPT ![r] = TRUE]
  /\ post(r, <<IF outcome = "success" THEN Success(lists[r]) ELSE Failure>>)
  /\ UNCHANGED lists

\* responseReceived: atomically, the first final result wins.
responseReceived(r, body) ==
  \/ returned[r] /\ UNCHANGED <<lists, returned, calls>>
  \/ ~returned[r] /\ body \notin Outcomes /\ itemReturned(r, body)
  \/ ~returned[r] /\ body \in Outcomes /\ searchResultReceived(r, body)

\* The reader hands the message to the listener.  It may still be doing so
\* after disconnect: close waits for the thread only for half a second.
readerDispatch(h) ==
  /\ reader[h] # Null
  /\ reader' = [reader EXCEPT ![h] = Null]
  /\ responseReceived(reader[h].req, reader[h].msg.body)
  /\ UNCHANGED <<timeLimit, conVars, nextId, phase, op, asyncId, armed, acceptors,
                 stream, working, served, threw>>

\* The response timeout expires and the listener is given a TIMEOUT result.
\* The task of a search that has ended is cancelled; that it may run before
\* it is cancelled makes no difference.
timeout(r) ==
  /\ armed[r]
  /\ armed' = [armed EXCEPT ![r] = FALSE]
  /\ responseReceived(r, "error")
  /\ UNCHANGED <<timeLimit, conVars, nextId, phase, op, asyncId, acceptors, reader,
                 stream, working, served, threw>>

-------------------------------------------------------------------------------
(* The server.  It may stop answering at any time. *)

serverItem(r, item) ==
  /\ op[r] \in working
  /\ Len(served[r].entries) + Len(served[r].refs) < MaxItems
  /\ stream' = [stream EXCEPT ![op[r].h] = Append(@, [m |-> op[r].m, body |-> item])]
  /\ served' = [served EXCEPT ![r] = add(@, item)]
  /\ UNCHANGED <<timeLimit, conVars, nextId, phase, op, asyncId, returned, armed, acceptors,
                 reader, working, lists, calls, threw>>

serverDone(r, outcome) ==
  /\ op[r] \in working
  /\ stream' = [stream EXCEPT ![op[r].h] = Append(@, [m |-> op[r].m, body |-> outcome])]
  /\ working' = working \ {op[r]}
  /\ UNCHANGED <<timeLimit, conVars, nextId, phase, op, asyncId, returned, armed, acceptors,
                 reader, served, lists, calls, threw>>

-------------------------------------------------------------------------------
Script(r) == connect(r) \/ simpleBind(r) \/ saslBind(r) \/ search(r) \/ abandon(r)

Threads ==
  \/ \E r \in Req : asyncSend(r) \/ asyncReturn(r) \/ timeout(r)
  \/ \E h \in Handle : readerTake(h) \/ readerDispatch(h)

Environment ==
  \/ \E r \in Req, item \in Entry \cup Reference : serverItem(r, item)
  \/ \E r \in Req, outcome \in Outcomes : serverDone(r, outcome)
  \/ \E h \in Handle : dropped(h)

Steps == (\E r \in Req : Script(r)) \/ disconnect \/ Threads \/ Environment

Next == Steps \/ \E positive \in BOOLEAN : setTimeLimit(positive)

Spec == Init /\ [][Next]_vars

\* An application that connects only when it is disconnected and binds only
\* when it is not bound.
CarefulScript(r) ==
  \/ ld = Null /\ connect(r)
  \/ ~bound /\ (simpleBind(r) \/ saslBind(r))
  \/ search(r)
  \/ abandon(r)

CarefulNext ==
  \/ \E r \in Req : CarefulScript(r)
  \/ \E positive \in BOOLEAN : setTimeLimit(positive)
  \/ disconnect \/ Threads \/ Environment

CarefulSpec == Init /\ [][CarefulNext]_vars

\* Threads that can run do run, and the Timer fires; nothing is assumed of the
\* application, the network or the server.
Fairness ==
  /\ \A r \in Req : WF_vars(asyncSend(r)) /\ WF_vars(asyncReturn(r)) /\ WF_vars(timeout(r))
  /\ \A h \in Handle : WF_vars(readerTake(h)) /\ WF_vars(readerDispatch(h))

LiveSpec == Spec /\ Fairness

-------------------------------------------------------------------------------
(* Properties. *)

\* Every variable has the type of the field or SDK state it stands for.
TypeOK ==
  /\ ld \in Handle \cup {Null}
  /\ bound \in BOOLEAN
  /\ link \in [Handle -> {"unused", "open", "closed"}]
  /\ timeLimit \in BOOLEAN
  /\ timed \in [Handle -> BOOLEAN]
  /\ auth \in [Handle -> BOOLEAN]
  /\ nextId \in [Handle -> Nat]
  /\ phase \in [Req -> Phases]
  /\ op \in [Req -> Ops \cup {Null}]
  /\ asyncId \in [Req -> Ops \cup {Null}]
  /\ lists \in [Req -> Results]
  /\ returned \in [Req -> BOOLEAN]
  /\ armed \in [Req -> BOOLEAN]
  /\ acceptors \subseteq Req
  /\ reader \in [Handle -> [req : Req, msg : Message] \cup {Null}]
  /\ stream \in [Handle -> Seq(Message)]
  /\ working \subseteq Ops
  /\ served \in [Req -> Results]
  /\ calls \in [Req -> Seq(Callback)]
  /\ threw \subseteq Req

\* The search of r has been put on the wire.
onWire(r) == phase[r] \in {"written", "sent"}

allErrors(cs) == \A i \in DOMAIN cs : cs[i].outcome = "error"

\* responseReturned counts a written search's callbacks; a request that never
\* got that far but has an operation can only have been told of errors.
RequestInv(r) ==
  /\ phase[r] = "new" => op[r] = Null /\ calls[r] = <<>> /\ ~returned[r]
  /\ phase[r] \in {"registered", "written", "sent"} =>
       op[r] # Null /\ Len(calls[r]) = IF returned[r] THEN 1 ELSE 0
  /\ op[r] # Null => op[r].m < nextId[op[r].h]
  /\ op[r] # Null /\ ~onWire(r) => allErrors(calls[r])
  /\ armed[r] \/ r \in acceptors => op[r] # Null
  /\ asyncId[r] \in {Null, op[r]}

OwnOperations == \A q, r \in Req : op[q] # Null /\ op[q] = op[r] => q = r

\* o is the operation of a search that was written.
written(o) == \E r \in Req : onWire(r) /\ op[r] = o

OnlyWritten ==
  /\ \A o \in working : written(o)
  /\ \A h \in Handle : \A i \in DOMAIN stream[h] : written([h |-> h, m |-> stream[h][i].m])
  /\ \A h \in Handle : reader[h] # Null => onWire(reader[h].req)

\* How the threads' bookkeeping hangs together: the server, the wire and the
\* readers hold nothing but operations of searches that were written, each
\* operation is one request's, and the SDK's flags agree with the callbacks.
WireInv == (\A r \in Req : RequestInv(r)) /\ OwnOperations /\ OnlyWritten

\* No request is told both that it succeeded and that it failed, and a search
\* that was put on the wire is answered at most once, however its result, its
\* timeout, a lost link, an abandon and a disconnect race.
OneOutcome ==
  \A r \in Req :
    /\ \A i, j \in DOMAIN calls[r] : calls[r][i].outcome = calls[r][j].outcome
    /\ onWire(r) => Len(calls[r]) <= 1

\* A search that succeeds hands over exactly what the server sent for it, in
\* order: nothing lost, nothing of another search.
ResultIntegrity ==
  \A r \in Req : \A i \in DOMAIN calls[r] :
    calls[r][i].outcome = "success" => calls[r][i].result = served[r]

\* The application is told of r what its latest callback said.
told(r) ==
  IF calls[r] # <<>> THEN calls[r][Len(calls[r])].outcome
  ELSE IF op[r] # Null THEN "pending" ELSE "none"

Contract == INSTANCE RequestContract WITH outcome <- [r \in Req |-> told(r)]

\* The request proxies implement the contract of RequestContract: an answer is
\* final, whatever the reader, the timer and the script do afterwards.
ImplementsContract == Contract!Spec

\* abandon, on the connection its search was sent on, ends no other search.
AbandonsOwn ==
  [][\A r \in Req : abandon(r) /\ asyncId[r].h = ld =>
       \A q \in Req \ {r} : op[q] \in working => op[q] \in working']_vars

\* For a careful application: what isBound says of an open connection is what
\* the server says.
BoundIsAuthenticated == isBound /\ link[ld] = "open" => auth[ld]

\* For a careful application: only _ld is open, so disconnect leaves no
\* connection to the server behind.
NoConnectionLeft == \A h \in Handle : link[h] = "open" => h = ld

searchOver(r) ==
  /\ op[r] # Null
  /\ \/ link[op[r].h] = "closed"
     \/ calls[r] # <<>>

\* An asynchronous search on a connection with a response timeout ends in a
\* callback, even if the server never answers, the request could not
\* be written or its arguments made the SDK throw; unless its connection is closed.
AsyncSearchEnds ==
  \A r \in Req : (op[r] # Null /\ timed[op[r].h]) ~> searchOver(r)

-------------------------------------------------------------------------------
(* What the documentation and comments say and the code does not do. *)

\* "A callback function that is executed if the request fails"
\* (documentation/connection.md:127): a search whose link is lost fails.
LostLinkReported ==
  \A r \in Req :
    (phase[r] = "sent" /\ ld = op[r].h /\ link[ld] = "closed") ~> calls[r] # <<>>
===============================================================================
