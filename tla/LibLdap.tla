-------------------------------- MODULE LibLdap --------------------------------
(***************************************************************************)
(* The part of the bundled OpenLDAP client library that the iOS proxies    *)
(* stand on: an LDAP* handle with its default connection, its list of      *)
(* outstanding requests, its list of queued responses and its list of      *)
(* abandoned message IDs; and the server at the other end of the           *)
(* connection.  One thread uses a handle.                                  *)
(*                                                                         *)
(* A handle opens its connection when it first sends something, and again  *)
(* whenever the connection has been freed.  Search entries, references     *)
(* and attributes are opaque items.  Referrals are not chased.             *)
(***************************************************************************)
EXTENDS Integers, Sequences, FiniteSets

CONSTANTS
  Handle,    \* LDAP structures that can be created
  Item,      \* what a search can return
  MaxItems,  \* bound: items a server sends for one search
  MaxId,     \* bound: message IDs of a handle
  Null       \* C's NULL

ASSUME LibAssumption ==
  /\ MaxItems \in Nat
  /\ MaxId \in Nat \ {0}
  /\ Null \notin Handle
  /\ {"success", "error", "more"} \cap Item = {}

VARIABLES
  heap,       \* each LDAP structure: "unused", "live", "freed"
  errno,      \* ld_errno
  msgid,      \* ld_msgid
  timed,      \* ldo_tm_api is set
  requests,   \* ld_requests, by message ID
  responses,  \* ld_responses: the queued chain of each message ID
  abandoned,  \* ld_abandoned
  conn,       \* ld_defconn: "none", "up", or "broken" after a read error
  refs,       \* its lconn_refcnt
  net,        \* the connection's other end
  sent        \* history: the items the server has sent for each message ID

libVars == <<heap, errno, msgid, timed, requests, responses, abandoned, conn, refs, net, sent>>

Id == 1 .. MaxId
Kinds == {"bind", "search", "extended"}
Verdicts == {"success", "error", "more"}   \* "more": SASL bind in progress
Codes == Verdicts \cup {"timeout", "down"}
Body == Item \cup Verdicts
Message == [id : Id, body : Body]
Operation == [id : Id, kind : Kinds]

\* The server's side of a connection: whether it can be reached, whether it
\* considers the session authenticated, the operations it works on, and its
\* responses on the wire.
Closed == [alive |-> FALSE, auth |-> FALSE, working |-> {}, stream |-> <<>>]
Opened == [Closed EXCEPT !.alive = TRUE]

LibInit ==
  /\ heap = [h \in Handle |-> "unused"]
  /\ errno = [h \in Handle |-> "success"]
  /\ msgid = [h \in Handle |-> 0]
  /\ timed = [h \in Handle |-> FALSE]
  /\ requests = [h \in Handle |-> {}]
  /\ responses = [h \in Handle |-> [i \in Id |-> <<>>]]
  /\ abandoned = [h \in Handle |-> {}]
  /\ conn = [h \in Handle |-> "none"]
  /\ refs = [h \in Handle |-> 0]
  /\ net = [h \in Handle |-> Closed]
  /\ sent = [h \in Handle |-> [i \in Id |-> <<>>]]

IsFinal(body) == body \in Verdicts

\* There are n message IDs left within the bound.
room(h, n) == msgid[h] + n <= MaxId

setErrno(h, code) == errno' = [errno EXCEPT ![h] = code]

-------------------------------------------------------------------------------
(* Handles and connections. *)

\* A fresh structure, with the time limit the caller sets on it.
ldap_initialize(h, limit) ==
  /\ heap[h] = "unused"
  /\ heap' = [heap EXCEPT ![h] = "live"]
  /\ timed' = [timed EXCEPT ![h] = limit]
  /\ UNCHANGED <<errno, msgid, requests, responses, abandoned, conn, refs, net, sent>>

\* Everything the handle holds is freed and its connection is closed.
ldap_unbind_ext(h) ==
  /\ heap' = [heap EXCEPT ![h] = "freed"]
  /\ requests' = [requests EXCEPT ![h] = {}]
  /\ responses' = [responses EXCEPT ![h] = [i \in Id |-> <<>>]]
  /\ abandoned' = [abandoned EXCEPT ![h] = {}]
  /\ conn' = [conn EXCEPT ![h] = "none"]
  /\ refs' = [refs EXCEPT ![h] = 0]
  /\ net' = [net EXCEPT ![h] = Closed]
  /\ UNCHANGED <<errno, msgid, timed, sent>>

\* ldap_free_connection: one reference less, and the last one closes it.
\* Otherwise status and n are its new state.
ldap_free_connection(h, status, n) ==
  LET last == refs[h] <= 1 IN
  /\ refs' = [refs EXCEPT ![h] = IF last THEN 0 ELSE @ - 1]
  /\ conn' = [conn EXCEPT ![h] = IF last THEN "none" ELSE status]
  /\ net' = [net EXCEPT ![h] = IF last THEN Closed ELSE n]

\* ldap_send_initial_request: a missing connection is opened, with one
\* reference; every request holds one more.  A write to a link that is lost
\* may still seem to succeed.
ldap_send(h, kind) ==
  LET id == msgid[h] + 1
      missing == conn[h] = "none"
      n == IF missing THEN Opened ELSE net[h] IN
  /\ conn[h] # "broken"
  /\ msgid' = [msgid EXCEPT ![h] = id]
  /\ conn' = [conn EXCEPT ![h] = "up"]
  /\ refs' = [refs EXCEPT ![h] = IF missing THEN 2 ELSE @ + 1]
  /\ requests' = [requests EXCEPT ![h] = @ \cup {id}]
  /\ setErrno(h, "success")
  /\ net' = [net EXCEPT ![h] = IF n.alive
       THEN [n EXCEPT !.working = @ \cup {[id |-> id, kind |-> kind]}] ELSE n]
  /\ UNCHANGED <<heap, timed, responses, abandoned, sent>>

\* ldap_open_defconn fails; the caller has used up n message IDs by then.
ldap_open_fails(h, n) ==
  /\ conn[h] = "none"
  /\ msgid' = [msgid EXCEPT ![h] = @ + n]
  /\ setErrno(h, "down")
  /\ UNCHANGED <<heap, timed, requests, responses, abandoned, conn, refs, net, sent>>

\* The connection is broken, or the write fails, which takes the request off
\* the list again and gives its reference back.
ldap_write_fails(h) ==
  /\ msgid' = [msgid EXCEPT ![h] = @ + 1]
  /\ setErrno(h, "down")
  /\ \/ /\ conn[h] # "none"
        /\ ~net[h].alive
        /\ UNCHANGED <<conn, refs>>
     \/ /\ conn[h] = "none"      \* opened, and lost before the write
        /\ conn' = [conn EXCEPT ![h] = "up"]
        /\ refs' = [refs EXCEPT ![h] = 1]
  /\ UNCHANGED <<heap, timed, requests, responses, abandoned, net, sent>>

-------------------------------------------------------------------------------
(* ldap_result.  A caller waits for the whole chain of a message ID it has  *)
(* just been given, so the chain is never in ld_responses when the wait     *)
(* begins and chkResponseList finds nothing to return.                      *)

readable(h) == conn[h] = "up" /\ net[h].stream # <<>>
nextMsg(h) == Head(net[h].stream)
afterRead(h) == [net[h] EXCEPT !.stream = Tail(@)]

\* try_read1msg tosses a response to an abandoned or an unknown message ID;
\* the last response to an abandoned one takes it off the list.
toss(h) ==
  LET id == nextMsg(h).id IN
  /\ readable(h)
  /\ id \in abandoned[h] \/ id \notin requests[h]
  /\ abandoned' = [abandoned EXCEPT ![h] = IF IsFinal(nextMsg(h).body) THEN @ \ {id} ELSE @]
  /\ net' = [net EXCEPT ![h] = afterRead(h)]
  /\ UNCHANGED <<heap, errno, msgid, timed, requests, responses, conn, refs, sent>>

\* It is a response to a request of ours.
expected(h) == readable(h) /\ nextMsg(h).id \in requests[h] \ abandoned[h]

\* Mutant: a final response ends the request at the head of the list.
settle_head(h, body) ==
  IF IsFinal(body)
  THEN /\ ldap_free_connection(h, "up", afterRead(h))
       /\ requests' = [requests EXCEPT ![h] = {i \in @ : \E j \in @ : i < j}]
  ELSE net' = [net EXCEPT ![h] = afterRead(h)] /\ UNCHANGED <<requests, conn, refs>>

\* A final response ends its request.
settle(h, body) ==
  IF IsFinal(body)
  THEN /\ ldap_free_connection(h, "up", afterRead(h))
       /\ requests' = [requests EXCEPT ![h] = @ \ {nextMsg(h).id}]
  ELSE net' = [net EXCEPT ![h] = afterRead(h)] /\ UNCHANGED <<requests, conn, refs>>

\* Mutant: every response is put on the chain that is waited for.
queue_misfiled(h, waited) ==
  LET m == nextMsg(h) IN
  /\ expected(h)
  /\ ~(m.id = waited /\ IsFinal(m.body))
  /\ settle(h, m.body)
  /\ responses' = [responses EXCEPT ![h][waited] = Append(@, m.body)]
  /\ UNCHANGED <<heap, errno, msgid, timed, abandoned, sent>>

\* It is queued: it is not the last one of the chain that is waited for.
queue(h, waited) ==
  LET m == nextMsg(h) IN
  /\ expected(h)
  /\ ~(m.id = waited /\ IsFinal(m.body))
  /\ settle(h, m.body)
  /\ responses' = [responses EXCEPT ![h][m.id] = Append(@, m.body)]
  /\ UNCHANGED <<heap, errno, msgid, timed, abandoned, sent>>

\* It completes the chain that is waited for: the chain is returned, and the
\* caller leaves the code it makes of it in ld_errno.
arrived(h, waited) ==
  expected(h) /\ nextMsg(h).id = waited /\ IsFinal(nextMsg(h).body)

take(h, waited, code) ==
  /\ arrived(h, waited)
  /\ settle(h, nextMsg(h).body)
  /\ responses' = [responses EXCEPT ![h][waited] = <<>>]
  /\ setErrno(h, code)
  /\ UNCHANGED <<heap, msgid, timed, abandoned, sent>>

\* Mutant: the connection's own reference is not given back.
readError_keepsRef(h) ==
  /\ conn[h] = "up"
  /\ ~net[h].alive
  /\ net[h].stream = <<>>
  /\ setErrno(h, "down")
  /\ conn' = [conn EXCEPT ![h] = "broken"]
  /\ UNCHANGED <<heap, msgid, timed, requests, responses, abandoned, refs, net, sent>>

\* The link is lost and everything that arrived on it has been read.
readError(h) ==
  /\ conn[h] = "up"
  /\ ~net[h].alive
  /\ net[h].stream = <<>>
  /\ setErrno(h, "down")
  /\ ldap_free_connection(h, "broken", net[h])
  /\ UNCHANGED <<heap, msgid, timed, requests, responses, abandoned, sent>>

-------------------------------------------------------------------------------
(* do_abandon, all but ld_errno. *)

queuedWhole(h, id) ==
  LET chain == responses[h][id] IN chain # <<>> /\ IsFinal(chain[Len(chain)])

\* Mutant: the part of the chain that is queued is kept.
do_abandon_keepsChain(h, id) ==
  /\ msgid' = [msgid EXCEPT ![h] = IF conn[h] = "none" THEN @ ELSE @ + 1]
  /\ abandoned' = [abandoned EXCEPT ![h] = @ \cup {id}]
  /\ requests' = [requests EXCEPT ![h] = @ \ {id}]
  /\ IF id \in requests[h] THEN ldap_free_connection(h, conn[h], net[h])
     ELSE UNCHANGED <<net, conn, refs>>
  /\ UNCHANGED <<heap, timed, responses, sent>>

\* A chain that is complete is thrown away and nothing is sent.  Otherwise an
\* abandon is written, if there is a socket, the request is dropped with its
\* reference, if there is one, and the ID is marked in either case.
do_abandon(h, id) ==
  /\ responses' = [responses EXCEPT ![h][id] = <<>>]
  /\ IF queuedWhole(h, id)
     THEN UNCHANGED <<msgid, requests, abandoned, conn, refs, net>>
     ELSE LET n == [net[h] EXCEPT !.working = {w \in @ : w.id # id}] IN
       /\ msgid' = [msgid EXCEPT ![h] = IF conn[h] = "none" THEN @ ELSE @ + 1]
       /\ abandoned' = [abandoned EXCEPT ![h] = @ \cup {id}]
       /\ requests' = [requests EXCEPT ![h] = @ \ {id}]
       /\ IF id \in requests[h] THEN ldap_free_connection(h, conn[h], n)
          ELSE net' = [net EXCEPT ![h] = n] /\ UNCHANGED <<conn, refs>>
  /\ UNCHANGED <<heap, timed, sent>>

\* The codes it can leave in ld_errno: writing to a link that is lost may fail.
abandonCodes(h, id) ==
  IF queuedWhole(h, id) \/ net[h].alive THEN {"success"}
  ELSE IF conn[h] = "none" THEN {"down"} ELSE {"success", "down"}

-------------------------------------------------------------------------------
(* The server, and the network.  The server may stop answering at any time. *)

serverSends(h, w, body, n) ==
  net' = [net EXCEPT ![h] =
    [n EXCEPT !.stream = Append(@, [id |-> w.id, body |-> body])]]

serverItem(h, w, item) ==
  /\ w.kind = "search"
  /\ Len(sent[h][w.id]) < MaxItems
  /\ serverSends(h, w, item, net[h])
  /\ sent' = [sent EXCEPT ![h][w.id] = Append(@, item)]
  /\ UNCHANGED <<heap, errno, msgid, timed, requests, responses, abandoned, conn, refs>>

\* Binds are answered in the order they were sent.  A bind decides whether
\* the session is authenticated.
serverDone(h, w, verdict) ==
  LET rest == [net[h] EXCEPT !.working = @ \ {w}] IN
  /\ \/ /\ w.kind # "bind"
        /\ verdict # "more"
        /\ serverSends(h, w, verdict, rest)
     \/ /\ w.kind = "bind"
        /\ \A o \in net[h].working : o.kind = "bind" => o.id >= w.id
        /\ verdict = "more" => room(h, 1)
        /\ serverSends(h, w, verdict, [rest EXCEPT !.auth = verdict = "success"])
  /\ UNCHANGED <<heap, errno, msgid, timed, requests, responses, abandoned, conn, refs, sent>>

\* The link is lost, and with it some of the responses on it.
dropped(h) ==
  /\ net[h].alive
  /\ \E k \in 0 .. Len(net[h].stream) :
       net' = [net EXCEPT ![h] = [Closed EXCEPT !.stream = SubSeq(net[h].stream, 1, k)]]
  /\ UNCHANGED <<heap, errno, msgid, timed, requests, responses, abandoned, conn, refs, sent>>

-------------------------------------------------------------------------------
(* Properties. *)

\* Every field of the library has its type.
LibTypeOK ==
  /\ heap \in [Handle -> {"unused", "live", "freed"}]
  /\ errno \in [Handle -> Codes]
  /\ msgid \in [Handle -> 0 .. MaxId]
  /\ timed \in [Handle -> BOOLEAN]
  /\ requests \in [Handle -> SUBSET Id]
  /\ responses \in [Handle -> [Id -> Seq(Body)]]
  /\ abandoned \in [Handle -> SUBSET Id]
  /\ conn \in [Handle -> {"none", "up", "broken"}]
  /\ refs \in [Handle -> Nat]
  /\ net \in [Handle -> [alive : BOOLEAN, auth : BOOLEAN, working : SUBSET Operation,
                         stream : Seq(Message)]]
  /\ sent \in [Handle -> [Id -> Seq(Item)]]

\* lconn_refcnt counts what uses the connection: its requests and, until a
\* read error, the handle itself.  So ldap_free_connection never closes a
\* connection that a request still uses, and never keeps one for nothing.
ConnRefs ==
  \A h \in Handle :
    LET n == Cardinality(requests[h]) IN
    \/ conn[h] = "none" /\ n = 0 /\ refs[h] = 0
    \/ conn[h] = "up" /\ refs[h] = n + 1
    \/ conn[h] = "broken" /\ n > 0 /\ refs[h] = n

\* Only outstanding requests have unfinished chains queued, and nothing is
\* queued for a message ID that has been abandoned, so chkResponseList never
\* has a chain to discard.
QueueIsOurs ==
  \A h \in Handle, id \in Id : responses[h][id] # <<>> =>
    /\ id \notin abandoned[h]
    /\ queuedWhole(h, id) <=> id \notin requests[h]
===============================================================================
