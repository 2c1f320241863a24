-------------------------------- MODULE Referrals --------------------------------
(***************************************************************************)
(* How the OpenLDAP library chases the references and referrals of one     *)
(* search, as it does by default.  A reference is followed by a request of *)
(* its own, a child of the search, on the connection to the server it      *)
(* names; a new connection is bound anonymously first.  The thread waits   *)
(* for that bind inside the handling of the reference, and handles what    *)
(* other connections deliver meanwhile, references included: the chases    *)
(* form a stack.  The search is answered when it and its children are.     *)
(* Entries only lengthen the answer, and are left out with error codes.    *)
(***************************************************************************)
EXTENDS Integers, Sequences, FiniteSets

CONSTANTS
  Server,    \* servers
  Home,      \* the one the handle is connected to
  Dn,        \* DNs, among them NoDn
  NoDn,      \* the empty DN, of a URL that has none
  BadUrl,    \* a URL that cannot be parsed or has unknown extensions
  RefLists,  \* lists of URLs a server can send: alternatives, best first
  HopLimit,  \* ld_refhoplimit
  MaxLists,  \* bound: lists the servers send in all
  Gone       \* in place of a connection that was freed

ASSUME RefsAssumption ==
  /\ Home \in Server /\ NoDn \in Dn /\ HopLimit \in Nat /\ Gone \notin Server
  /\ \A l \in RefLists : l # <<>> /\ l \in Seq([server : Server, dn : Dn] \cup {BadUrl})

VARIABLES
  req,        \* the search and its children, in the order they were sent
  outrefcnt,  \* lr_outrefcnt of the search: children it waits for
  conn,       \* the connection to each server: "none", "binding" or "up"
  refs,       \* its lconn_refcnt, but for those of the handle and of wait4msg
  bound,      \* the answer to its bind: "none", "ok" or "refused"
  queue,      \* its lconn_rebind_queue
  stack,      \* calls of ldap_chase_v3referrals, the innermost last
  done,       \* the search has been answered
  lists,      \* lists the servers have sent
  kept        \* history: servers' promises that are still kept

conns == <<conn, refs, bound, queue>>
vars == <<req, outrefcnt, conns, stack, done, lists, kept>>

\* A request: hops and referred are history, the number of references that
\* led to it and whether a referral took its result's place.
Request(s, dn, n, h) ==
  [conn |-> s, dn |-> dn, status |-> "INPROGRESS", parentcnt |-> n, hops |-> h, referred |-> FALSE]

Init ==
  /\ \E dn \in Dn : req = <<Request(Home, dn, 0, 0)>>
  /\ outrefcnt = 0
  /\ conn = [s \in Server |-> IF s = Home THEN "up" ELSE "none"]
  /\ refs = [s \in Server |-> IF s = Home THEN 1 ELSE 0]
  /\ bound = [s \in Server |-> "none"]
  /\ queue = [s \in Server |-> <<>>]
  /\ stack = <<>>
  /\ done = FALSE
  /\ lists = 0
  /\ kept = TRUE

top == stack[Len(stack)]
popped == SubSeq(stack, 1, Len(stack) - 1)
setTop(f) == stack' = [stack EXCEPT ![Len(stack)] = f]

-------------------------------------------------------------------------------
(* try_read1msg, called by wait4msg. *)

\* The thread is in ldap_result: of the search, or of the bind that the
\* innermost chase needs.
waiting ==
  /\ ~done
  /\ stack # <<>> => top.at = "bind" /\ bound[top.list[1].server] = "none"

\* The server has still to answer request i.
open(i) ==
  /\ waiting /\ req[i].status # "COMPLETED"
  /\ \A k \in DOMAIN stack : stack[k].lr = i => stack[k].sref

\* The handling of a message of server s ends, with the requests q, reference
\* counts r and calls st: wait4msg frees the connection if nothing uses it.
handled(s, q, r, st) ==
  LET free == s # Home /\ r[s] <= 0 /\ \A k \in DOMAIN st : req[st[k].lr].conn # s IN
  /\ stack' = st
  /\ refs' = r
  /\ conn' = IF free THEN [conn EXCEPT ![s] = "none"] ELSE conn
  /\ queue' = IF free THEN [queue EXCEPT ![s] = <<>>] ELSE queue
  /\ req' = [i \in DOMAIN q |-> IF free /\ q[i].conn = s THEN [q[i] EXCEPT !.conn = Gone] ELSE q[i]]
  /\ UNCHANGED bound

\* Mutant: only the search's own result can be the last.
complete_search(i, st) ==
  LET q == [req EXCEPT ![i].status = "COMPLETED"]
      n == IF i = 1 THEN outrefcnt ELSE outrefcnt - 1 IN
  /\ outrefcnt' = n
  /\ done' = (i = 1 /\ n <= 0 /\ \A j \in DOMAIN q : q[j].status = "COMPLETED")
  /\ handled(req[i].conn, q, [refs EXCEPT ![req[i].conn] = @ - 1], st)

\* Request i is complete.  A child is taken off the search's count, and the
\* search is answered when nothing is left.
complete(i, st) ==
  LET q == [req EXCEPT ![i].status = "COMPLETED"]
      n == IF i = 1 THEN outrefcnt ELSE outrefcnt - 1 IN
  /\ outrefcnt' = n
  /\ done' = (n <= 0 /\ \A j \in DOMAIN q : q[j].status = "COMPLETED")
  /\ handled(req[i].conn, q, [refs EXCEPT ![req[i].conn] = @ - 1], st)

\* A result without a referral.
readResult(i) == open(i) /\ complete(i, stack) /\ UNCHANGED <<lists, kept>>

\* A chase for request i, with n children so far, of list l that came for
\* request j.
Chase(i, j, sref, l, n) ==
  [lr |-> i, from |-> j, sref |-> sref, whole |-> l, list |-> l, at |-> "try", count |-> n]

\* Mutant: one hop too many.
readRefs_atLimit(i, sref, l) ==
  /\ open(i)
  /\ lists < MaxLists /\ lists' = lists + 1
  /\ IF req[i].parentcnt <= HopLimit
     THEN stack' = Append(stack, Chase(i, i, sref, l, 0)) /\ UNCHANGED <<req, outrefcnt, conns, done>>
     ELSE IF sref THEN UNCHANGED <<req, outrefcnt, conns, stack, done>>
     ELSE complete(i, stack)
  /\ UNCHANGED kept

\* A reference, or a result that is a referral: it is chased, unless the
\* request's own count exceeds the limit.
readRefs(i, sref, l) ==
  /\ open(i)
  /\ lists < MaxLists /\ lists' = lists + 1
  /\ IF req[i].parentcnt < HopLimit
     THEN stack' = Append(stack, Chase(i, i, sref, l, 0)) /\ UNCHANGED <<req, outrefcnt, conns, done>>
     ELSE IF sref THEN UNCHANGED <<req, outrefcnt, conns, stack, done>>
     ELSE complete(i, stack)
  /\ UNCHANGED kept

\* The answer to the bind of a new connection.
readBind(s, answer) ==
  /\ waiting /\ conn[s] = "binding" /\ bound[s] = "none"
  /\ bound' = [bound EXCEPT ![s] = answer]
  /\ UNCHANGED <<req, outrefcnt, conn, refs, queue, stack, done, lists, kept>>

-------------------------------------------------------------------------------
(* ldap_chase_v3referrals and ldap_send_server_request. *)

trying == stack # <<>> /\ top.at = "try" /\ top.list # <<>>
url == top.list[1]

skip == setTop([top EXCEPT !.list = Tail(@)])
end(n) == setTop([top EXCEPT !.at = "end", !.count = n])

tryBad ==
  /\ trying /\ url = BadUrl
  /\ end(-1)
  /\ UNCHANGED <<req, outrefcnt, conns, done, lists, kept>>

\* No alternative is left.
tryNone ==
  /\ stack # <<>> /\ top.at = "try" /\ top.list = <<>>
  /\ end(-1)
  /\ UNCHANGED <<req, outrefcnt, conns, done, lists, kept>>

asked(c) == url.dn # NoDn /\ \E i \in DOMAIN req : req[i].conn = c /\ req[i].dn = url.dn

\* The DN has been asked for on this connection.  The comparison looks at
\* freed connections too, whose addresses may be in use again.
tryLoop ==
  /\ trying /\ url # BadUrl /\ conn[url.server] # "none"
  /\ asked(url.server) \/ asked(Gone)
  /\ skip
  /\ UNCHANGED <<req, outrefcnt, conns, done, lists, kept>>

\* The connection is being bound: the list waits for it.
tryQueue ==
  /\ trying /\ url # BadUrl /\ conn[url.server] = "binding" /\ ~asked(url.server)
  /\ queue' = [queue EXCEPT ![url.server] = Append(@, [list |-> top.whole, from |-> top.from])]
  /\ end(1)
  /\ UNCHANGED <<req, outrefcnt, conn, refs, bound, done, lists, kept>>

\* A child is sent on the connection to server s; only the search's request
\* is ever its parent.  Then the lists that wait for the connection get
\* their turn, the last one first.
send(s) ==
  LET dn == IF url.dn = NoDn /\ ~top.sref THEN req[1].dn ELSE url.dn
      n == req[1].parentcnt + 1
      waits == queue[s] IN
  /\ req' = Append([req EXCEPT ![1].parentcnt = n], Request(s, dn, n, req[top.from].hops + 1))
  /\ refs' = [refs EXCEPT ![s] = @ + 1]
  /\ IF waits = <<>> THEN end(top.count + 1) /\ UNCHANGED queue
     ELSE LET w == waits[Len(waits)] IN
          /\ setTop(Chase(top.lr, w.from, top.sref, w.list, top.count + 1))
          /\ queue' = [queue EXCEPT ![s] = SubSeq(waits, 1, Len(waits) - 1)]

\* Mutant: a request is sent while the bind is under way.
trySend_early ==
  /\ trying /\ url # BadUrl /\ conn[url.server] # "none" /\ ~asked(url.server)
  /\ outrefcnt' = outrefcnt + 1
  /\ send(url.server)
  /\ UNCHANGED <<conn, bound, done, lists, kept>>

trySend ==
  /\ trying /\ url # BadUrl /\ conn[url.server] = "up" /\ ~asked(url.server)
  /\ outrefcnt' = outrefcnt + 1
  /\ send(url.server)
  /\ UNCHANGED <<conn, bound, done, lists, kept>>

tryOpenFails ==
  /\ trying /\ url # BadUrl /\ conn[url.server] = "none"
  /\ skip
  /\ UNCHANGED <<req, outrefcnt, conns, done, lists, kept>>

\* Mutant: the bind is not remembered in the parent.
tryOpen_unremembered ==
  /\ trying /\ url # BadUrl /\ conn[url.server] = "none"
  /\ conn' = [conn EXCEPT ![url.server] = "binding"]
  /\ bound' = [bound EXCEPT ![url.server] = "none"]
  /\ setTop([top EXCEPT !.at = "bind"])
  /\ UNCHANGED <<req, outrefcnt, refs, queue, done, lists, kept>>

\* ldap_new_connection; the search counts the child from now on.
tryOpen ==
  /\ trying /\ url # BadUrl /\ conn[url.server] = "none"
  /\ conn' = [conn EXCEPT ![url.server] = "binding"]
  /\ bound' = [bound EXCEPT ![url.server] = "none"]
  /\ outrefcnt' = outrefcnt + 1
  /\ setTop([top EXCEPT !.at = "bind"])
  /\ UNCHANGED <<req, refs, queue, done, lists, kept>>

binding == stack # <<>> /\ top.at = "bind"

bindOk ==
  /\ binding /\ bound[url.server] = "ok"
  /\ conn' = [conn EXCEPT ![url.server] = "up"]
  /\ send(url.server)
  /\ UNCHANGED <<outrefcnt, bound, done, lists, kept>>

\* The connection is freed with the lists that waited for it.
bindFails ==
  /\ binding /\ bound[url.server] = "refused"
  /\ conn' = [conn EXCEPT ![url.server] = "none"]
  /\ queue' = [queue EXCEPT ![url.server] = <<>>]
  /\ outrefcnt' = outrefcnt - 1
  /\ setTop([top EXCEPT !.list = Tail(@), !.at = "try"])
  /\ kept' = FALSE
  /\ UNCHANGED <<req, refs, bound, done, lists>>

\* ldap_chase_v3referrals has returned, and the handling of its message goes
\* on.  A referral that is followed completes its request, whose result will
\* be its child's; one that is not followed is a result.
chased ==
  LET i == top.lr  s == req[i].conn IN
  /\ stack # <<>> /\ top.at = "end"
  /\ \/ top.sref /\ handled(s, req, refs, popped) /\ UNCHANGED <<outrefcnt, done, kept>>
     \/ /\ ~top.sref /\ top.count > 0
        /\ handled(s, [req EXCEPT ![i].status = "COMPLETED", ![i].referred = TRUE], refs, popped)
        /\ kept' = (kept /\ i = 1)
        /\ UNCHANGED <<outrefcnt, done>>
     \/ ~top.sref /\ top.count <= 0 /\ complete(i, popped) /\ UNCHANGED kept
  /\ UNCHANGED lists

Library ==
  \/ tryBad \/ tryNone \/ tryLoop \/ tryQueue \/ trySend \/ tryOpenFails \/ tryOpen
  \/ bindOk \/ bindFails \/ chased

Next ==
  \/ \E i \in DOMAIN req : readResult(i)
  \/ \E i \in DOMAIN req, sref \in BOOLEAN, l \in RefLists : readRefs(i, sref, l)
  \/ \E s \in Server, answer \in {"ok", "refused"} : readBind(s, answer)
  \/ Library

Spec == Init /\ [][Next]_vars

\* The thread runs, and every server answers what it is asked.
Fairness ==
  /\ WF_vars(Library)
  /\ \A i \in 1 .. MaxLists + 1 : WF_vars(i \in DOMAIN req /\ readResult(i))
  /\ \A s \in Server : WF_vars(\E answer \in {"ok", "refused"} : readBind(s, answer))

FairSpec == Spec /\ Fairness

-------------------------------------------------------------------------------
(* Properties. *)

children == DOMAIN req \ {1}
inProgress == {i \in DOMAIN req : req[i].status # "COMPLETED"}
binds == {k \in DOMAIN stack : stack[k].at = "bind"}

\* The search is answered after all of its children, and not while a
\* reference is still being chased: ldap_free_request frees what the chases
\* work with.
DoneIsLast == done => inProgress = {} /\ stack = <<>>

\* Why: lr_outrefcnt never falls short of the children that are in progress
\* or will be sent when their connection is bound.
CountCovers == outrefcnt >= Cardinality(inProgress \ {1}) + Cardinality(binds)

\* A request in progress has its connection, the calls under way have theirs,
\* and nothing is sent on a connection before its bind is answered.
ConnectionsHeld ==
  /\ \A i \in inProgress : conn[req[i].conn] = "up"
  /\ \A k \in DOMAIN stack : req[stack[k].lr].conn # Gone
  /\ \A k \in binds : conn[stack[k].list[1].server] = "binding"

\* However servers refer to each other, no request is more than ld_refhoplimit
\* references away from the search.
NestingBounded == \A i \in DOMAIN req : req[i].hops <= HopLimit

\* The search is answered if all servers answer, no bind is refused and no
\* server answers a child with a referral in its turn.
SearchEnds == []kept => <>done

-------------------------------------------------------------------------------
(* What the comments say and the code does not do. *)

\* "Check if all requests are finished, lr is now parent" (result.c:846): when
\* the search and its children are finished the search is answered.
FinishedIsDone == inProgress = {} /\ stack = <<>> => done
===============================================================================
