--------------------------- MODULE AndroidLdapProofs ---------------------------
(***************************************************************************)
(* What an application can rely on, proved of AndroidLdap for every number *)
(* of requests, connections and search results.  Three parts:              *)
(*                                                                         *)
(*   - the inductive invariant: TypeOK, and WireInv, which says that the   *)
(*     bookkeeping of the proxies, of the SDK's threads, of the wire and   *)
(*     of the server agrees, with one lemma per action for each;           *)
(*   - what follows from it of outcomes, abandon and sessions;             *)
(*   - what a successful search hands over, by the invariant FlowInv: a    *)
(*     listener that is given what is on the wire ends up with what the    *)
(*     server sent.                                                        *)
(***************************************************************************)
EXTENDS AndroidLdap, TLAPS

\* Zenon proves a leaf unless the leaf names another prover.
USE Zenon

-------------------------------------------------------------------------------
(* Types. *)

\* What a callback may hold.
LEMMA CallbackType ==
  /\ None \in Results
  /\ Failure \in Callback
  /\ \A res \in Results : Success(res) \in Callback
BY SMTT(30) DEF None, Results, Failure, Success, Callback, Outcomes

\* add keeps a result well-typed: entries go to entries, references to refs.
LEMMA AddType ==
  ASSUME NEW res \in Results, NEW item \in Entry \cup Reference
  PROVE  add(res, item) \in Results
BY SMTT(30) DEF add, Results

\* Posting callbacks keeps the record of callbacks well-typed.
LEMMA PostType ==
  ASSUME TypeOK, NEW r \in Req, NEW cs \in Seq(Callback), post(r, cs)
  PROVE  calls' \in [Req -> Seq(Callback)]
BY SMTT(30) DEF TypeOK, post

LEMMA FinishType ==
  ASSUME TypeOK, NEW r \in Req, NEW cs \in Seq(Callback), finish(r, cs)
  PROVE  /\ calls' \in [Req -> Seq(Callback)]
         /\ phase' \in [Req -> Phases]
         /\ threw' \subseteq Req
BY PostType DEF TypeOK, finish, Phases

LEMMA ThrowOutType ==
  ASSUME TypeOK, NEW r \in Req, throwOut(r)
  PROVE  /\ calls' \in [Req -> Seq(Callback)]
         /\ phase' \in [Req -> Phases]
         /\ threw' \subseteq Req
BY DEF TypeOK, throwOut, Phases

LEMMA TakeIdType ==
  ASSUME TypeOK, NEW h \in Handle, takeId(h)
  PROVE  nextId' \in [Handle -> Nat]
BY SMTT(30) DEF TypeOK, takeId

\* A message the server sends keeps the wire well-typed.
LEMMA SendType ==
  ASSUME TypeOK, NEW o \in Ops, NEW body \in Entry \cup Reference \cup Outcomes,
         stream' = [stream EXCEPT ![o.h] = Append(@, [m |-> o.m, body |-> body])]
  PROVE  stream' \in [Handle -> Seq(Message)]
<1>1. o.h \in Handle /\ [m |-> o.m, body |-> body] \in Message
  BY DEF Ops, Message
<1>2. Append(stream[o.h], [m |-> o.m, body |-> body]) \in Seq(Message)
  BY SMTT(30), <1>1 DEF TypeOK
<1>3. QED
  BY <1>1, <1>2 DEF TypeOK

LEMMA CloseType ==
  ASSUME TypeOK, NEW h \in Handle, close(h)
  PROVE  /\ link' \in [Handle -> {"unused", "open", "closed"}]
         /\ acceptors' \subseteq Req
         /\ armed' \in [Req -> BOOLEAN]
         /\ stream' \in [Handle -> Seq(Message)]
         /\ working' \subseteq Ops
         /\ UNCHANGED <<returned, reader, served, lists>>
<1>1. armed' \in [Req -> BOOLEAN]
  BY DEF TypeOK, close
<1>2. QED
  BY SMTT(30), <1>1 DEF TypeOK, close

LEMMA SearchResultType ==
  ASSUME TypeOK, NEW r \in Req, NEW body \in Entry \cup Reference \cup Outcomes,
         responseReceived(r, body)
  PROVE  /\ lists' \in [Req -> Results]
         /\ returned' \in [Req -> BOOLEAN]
         /\ calls' \in [Req -> Seq(Callback)]
<1>1. CASE returned[r] /\ UNCHANGED <<lists, returned, calls>>
  BY <1>1 DEF TypeOK
<1>2. CASE body \notin Outcomes /\ itemReturned(r, body)
  BY <1>2, AddType DEF TypeOK, itemReturned
<1>3. CASE body \in Outcomes /\ searchResultReceived(r, body)
  <2>1. <<IF body = "success" THEN Success(lists[r]) ELSE Failure>> \in Seq(Callback)
    BY SMTT(30), CallbackType DEF TypeOK
  <2>2. QED
    BY <1>3, <2>1, PostType DEF TypeOK, searchResultReceived
<1>4. QED
  BY <1>1, <1>2, <1>3 DEF responseReceived

\* Every variable keeps the type of the field or SDK state it stands for; that
\* a search being written has an operation is what WireInv adds to this.
LEMMA TypeInit == Init => TypeOK
<1> SUFFICES ASSUME Init PROVE TypeOK
  OBVIOUS
<1>1. ld \in Handle \cup {Null} /\ bound \in BOOLEAN /\ timeLimit \in BOOLEAN
  BY DEF Init
<1>2. /\ link \in [Handle -> {"unused", "open", "closed"}]
      /\ timed \in [Handle -> BOOLEAN] /\ auth \in [Handle -> BOOLEAN]
      /\ nextId \in [Handle -> Nat]
      /\ phase \in [Req -> Phases]
  BY DEF Init, Phases
<1>3. /\ op \in [Req -> Ops \cup {Null}] /\ asyncId \in [Req -> Ops \cup {Null}]
      /\ lists \in [Req -> Results] /\ served \in [Req -> Results]
      /\ returned \in [Req -> BOOLEAN] /\ armed \in [Req -> BOOLEAN]
  BY CallbackType DEF Init
<1>4. /\ reader \in [Handle -> [req : Req, msg : Message] \cup {Null}]
      /\ stream \in [Handle -> Seq(Message)]
      /\ calls \in [Req -> Seq(Callback)]
  BY SMTT(30) DEF Init
<1>5. acceptors \subseteq Req /\ working \subseteq Ops /\ threw \subseteq Req
  BY DEF Init
<1>6. QED
  BY <1>1, <1>2, <1>3, <1>4, <1>5 DEF TypeOK

LEMMA TypeStep == TypeOK /\ WireInv /\ [Next]_vars => TypeOK'
<1> SUFFICES ASSUME TypeOK, WireInv, [Next]_vars PROVE TypeOK'
  OBVIOUS
<1> USE DEF conVars, sdkVars
<1>1. ASSUME NEW r \in Req, connect(r) PROVE TypeOK'
  <2>1. <<Failure>> \in Seq(Callback) /\ <<Success(None)>> \in Seq(Callback)
    BY SMTT(30), CallbackType
  <2>2. CASE finish(r, <<Failure>>) /\ UNCHANGED conVars
    BY <1>1, <2>1, <2>2, FinishType DEF connect, TypeOK
  <2>3. ASSUME NEW h \in Handle, finish(r, <<Success(None)>>),
               link' = [link EXCEPT ![h] = "open"], ld' = h,
               timed' = [timed EXCEPT ![h] = timeLimit], UNCHANGED <<bound, auth>>
        PROVE  TypeOK'
    BY <1>1, <2>1, <2>3, FinishType DEF connect, TypeOK
  <2>4. QED
    BY <1>1, <2>2, <2>3 DEF connect
<1>2. ASSUME NEW positive \in BOOLEAN, setTimeLimit(positive) PROVE TypeOK'
  BY <1>2 DEF setTimeLimit, TypeOK
<1>3. CASE disconnect
  <2>1. ld \in Handle
    BY <1>3 DEF disconnect, TypeOK
  <2>2. QED
    BY <1>3, <2>1, CloseType DEF disconnect, TypeOK
<1>4. ASSUME NEW h \in Handle, dropped(h) PROVE TypeOK'
  BY <1>4, CloseType DEF dropped, TypeOK
<1>5. ASSUME NEW r \in Req, simpleBind(r) \/ saslBind(r) PROVE TypeOK'
  <2>1. <<Failure>> \in Seq(Callback) /\ <<Success(None)>> \in Seq(Callback)
    BY SMTT(30), CallbackType
  <2>2. UNCHANGED <<timeLimit, ld, link, timed, op, asyncId, sdkVars>>
    BY <1>5 DEF simpleBind, saslBind, bind
  <2>3. CASE throwOut(r) /\ UNCHANGED <<auth, bound, nextId>>
    BY <2>2, <2>3, ThrowOutType DEF TypeOK
  <2>4. CASE bindNotSent(r)
    BY <2>1, <2>2, <2>4, FinishType DEF TypeOK, bindNotSent
  <2>5. CASE ld # Null /\ bindSucceeds(r)
    <3>1. nextId' \in [Handle -> Nat] /\ auth' \in [Handle -> BOOLEAN]
      BY SMTT(30), <2>5 DEF TypeOK, bindSucceeds, takeId
    <3>2. QED
      BY <3>1, <2>1, <2>2, <2>5, FinishType DEF TypeOK, bindSucceeds, takeId
  <2>6. CASE ld # Null /\ bindFails(r)
    <3>1. nextId' \in [Handle -> Nat] /\ auth' \in [Handle -> BOOLEAN]
      BY SMTT(30), <2>6 DEF TypeOK, bindFails, takeId
    <3>2. QED
      BY <3>1, <2>1, <2>2, <2>6, FinishType DEF TypeOK, bindFails, takeId
  <2>7. QED
    BY <1>5, <2>3, <2>4, <2>5, <2>6 DEF simpleBind, saslBind, bind
<1>6. ASSUME NEW r \in Req, search(r) PROVE TypeOK'
  <2>1. /\ <<Failure>> \in Seq(Callback)
        /\ <<Failure, Failure>> \in Seq(Callback)
    BY SMTT(30), CallbackType
  <2>2. UNCHANGED <<timeLimit, conVars, asyncId>>
    BY <1>6 DEF search
  <2>3. CASE searchUnbound(r)
    BY <2>1, <2>2, <2>3, FinishType DEF TypeOK, searchUnbound
  <2>4. CASE searchNotSent(r)
    BY <2>1, <2>2, <2>4, FinishType DEF TypeOK, searchNotSent
  <2>5. CASE searchSync(r)
    <3>1. /\ nextId' \in [Handle -> Nat]
          /\ UNCHANGED <<op, returned, armed, acceptors, reader, stream, working, lists>>
      BY SMTT(30), <2>5 DEF TypeOK, searchSync, takeId, isBound
    <3>2. ASSUME NEW n \in 0 .. MaxItems, NEW es \in [1 .. n -> Entry],
                 NEW k \in 0 .. MaxItems, NEW fs \in [1 .. k -> Reference],
                 served' = [served EXCEPT ![r] = [entries |-> es, refs |-> fs]],
                 finish(r, <<Success([entries |-> es, refs |-> fs])>>)
          PROVE  TypeOK'
      <4>1. [entries |-> es, refs |-> fs] \in Results
        <5>1. es \in Seq(Entry) /\ fs \in Seq(Reference)
          BY SMTT(30), ConstantsAssumption
        <5>2. QED
          BY SMTT(30), <5>1 DEF Results
      <4>2. <<Success([entries |-> es, refs |-> fs])>> \in Seq(Callback)
        BY SMTT(30), <4>1, CallbackType
      <4>3. served' \in [Req -> Results]
        BY <3>2, <4>1 DEF TypeOK
      <4>4. QED
        BY <2>2, <3>1, <3>2, <4>2, <4>3, FinishType DEF TypeOK
    <3>3. CASE finish(r, <<Failure>>) /\ UNCHANGED served
      BY <2>1, <2>2, <3>1, <3>3, FinishType DEF TypeOK
    <3>4. CASE throwOut(r) /\ UNCHANGED served
      BY <2>2, <3>1, <3>4, ThrowOutType DEF TypeOK
    <3>5. QED
      BY <2>5, <3>2, <3>3, <3>4 DEF searchSync
  <2>6. CASE searchAsync(r)
    BY SMTT(30), <2>2, <2>6 DEF TypeOK, searchAsync, takeId, isBound, Ops, Phases
  <2>7. QED
    BY <1>6, <2>3, <2>4, <2>5, <2>6 DEF search
<1>7. ASSUME NEW r \in Req, asyncSend(r) PROVE TypeOK'
  <2> USE DEF asyncSend
  <2>1. <<Failure>> \in Seq(Callback)
    BY SMTT(30), CallbackType
  <2>2. CASE finish(r, <<Failure>>) /\ acceptors' = acceptors \ {r} /\ UNCHANGED working
    BY <1>7, <2>1, <2>2, FinishType DEF TypeOK
  <2>3. CASE throwOut(r) /\ UNCHANGED <<acceptors, working>>
    BY <1>7, <2>3, ThrowOutType DEF TypeOK
  <2>4. CASE /\ working' = working \cup {op[r]}
             /\ phase' = [phase EXCEPT ![r] = "written"]
             /\ UNCHANGED <<acceptors, calls, threw>>
    <3>1. op[r] \in Ops
      BY <1>7 DEF TypeOK, WireInv, RequestInv
    <3>2. QED
      BY <1>7, <2>4, <3>1 DEF TypeOK, Phases
  <2>5. QED
    BY <1>7, <2>2, <2>3, <2>4
<1>8. ASSUME NEW r \in Req, asyncReturn(r) PROVE TypeOK'
  BY <1>8 DEF asyncReturn, TypeOK, Phases
<1>9. ASSUME NEW r \in Req, abandon(r) PROVE TypeOK'
  <2>1. nextId' \in [Handle -> Nat]
    BY <1>9, TakeIdType DEF abandon, TypeOK
  <2>2. asyncId' \in [Req -> Ops \cup {Null}] /\ working' \subseteq Ops /\ threw' \subseteq Req
    BY <1>9 DEF abandon, TypeOK
  <2>3. QED
    BY <1>9, <2>1, <2>2 DEF abandon, TypeOK
<1>10. ASSUME NEW h \in Handle, readerTake(h) PROVE TypeOK'
  <2>1. Head(stream[h]) \in Message /\ Tail(stream[h]) \in Seq(Message)
    BY SMTT(30), <1>10 DEF readerTake, TypeOK
  <2>2. stream' \in [Handle -> Seq(Message)]
    BY <1>10, <2>1 DEF readerTake, TypeOK
  <2>3. /\ reader' \in [Handle -> [req : Req, msg : Message] \cup {Null}]
        /\ acceptors' \subseteq Req
    <3>1. CASE UNCHANGED <<reader, acceptors>>
      BY <3>1 DEF TypeOK
    <3>2. ASSUME NEW r \in acceptors,
                 reader' = [reader EXCEPT ![h] = [req |-> r, msg |-> Head(stream[h])]],
                 acceptors' \subseteq acceptors
          PROVE  <2>3!1 /\ <2>3!2
      BY <2>1, <3>2 DEF TypeOK
    <3>3. QED
      BY <1>10, <3>1, <3>2 DEF readerTake
  <2>4. QED
    BY <1>10, <2>2, <2>3 DEF readerTake, TypeOK
<1>11. ASSUME NEW h \in Handle, readerDispatch(h) PROVE TypeOK'
  <2>1. reader[h].req \in Req /\ reader[h].msg.body \in Entry \cup Reference \cup Outcomes
    BY <1>11 DEF readerDispatch, TypeOK, Message
  <2>2. QED
    BY <1>11, <2>1, SearchResultType DEF readerDispatch, TypeOK
<1>12. ASSUME NEW r \in Req, timeout(r) PROVE TypeOK'
  <2>1. "error" \in Entry \cup Reference \cup Outcomes
    BY DEF Outcomes
  <2>2. QED
    BY <1>12, <2>1, SearchResultType DEF timeout, TypeOK
<1>13. ASSUME NEW r \in Req, NEW item \in Entry \cup Reference, serverItem(r, item)
       PROVE  TypeOK'
  <2>1. op[r] \in Ops
    BY <1>13 DEF serverItem, TypeOK
  <2>3. stream' \in [Handle -> Seq(Message)]
    BY <1>13, <2>1, SendType DEF serverItem
  <2>4. served' \in [Req -> Results]
    BY <1>13, AddType DEF serverItem, TypeOK
  <2>5. QED
    BY <1>13, <2>3, <2>4 DEF serverItem, TypeOK
<1>14. ASSUME NEW r \in Req, NEW outcome \in Outcomes, serverDone(r, outcome)
       PROVE  TypeOK'
  <2>1. op[r] \in Ops
    BY <1>14 DEF serverDone, TypeOK
  <2>3. stream' \in [Handle -> Seq(Message)]
    BY <1>14, <2>1, SendType DEF serverDone
  <2>4. QED
    BY <1>14, <2>3 DEF serverDone, TypeOK
<1>15. CASE UNCHANGED vars
  BY <1>15 DEF TypeOK, vars
<1> QED
  BY <1>1, <1>2, <1>3, <1>4, <1>5, <1>6, <1>7, <1>8, <1>9, <1>10, <1>11, <1>12,
     <1>13, <1>14, <1>15
  DEF Next, Steps, Script, Threads, Environment

-------------------------------------------------------------------------------
(* Bookkeeping. *)

\* A step that leaves r's own state alone, or only gives bookkeeping up.
LEMMA RequestFrame ==
  ASSUME TypeOK, NEW r \in Req, RequestInv(r),
         phase'[r] = phase[r], op'[r] = op[r], calls'[r] = calls[r],
         returned'[r] = returned[r], asyncId'[r] \in {asyncId[r], Null},
         armed'[r] => armed[r], r \in acceptors' => r \in acceptors,
         \A h \in Handle : nextId'[h] \in Nat /\ nextId[h] <= nextId'[h]
  PROVE  RequestInv(r)'
<1>1. (op[r] # Null => op[r].m < nextId[op[r].h])'
  <2> SUFFICES ASSUME op[r] # Null PROVE op[r].m < nextId'[op[r].h]
    OBVIOUS
  <2>1. op[r].h \in Handle /\ op[r].m \in Nat /\ op[r].m < nextId[op[r].h]
    BY DEF TypeOK, Ops, RequestInv
  <2>2. nextId[op[r].h] \in Nat
    BY <2>1 DEF TypeOK
  <2>3. QED
    BY SMTT(30), <2>1, <2>2
<1>2. QED
  BY <1>1 DEF RequestInv, onWire, allErrors

\* A step that writes nothing, keeps every written search written, and takes
\* away from what the server, the wire and the readers hold.
LEMMA HoldersFrame ==
  ASSUME TypeOK, OnlyWritten, op' = op,
         \A r \in Req : onWire(r) => onWire(r)',
         working' \subseteq working,
         \A h \in Handle : stream'[h] \in {stream[h], <<>>},
         \A h \in Handle : reader'[h] \in {reader[h], Null}
  PROVE  OnlyWritten'
<1>1. ASSUME NEW o, written(o) PROVE written(o)'
  BY <1>1 DEF written
<1>2. \A o \in working' : written(o)'
  BY <1>1 DEF OnlyWritten
<1>3. ASSUME NEW h \in Handle, NEW i \in DOMAIN stream'[h]
      PROVE  written([h |-> h, m |-> stream[h][i].m])'
  <2>1. stream'[h] = stream[h]
    BY SMTT(30)
  <2>2. PICK r \in Req : onWire(r) /\ op[r] = [h |-> h, m |-> stream[h][i].m]
    BY <2>1 DEF OnlyWritten, written
  <2>3. onWire(r)' /\ op'[r] = [h |-> h, m |-> stream'[h][i].m]
    BY <2>1, <2>2
  <2>4. QED
    BY <2>3 DEF written
<1>4. ASSUME NEW h \in Handle, reader'[h] # Null PROVE onWire(reader[h].req)'
  <2>1. reader'[h] = reader[h] /\ onWire(reader[h].req) /\ reader[h].req \in Req
    BY <1>4 DEF OnlyWritten, TypeOK
  <2>2. QED
    BY <2>1
<1>5. QED
  BY <1>2, <1>3, <1>4 DEF OnlyWritten

\* A request that is answered, or throws, before it has an operation.
LEMMA AnsweredAtOnce ==
  ASSUME TypeOK, WireInv, NEW r \in Req, phase[r] = "new",
         phase' = [phase EXCEPT ![r] = "finished"],
         \A q \in Req \ {r} : calls'[q] = calls[q],
         \A h \in Handle : nextId'[h] \in Nat /\ nextId[h] <= nextId'[h],
         UNCHANGED <<op, asyncId, returned, armed, acceptors, reader, stream, working>>
  PROVE  WireInv'
<1>1. ASSUME NEW q \in Req PROVE RequestInv(q)'
  <2>1. CASE q = r
    BY <2>1 DEF TypeOK, WireInv, RequestInv
  <2>2. CASE q # r
    <3>1. phase'[q] = phase[q] /\ calls'[q] = calls[q]
      BY <2>2 DEF TypeOK
    <3>2. QED
      BY <3>1, RequestFrame DEF WireInv
  <2>3. QED
    BY <2>1, <2>2
<1>2. OwnOperations'
  BY DEF WireInv, OwnOperations
<1>3. \A q \in Req : onWire(q) => onWire(q)'
  BY DEF TypeOK, onWire
<1>4. OnlyWritten'
  BY <1>3, HoldersFrame DEF WireInv
<1>5. QED
  BY <1>1, <1>2, <1>4 DEF WireInv

\* A step of the connection only closes things.
LEMMA Closed ==
  ASSUME TypeOK, WireInv, NEW h \in Handle, close(h),
         UNCHANGED <<nextId, phase, op, asyncId, calls>>
  PROVE  WireInv'
<1>1. ASSUME NEW q \in Req PROVE RequestInv(q)'
  <2>1. (armed'[q] => armed[q]) /\ (q \in acceptors' => q \in acceptors)
    BY DEF close
  <2>2. returned'[q] = returned[q]
    BY DEF close
  <2>3. \A g \in Handle : nextId'[g] \in Nat /\ nextId[g] <= nextId'[g]
    BY SMTT(30) DEF TypeOK
  <2>4. QED
    BY <2>1, <2>2, <2>3, RequestFrame DEF WireInv
<1>2. OwnOperations'
  BY DEF WireInv, OwnOperations
<1>3. \A q \in Req : onWire(q) => onWire(q)'
  BY DEF onWire
<1>4. /\ working' \subseteq working
      /\ \A g \in Handle : stream'[g] \in {stream[g], <<>>}
      /\ \A g \in Handle : reader'[g] \in {reader[g], Null}
  BY DEF close, TypeOK
<1>5. OnlyWritten'
  BY <1>3, <1>4, HoldersFrame DEF WireInv
<1>6. QED
  BY <1>1, <1>2, <1>5 DEF WireInv

\* Message IDs only grow.
LEMMA TakeIdGrows ==
  ASSUME TypeOK, NEW h \in Handle, takeId(h)
  PROVE  \A g \in Handle : nextId'[g] \in Nat /\ nextId[g] <= nextId'[g]
BY SMTT(30) DEF TypeOK, takeId

LEMMA IdKept ==
  ASSUME TypeOK, UNCHANGED nextId
  PROVE  \A g \in Handle : nextId'[g] \in Nat /\ nextId[g] <= nextId'[g]
BY SMTT(30) DEF TypeOK

\* finish and throwOut touch the callbacks of their own request only.
LEMMA FinishOwn ==
  ASSUME TypeOK, NEW r \in Req, NEW cs, finish(r, cs) \/ throwOut(r)
  PROVE  /\ phase' = [phase EXCEPT ![r] = "finished"]
         /\ \A q \in Req \ {r} : calls'[q] = calls[q]
BY DEF TypeOK, finish, throwOut, post

LEMMA WireScript ==
  ASSUME TypeOK, WireInv, NEW r \in Req,
         connect(r) \/ simpleBind(r) \/ saslBind(r)
  PROVE  WireInv'
<1> USE DEF sdkVars
<1>1. phase[r] = "new"
  BY DEF connect, simpleBind, saslBind, start
<1>2. UNCHANGED <<op, asyncId, returned, armed, acceptors, reader, stream, working>>
  BY DEF connect, simpleBind, saslBind, bind
<1>3. \A h \in Handle : nextId'[h] \in Nat /\ nextId[h] <= nextId'[h]
  <2>1. UNCHANGED nextId \/ (ld \in Handle /\ takeId(ld))
    BY DEF connect, simpleBind, saslBind, bind, bindSucceeds, bindFails, bindNotSent, TypeOK
  <2>2. QED
    BY <2>1, TakeIdGrows, IdKept
<1>4. \E cs : finish(r, cs) \/ throwOut(r)
  BY DEF connect, simpleBind, saslBind, bind, bindSucceeds, bindFails, bindNotSent
<1>5. QED
  BY <1>1, <1>2, <1>3, <1>4, FinishOwn, AnsweredAtOnce

\* asyncSearch takes a message ID no other operation of the connection has.
LEMMA WireSearchAsync ==
  ASSUME TypeOK, TypeOK', WireInv, NEW r \in Req, phase[r] = "new", searchAsync(r),
         UNCHANGED asyncId
  PROVE  WireInv'
<1> DEFINE o == [h |-> ld, m |-> nextId[ld]]
<1>1. ld \in Handle /\ nextId[ld] \in Nat
  BY DEF searchAsync, isBound, TypeOK
<1>2. /\ op' = [op EXCEPT ![r] = o]
      /\ op'[r] = o /\ o # Null /\ o \in Ops
      /\ \A q \in Req \ {r} : op'[q] = op[q]
  BY SMTT(30), <1>1, ConstantsAssumption DEF searchAsync, TypeOK, Ops
<1>3. \A h \in Handle : nextId'[h] \in Nat /\ nextId[h] <= nextId'[h]
  BY <1>1, TakeIdGrows DEF searchAsync
<1>4. op[r] = Null /\ calls[r] = <<>> /\ ~returned[r] /\ asyncId[r] = Null
  BY SMTT(30) DEF WireInv, RequestInv
<1>5. \A q \in Req \ {r} :
        /\ phase'[q] = phase[q] /\ armed'[q] = armed[q]
        /\ q \in acceptors' => q \in acceptors
  BY DEF searchAsync, TypeOK
<1>6. ASSUME NEW q \in Req PROVE RequestInv(q)'
  <2>1. CASE q = r
    <3>1. phase'[r] = "registered" /\ nextId'[ld] = nextId[ld] + 1
      BY <1>1 DEF searchAsync, TypeOK, takeId
    <3>2. op'[r].m < nextId'[op'[r].h]
      BY SMTT(30), <1>1, <1>2, <3>1
    <3>3. calls'[r] = <<>> /\ ~returned'[r] /\ asyncId'[r] = Null
      BY <1>4 DEF searchAsync
    <3>4. QED
      BY SMTT(30), <2>1, <1>2, <3>1, <3>2, <3>3 DEF RequestInv, allErrors
  <2>2. CASE q # r
    <3>1. /\ phase'[q] = phase[q] /\ op'[q] = op[q] /\ armed'[q] = armed[q]
          /\ q \in acceptors' => q \in acceptors
      BY <1>2, <1>5, <2>2
    <3>2. calls'[q] = calls[q] /\ returned'[q] = returned[q] /\ asyncId'[q] = asyncId[q]
      BY DEF searchAsync
    <3>3. QED
      BY <1>3, <3>1, <3>2, RequestFrame DEF WireInv
  <2>3. QED
    BY <2>1, <2>2
<1>7. OwnOperations'
  <2>1. ASSUME NEW q \in Req \ {r} PROVE op[q] # o
    <3>1. op[q] # Null => op[q].m < nextId[op[q].h]
      BY DEF WireInv, RequestInv
    <3>2. QED
      BY SMTT(30), <1>1, <1>2, <3>1
  <2>2. QED
    BY ZenonT(40), <1>2, <2>1 DEF WireInv, OwnOperations
<1>8. OnlyWritten'
  <2>1. ASSUME NEW q \in Req, onWire(q) PROVE onWire(q)' /\ op'[q] = op[q]
    <3>1. q # r
      BY <2>1 DEF onWire
    <3>2. QED
      BY <1>2, <1>5, <2>1, <3>1 DEF onWire
  <2>2. ASSUME NEW x, written(x) PROVE written(x)'
    BY <2>1, <2>2 DEF written
  <2>3. UNCHANGED <<working, stream, reader>>
    BY DEF searchAsync
  <2>4. \A x \in working' : written(x)'
    BY <2>2, <2>3 DEF WireInv, OnlyWritten
  <2>5. ASSUME NEW h \in Handle, NEW i \in DOMAIN stream'[h]
        PROVE  written([h |-> h, m |-> stream[h][i].m])'
    <3>1. PICK q \in Req : onWire(q) /\ op[q] = [h |-> h, m |-> stream[h][i].m]
      BY <2>3 DEF WireInv, OnlyWritten, written
    <3>2. onWire(q)' /\ op'[q] = [h |-> h, m |-> stream'[h][i].m]
      BY <2>1, <2>3, <3>1
    <3>3. QED
      BY <3>2 DEF written
  <2>6. ASSUME NEW h \in Handle, reader'[h] # Null PROVE onWire(reader[h].req)'
    <3>1. onWire(reader[h].req) /\ reader[h].req \in Req
      BY <2>3, <2>6 DEF WireInv, OnlyWritten, TypeOK
    <3>2. QED
      BY <2>1, <2>3, <3>1
  <2>7. QED
    BY <2>4, <2>5, <2>6 DEF OnlyWritten
<1>9. QED
  BY <1>6, <1>7, <1>8 DEF WireInv

LEMMA WireSearch ==
  ASSUME TypeOK, TypeOK', WireInv, NEW r \in Req, search(r)
  PROVE  WireInv'
<1> USE DEF sdkVars
<1>1. phase[r] = "new" /\ UNCHANGED asyncId
  BY DEF search, start
<1>2. CASE searchUnbound(r) \/ searchNotSent(r)
  <2>1. UNCHANGED <<nextId, op, returned, armed, acceptors, reader, stream, working>>
    BY <1>2 DEF searchUnbound, searchNotSent
  <2>2. \E cs : finish(r, cs) \/ throwOut(r)
    BY <1>2 DEF searchUnbound, searchNotSent
  <2>3. QED
    BY <1>1, <2>1, <2>2, IdKept, FinishOwn, AnsweredAtOnce
<1>3. CASE searchSync(r)
  <2>1. UNCHANGED <<op, returned, armed, acceptors, reader, stream, working>>
    BY <1>3 DEF searchSync
  <2>2. \E cs : finish(r, cs) \/ throwOut(r)
    BY <1>3 DEF searchSync
  <2>3. ld \in Handle /\ takeId(ld)
    BY <1>3 DEF searchSync, isBound, TypeOK
  <2>4. QED
    BY <1>1, <2>1, <2>2, <2>3, TakeIdGrows, FinishOwn, AnsweredAtOnce
<1>4. CASE searchAsync(r)
  BY <1>1, <1>4, WireSearchAsync
<1>5. QED
  BY <1>2, <1>3, <1>4 DEF search

LEMMA WireAsyncSend ==
  ASSUME TypeOK, TypeOK', WireInv, NEW r \in Req, asyncSend(r)
  PROVE  WireInv'
<1>1. /\ phase[r] = "registered"
      /\ UNCHANGED <<nextId, op, asyncId, returned, armed, reader, stream>>
  BY DEF asyncSend
<1>2. op[r] # Null /\ allErrors(calls[r]) /\ Len(calls[r]) = IF returned[r] THEN 1 ELSE 0
  BY <1>1 DEF WireInv, RequestInv, onWire
<1>3. ASSUME NEW q \in Req \ {r}
      PROVE  phase'[q] = phase[q] /\ calls'[q] = calls[q] /\ (q \in acceptors' => q \in acceptors)
  BY ZenonT(40) DEF asyncSend, finish, throwOut, post, TypeOK
<1>4. \A q \in Req \ {r} : RequestInv(q)'
  BY <1>1, <1>3, IdKept, RequestFrame DEF WireInv
<1>5. OwnOperations'
  BY <1>1 DEF WireInv, OwnOperations
<1>6. \A q \in Req : onWire(q) => onWire(q)'
  BY <1>1, <1>3 DEF onWire
<1>7. CASE /\ working' = working \cup {op[r]}
           /\ phase' = [phase EXCEPT ![r] = "written"]
           /\ UNCHANGED <<acceptors, calls, threw>>
  <2>1. phase'[r] = "written" /\ onWire(r)'
    BY <1>7 DEF TypeOK, onWire
  <2>2. RequestInv(r)'
    BY <1>1, <1>2, <1>7, <2>1 DEF WireInv, RequestInv
  <2>5. \A o \in working' : written(o)'
    <3> SUFFICES ASSUME NEW o \in working' PROVE \E q \in Req : onWire(q)' /\ op'[q] = o
      BY DEF written
    <3>1. CASE o = op[r]
      BY <1>1, <2>1, <3>1
    <3>2. CASE o \in working
      <4>1. PICK q \in Req : onWire(q) /\ op[q] = o
        BY <3>2 DEF WireInv, OnlyWritten, written
      <4>2. QED
        BY <1>1, <1>6, <4>1
    <3>3. QED
      BY <1>7, <3>1, <3>2
  <2>6. ASSUME NEW h \in Handle, NEW i \in DOMAIN stream'[h]
        PROVE  written([h |-> h, m |-> stream[h][i].m])'
    <3>1. PICK q \in Req : onWire(q) /\ op[q] = [h |-> h, m |-> stream[h][i].m]
      BY <1>1 DEF WireInv, OnlyWritten, written
    <3>2. onWire(q)' /\ op'[q] = [h |-> h, m |-> stream'[h][i].m]
      BY <1>1, <1>6, <3>1
    <3>3. QED
      BY <3>2 DEF written
  <2>7. ASSUME NEW h \in Handle, reader'[h] # Null PROVE onWire(reader[h].req)'
    <3>1. onWire(reader[h].req) /\ reader[h].req \in Req
      BY <1>1, <2>7 DEF WireInv, OnlyWritten, TypeOK
    <3>2. QED
      BY <1>1, <1>6, <3>1
  <2>8. OnlyWritten'
    BY <2>5, <2>6, <2>7 DEF OnlyWritten
  <2>9. QED
    BY <1>4, <1>5, <2>2, <2>8 DEF WireInv
<1>8. CASE /\ finish(r, <<Failure>>) /\ acceptors' = acceptors \ {r} /\ UNCHANGED working
  <2>1. phase'[r] = "finished" /\ calls'[r] = calls[r] \o <<Failure>>
    BY <1>8 DEF TypeOK, finish, post
  <2>2. allErrors(calls[r] \o <<Failure>>)
    <3>1. calls[r] \in Seq(Callback) /\ Failure.outcome = "error"
      BY DEF TypeOK, Failure
    <3>2. QED
      BY SMTT(30), <1>2, <3>1 DEF allErrors
  <2>3. RequestInv(r)'
    BY <1>1, <1>2, <2>1, <2>2 DEF WireInv, RequestInv, allErrors
  <2>4. OnlyWritten'
    BY <1>1, <1>6, <1>8, HoldersFrame DEF WireInv
  <2>5. QED
    BY <1>4, <1>5, <2>3, <2>4 DEF WireInv
<1>9. CASE throwOut(r) /\ UNCHANGED <<acceptors, working>>
  <2>1. phase'[r] = "finished" /\ calls'[r] = calls[r]
    BY <1>9 DEF TypeOK, throwOut
  <2>2. RequestInv(r)'
    BY <1>1, <1>2, <1>9, <2>1 DEF WireInv, RequestInv, allErrors
  <2>3. OnlyWritten'
    BY <1>1, <1>6, <1>9, HoldersFrame DEF WireInv
  <2>4. QED
    BY <1>4, <1>5, <2>2, <2>3 DEF WireInv
<1>10. QED
  BY <1>7, <1>8, <1>9 DEF asyncSend

LEMMA WireAsyncReturn ==
  ASSUME TypeOK, WireInv, NEW r \in Req, asyncReturn(r)
  PROVE  WireInv'
<1> USE DEF sdkVars
<1>1. /\ phase[r] = "written" /\ phase'[r] = "sent" /\ asyncId'[r] = op[r]
      /\ UNCHANGED <<nextId, op, calls, returned, armed, acceptors, reader, stream, working>>
  BY DEF asyncReturn, TypeOK
<1>2. \A q \in Req \ {r} : phase'[q] = phase[q] /\ asyncId'[q] = asyncId[q]
  BY DEF asyncReturn, TypeOK
<1>3. \A q \in Req \ {r} : RequestInv(q)'
  BY <1>1, <1>2, IdKept, RequestFrame DEF WireInv
<1>4. RequestInv(r)'
  BY <1>1 DEF WireInv, RequestInv, onWire
<1>5. \A q \in Req : onWire(q) => onWire(q)'
  BY <1>1, <1>2 DEF onWire
<1>6. OnlyWritten'
  BY <1>1, <1>5, HoldersFrame DEF WireInv
<1>7. QED
  BY <1>1, <1>3, <1>4, <1>6 DEF WireInv, OwnOperations

LEMMA WireAbandon ==
  ASSUME TypeOK, WireInv, NEW r \in Req, abandon(r)
  PROVE  WireInv'
<1>1. UNCHANGED <<phase, op, calls, returned, armed, acceptors, reader, stream>>
  BY DEF abandon
<1>2. working' \subseteq working /\ \A q \in Req : asyncId'[q] \in {asyncId[q], Null}
  BY DEF abandon, TypeOK
<1>3. \A h \in Handle : nextId'[h] \in Nat /\ nextId[h] <= nextId'[h]
  BY TakeIdGrows, IdKept DEF abandon, TypeOK
<1>4. \A q \in Req : RequestInv(q)'
  BY <1>1, <1>2, <1>3, RequestFrame DEF WireInv
<1>5. \A q \in Req : onWire(q) => onWire(q)'
  BY <1>1 DEF onWire
<1>6. OnlyWritten'
  BY <1>1, <1>2, <1>5, HoldersFrame DEF WireInv
<1>7. QED
  BY <1>1, <1>4, <1>6 DEF WireInv, OwnOperations

\* The reader finds a written search for every message: the message is on the
\* wire, and no other request has its operation.
LEMMA WireReaderTake ==
  ASSUME TypeOK, WireInv, NEW h \in Handle, readerTake(h)
  PROVE  WireInv'
<1> DEFINE msg == Head(stream[h])
<1>1. /\ UNCHANGED <<nextId, phase, op, asyncId, returned, armed, working, calls>>
      /\ stream[h] # <<>> /\ stream' = [stream EXCEPT ![h] = Tail(@)]
  BY DEF readerTake
<1>2. acceptors' \subseteq acceptors
  BY DEF readerTake
<1>3. \A q \in Req : RequestInv(q)'
  BY <1>1, <1>2, IdKept, RequestFrame DEF WireInv
<1>4. \A q \in Req : onWire(q)' <=> onWire(q)
  BY <1>1 DEF onWire
<1>5. stream[h] \in Seq(Message) /\ 1 \in DOMAIN stream[h] /\ msg = stream[h][1]
  BY SMTT(30), <1>1 DEF TypeOK
<1>6. PICK w \in Req : onWire(w) /\ op[w] = [h |-> h, m |-> msg.m]
  BY SMTT(30), <1>5 DEF WireInv, OnlyWritten, written
<1>7. ASSUME NEW g \in Handle, reader'[g] # Null PROVE onWire(reader[g].req)'
  <2>1. CASE reader'[g] = reader[g]
    BY <1>4, <1>7, <2>1 DEF WireInv, OnlyWritten, TypeOK
  <2>2. CASE reader'[g] # reader[g]
    <3>1. PICK r \in acceptors : /\ op[r] = [h |-> h, m |-> msg.m]
                                 /\ reader' = [reader EXCEPT ![h] = [req |-> r, msg |-> msg]]
      BY <2>2 DEF readerTake
    <3>2. r \in Req /\ op[r] # Null
      BY DEF TypeOK, WireInv, RequestInv
    <3>3. r = w
      BY <1>6, <3>1, <3>2 DEF WireInv, OwnOperations
    <3>4. reader'[g].req = r
      BY <2>2, <3>1 DEF TypeOK
    <3>5. QED
      BY <1>4, <1>6, <3>3, <3>4
  <2>3. QED
    BY <2>1, <2>2
<1>8. ASSUME NEW g \in Handle, NEW i \in DOMAIN stream'[g]
      PROVE  written([h |-> g, m |-> stream[g][i].m])'
  <2>1. PICK j \in DOMAIN stream[g] : stream'[g][i] = stream[g][j]
    <3>1. CASE g = h
      <4>1. stream'[g] = Tail(stream[h])
        BY <1>1, <3>1 DEF TypeOK
      <4>2. /\ Len(stream[h]) \in Nat /\ DOMAIN stream[h] = 1 .. Len(stream[h])
            /\ DOMAIN Tail(stream[h]) = 1 .. Len(stream[h]) - 1
        BY SMTT(30), <1>1, <1>5
      <4>3. i \in 1 .. Len(stream[h]) - 1
        BY <4>1, <4>2
      <4>4. i + 1 \in DOMAIN stream[h]
        BY SMTT(30), <4>2, <4>3
      <4>5. Tail(stream[h])[i] = stream[h][i + 1]
        BY SMTT(30), <1>1, <1>5, <4>2, <4>3
      <4>6. QED
        BY <3>1, <4>1, <4>4, <4>5
    <3>2. CASE g # h
      BY <1>1, <3>2 DEF TypeOK
    <3>3. QED
      BY <3>1, <3>2
  <2>2. PICK q \in Req : onWire(q) /\ op[q] = [h |-> g, m |-> stream[g][j].m]
    BY DEF WireInv, OnlyWritten, written
  <2>3. onWire(q)' /\ op'[q] = [h |-> g, m |-> stream'[g][i].m]
    BY <1>1, <1>4, <2>1, <2>2
  <2>4. QED
    BY <2>3 DEF written
<1>9. \A o \in working' : written(o)'
  BY <1>1, <1>4 DEF WireInv, OnlyWritten, written
<1>10. OnlyWritten'
  BY <1>7, <1>8, <1>9 DEF OnlyWritten
<1>11. QED
  BY <1>1, <1>3, <1>10 DEF WireInv, OwnOperations

\* The first final result is the only one; before a search is written it can
\* only be the timeout.
LEMMA WireResponse ==
  ASSUME TypeOK, WireInv, NEW r \in Req, op[r] # Null,
         NEW body \in Entry \cup Reference \cup Outcomes,
         onWire(r) \/ body = "error",
         responseReceived(r, body),
         UNCHANGED <<nextId, phase, op, asyncId, acceptors, stream, working>>,
         \A q \in Req : armed'[q] => armed[q],
         \A h \in Handle : reader'[h] \in {reader[h], Null}
  PROVE  WireInv'
<1>1. \A q \in Req \ {r} : calls'[q] = calls[q] /\ returned'[q] = returned[q]
  BY DEF responseReceived, itemReturned, searchResultReceived, post, TypeOK
<1>2. \A q \in Req \ {r} : RequestInv(q)'
  BY <1>1, IdKept, RequestFrame DEF WireInv
<1>3. RequestInv(r)'
  <2>1. CASE UNCHANGED <<returned, calls>>
    BY <2>1, IdKept, RequestFrame DEF WireInv
  <2>2. CASE ~returned[r] /\ body \in Outcomes /\ searchResultReceived(r, body)
    <3> DEFINE c == IF body = "success" THEN Success(lists[r]) ELSE Failure
    <3>1. returned'[r] /\ calls'[r] = calls[r] \o <<c>> /\ calls[r] \in Seq(Callback)
      BY <2>2 DEF searchResultReceived, post, TypeOK
    <3>2. c \in Callback
      BY CallbackType DEF TypeOK
    <3>3. Len(calls'[r]) = Len(calls[r]) + 1
      BY SMTT(30), <3>1, <3>2
    <3>4. ASSUME ~onWire(r) PROVE allErrors(calls[r] \o <<c>>)
      <4>1. c.outcome = "error" /\ allErrors(calls[r])
        BY <3>4 DEF Failure, WireInv, RequestInv
      <4>2. QED
        BY SMTT(30), <3>1, <3>2, <4>1 DEF allErrors
    <3>5. phase[r] # "new"
      BY DEF WireInv, RequestInv
    <3>6. QED
      BY SMTT(30), <2>2, <3>1, <3>3, <3>4, <3>5 DEF WireInv, RequestInv, onWire, allErrors
  <2>3. QED
    BY <2>1, <2>2 DEF responseReceived, itemReturned
<1>4. \A q \in Req : onWire(q) => onWire(q)'
  BY DEF onWire
<1>5. OnlyWritten'
  BY <1>4, HoldersFrame DEF WireInv
<1>6. QED
  BY <1>2, <1>3, <1>5 DEF WireInv, OwnOperations

\* The server answers on the wire what it works on.
LEMMA WireServer ==
  ASSUME TypeOK, WireInv, NEW r \in Req, op[r] \in working,
         NEW body \in Entry \cup Reference \cup Outcomes,
         stream' = [stream EXCEPT ![op[r].h] = Append(@, [m |-> op[r].m, body |-> body])],
         working' \subseteq working,
         UNCHANGED <<nextId, phase, op, asyncId, returned, armed, acceptors, reader, calls>>
  PROVE  WireInv'
<1>1. \A q \in Req : RequestInv(q)'
  BY IdKept, RequestFrame DEF WireInv
<1>2. \A q \in Req : onWire(q)' <=> onWire(q)
  BY DEF onWire
<1>3. op[r] \in Ops /\ op[r].h \in Handle /\ op[r] = [h |-> op[r].h, m |-> op[r].m]
  BY DEF TypeOK, Ops
<1>4. PICK w \in Req : onWire(w) /\ op[w] = op[r]
  BY DEF WireInv, OnlyWritten, written
<1>5. ASSUME NEW g \in Handle, NEW i \in DOMAIN stream'[g]
      PROVE  written([h |-> g, m |-> stream[g][i].m])'
  <2>1. \E q \in Req : onWire(q) /\ op[q] = [h |-> g, m |-> stream'[g][i].m]
    <3>1. CASE i \in DOMAIN stream[g] /\ stream'[g][i] = stream[g][i]
      BY SMTT(30), <3>1 DEF WireInv, OnlyWritten, written
    <3>2. CASE g = op[r].h /\ stream'[g][i] = [m |-> op[r].m, body |-> body]
      BY SMTT(30), <1>3, <1>4, <3>2
    <3>3. QED
      <4>1. CASE g # op[r].h
        BY ZenonT(40), <3>1, <4>1 DEF TypeOK
      <4>2. CASE g = op[r].h
        <5>1. stream[g] \in Seq(Message)
              /\ stream'[g] = Append(stream[g], [m |-> op[r].m, body |-> body])
          BY <4>2 DEF TypeOK
        <5>2. QED
          BY SMTT(30), <3>1, <3>2, <4>2, <5>1
      <4>3. QED
        BY <4>1, <4>2
  <2>2. QED
    BY <1>2, <2>1 DEF written
<1>6. \A o \in working' : written(o)'
  BY <1>2 DEF WireInv, OnlyWritten, written
<1>7. \A g \in Handle : (reader[g] # Null => onWire(reader[g].req))'
  BY <1>2 DEF WireInv, OnlyWritten, TypeOK
<1>8. OnlyWritten'
  BY <1>5, <1>6, <1>7 DEF OnlyWritten
<1>9. QED
  BY <1>1, <1>8 DEF WireInv, OwnOperations

LEMMA WireStep == TypeOK /\ TypeOK' /\ WireInv /\ [Next]_vars => WireInv'
<1> SUFFICES ASSUME TypeOK, TypeOK', WireInv, [Next]_vars PROVE WireInv'
  OBVIOUS
<1> USE DEF sdkVars
<1>1. ASSUME NEW r \in Req, Script(r) PROVE WireInv'
  BY <1>1, WireScript, WireSearch, WireAbandon DEF Script
<1>2. CASE UNCHANGED <<nextId, phase, op, asyncId, sdkVars, calls, threw>>
  <2>1. \A q \in Req : RequestInv(q)'
    BY <1>2, IdKept, RequestFrame DEF WireInv
  <2>2. \A q \in Req : onWire(q) => onWire(q)'
    BY <1>2 DEF onWire
  <2>3. OnlyWritten'
    BY <1>2, <2>2, HoldersFrame DEF WireInv
  <2>4. QED
    BY <1>2, <2>1, <2>3 DEF WireInv, OwnOperations
<1>3. CASE disconnect
  <2>1. ld \in Handle
    BY <1>3 DEF disconnect, TypeOK
  <2>2. QED
    BY <1>3, <2>1, Closed DEF disconnect
<1>4. ASSUME NEW h \in Handle, dropped(h) PROVE WireInv'
  BY <1>4, Closed DEF dropped
<1>5. ASSUME NEW r \in Req, asyncSend(r) \/ asyncReturn(r) PROVE WireInv'
  BY <1>5, WireAsyncSend, WireAsyncReturn
<1>6. ASSUME NEW r \in Req, timeout(r) PROVE WireInv'
  <2>1. op[r] # Null /\ "error" \in Entry \cup Reference \cup Outcomes
    BY <1>6 DEF timeout, WireInv, RequestInv, Outcomes
  <2>2. \A q \in Req : armed'[q] => armed[q]
    BY <1>6 DEF timeout, TypeOK
  <2>3. UNCHANGED <<nextId, phase, op, asyncId, acceptors, stream, working, reader>>
    BY <1>6 DEF timeout
  <2>4. QED
    BY <1>6, <2>1, <2>2, <2>3, WireResponse DEF timeout
<1>7. ASSUME NEW h \in Handle, readerTake(h) PROVE WireInv'
  BY <1>7, WireReaderTake
<1>8. ASSUME NEW h \in Handle, readerDispatch(h) PROVE WireInv'
  <2> DEFINE r == reader[h].req
             body == reader[h].msg.body
  <2>1. reader[h] # Null /\ r \in Req /\ body \in Entry \cup Reference \cup Outcomes
    BY <1>8 DEF readerDispatch, TypeOK, Message
  <2>2. onWire(r) /\ op[r] # Null
    BY <2>1 DEF WireInv, OnlyWritten, RequestInv, onWire
  <2>3. /\ UNCHANGED <<nextId, phase, op, asyncId, acceptors, stream, working, armed>>
        /\ responseReceived(r, body)
    BY <1>8 DEF readerDispatch
  <2>4. \A g \in Handle : reader'[g] \in {reader[g], Null}
    BY <1>8 DEF readerDispatch, TypeOK
  <2> HIDE DEF r, body
  <2>5. QED
    BY <2>1, <2>2, <2>3, <2>4, WireResponse
<1>9. ASSUME NEW r \in Req, NEW item \in Entry \cup Reference, serverItem(r, item)
      PROVE  WireInv'
  BY <1>9, WireServer DEF serverItem
<1>10. ASSUME NEW r \in Req, NEW outcome \in Outcomes, serverDone(r, outcome)
       PROVE  WireInv'
  BY <1>10, WireServer DEF serverDone
<1>11. CASE UNCHANGED vars
  BY <1>2, <1>11 DEF vars
<1>12. ASSUME NEW positive \in BOOLEAN, setTimeLimit(positive) PROVE WireInv'
  BY <1>2, <1>12 DEF setTimeLimit
<1>13. QED
  BY <1>1, <1>3, <1>4, <1>5, <1>6, <1>7, <1>8, <1>9, <1>10, <1>11, <1>12
  DEF Next, Steps, Threads, Environment

LEMMA WireInit == Init => WireInv
BY SMTT(30) DEF Init, WireInv, RequestInv, OwnOperations, OnlyWritten

\* Every variable has the type of the field or SDK state it stands for, and the
\* bookkeeping of the proxies, the reader and timer threads, the wire and the
\* server agrees, in every behaviour.
THEOREM Bookkeeping == Spec => [](TypeOK /\ WireInv)
<1>1. Init => TypeOK /\ WireInv
  BY TypeInit, WireInit
<1>2. TypeOK /\ WireInv /\ [Next]_vars => TypeOK' /\ WireInv'
  BY TypeStep, WireStep
<1>3. QED
  BY <1>1, <1>2, PTL DEF Spec

\* Every field of the Android proxies and of the SDK's connections keeps its
\* type: an operation is a message ID of a handle, a callback carries a result
\* whose entries are entries and whose references are references.
THEOREM TypesKept == Spec => []TypeOK
BY Bookkeeping, PTL

-------------------------------------------------------------------------------
(* Outcomes, abandon and sessions. *)

\* What cs tells the application at once: one outcome, said once or more.
uniform(cs) ==
  /\ cs \in Seq(Callback) /\ cs # <<>>
  /\ \A i, j \in DOMAIN cs : cs[i].outcome = cs[j].outcome

\* The ways a step can concern the answer to r.
answerStep(r) ==
  /\ \A q \in Req \ {r} : calls'[q] = calls[q] /\ op'[q] = op[q]
  /\ \/ phase[r] = "new" /\ calls'[r] = calls[r] /\ op'[r] # Null
     \/ phase[r] = "new" /\ op'[r] = op[r] /\ uniform(calls'[r])
     \/ /\ op[r] # Null /\ op'[r] = op[r]
        /\ \E c \in Callback : calls'[r] = Append(calls[r], c)

LEMMA UniformAnswers ==
  /\ uniform(<<Failure>>) /\ uniform(<<Failure, Failure>>)
  /\ \A res \in Results : uniform(<<Success(res)>>)
BY SMTT(30), CallbackType DEF uniform

\* A request that is answered when it is issued is told one outcome.
LEMMA AnswerAtOnce ==
  ASSUME TypeOK, WireInv, NEW r \in Req, phase[r] = "new", NEW cs, uniform(cs),
         finish(r, cs), UNCHANGED op
  PROVE  answerStep(r)
<1>1. calls[r] = <<>> /\ cs \in Seq(Callback)
  BY DEF WireInv, RequestInv, uniform
<1>2. calls'[r] = cs /\ \A q \in Req \ {r} : calls'[q] = calls[q]
  BY SMTT(30), <1>1 DEF finish, post, TypeOK
<1>3. QED
  BY <1>2 DEF answerStep

\* The listener's first final result appends one callback.
LEMMA AnswerLater ==
  ASSUME TypeOK, NEW r \in Req, op[r] # Null, UNCHANGED op,
         NEW body, responseReceived(r, body)
  PROVE  UNCHANGED calls \/ answerStep(r)
<1>1. CASE searchResultReceived(r, body)
  <2> DEFINE c == IF body = "success" THEN Success(lists[r]) ELSE Failure
  <2>1. c \in Callback
    BY CallbackType DEF TypeOK
  <2>2. /\ calls' = [calls EXCEPT ![r] = @ \o <<c>>]
        /\ calls \in [Req -> Seq(Callback)]
    BY <1>1 DEF searchResultReceived, post, TypeOK
  <2> HIDE DEF c
  <2>3. calls'[r] = Append(calls[r], c)
    BY SMTT(30), <2>1, <2>2
  <2>4. \A q \in Req \ {r} : calls'[q] = calls[q]
    BY <2>2
  <2>5. QED
    BY <2>1, <2>3, <2>4 DEF answerStep
<1>2. QED
  BY <1>1 DEF responseReceived, itemReturned

LEMMA AnswerStep ==
  ASSUME TypeOK, TypeOK', WireInv, [Next]_vars
  PROVE  UNCHANGED <<calls, op>> \/ \E r \in Req : answerStep(r)
<1> USE DEF sdkVars
<1>1. ASSUME NEW r \in Req, connect(r) \/ simpleBind(r) \/ saslBind(r)
      PROVE  UNCHANGED <<calls, op>> \/ answerStep(r)
  <2>1. phase[r] = "new" /\ UNCHANGED op
    BY <1>1 DEF connect, simpleBind, saslBind, bind, start
  <2>2. UNCHANGED calls \/ finish(r, <<Failure>>) \/ finish(r, <<Success(None)>>)
    BY <1>1 DEF connect, simpleBind, saslBind, bind, bindSucceeds, bindFails, bindNotSent,
                throwOut
  <2>3. QED
    BY <2>1, <2>2, CallbackType, UniformAnswers, AnswerAtOnce
<1>2. ASSUME NEW r \in Req, search(r) PROVE UNCHANGED <<calls, op>> \/ answerStep(r)
  <2>1. phase[r] = "new"
    BY <1>2 DEF search, start
  <2>2. CASE searchUnbound(r) \/ searchNotSent(r)
    BY <2>1, <2>2, UniformAnswers, AnswerAtOnce DEF searchUnbound, searchNotSent
  <2>3. CASE searchSync(r)
    <3>1. UNCHANGED op
      BY <2>3 DEF searchSync
    <3>2. CASE finish(r, <<Failure>>)
      BY <2>1, <3>1, <3>2, UniformAnswers, AnswerAtOnce
    <3>3. CASE throwOut(r)
      BY <3>1, <3>3 DEF throwOut
    <3>4. ASSUME NEW n \in 0 .. MaxItems, NEW es \in [1 .. n -> Entry],
                 NEW k \in 0 .. MaxItems, NEW fs \in [1 .. k -> Reference],
                 finish(r, <<Success([entries |-> es, refs |-> fs])>>)
          PROVE  answerStep(r)
      <4>1. es \in Seq(Entry) /\ fs \in Seq(Reference)
        BY SMTT(30), ConstantsAssumption
      <4>2. [entries |-> es, refs |-> fs] \in Results
        BY SMTT(30), <4>1 DEF Results
      <4>3. QED
        BY <2>1, <3>1, <3>4, <4>2, UniformAnswers, AnswerAtOnce
    <3>5. QED
      BY <2>3, <3>2, <3>3, <3>4 DEF searchSync
  <2>4. CASE searchAsync(r)
    <3>1. ld \in Handle /\ nextId[ld] \in Nat
      BY <2>4 DEF searchAsync, isBound, TypeOK
    <3>2. op'[r] = [h |-> ld, m |-> nextId[ld]]
      BY <2>4 DEF searchAsync, TypeOK
    <3>3. op'[r] # Null
      BY SMTT(30), <3>1, <3>2, ConstantsAssumption
    <3>4. UNCHANGED calls /\ \A q \in Req \ {r} : op'[q] = op[q]
      BY <2>4 DEF searchAsync, TypeOK
    <3>5. QED
      BY <2>1, <3>3, <3>4 DEF answerStep
  <2>5. QED
    BY <1>2, <2>2, <2>3, <2>4 DEF search
<1>3. ASSUME NEW r \in Req, asyncSend(r) PROVE UNCHANGED <<calls, op>> \/ answerStep(r)
  <2>1. op[r] # Null /\ UNCHANGED op
    BY <1>3 DEF asyncSend, WireInv, RequestInv
  <2>2. CASE finish(r, <<Failure>>)
    <3>1. calls' = [calls EXCEPT ![r] = @ \o <<Failure>>] /\ Failure \in Callback
      BY <2>2, CallbackType DEF finish, post
    <3>2. calls'[r] = Append(calls[r], Failure)
      BY SMTT(30), <3>1 DEF TypeOK
    <3>3. \A q \in Req \ {r} : calls'[q] = calls[q]
      BY <3>1 DEF TypeOK
    <3>4. QED
      BY <2>1, <3>1, <3>2, <3>3 DEF answerStep
  <2>3. QED
    BY <1>3, <2>1, <2>2 DEF asyncSend, throwOut
<1>4. ASSUME NEW r \in Req, timeout(r) PROVE UNCHANGED <<calls, op>> \/ answerStep(r)
  <2>1. op[r] # Null /\ UNCHANGED op
    BY <1>4 DEF timeout, WireInv, RequestInv
  <2>2. QED
    BY <1>4, <2>1, AnswerLater DEF timeout
<1>5. ASSUME NEW h \in Handle, readerDispatch(h)
      PROVE  UNCHANGED <<calls, op>> \/ \E r \in Req : answerStep(r)
  <2>1. reader[h].req \in Req /\ UNCHANGED op
    BY <1>5 DEF readerDispatch, TypeOK
  <2>2. op[reader[h].req] # Null
    BY <1>5, <2>1 DEF readerDispatch, WireInv, OnlyWritten, RequestInv, onWire
  <2>3. QED
    BY <1>5, <2>1, <2>2, AnswerLater DEF readerDispatch
<1>6. ASSUME NEW r \in Req, abandon(r) \/ asyncReturn(r) PROVE UNCHANGED <<calls, op>>
  BY <1>6 DEF abandon, asyncReturn
<1>7. ASSUME NEW h \in Handle, dropped(h) \/ readerTake(h) PROVE UNCHANGED <<calls, op>>
  BY <1>7 DEF dropped, readerTake
<1>8. CASE Environment
  BY <1>7, <1>8 DEF Environment, serverItem, serverDone
<1>9. CASE disconnect \/ (\E positive \in BOOLEAN : setTimeLimit(positive)) \/ UNCHANGED vars
  BY <1>9 DEF disconnect, setTimeLimit, vars
<1>10. QED
  BY <1>1, <1>2, <1>3, <1>4, <1>5, <1>6, <1>7, <1>8, <1>9
  DEF Next, Steps, Script, Threads

LEMMA OutcomeStep ==
  ASSUME TypeOK, TypeOK', WireInv, WireInv', OneOutcome, [Next]_vars
  PROVE  OneOutcome'
<1> SUFFICES ASSUME NEW q \in Req
             PROVE  /\ \A i, j \in DOMAIN calls'[q] :
                         calls'[q][i].outcome = calls'[q][j].outcome
                    /\ onWire(q)' => Len(calls'[q]) <= 1
  BY DEF OneOutcome
<1>1. onWire(q)' => Len(calls'[q]) <= 1
  BY SMTT(30) DEF WireInv, RequestInv, onWire
<1>2. calls'[q] \in Seq(Callback) /\ calls[q] \in Seq(Callback)
  BY DEF TypeOK
<1>3. CASE onWire(q)'
  <2>1. \A i \in DOMAIN calls'[q] : i = 1
    BY SMTT(30), <1>1, <1>2, <1>3
  <2>2. QED
    BY <1>1, <2>1
<1>4. CASE op'[q] # Null /\ ~onWire(q)'
  BY <1>4 DEF WireInv, RequestInv, allErrors
<1>5. CASE op'[q] = Null
  <2>1. CASE calls'[q] = calls[q]
    BY ZenonT(40), <1>1, <2>1 DEF OneOutcome
  <2>2. CASE calls'[q] # calls[q]
    <3>1. answerStep(q)
      BY <2>2, AnswerStep DEF answerStep
    <3>2. uniform(calls'[q])
      BY <1>5, <2>2, <3>1 DEF answerStep
    <3>3. QED
      BY <1>1, <3>2 DEF uniform
  <2>3. QED
    BY <2>1, <2>2
<1>6. QED
  BY <1>3, <1>4, <1>5

\* However the result, the timeout, the loss of the link, abandon and
\* disconnect race: no request is told two different outcomes, and a search that
\* was put on the wire is answered at most once.
THEOREM OneOutcomeAlways == Spec => []OneOutcome
<1>1. Init => TypeOK /\ WireInv /\ OneOutcome
  BY SMTT(30), TypeInit, WireInit DEF Init, OneOutcome
<1>2. TypeOK /\ WireInv /\ OneOutcome /\ [Next]_vars => (TypeOK /\ WireInv /\ OneOutcome)'
  BY TypeStep, WireStep, OutcomeStep
<1>3. QED
  BY <1>1, <1>2, PTL DEF Spec

\* An answer that has been given is repeated, never changed.
LEMMA ContractStep ==
  ASSUME TypeOK, TypeOK', WireInv, OneOutcome', [Next]_vars
  PROVE  [Contract!Next]_([r \in Req |-> told(r)])
<1> DEFINE told0 == [r \in Req |-> told(r)]
<1>1. CASE UNCHANGED <<calls, op>>
  BY <1>1 DEF told
<1>2. ASSUME NEW r \in Req, answerStep(r) PROVE Contract!Next \/ UNCHANGED told0
  <2>1. \A q \in Req \ {r} : told(q)' = told(q)
    BY <1>2 DEF answerStep, told
  <2>2. told0' = [told0 EXCEPT ![r] = told(r)']
    BY <2>1
  <2>3. calls[r] \in Seq(Callback) /\ calls'[r] \in Seq(Callback)
    BY DEF TypeOK
  <2>4. calls'[r] # <<>> => told(r)' \in Contract!Final
    <3> SUFFICES ASSUME calls'[r] # <<>> PROVE told(r)' \in Contract!Final
      OBVIOUS
    <3>1. Len(calls'[r]) \in DOMAIN calls'[r] /\ calls'[r][Len(calls'[r])] \in Callback
      BY SMTT(30), <2>3
    <3>2. QED
      BY <3>1 DEF told, Contract!Final, Callback, Outcomes
  <2>5. CASE phase[r] = "new" /\ calls'[r] = calls[r] /\ op'[r] # Null
    <3>1. told(r) = "none" /\ told(r)' = "pending"
      BY <2>5 DEF told, WireInv, RequestInv
    <3>2. Contract!Issue(r)
      BY <2>2, <3>1 DEF Contract!Issue
    <3>3. QED
      BY <3>2 DEF Contract!Next
  <2>6. CASE phase[r] = "new" /\ op'[r] = op[r] /\ uniform(calls'[r])
    <3>1. told(r) = "none" /\ told(r)' \in Contract!Final
      BY <2>4, <2>6 DEF told, WireInv, RequestInv, uniform
    <3>2. Contract!Answer(r, told(r)')
      BY <2>2, <3>1 DEF Contract!Answer
    <3>3. QED
      BY <3>1, <3>2 DEF Contract!Next
  <2>7. ASSUME op[r] # Null, op'[r] = op[r],
               NEW c \in Callback, calls'[r] = Append(calls[r], c)
        PROVE  Contract!Next \/ UNCHANGED told0
    <3>1. calls'[r] # <<>> /\ told(r)' \in Contract!Final
      BY SMTT(30), <2>3, <2>4, <2>7
    <3>2. CASE calls[r] = <<>>
      <4>1. told(r) = "pending"
        BY <2>7, <3>2 DEF told
      <4>2. Contract!Answer(r, told(r)')
        BY <2>2, <4>1 DEF Contract!Answer
      <4>3. QED
        BY <3>1, <4>2 DEF Contract!Next
    <3>3. CASE calls[r] # <<>>
      <4> DEFINE n == Len(calls[r])
      <4>1. /\ n \in Nat \ {0} /\ Len(calls'[r]) = n + 1
            /\ n \in DOMAIN calls'[r] /\ n + 1 \in DOMAIN calls'[r]
            /\ calls'[r][n] = calls[r][n]
        BY SMTT(30), <2>3, <2>7, <3>3
      <4>2. calls'[r][n].outcome = calls'[r][n + 1].outcome
        BY <4>1 DEF OneOutcome
      <4>3. told(r)' = told(r)
        BY <3>1, <3>3, <4>1, <4>2 DEF told
      <4>4. QED
        BY <2>2, <4>3
    <3>4. QED
      BY <3>2, <3>3
  <2>8. QED
    BY <1>2, <2>5, <2>6, <2>7 DEF answerStep
<1>3. QED
  BY <1>1, <1>2, AnswerStep

\* The request proxies implement RequestContract: an answer is final, whatever
\* the reader, the timer and the script do afterwards.
THEOREM ContractImplemented == Spec => ImplementsContract
<1>1. Init => TypeOK /\ WireInv /\ OneOutcome
  BY SMTT(30), TypeInit, WireInit DEF Init, OneOutcome
<1>2. TypeOK /\ WireInv /\ OneOutcome /\ [Next]_vars => (TypeOK /\ WireInv /\ OneOutcome)'
  BY TypeStep, WireStep, OutcomeStep
<1>3. Init => Contract!Init
  BY ZenonT(40) DEF Init, Contract!Init, told
<1>4. /\ TypeOK /\ WireInv /\ OneOutcome /\ (TypeOK /\ WireInv /\ OneOutcome)'
      /\ [Next]_vars
      => [Contract!Next]_([r \in Req |-> told(r)])
  BY ContractStep
<1>5. QED
  BY <1>1, <1>2, <1>3, <1>4, PTL DEF Spec, ImplementsContract, Contract!Spec

-------------------------------------------------------------------------------
(* abandon. *)

\* On the connection its search was sent on, abandon ends no other search:
\* message IDs are never used twice, and asyncId is the request's own.
THEOREM AbandonsOwnAlways == Spec => AbandonsOwn
<1>1. ASSUME TypeOK, WireInv, NEW r \in Req, abandon(r), asyncId[r].h = ld,
             NEW q \in Req \ {r}, op[q] \in working
      PROVE  op[q] \in working'
  <2>1. asyncId[r] = op[r] /\ op[r] # Null /\ op[r] \in Ops
    BY SMTT(30), <1>1 DEF abandon, WireInv, RequestInv, TypeOK
  <2>2. op[q] # op[r]
    BY <1>1, <2>1 DEF WireInv, OwnOperations
  <2>3. op[r] = [h |-> ld, m |-> asyncId[r].m]
    BY <1>1, <2>1 DEF Ops
  <2>4. QED
    BY <1>1, <2>2, <2>3 DEF abandon
<1>2. /\ TypeOK /\ WireInv /\ [Next]_vars
      => [\A r \in Req : abandon(r) /\ asyncId[r].h = ld =>
            \A q \in Req \ {r} : op[q] \in working => op[q] \in working']_vars
  BY <1>1
<1>3. QED
  BY <1>2, Bookkeeping, PTL DEF Spec, AbandonsOwn

-------------------------------------------------------------------------------
(* The careful application. *)

CarefulInv == NoConnectionLeft /\ BoundIsAuthenticated /\ (bound => ld # Null)

LEMMA CarefulStep == TypeOK /\ CarefulInv /\ [CarefulNext]_vars => CarefulInv'
<1> SUFFICES ASSUME TypeOK, CarefulInv, [CarefulNext]_vars PROVE CarefulInv'
  OBVIOUS
<1> USE DEF CarefulInv, NoConnectionLeft, BoundIsAuthenticated, isBound, conVars, TypeOK
<1>1. ASSUME NEW r \in Req, ld = Null, connect(r) PROVE CarefulInv'
  <2>1. CASE UNCHANGED conVars
    BY <2>1
  <2>2. ASSUME NEW h \in Handle, link' = [link EXCEPT ![h] = "open"], ld' = h,
               UNCHANGED <<bound, auth>>
        PROVE  CarefulInv'
    <3>1. ~bound /\ \A g \in Handle : link[g] # "open"
      BY ZenonT(40), <1>1, ConstantsAssumption
    <3>2. ~bound' /\ \A g \in Handle : link'[g] = "open" => g = h
      BY <2>2, <3>1
    <3>3. QED
      BY <2>2, <3>2
  <2>3. QED
    BY <1>1, <2>1, <2>2 DEF connect
<1>2. ASSUME NEW r \in Req, ~bound, simpleBind(r) \/ saslBind(r) PROVE CarefulInv'
  <2>1. UNCHANGED <<ld, link>>
    BY <1>2 DEF simpleBind, saslBind, bind
  <2>2. ~bound' \/ (ld \in Handle /\ auth' = [auth EXCEPT ![ld] = TRUE])
    BY <1>2 DEF simpleBind, saslBind, bind, bindSucceeds, bindFails, bindNotSent
  <2>3. QED
    BY <2>1, <2>2, ConstantsAssumption
<1>3. CASE disconnect
  BY <1>3 DEF disconnect, close
<1>4. ASSUME NEW h \in Handle, dropped(h) PROVE CarefulInv'
  BY <1>4 DEF dropped, close
<1>5. CASE UNCHANGED conVars
  BY <1>5
<1>6. ASSUME NEW r \in Req, search(r) \/ abandon(r) PROVE UNCHANGED conVars
  BY <1>6 DEF search, abandon
<1>7. CASE Threads
  <2>1. UNCHANGED conVars
    BY <1>7 DEF Threads, asyncSend, asyncReturn, timeout, readerTake, readerDispatch
  <2>2. QED
    BY <1>5, <2>1
<1>8. ASSUME Environment, \A h \in Handle : ~dropped(h) PROVE UNCHANGED conVars
  BY <1>8 DEF Environment, serverItem, serverDone
<1>9. CASE UNCHANGED vars \/ \E positive \in BOOLEAN : setTimeLimit(positive)
  BY <1>5, <1>9 DEF vars, setTimeLimit
<1>10. QED
  BY <1>1, <1>2, <1>3, <1>4, <1>5, <1>6, <1>7, <1>8, <1>9 DEF CarefulNext, CarefulScript

\* A careful application keeps both promises; they need each other.
LEMMA CarefulSessions == CarefulSpec => []CarefulInv
<1>1. CarefulNext => Next
  BY DEF CarefulNext, CarefulScript, Next, Steps, Script
<1>2. CarefulSpec => Spec
  BY <1>1, PTL DEF CarefulSpec, Spec
<1>3. Init => CarefulInv
  BY DEF Init, CarefulInv, NoConnectionLeft, BoundIsAuthenticated, isBound
<1>4. QED
  BY <1>2, <1>3, CarefulStep, Bookkeeping, PTL DEF CarefulSpec

\* An application that connects only when disconnected and binds only when not
\* bound leaves no open connection behind.
THEOREM NoSessionLeft == CarefulSpec => []NoConnectionLeft
<1>1. CarefulInv => NoConnectionLeft
  BY DEF CarefulInv
<1>2. QED
  BY <1>1, CarefulSessions, PTL

\* ... and isBound tells it what the server thinks of its open connection.
THEOREM BoundMeansAuthenticated == CarefulSpec => []BoundIsAuthenticated
<1>1. CarefulInv => BoundIsAuthenticated
  BY DEF CarefulInv
<1>2. QED
  BY <1>1, CarefulSessions, PTL

-------------------------------------------------------------------------------
(* What a search is handed. *)

\* g[k] is what a listener of operation o has collected, starting with res,
\* when it has been given the first k messages of st.  At the final response
\* this is all the server sent, srv, and so it is at the end of st as long as
\* the server works on o.
Replay(g, res, o, st, srv, W) ==
  /\ g[0] = res
  /\ \A k \in 1 .. Len(st) :
       g[k] = IF st[k].m = o.m /\ ~IsFinal(st[k]) THEN add(g[k - 1], st[k].body) ELSE g[k - 1]
  /\ \A k \in 1 .. Len(st) : st[k].m = o.m /\ IsFinal(st[k]) => g[k] = srv
  /\ o \in W => g[Len(st)] = srv

Replays(res, o, st, srv, W) == \E g : Replay(g, res, o, st, srv, W)

\* Nothing for o is on the wire.
LEMMA ReplayNothing ==
  ASSUME NEW st \in Seq(Message), NEW o, \A k \in 1 .. Len(st) : st[k].m # o.m,
         NEW res, NEW srv, NEW W, o \in W => res = srv
  PROVE  Replays(res, o, st, srv, W)
<1> DEFINE g == [k \in 0 .. Len(st) |-> res]
<1>1. /\ Len(st) \in 0 .. Len(st) /\ 0 \in 0 .. Len(st)
      /\ \A k \in 1 .. Len(st) : k \in 0 .. Len(st) /\ k - 1 \in 0 .. Len(st)
  BY SMT
<1>2. \A k \in 0 .. Len(st) : g[k] = res
  OBVIOUS
<1> HIDE DEF g
<1>3. Replay(g, res, o, st, srv, W)
  BY <1>1, <1>2 DEF Replay
<1>4. QED
  BY <1>3 DEF Replays

\* The server may have stopped working on o.
LEMMA ReplayIdle ==
  ASSUME NEW res, NEW o, NEW st, NEW srv, NEW W, Replays(res, o, st, srv, W),
         NEW V, o \in V => o \in W
  PROVE  Replays(res, o, st, srv, V)
<1>1. PICK g : Replay(g, res, o, st, srv, W)
  BY DEF Replays
<1>2. Replay(g, res, o, st, srv, V)
  BY <1>1 DEF Replay
<1>3. QED
  BY <1>2 DEF Replays

\* The reader takes the first message.
LEMMA ReplayTaken ==
  ASSUME NEW st \in Seq(Message), st # <<>>, NEW res, NEW o, NEW srv, NEW W,
         Replays(res, o, st, srv, W)
  PROVE  /\ Head(st).m # o.m => Replays(res, o, Tail(st), srv, W)
         /\ Head(st).m = o.m /\ ~IsFinal(Head(st)) =>
              Replays(add(res, Head(st).body), o, Tail(st), srv, W)
         /\ Head(st).m = o.m /\ IsFinal(Head(st)) => res = srv
<1>1. PICK g : Replay(g, res, o, st, srv, W)
  BY DEF Replays
<1> DEFINE n == Len(st)  t == Tail(st)  f == [k \in 0 .. n - 1 |-> g[k + 1]]
<1>2. /\ n \in Nat \ {0} /\ Len(t) = n - 1 /\ Head(st) = st[1]
      /\ \A k \in 1 .. n - 1 : t[k] = st[k + 1]
  BY SMT
<1>3. /\ 1 \in 1 .. n /\ 1 - 1 = 0 /\ 0 \in 0 .. n - 1 /\ 0 + 1 = 1
      /\ n - 1 \in 0 .. n - 1 /\ (n - 1) + 1 = n
      /\ \A k \in 1 .. n - 1 : /\ k + 1 \in 1 .. n /\ k \in 0 .. n - 1 /\ k - 1 \in 0 .. n - 1
                               /\ (k - 1) + 1 = k /\ (k + 1) - 1 = k
  BY <1>2, SMT
<1>4. \A k \in 0 .. n - 1 : f[k] = g[k + 1]
  OBVIOUS
<1> HIDE DEF n, t, f
<1>5. \A k \in 1 .. n - 1 : f[k] = g[k + 1] /\ f[k - 1] = g[k]
  BY <1>3, <1>4
<1>6. f[0] = g[1] /\ f[n - 1] = g[n]
  BY <1>3, <1>4
<1>7. Replay(f, g[1], o, t, srv, W)
  <2>1. ASSUME NEW k \in 1 .. n - 1
        PROVE  f[k] = IF t[k].m = o.m /\ ~IsFinal(t[k]) THEN add(f[k - 1], t[k].body) ELSE f[k - 1]
    <3>1. g[k + 1] = IF st[k + 1].m = o.m /\ ~IsFinal(st[k + 1]) THEN add(g[k], st[k + 1].body) ELSE g[k]
      BY <1>1, <1>3 DEF Replay, n
    <3>2. QED
      BY <1>2, <1>5, <3>1
  <2>2. ASSUME NEW k \in 1 .. n - 1, t[k].m = o.m, IsFinal(t[k]) PROVE f[k] = srv
    <3>1. t[k] = st[k + 1] /\ f[k] = g[k + 1]
      BY <1>2, <1>5
    <3>2. st[k + 1].m = o.m /\ IsFinal(st[k + 1]) => g[k + 1] = srv
      BY <1>1, <1>3 DEF Replay, n
    <3>3. QED
      BY <2>2, <3>1, <3>2
  <2>3. o \in W => f[n - 1] = srv
    BY <1>1, <1>6 DEF Replay, n
  <2>4. QED
    BY <1>2, <1>6, <2>1, <2>2, <2>3 DEF Replay
<1>8. /\ g[0] = res
      /\ g[1] = IF st[1].m = o.m /\ ~IsFinal(st[1]) THEN add(g[0], st[1].body) ELSE g[0]
      /\ st[1].m = o.m /\ IsFinal(st[1]) => g[1] = srv
  BY <1>1, <1>3 DEF Replay, n
<1>9. Replays(g[1], o, t, srv, W)
  BY <1>7 DEF Replays
<1>10. CASE st[1].m = o.m /\ ~IsFinal(st[1])
  BY <1>2, <1>8, <1>9, <1>10 DEF t
<1>11. CASE st[1].m # o.m
  BY <1>2, <1>8, <1>9, <1>11 DEF t
<1>12. CASE st[1].m = o.m /\ IsFinal(st[1])
  BY <1>2, <1>8, <1>12
<1>13. QED
  BY <1>10, <1>11, <1>12

\* The server sends another message, for another operation or for o.
LEMMA ReplayAppended ==
  ASSUME NEW st \in Seq(Message), NEW x \in Message, NEW res, NEW o, NEW srv, NEW W,
         Replays(res, o, st, srv, W)
  PROVE  /\ x.m # o.m => Replays(res, o, Append(st, x), srv, W)
         /\ x.m = o.m /\ o \in W /\ IsFinal(x) => Replays(res, o, Append(st, x), srv, W)
         /\ /\ x.m = o.m /\ o \in W /\ ~IsFinal(x)
            /\ \A k \in 1 .. Len(st) : IsFinal(st[k]) => st[k].m # o.m
            => Replays(res, o, Append(st, x), add(srv, x.body), W)
<1>1. PICK g : Replay(g, res, o, st, srv, W)
  BY DEF Replays
<1> DEFINE n == Len(st)  t == Append(st, x)
           last == IF x.m = o.m /\ ~IsFinal(x) THEN add(g[n], x.body) ELSE g[n]
           f == [k \in 0 .. n + 1 |-> IF k = n + 1 THEN last ELSE g[k]]
<1>2. n \in Nat /\ Len(t) = n + 1 /\ t[n + 1] = x /\ \A k \in 1 .. n : t[k] = st[k]
  BY SMT
<1>3. /\ 0 \in 0 .. n + 1 /\ 0 # n + 1 /\ n + 1 \in 0 .. n + 1 /\ (n + 1) - 1 = n
      /\ n \in 0 .. n + 1 /\ n # n + 1
      /\ \A k \in 1 .. n : k \in 0 .. n + 1 /\ k - 1 \in 0 .. n + 1 /\ k # n + 1 /\ k - 1 # n + 1
      /\ \A k \in 1 .. n + 1 : k \in 1 .. n \/ k = n + 1
  BY <1>2, SMT
<1>4. \A k \in 0 .. n + 1 : f[k] = IF k = n + 1 THEN last ELSE g[k]
  OBVIOUS
<1> HIDE DEF n, t, f
<1>5. f[0] = g[0] /\ f[n] = g[n] /\ f[n + 1] = last /\ \A k \in 1 .. n : f[k] = g[k] /\ f[k - 1] = g[k - 1]
  BY <1>3, <1>4
<1>6. ASSUME NEW k \in 1 .. n + 1
      PROVE  f[k] = IF t[k].m = o.m /\ ~IsFinal(t[k]) THEN add(f[k - 1], t[k].body) ELSE f[k - 1]
  <2>1. CASE k = n + 1
    BY <1>2, <1>3, <1>5, <2>1
  <2>2. CASE k \in 1 .. n
    BY <1>1, <1>2, <1>5, <2>2 DEF Replay, n
  <2>3. QED
    BY <1>3, <2>1, <2>2
<1>7. ASSUME NEW v, \A k \in 1 .. n : st[k].m = o.m /\ IsFinal(st[k]) => g[k] = v,
             x.m = o.m /\ IsFinal(x) => last = v, o \in W => last = v
      PROVE  Replays(res, o, t, v, W)
  <2>1. ASSUME NEW k \in 1 .. n + 1, t[k].m = o.m, IsFinal(t[k]) PROVE f[k] = v
    <3>1. CASE k = n + 1
      BY <1>2, <1>5, <1>7, <2>1, <3>1
    <3>2. CASE k \in 1 .. n
      BY <1>2, <1>5, <1>7, <2>1, <3>2
    <3>3. QED
      BY <1>3, <3>1, <3>2
  <2>2. f[0] = res /\ (o \in W => f[n + 1] = v)
    BY <1>1, <1>5, <1>7 DEF Replay
  <2>3. Replay(f, res, o, t, v, W)
    BY <1>2, <1>6, <2>1, <2>2 DEF Replay
  <2>4. QED
    BY <2>3 DEF Replays
<1>8. /\ \A k \in 1 .. n : st[k].m = o.m /\ IsFinal(st[k]) => g[k] = srv
      /\ o \in W => g[n] = srv
  BY <1>1 DEF Replay, n
<1>9. ASSUME x.m # o.m PROVE Replays(res, o, t, srv, W)
  BY <1>7, <1>8, <1>9
<1>10. ASSUME x.m = o.m, o \in W, IsFinal(x) PROVE Replays(res, o, t, srv, W)
  BY <1>7, <1>8, <1>10
<1>11. ASSUME x.m = o.m, o \in W, ~IsFinal(x), \A k \in 1 .. n : IsFinal(st[k]) => st[k].m # o.m
       PROVE  Replays(res, o, t, add(srv, x.body), W)
  BY <1>7, <1>8, <1>11
<1>12. QED
  BY <1>9, <1>10, <1>11 DEF n, t

\* What the listener of r has, with what the reader is handing it.
inHand(r) ==
  LET x == reader[op[r].h] IN
  IF x # Null /\ x.req = r /\ ~IsFinal(x.msg) THEN add(lists[r], x.msg.body) ELSE lists[r]

\* The listener of r is still to be given what is on the wire.
listens(r) == op[r] # Null /\ ~returned[r] /\ r \in acceptors /\ link[op[r].h] = "open"

\* What r was told is all the server sent, and the server has finished.
ToldAll(r) ==
  \A i \in DOMAIN calls[r] :
    calls[r][i].outcome = "success" => calls[r][i].result = served[r] /\ op[r] \notin working

RequestFlow(r) ==
  /\ phase[r] \in {"new", "registered"} => lists[r] = None /\ served[r] = None
  /\ op[r] # Null => link[op[r].h] # "unused"
  /\ listens(r) => Replays(inHand(r), op[r], stream[op[r].h], served[r], working)
  /\ ToldAll(r)

\* The message in a reader's hands is its listener's, and when a final response
\* comes everything before it has come.
ReaderFlow(h) ==
  reader[h] # Null =>
    LET r == reader[h].req IN
    /\ op[r] = [h |-> h, m |-> reader[h].msg.m]
    /\ IsFinal(reader[h].msg) /\ ~returned[r] => lists[r] = served[r] /\ op[r] \notin working

\* A final response is the last one of its operation.
FinalIsLast(h, st, W) ==
  \A k \in 1 .. Len(st) : IsFinal(st[k]) =>
    /\ [h |-> h, m |-> st[k].m] \notin W
    /\ \A j \in 1 .. Len(st) : j > k => st[j].m # st[k].m

FlowInv ==
  (\A r \in Req : RequestFlow(r)) /\ (\A h \in Handle : ReaderFlow(h) /\ FinalIsLast(h, stream[h], working))

LEMMA LastKept ==
  ASSUME NEW h, NEW st, NEW W, FinalIsLast(h, st, W),
         NEW V, \A k \in 1 .. Len(st) : [h |-> h, m |-> st[k].m] \in V => [h |-> h, m |-> st[k].m] \in W
  PROVE  FinalIsLast(h, st, V)
BY DEF FinalIsLast

LEMMA LastOfNone == ASSUME NEW h, NEW W PROVE FinalIsLast(h, <<>>, W)
BY SMT DEF FinalIsLast

LEMMA FlowTypes ==
  ASSUME TypeOK
  PROVE  /\ \A r \in Req : op[r] # Null => op[r] \in Ops /\ op[r].h \in Handle /\ op[r].m \in Nat
         /\ \A r \in Req : op[r] \in working => op[r] # Null
         /\ \A h \in Handle : stream[h] \in Seq(Message) /\ DOMAIN stream[h] = 1 .. Len(stream[h])
         /\ \A h \in Handle : reader[h] # Null => reader[h].req \in Req /\ reader[h].msg \in Message
<1>1. Null \notin Ops
  BY ConstantsAssumption DEF Ops
<1>2. \A st \in Seq(Message) : DOMAIN st = 1 .. Len(st)
  BY SMT
<1>3. QED
  BY <1>1, <1>2 DEF TypeOK, Ops

\* A step that tells no one of a success, gives bookkeeping up and may close
\* connections.
LEMMA FlowFrame ==
  ASSUME TypeOK, FlowInv, UNCHANGED <<op, lists, served, returned, reader>>,
         working' \subseteq working, acceptors' \subseteq acceptors,
         \A r \in Req : phase'[r] \in {"new", "registered"} => phase[r] \in {"new", "registered"},
         \A r \in Req : calls'[r] = calls[r] \/ allErrors(calls'[r]),
         \A h \in Handle : \/ link'[h] = link[h] /\ stream'[h] = stream[h]
                           \/ link'[h] = "closed" /\ stream'[h] = <<>>
  PROVE  FlowInv'
<1>1. ASSUME NEW r \in Req PROVE RequestFlow(r)'
  <2>1. RequestFlow(r)
    BY DEF FlowInv
  <2>2. op[r] # Null => op[r].h \in Handle
    BY FlowTypes
  <2>3. (op[r] # Null => link[op[r].h] # "unused")'
    BY <2>1, <2>2 DEF RequestFlow
  <2>4. ASSUME listens(r)' PROVE Replays(inHand(r), op[r], stream[op[r].h], served[r], working)'
    <3>1. listens(r) /\ stream'[op[r].h] = stream[op[r].h] /\ inHand(r)' = inHand(r)
      BY <2>2, <2>4 DEF listens, inHand
    <3>2. Replays(inHand(r), op[r], stream[op[r].h], served[r], working)
      BY <2>1, <3>1 DEF RequestFlow
    <3>3. Replays(inHand(r), op[r], stream[op[r].h], served[r], working')
      BY <3>2, ReplayIdle
    <3>4. QED
      BY <3>1, <3>3
  <2>5. ToldAll(r)'
    <3>1. CASE calls'[r] = calls[r]
      BY <2>1, <3>1 DEF RequestFlow, ToldAll
    <3>2. CASE allErrors(calls'[r])
      BY <3>2 DEF ToldAll, allErrors
    <3>3. QED
      BY <3>1, <3>2
  <2>6. QED
    BY <2>1, <2>3, <2>4, <2>5 DEF RequestFlow
<1>2. ASSUME NEW h \in Handle PROVE ReaderFlow(h)'
  BY DEF FlowInv, ReaderFlow
<1>3. ASSUME NEW h \in Handle PROVE FinalIsLast(h, stream'[h], working')
  <2>1. CASE stream'[h] = stream[h]
    BY <2>1, LastKept DEF FlowInv
  <2>2. CASE stream'[h] = <<>>
    BY <2>2, LastOfNone
  <2>3. QED
    BY <2>1, <2>2
<1>4. QED
  BY <1>1, <1>2, <1>3 DEF FlowInv

\* A request that is answered, or throws, before it has an operation.
LEMMA FlowAtOnce ==
  ASSUME TypeOK, WireInv, FlowInv, NEW r \in Req, phase[r] = "new",
         phase' = [phase EXCEPT ![r] = "finished"],
         UNCHANGED <<op, lists, returned, reader, stream, working, acceptors>>,
         \A q \in Req \ {r} : calls'[q] = calls[q] /\ served'[q] = served[q],
         \A i \in DOMAIN calls'[r] :
           calls'[r][i].outcome = "success" => calls'[r][i].result = served'[r],
         \A h \in Handle : link'[h] = link[h] \/ (link[h] = "unused" /\ link'[h] # "unused")
  PROVE  FlowInv'
<1>1. op[r] = Null /\ op[r] \notin working
  BY FlowTypes DEF WireInv, RequestInv
<1>2. ASSUME NEW q \in Req PROVE RequestFlow(q)'
  <2>1. CASE q = r
    <3>1. phase'[r] = "finished"
      BY DEF TypeOK
    <3>2. QED
      BY <1>1, <2>1, <3>1 DEF RequestFlow, listens, ToldAll
  <2>2. CASE q # r
    <3>1. RequestFlow(q) /\ phase'[q] = phase[q] /\ calls'[q] = calls[q] /\ served'[q] = served[q]
      BY <2>2 DEF FlowInv, TypeOK
    <3>2. op[q] # Null => link'[op[q].h] = link[op[q].h]
      BY <3>1, FlowTypes DEF RequestFlow
    <3>3. (listens(q)' => listens(q)) /\ inHand(q)' = inHand(q)
      BY <3>2 DEF listens, inHand
    <3>4. QED
      BY <3>1, <3>2, <3>3 DEF RequestFlow, ToldAll
  <2>3. QED
    BY <2>1, <2>2
<1>3. ASSUME NEW h \in Handle PROVE ReaderFlow(h)'
  <2>1. reader[h] # Null => reader[h].req \in Req /\ reader[h].req # r
    BY FlowTypes DEF WireInv, OnlyWritten, onWire
  <2>2. QED
    BY <2>1 DEF FlowInv, ReaderFlow
<1>4. \A h \in Handle : FinalIsLast(h, stream'[h], working')
  BY DEF FlowInv
<1>5. QED
  BY <1>2, <1>3, <1>4 DEF FlowInv

\* asyncSearch takes a message ID of which nothing is on the wire.
LEMMA FlowSearchAsync ==
  ASSUME TypeOK, TypeOK', WireInv, FlowInv, NEW r \in Req, phase[r] = "new", searchAsync(r), UNCHANGED link
  PROVE  FlowInv'
<1>1. PICK o : o = [h |-> ld, m |-> nextId[ld]]
  OBVIOUS
<1>2. /\ ld \in Handle /\ nextId[ld] \in Nat /\ link[ld] = "open"
      /\ op' = [op EXCEPT ![r] = o] /\ phase' = [phase EXCEPT ![r] = "registered"]
      /\ acceptors' = acceptors \cup {r}
      /\ UNCHANGED <<returned, reader, stream, working, served, lists, calls>>
  BY <1>1 DEF searchAsync, isBound, TypeOK
<1>3. op[r] = Null /\ calls[r] = <<>> /\ o.h = ld /\ o.m = nextId[ld] /\ op'[r] = o
  BY <1>1, <1>2 DEF WireInv, RequestInv, TypeOK
<1>4. \A q \in Req \ {r} : op'[q] = op[q] /\ phase'[q] = phase[q]
  BY <1>2 DEF TypeOK
<1>5. ASSUME NEW i \in DOMAIN stream[ld] PROVE stream[ld][i].m # o.m
  <2>1. PICK q \in Req : onWire(q) /\ op[q] = [h |-> ld, m |-> stream[ld][i].m]
    BY <1>2 DEF WireInv, OnlyWritten, written
  <2>2. RequestInv(q) /\ phase[q] \in {"written", "sent"}
    BY <2>1 DEF WireInv, onWire
  <2>3. op[q] # Null /\ op[q].m < nextId[op[q].h]
    BY <2>2 DEF RequestInv
  <2>4. op[q].h = ld /\ op[q].m = stream[ld][i].m
    BY <2>1, SMT
  <2>5. op[q].m \in Nat
    BY <2>3, FlowTypes
  <2>6. op[q].m # nextId[ld]
    BY <1>2, <2>3, <2>4, <2>5, SMT
  <2>7. QED
    BY <1>3, <2>4, <2>6
<1>6. ASSUME NEW h \in Handle, reader[h] # Null PROVE reader[h].req \in Req \ {r}
  BY <1>6, FlowTypes DEF WireInv, OnlyWritten, onWire
<1>7. ASSUME NEW q \in Req PROVE RequestFlow(q)'
  <2>1. CASE q = r
    <3>1. RequestFlow(r)
      BY DEF FlowInv
    <3>2. lists'[r] = None /\ served'[r] = None
      BY <1>2, <3>1 DEF RequestFlow
    <3>3. inHand(r)' = None
      BY <1>2, <1>3, <1>6, <3>2 DEF inHand
    <3>4. stream[ld] \in Seq(Message) /\ DOMAIN stream[ld] = 1 .. Len(stream[ld])
      BY <1>2, FlowTypes
    <3>5. Replays(None, o, stream[ld], None, working)
      BY <1>5, <3>4, ReplayNothing
    <3>6. DOMAIN calls'[r] = {}
      <4>1. calls'[r] = <<>>
        BY <1>2, <1>3
      <4>2. QED
        BY <4>1, SMT
    <3>7. QED
      BY <1>2, <1>3, <2>1, <3>2, <3>3, <3>5, <3>6 DEF RequestFlow, ToldAll
  <2>2. CASE q # r
    <3>1. RequestFlow(q) /\ op'[q] = op[q] /\ phase'[q] = phase[q] /\ (q \in acceptors' <=> q \in acceptors)
      BY <1>2, <1>4, <2>2 DEF FlowInv
    <3>2. UNCHANGED <<link, returned, reader, stream, working, served, lists, calls>>
      BY <1>2
    <3>3. (listens(q)' => listens(q)) /\ inHand(q)' = inHand(q)
      BY <3>1, <3>2 DEF listens, inHand
    <3>4. ToldAll(q)'
      BY <3>1, <3>2 DEF RequestFlow, ToldAll
    <3>5. QED
      BY <3>1, <3>2, <3>3, <3>4 DEF RequestFlow
  <2>3. QED
    BY <2>1, <2>2
<1>8. ASSUME NEW h \in Handle PROVE ReaderFlow(h)'
  <2>1. CASE reader[h] = Null
    BY <1>2, <2>1 DEF ReaderFlow
  <2>2. CASE reader[h] # Null
    <3>1. op'[reader[h].req] = op[reader[h].req] /\ ReaderFlow(h)
      BY <1>4, <1>6, <2>2 DEF FlowInv
    <3>2. UNCHANGED <<reader, lists, served, working, returned>>
      BY <1>2
    <3>3. QED
      BY <2>2, <3>1, <3>2 DEF ReaderFlow
  <2>3. QED
    BY <2>1, <2>2
<1>9. \A h \in Handle : FinalIsLast(h, stream'[h], working')
  BY <1>2 DEF FlowInv
<1>10. QED
  BY <1>7, <1>8, <1>9 DEF FlowInv

\* The request is written: the server starts to work on it.
LEMMA FlowWritten ==
  ASSUME TypeOK, WireInv, FlowInv, NEW r \in Req, phase[r] = "registered",
         phase' = [phase EXCEPT ![r] = "written"], working' = working \cup {op[r]},
         UNCHANGED <<op, lists, served, returned, reader, stream, link, acceptors, calls>>
  PROVE  FlowInv'
<1>1. op[r] # Null /\ op[r] \in Ops /\ op[r].h \in Handle
  BY FlowTypes DEF WireInv, RequestInv
<1>2. ~onWire(r) /\ allErrors(calls[r])
  BY <1>1 DEF WireInv, RequestInv, onWire
<1>3. ASSUME NEW h \in Handle, NEW i \in DOMAIN stream[h] PROVE op[r] # [h |-> h, m |-> stream[h][i].m]
  <2>1. PICK q \in Req : onWire(q) /\ op[q] = [h |-> h, m |-> stream[h][i].m]
    BY DEF WireInv, OnlyWritten, written
  <2>2. q # r
    BY <1>2, <2>1
  <2>3. QED
    BY <1>1, <2>1, <2>2 DEF WireInv, OwnOperations
<1>4. ASSUME NEW h \in Handle, reader[h] # Null PROVE reader[h].req \in Req \ {r}
  BY <1>2, <1>4, FlowTypes DEF WireInv, OnlyWritten
<1>5. \A q \in Req \ {r} : op[q] # op[r]
  BY <1>1 DEF WireInv, OwnOperations
<1>6. ASSUME NEW q \in Req PROVE RequestFlow(q)'
  <2>1. RequestFlow(q)
    BY DEF FlowInv
  <2>2. listens(q)' = listens(q) /\ inHand(q)' = inHand(q)
    BY DEF listens, inHand
  <2>3. CASE q = r
    <3>1. lists[r] = None /\ served[r] = None /\ inHand(r) = None
      BY <1>1, <1>4, <2>1, <2>3 DEF RequestFlow, inHand
    <3>2. \A i \in DOMAIN stream[op[r].h] : stream[op[r].h][i].m # op[r].m
      <4>1. op[r] = [h |-> op[r].h, m |-> op[r].m]
        BY <1>1 DEF Ops
      <4>2. QED
        BY <1>1, <1>3, <4>1
    <3>3. stream[op[r].h] \in Seq(Message) /\ DOMAIN stream[op[r].h] = 1 .. Len(stream[op[r].h])
      BY <1>1, FlowTypes
    <3>4. Replays(None, op[r], stream[op[r].h], None, working')
      BY <3>2, <3>3, ReplayNothing
    <3>5. ToldAll(r)'
      BY <1>2 DEF ToldAll, allErrors
    <3>6. phase'[r] = "written"
      BY DEF TypeOK
    <3>7. QED
      BY <2>1, <2>2, <2>3, <3>1, <3>4, <3>5, <3>6 DEF RequestFlow
  <2>4. CASE q # r
    <3>1. (op[q] \in working' => op[q] \in working) /\ phase'[q] = phase[q]
      BY <1>5, <2>4 DEF TypeOK
    <3>2. listens(q) => Replays(inHand(q), op[q], stream[op[q].h], served[q], working')
      BY <2>1, <3>1, ReplayIdle DEF RequestFlow
    <3>3. ToldAll(q)'
      BY <2>1, <3>1 DEF RequestFlow, ToldAll
    <3>4. QED
      BY <2>1, <2>2, <3>1, <3>2, <3>3 DEF RequestFlow
  <2>5. QED
    BY <2>3, <2>4
<1>7. ASSUME NEW h \in Handle PROVE ReaderFlow(h)'
  <2>1. CASE reader[h] = Null
    BY <2>1 DEF ReaderFlow
  <2>2. CASE reader[h] # Null
    <3>1. op[reader[h].req] # op[r] /\ ReaderFlow(h)
      BY <1>4, <1>5, <2>2 DEF FlowInv
    <3>2. QED
      BY <2>2, <3>1 DEF ReaderFlow
  <2>3. QED
    BY <2>1, <2>2
<1>8. ASSUME NEW h \in Handle PROVE FinalIsLast(h, stream'[h], working')
  <2>1. FinalIsLast(h, stream[h], working) /\ DOMAIN stream[h] = 1 .. Len(stream[h])
    BY FlowTypes DEF FlowInv
  <2>2. \A k \in 1 .. Len(stream[h]) : op[r] # [h |-> h, m |-> stream[h][k].m]
    BY <1>3, <2>1
  <2>3. QED
    BY <2>1, <2>2, LastKept
<1>9. QED
  BY <1>6, <1>7, <1>8 DEF FlowInv

\* A step of no other request's: what q is still to be given has not changed.
LEMMA FlowOther ==
  ASSUME FlowInv, NEW q \in Req, UNCHANGED <<op, link>>,
         phase'[q] = phase[q], calls'[q] = calls[q], served'[q] = served[q], lists'[q] = lists[q],
         returned'[q] = returned[q], q \in acceptors' <=> q \in acceptors,
         op[q] \in working' => op[q] \in working,
         listens(q) => Replays(inHand(q)', op[q], stream'[op[q].h], served[q], working')
  PROVE  RequestFlow(q)'
<1>1. RequestFlow(q)
  BY DEF FlowInv
<1>2. listens(q)' <=> listens(q)
  BY DEF listens
<1>3. ToldAll(q)'
  BY <1>1 DEF RequestFlow, ToldAll
<1>4. QED
  BY <1>1, <1>2, <1>3 DEF RequestFlow

\* A callback is posted, a success only with all that the server sent.
LEMMA ToldMore ==
  ASSUME TypeOK, FlowInv, NEW r \in Req, NEW c, c \in Callback, UNCHANGED <<op, served, working>>,
         calls' = [calls EXCEPT ![r] = @ \o <<c>>],
         c.outcome = "success" => c.result = served[r] /\ op[r] \notin working
  PROVE  ToldAll(r)'
<1>1. calls[r] \in Seq(Callback) /\ calls'[r] = calls[r] \o <<c>>
  BY DEF TypeOK
<1>2. \A i \in DOMAIN calls'[r] : (i \in DOMAIN calls[r] /\ calls'[r][i] = calls[r][i]) \/ calls'[r][i] = c
  BY <1>1, SMT
<1>3. ToldAll(r)
  BY DEF FlowInv, RequestFlow
<1>4. QED
  BY <1>2, <1>3 DEF ToldAll

\* The first final result ends the request of r, from the wire or the timer.
LEMMA FlowEnded ==
  ASSUME TypeOK, FlowInv, NEW r \in Req, NEW c, c \in Callback, op[r] # Null,
         UNCHANGED <<op, phase, lists, served, working, acceptors, stream, link>>,
         returned' = [returned EXCEPT ![r] = TRUE],
         calls' = [calls EXCEPT ![r] = @ \o <<c>>],
         c.outcome = "success" => c.result = served[r] /\ op[r] \notin working,
         \A h \in Handle : reader'[h] = reader[h] \/ (reader'[h] = Null /\ reader[h].req = r)
  PROVE  FlowInv'
<1>1. returned'[r] = TRUE
  BY DEF TypeOK
<1>2. ASSUME NEW q \in Req PROVE RequestFlow(q)'
  <2>1. RequestFlow(q)
    BY DEF FlowInv
  <2>2. CASE q = r
    <3>1. ToldAll(r)'
      BY ToldMore
    <3>2. ~listens(r)'
      BY <1>1 DEF listens
    <3>3. QED
      BY <2>1, <2>2, <3>1, <3>2 DEF RequestFlow
  <2>3. CASE q # r
    <3>1. calls'[q] = calls[q] /\ returned'[q] = returned[q]
      BY <2>3 DEF TypeOK
    <3>2. ASSUME listens(q) PROVE Replays(inHand(q)', op[q], stream'[op[q].h], served[q], working')
      <4>1. op[q].h \in Handle
        BY <3>2, FlowTypes DEF listens
      <4>2. inHand(q)' = inHand(q)
        BY <2>3, <4>1 DEF inHand
      <4>3. QED
        BY <2>1, <3>2, <4>2 DEF RequestFlow
    <3>3. QED
      BY <3>1, <3>2, FlowOther
  <2>4. QED
    BY <2>2, <2>3
<1>3. ASSUME NEW h \in Handle PROVE ReaderFlow(h)'
  <2>1. CASE reader'[h] = Null
    BY <2>1 DEF ReaderFlow
  <2>2. CASE reader'[h] # Null
    <3>1. reader'[h] = reader[h] /\ reader[h].req \in Req /\ ReaderFlow(h)
      BY <2>2, FlowTypes DEF FlowInv
    <3>2. returned[reader[h].req] => returned'[reader[h].req]
      BY <1>1, <3>1 DEF TypeOK
    <3>3. QED
      BY <2>2, <3>1, <3>2 DEF ReaderFlow
  <2>3. QED
    BY <2>1, <2>2
<1>4. \A h \in Handle : FinalIsLast(h, stream'[h], working')
  BY DEF FlowInv
<1>5. QED
  BY <1>2, <1>3, <1>4 DEF FlowInv

LEMMA InHandKept ==
  ASSUME NEW q, op' = op, lists'[q] = lists[q],
         \/ reader'[op[q].h] = reader[op[q].h]
         \/ reader[op[q].h].req # q /\ reader'[op[q].h] = Null
  PROVE  inHand(q)' = inHand(q)
<1>1. CASE reader'[op[q].h] = reader[op[q].h]
  BY <1>1 DEF inHand
<1>2. CASE reader[op[q].h].req # q /\ reader'[op[q].h] = Null
  <2>1. inHand(q) = lists[q]
    BY <1>2 DEF inHand
  <2>2. inHand(q)' = lists'[q]
    BY <1>2 DEF inHand
  <2>3. QED
    BY <2>1, <2>2
<1>3. QED
  BY <1>1, <1>2

LEMMA ReaderOwn ==
  ASSUME TypeOK, WireInv, FlowInv, NEW h \in Handle, NEW r, reader[h] # Null, r = reader[h].req
  PROVE  r \in Req /\ onWire(r) /\ op[r] # Null /\ op[r].h = h
<1>1. r \in Req /\ onWire(r) /\ ReaderFlow(h) /\ RequestInv(r)
  BY FlowTypes DEF WireInv, OnlyWritten, FlowInv
<1>2. op[r] = [h |-> h, m |-> reader[h].msg.m]
  BY <1>1 DEF ReaderFlow
<1>3. op[r].h = h
  BY <1>2, SMT
<1>4. op[r] # Null
  BY <1>1 DEF RequestInv, onWire
<1>5. QED
  BY <1>1, <1>3, <1>4

LEMMA ReaderKept ==
  ASSUME FlowInv, NEW g \in Handle, reader'[g] = reader[g], NEW q, q = reader[g].req,
         reader[g] # Null =>
           /\ op'[q] = op[q] /\ lists'[q] = lists[q] /\ (returned[q] => returned'[q])
           /\ op[q] \notin working => served'[q] = served[q] /\ op[q] \notin working'
  PROVE  ReaderFlow(g)'
<1>1. ReaderFlow(g)
  BY DEF FlowInv
<1>2. QED
  BY <1>1 DEF ReaderFlow

\* A reader is done with a message whose listener had ended or is given an item.
LEMMA FlowHanded ==
  ASSUME TypeOK, WireInv, FlowInv, NEW h \in Handle, NEW r, reader[h] # Null, r = reader[h].req,
         reader' = [reader EXCEPT ![h] = Null],
         UNCHANGED <<op, phase, served, working, acceptors, stream, link, returned, calls>>,
         \/ returned[r] /\ lists' = lists
         \/ ~IsFinal(reader[h].msg) /\ lists' = [lists EXCEPT ![r] = add(@, reader[h].msg.body)]
  PROVE  FlowInv'
<1>1. r \in Req /\ onWire(r) /\ op[r].h = h
  BY ReaderOwn
<1>2. reader'[h] = Null /\ \A g \in Handle \ {h} : reader'[g] = reader[g]
  BY DEF TypeOK
<1>3. \A q \in Req \ {r} : lists'[q] = lists[q]
  BY DEF TypeOK
<1>4. ASSUME NEW q \in Req PROVE RequestFlow(q)'
  <2>1. RequestFlow(q)
    BY DEF FlowInv
  <2>2. CASE q = r
    <3>1. phase[r] \notin {"new", "registered"}
      BY <1>1 DEF onWire
    <3>2. ToldAll(r)'
      BY <2>1, <2>2 DEF RequestFlow, ToldAll
    <3>3. listens(r)' <=> listens(r)
      BY DEF listens
    <3>4. ASSUME listens(r) PROVE inHand(r)' = inHand(r)
      <4>1. lists'[r] = add(lists[r], reader[h].msg.body) /\ ~IsFinal(reader[h].msg)
        <5>1. ~returned[r]
          BY <3>4 DEF listens
        <5>2. lists' = [lists EXCEPT ![r] = add(@, reader[h].msg.body)] /\ ~IsFinal(reader[h].msg)
          BY <5>1
        <5>3. QED
          BY <1>1, <5>2 DEF TypeOK
      <4>2. QED
        BY <1>1, <1>2, <4>1 DEF inHand
    <3>5. QED
      BY <2>1, <2>2, <3>1, <3>2, <3>3, <3>4 DEF RequestFlow
  <2>3. CASE q # r
    <3>1. ASSUME listens(q) PROVE Replays(inHand(q)', op[q], stream'[op[q].h], served[q], working')
      <4>1. op[q].h \in Handle
        BY <3>1, FlowTypes DEF listens
      <4>2. inHand(q)' = inHand(q)
        <5>1. lists'[q] = lists[q]
          BY <1>3, <2>3
        <5>2. \/ reader'[op[q].h] = reader[op[q].h]
              \/ reader[op[q].h].req # q /\ reader'[op[q].h] = Null
          BY <1>2, <2>3, <4>1
        <5>3. QED
          BY <5>1, <5>2, InHandKept
      <4>3. QED
        BY <2>1, <3>1, <4>2 DEF RequestFlow
    <3>2. QED
      BY <1>3, <2>3, <3>1, FlowOther
  <2>4. QED
    BY <2>2, <2>3
<1>5. ASSUME NEW g \in Handle PROVE ReaderFlow(g)'
  <2>1. CASE reader'[g] = Null
    BY <2>1 DEF ReaderFlow
  <2>2. CASE reader'[g] # Null
    <3>1. g # h /\ reader'[g] = reader[g] /\ reader[g].req \in Req /\ ReaderFlow(g)
      BY <1>2, <2>2, FlowTypes DEF FlowInv
    <3>2. op[reader[g].req].h = g
      BY <2>2, <3>1, ReaderOwn
    <3>3. reader[g].req # r
      BY <1>1, <3>1, <3>2
    <3>4. lists'[reader[g].req] = lists[reader[g].req]
      BY <1>3, <3>1, <3>3
    <3>5. QED
      BY <3>1, <3>4, ReaderKept
  <2>3. QED
    BY <2>1, <2>2
<1>6. \A g \in Handle : FinalIsLast(g, stream'[g], working')
  BY DEF FlowInv
<1>7. QED
  BY <1>4, <1>5, <1>6 DEF FlowInv

LEMMA FlowDispatch ==
  ASSUME TypeOK, WireInv, FlowInv, NEW h \in Handle, readerDispatch(h)
  PROVE  FlowInv'
<1> DEFINE r == reader[h].req  body == reader[h].msg.body
<1>1. /\ reader[h] # Null /\ reader' = [reader EXCEPT ![h] = Null] /\ responseReceived(r, body)
      /\ UNCHANGED <<op, phase, served, working, acceptors, stream, link>>
  BY DEF readerDispatch, conVars
<1>2. r \in Req /\ onWire(r) /\ op[r] # Null
  BY <1>1, FlowTypes DEF WireInv, OnlyWritten, RequestInv, onWire
<1> HIDE DEF r, body
<1>3. CASE returned[r] /\ UNCHANGED <<lists, returned, calls>>
  BY <1>1, <1>3, FlowHanded DEF r
<1>4. CASE body \notin Outcomes /\ itemReturned(r, body)
  BY <1>1, <1>4, FlowHanded DEF r, body, itemReturned, IsFinal
<1>5. CASE ~returned[r] /\ body \in Outcomes /\ searchResultReceived(r, body)
  <2>1. PICK c : c = IF body = "success" THEN Success(lists[r]) ELSE Failure
    OBVIOUS
  <2>2. c \in Callback
    BY <1>2, <2>1, CallbackType DEF TypeOK
  <2>3. lists[r] = served[r] /\ op[r] \notin working
    BY <1>1, <1>5 DEF FlowInv, ReaderFlow, IsFinal, r, body
  <2>4. c.outcome = "success" => c.result = served[r]
    BY <2>1, <2>3 DEF Success, Failure
  <2>5. /\ calls' = [calls EXCEPT ![r] = @ \o <<c>>] /\ returned' = [returned EXCEPT ![r] = TRUE]
        /\ lists' = lists
    BY <1>5, <2>1 DEF searchResultReceived, post
  <2>6. \A g \in Handle : reader'[g] = reader[g] \/ (reader'[g] = Null /\ reader[g].req = r)
    BY <1>1 DEF TypeOK, r
  <2>7. QED
    BY <1>1, <1>2, <2>2, <2>3, <2>4, <2>5, <2>6, FlowEnded
<1>6. QED
  BY <1>1, <1>3, <1>4, <1>5 DEF responseReceived

LEMMA FlowTimeout ==
  ASSUME TypeOK, WireInv, FlowInv, NEW r \in Req, timeout(r)
  PROVE  FlowInv'
<1>1. /\ armed[r] /\ responseReceived(r, "error")
      /\ UNCHANGED <<op, phase, served, working, acceptors, stream, link, reader>>
  BY DEF timeout, conVars
<1>2. op[r] # Null
  BY <1>1 DEF WireInv, RequestInv
<1>3. CASE returned[r] /\ UNCHANGED <<lists, returned, calls>>
  BY <1>1, <1>3, FlowFrame
<1>4. CASE searchResultReceived(r, "error")
  <2>1. /\ calls' = [calls EXCEPT ![r] = @ \o <<Failure>>] /\ returned' = [returned EXCEPT ![r] = TRUE]
        /\ lists' = lists
    BY <1>4 DEF searchResultReceived, post
  <2>2. Failure \in Callback /\ Failure.outcome # "success"
    BY CallbackType DEF Failure
  <2>3. QED
    BY <1>1, <1>2, <2>1, <2>2, FlowEnded
<1>5. QED
  BY <1>1, <1>3, <1>4 DEF responseReceived, Outcomes

\* The first message goes.
LEMMA LastTaken ==
  ASSUME NEW h, NEW st \in Seq(Message), st # <<>>, NEW W, FinalIsLast(h, st, W)
  PROVE  /\ FinalIsLast(h, Tail(st), W)
         /\ IsFinal(Head(st)) => [h |-> h, m |-> Head(st).m] \notin W
<1>1. /\ Len(st) \in Nat /\ Len(st) > 0 /\ Len(Tail(st)) = Len(st) - 1 /\ Head(st) = st[1]
      /\ \A k \in 1 .. Len(Tail(st)) : Tail(st)[k] = st[k + 1]
  BY SMT
<1>2. /\ 1 \in 1 .. Len(st)
      /\ \A k \in 1 .. Len(Tail(st)) : k + 1 \in 1 .. Len(st)
      /\ \A j, k \in 1 .. Len(Tail(st)) : j > k => j + 1 > k + 1
  BY <1>1, SMT
<1>3. ASSUME NEW k \in 1 .. Len(Tail(st)), IsFinal(Tail(st)[k])
      PROVE  /\ [h |-> h, m |-> Tail(st)[k].m] \notin W
             /\ \A j \in 1 .. Len(Tail(st)) : j > k => Tail(st)[j].m # Tail(st)[k].m
  <2>1. k + 1 \in 1 .. Len(st) /\ Tail(st)[k] = st[k + 1]
    BY <1>1, <1>2
  <2>2. /\ [h |-> h, m |-> st[k + 1].m] \notin W
        /\ \A j \in 1 .. Len(st) : j > k + 1 => st[j].m # st[k + 1].m
    BY <1>3, <2>1 DEF FinalIsLast
  <2>3. QED
    BY <1>1, <1>2, <2>1, <2>2
<1>4. IsFinal(Head(st)) => [h |-> h, m |-> Head(st).m] \notin W
  BY <1>1, <1>2 DEF FinalIsLast
<1>5. QED
  BY <1>3, <1>4 DEF FinalIsLast

\* A message comes for an operation that has had no final response.
LEMMA LastAppended ==
  ASSUME NEW h, NEW st \in Seq(Message), NEW x \in Message, NEW W, FinalIsLast(h, st, W),
         NEW V, V \subseteq W, [h |-> h, m |-> x.m] \in W,
         IsFinal(x) => [h |-> h, m |-> x.m] \notin V
  PROVE  FinalIsLast(h, Append(st, x), V)
<1> DEFINE t == Append(st, x)  n == Len(st)
<1>1. n \in Nat /\ Len(t) = n + 1 /\ t[n + 1] = x /\ \A k \in 1 .. n : t[k] = st[k]
  BY SMT
<1>2. /\ \A k \in 1 .. Len(t) : k \in 1 .. n \/ k = n + 1
      /\ \A k \in 1 .. Len(t) : ~(k > n + 1)
  BY <1>1, SMT
<1>3. \A k \in 1 .. n : IsFinal(st[k]) => st[k].m # x.m
  BY DEF FinalIsLast
<1> HIDE DEF t, n
<1>4. ASSUME NEW k \in 1 .. Len(t), IsFinal(t[k]) PROVE [h |-> h, m |-> t[k].m] \notin V
  <2>1. CASE k \in 1 .. n
    BY <1>1, <1>4, <2>1 DEF FinalIsLast, n
  <2>2. CASE k = n + 1
    BY <1>1, <1>4, <2>2
  <2>3. QED
    BY <1>2, <2>1, <2>2
<1>5. ASSUME NEW k \in 1 .. Len(t), IsFinal(t[k]), NEW j \in 1 .. Len(t), j > k
      PROVE  t[j].m # t[k].m
  <2>1. k \in 1 .. n
    BY <1>2, <1>5
  <2>2. t[k] = st[k] /\ IsFinal(st[k])
    BY <1>1, <1>5, <2>1
  <2>3. CASE j \in 1 .. n
    <3>1. t[j] = st[j]
      BY <1>1, <2>3
    <3>2. QED
      BY <1>5, <2>1, <2>2, <2>3, <3>1 DEF FinalIsLast, n
  <2>4. CASE j = n + 1
    BY <1>1, <1>3, <2>1, <2>2, <2>4
  <2>5. QED
    BY <1>2, <2>3, <2>4
<1>6. QED
  BY <1>4, <1>5 DEF FinalIsLast, t

\* The server sends x for r: an item, or the final response, its last.
LEMMA FlowServer ==
  ASSUME TypeOK, WireInv, FlowInv, NEW r \in Req, op[r] \in working,
         NEW x \in Message, x.m = op[r].m, IsFinal(x) => op[r] \notin working',
         stream' = [stream EXCEPT ![op[r].h] = Append(@, x)], working' \subseteq working,
         \A q \in Req \ {r} : served'[q] = served[q],
         served'[r] = IF IsFinal(x) THEN served[r] ELSE add(served[r], x.body),
         UNCHANGED <<op, phase, lists, returned, acceptors, reader, link, calls>>
  PROVE  FlowInv'
<1>1. op[r] # Null /\ op[r].h \in Handle /\ op[r] = [h |-> op[r].h, m |-> op[r].m]
  BY FlowTypes DEF Ops
<1>2. PICK h, st : h = op[r].h /\ st = stream[h]
  OBVIOUS
<1>3. /\ h \in Handle /\ st \in Seq(Message) /\ op[r] = [h |-> h, m |-> x.m]
      /\ stream'[h] = Append(st, x) /\ \A g \in Handle \ {h} : stream'[g] = stream[g]
  BY <1>1, <1>2, FlowTypes DEF TypeOK
<1>4. FinalIsLast(h, st, working)
  BY <1>2, <1>3 DEF FlowInv
<1>5. ASSUME NEW k \in 1 .. Len(st), IsFinal(st[k]) PROVE st[k].m # op[r].m
  <2>1. [h |-> h, m |-> st[k].m] \notin working
    BY <1>4, <1>5 DEF FinalIsLast
  <2>2. QED
    BY <1>3, <2>1
<1>6. onWire(r)
  BY <1>1 DEF WireInv, OnlyWritten, written, OwnOperations
<1>7. RequestFlow(r)'
  <2>1. RequestFlow(r)
    BY DEF FlowInv
  <2>2. phase[r] \notin {"new", "registered"} /\ (listens(r)' <=> listens(r)) /\ inHand(r)' = inHand(r)
    BY <1>6 DEF onWire, listens, inHand
  <2>3. ToldAll(r)'
    BY <2>1 DEF RequestFlow, ToldAll
  <2>4. ASSUME listens(r) PROVE Replays(inHand(r), op[r], Append(st, x), served'[r], working')
    <3>1. Replays(inHand(r), op[r], st, served[r], working)
      BY <1>2, <2>1, <2>4 DEF RequestFlow
    <3>2. Replays(inHand(r), op[r], Append(st, x), served'[r], working)
      BY <1>3, <1>5, <3>1, ReplayAppended
    <3>3. QED
      BY <3>2, ReplayIdle
  <2>5. QED
    BY <1>2, <1>3, <2>1, <2>2, <2>3, <2>4 DEF RequestFlow
<1>8. ASSUME NEW q \in Req \ {r} PROVE RequestFlow(q)'
  <2>1. ASSUME listens(q) PROVE Replays(inHand(q)', op[q], stream'[op[q].h], served[q], working')
    <3>1. RequestFlow(q) /\ inHand(q)' = inHand(q) /\ op[q] # Null
      BY <2>1 DEF FlowInv, inHand, listens
    <3>2. Replays(inHand(q), op[q], stream[op[q].h], served[q], working)
      BY <2>1, <3>1 DEF RequestFlow
    <3>3. op[q] \in Ops /\ op[q].h \in Handle
      BY <3>1, FlowTypes
    <3>4. CASE op[q].h = h
      <4>1. op[q] # op[r] /\ op[q] = [h |-> h, m |-> op[q].m]
        BY <3>1, <3>3, <3>4 DEF Ops, WireInv, OwnOperations
      <4>2. x.m # op[q].m
        BY <1>3, <4>1
      <4>3. Replays(inHand(q), op[q], Append(st, x), served[q], working)
        <5>1. Replays(inHand(q), op[q], st, served[q], working)
          BY <1>2, <3>2, <3>4
        <5>2. QED
          BY <1>3, <4>2, <5>1, ReplayAppended
      <4>4. Replays(inHand(q), op[q], Append(st, x), served[q], working')
        BY <4>3, ReplayIdle
      <4>5. QED
        BY <1>3, <3>1, <3>4, <4>4
    <3>5. CASE op[q].h # h
      BY <1>3, <3>1, <3>2, <3>3, <3>5, ReplayIdle
    <3>6. QED
      BY <3>4, <3>5
  <2>2. QED
    BY <2>1, FlowOther
<1>9. ASSUME NEW g \in Handle PROVE ReaderFlow(g)'
  <2>1. PICK q : q = reader[g].req
    OBVIOUS
  <2>2. reader[g] # Null /\ op[q] \notin working => served'[q] = served[q] /\ op[q] \notin working'
    BY <2>1, FlowTypes
  <2>3. reader'[g] = reader[g] /\ op'[q] = op[q] /\ lists'[q] = lists[q] /\ returned'[q] = returned[q]
    OBVIOUS
  <2>4. QED
    BY <2>1, <2>2, <2>3, ReaderKept
<1>10. ASSUME NEW g \in Handle PROVE FinalIsLast(g, stream'[g], working')
  <2>1. CASE g = h
    <3>1. [h |-> h, m |-> x.m] \in working /\ (IsFinal(x) => [h |-> h, m |-> x.m] \notin working')
      BY <1>3
    <3>2. st \in Seq(Message) /\ stream'[h] = Append(st, x)
      BY <1>3
    <3>3. FinalIsLast(h, Append(st, x), working')
      BY <1>4, <3>1, <3>2, LastAppended
    <3>4. QED
      BY <2>1, <3>2, <3>3
  <2>2. CASE g # h
    <3>1. FinalIsLast(g, stream[g], working) /\ stream'[g] = stream[g]
      BY <1>3, <2>2 DEF FlowInv
    <3>2. QED
      BY <3>1, LastKept
  <2>3. QED
    BY <2>1, <2>2
<1>11. QED
  BY <1>7, <1>8, <1>9, <1>10 DEF FlowInv

LEMMA HeadType ==
  ASSUME NEW st \in Seq(Message), st # <<>> PROVE Head(st) \in Message
BY SMT

\* The reader takes a message, which only its operation's listener is given.
LEMMA FlowReaderTake ==
  ASSUME TypeOK, WireInv, FlowInv, NEW h \in Handle, readerTake(h)
  PROVE  FlowInv'
<1>1. PICK st, msg : st = stream[h] /\ msg = Head(st)
  OBVIOUS
<1>2. /\ link[h] = "open" /\ reader[h] = Null /\ st \in Seq(Message) /\ st # <<>>
      /\ UNCHANGED <<link, phase, op, returned, working, served, lists, calls>>
      /\ stream'[h] = Tail(st) /\ \A g \in Handle \ {h} : stream'[g] = stream[g]
  BY <1>1, FlowTypes DEF readerTake, conVars, TypeOK
<1>3. \/ /\ reader' = reader /\ acceptors' = acceptors
         /\ \A q \in acceptors : op[q] # [h |-> h, m |-> msg.m]
      \/ \E r \in acceptors :
           /\ op[r] = [h |-> h, m |-> msg.m]
           /\ reader' = [reader EXCEPT ![h] = [req |-> r, msg |-> msg]]
           /\ acceptors' = IF IsFinal(msg) THEN acceptors \ {r} ELSE acceptors
  BY <1>1 DEF readerTake
<1>4. \A g \in Handle \ {h} : reader'[g] = reader[g]
  BY <1>3 DEF TypeOK
<1>5. FinalIsLast(h, st, working)
  BY <1>1 DEF FlowInv
<1>6. ASSUME NEW g \in Handle PROVE FinalIsLast(g, stream'[g], working')
  <2>1. CASE g = h
    BY <1>2, <1>5, <2>1, LastTaken
  <2>2. CASE g # h
    BY <1>2, <2>2 DEF FlowInv
  <2>3. QED
    BY <2>1, <2>2
<1>7. ASSUME NEW q \in Req, q \in acceptors' <=> q \in acceptors, reader'[h] = Null \/ reader'[h].req # q,
             q \in acceptors => op[q] # [h |-> h, m |-> msg.m]
      PROVE  RequestFlow(q)'
  <2>1. ASSUME listens(q) PROVE Replays(inHand(q)', op[q], stream'[op[q].h], served[q], working')
    <3>1. RequestFlow(q) /\ op[q] # Null /\ q \in acceptors
      BY <2>1 DEF FlowInv, listens
    <3>2. Replays(inHand(q), op[q], stream[op[q].h], served[q], working)
      BY <2>1, <3>1 DEF RequestFlow
    <3>3. op[q] \in Ops /\ op[q].h \in Handle
      BY <3>1, FlowTypes
    <3>4. CASE op[q].h = h
      <4>1. op[q] = [h |-> h, m |-> op[q].m]
        BY <3>3, <3>4 DEF Ops
      <4>2. Head(st).m # op[q].m
        BY <1>1, <1>7, <3>1, <4>1
      <4>3. Replays(inHand(q), op[q], Tail(st), served[q], working)
        BY <1>1, <1>2, <3>2, <3>4, <4>2, ReplayTaken
      <4>4. inHand(q) = lists[q] /\ inHand(q)' = lists[q]
        BY <1>2, <1>7, <3>4 DEF inHand
      <4>5. QED
        BY <1>2, <3>4, <4>3, <4>4
    <3>5. CASE op[q].h # h
      <4>1. stream'[op[q].h] = stream[op[q].h] /\ reader'[op[q].h] = reader[op[q].h]
        BY <1>2, <1>4, <3>3, <3>5
      <4>2. inHand(q)' = inHand(q)
        BY <1>2, <4>1, InHandKept
      <4>3. QED
        BY <1>2, <3>2, <4>1, <4>2
    <3>6. QED
      BY <3>4, <3>5
  <2>2. QED
    BY <1>2, <1>7, <2>1, FlowOther
<1>8. ASSUME NEW g \in Handle \ {h} PROVE ReaderFlow(g)'
  <2>1. PICK q : q = reader[g].req
    OBVIOUS
  <2>2. reader'[g] = reader[g] /\ op'[q] = op[q] /\ lists'[q] = lists[q]
    BY <1>2, <1>4
  <2>3. returned'[q] = returned[q] /\ served'[q] = served[q] /\ working' = working
    BY <1>2
  <2>4. QED
    BY <2>1, <2>2, <2>3, ReaderKept
<1>9. CASE reader' = reader /\ acceptors' = acceptors /\ \A q \in acceptors : op[q] # [h |-> h, m |-> msg.m]
  <2>1. \A q \in Req : RequestFlow(q)'
    BY <1>2, <1>7, <1>9
  <2>2. ReaderFlow(h)'
    BY <1>2, <1>9 DEF ReaderFlow
  <2>3. QED
    BY <1>6, <1>8, <2>1, <2>2 DEF FlowInv
<1>10. ASSUME NEW r \in acceptors, op[r] = [h |-> h, m |-> msg.m],
              reader' = [reader EXCEPT ![h] = [req |-> r, msg |-> msg]],
              acceptors' = IF IsFinal(msg) THEN acceptors \ {r} ELSE acceptors
       PROVE  FlowInv'
  <2>1. r \in Req /\ reader'[h] = [req |-> r, msg |-> msg]
    BY <1>10 DEF TypeOK
  <2>2. reader'[h].req = r /\ reader'[h].msg = msg /\ op[r].h = h /\ op[r].m = msg.m
    BY <1>10, <2>1, SMT
  <2>3. reader'[h] # Null
    <3>1. msg \in Message
      BY <1>1, <1>2, HeadType
    <3>2. [req |-> r, msg |-> msg] \in [req : Req, msg : Message]
      BY <2>1, <3>1
    <3>3. QED
      BY <2>1, <3>2, ReaderAssumption
  <2>4. op[r] # Null /\ RequestFlow(r)
    BY <2>1 DEF WireInv, RequestInv, FlowInv
  <2>5. inHand(r) = lists[r]
    BY <1>2, <2>2 DEF inHand
  <2>6. listens(r) => Replays(lists[r], op[r], st, served[r], working)
    BY <1>1, <2>2, <2>4, <2>5 DEF RequestFlow
  <2>7. ASSUME NEW q \in Req \ {r} PROVE RequestFlow(q)'
    <3>1. op[q] # op[r]
      BY <2>1, <2>4 DEF WireInv, OwnOperations
    <3>2. q \in acceptors' <=> q \in acceptors
      BY <1>10
    <3>3. QED
      BY <1>7, <1>10, <2>2, <3>1, <3>2
  <2>8. RequestFlow(r)'
    <3>1. ToldAll(r)'
      BY <1>2, <2>4 DEF RequestFlow, ToldAll
    <3>2. ASSUME listens(r)' PROVE Replays(inHand(r), op[r], stream[op[r].h], served[r], working)'
      <4>1. listens(r) /\ ~IsFinal(msg)
        BY <1>2, <1>10, <3>2 DEF listens
      <4>2. Replays(add(lists[r], msg.body), op[r], Tail(st), served[r], working)
        <5>1. Replays(lists[r], op[r], st, served[r], working) /\ st \in Seq(Message) /\ st # <<>>
          BY <1>2, <2>6, <4>1
        <5>2. Head(st).m = op[r].m /\ ~IsFinal(Head(st)) /\ Head(st).body = msg.body
          BY <1>1, <2>2, <4>1
        <5>3. QED
          BY <5>1, <5>2, ReplayTaken
      <4>3. UNCHANGED <<op, lists, served, working>>
        BY <1>2
      <4>4. inHand(r)' = add(lists[r], msg.body)
        <5>1. PICK y : y = reader'[op'[r].h]
          OBVIOUS
        <5>2. y # Null /\ y.req = r /\ y.msg = msg
          BY <2>2, <2>3, <4>3, <5>1
        <5>3. inHand(r)' = add(lists'[r], y.msg.body)
          BY <4>1, <5>1, <5>2 DEF inHand
        <5>4. QED
          BY <4>3, <5>2, <5>3
      <4>5. QED
        BY <1>2, <2>2, <4>2, <4>3, <4>4
    <3>3. QED
      BY <1>2, <2>4, <3>1, <3>2 DEF RequestFlow
  <2>9. ReaderFlow(h)'
    <3>1. ASSUME IsFinal(msg), ~returned[r] PROVE lists[r] = served[r] /\ op[r] \notin working
      <4>1. listens(r)
        BY <1>2, <2>2, <2>4, <3>1 DEF listens
      <4>2. Replays(lists[r], op[r], st, served[r], working) /\ st \in Seq(Message) /\ st # <<>>
        BY <1>2, <2>6, <4>1
      <4>3. Head(st).m = op[r].m /\ IsFinal(Head(st))
        BY <1>1, <2>2, <3>1
      <4>4. lists[r] = served[r]
        BY <4>2, <4>3, ReplayTaken
      <4>5. op[r] \notin working
        <5>1. [h |-> h, m |-> Head(st).m] \notin working
          BY <1>5, <4>2, <4>3, LastTaken
        <5>2. QED
          BY <1>1, <1>10, <5>1
      <4>6. QED
        BY <4>5, <4>4
    <3>2. UNCHANGED <<op, lists, served, working, returned>>
      BY <1>2
    <3>3. op'[reader'[h].req] = [h |-> h, m |-> reader'[h].msg.m]
      BY <1>10, <2>2, <3>2
    <3>4. IsFinal(reader'[h].msg) /\ ~returned'[reader'[h].req] =>
            /\ lists'[reader'[h].req] = served'[reader'[h].req]
            /\ op'[reader'[h].req] \notin working'
      BY <2>2, <3>1, <3>2
    <3>5. QED
      BY <3>3, <3>4 DEF ReaderFlow
  <2>10. QED
    BY <1>6, <1>8, <2>7, <2>8, <2>9 DEF FlowInv
<1>11. QED
  BY <1>3, <1>9, <1>10

\* The callbacks of a request that is answered at once.
LEMMA ToldAtOnce ==
  ASSUME TypeOK, WireInv, NEW r \in Req, phase[r] = "new", NEW c \in Callback,
         finish(r, <<c>>) \/ finish(r, <<c, c>>) \/ throwOut(r)
  PROVE  \A i \in DOMAIN calls'[r] : calls'[r][i] = c
<1>1. calls[r] = <<>>
  BY DEF WireInv, RequestInv
<1>2. \/ calls'[r] = calls[r] \o <<c>> \/ calls'[r] = calls[r] \o <<c, c>> \/ calls'[r] = calls[r]
  BY DEF finish, post, throwOut, TypeOK
<1>3. <<>> \o <<c>> = <<c>> /\ <<>> \o <<c, c>> = <<c, c>>
  BY SMT
<1>4. calls'[r] = <<c>> \/ calls'[r] = <<c, c>> \/ calls'[r] = <<>>
  BY <1>1, <1>2, <1>3
<1>5. QED
  BY <1>4, SMT

LEMMA FlowScript ==
  ASSUME TypeOK, WireInv, FlowInv, NEW r \in Req, connect(r) \/ simpleBind(r) \/ saslBind(r)
  PROVE  FlowInv'
<1> USE DEF sdkVars, conVars
<1>1. phase[r] = "new"
  BY DEF connect, simpleBind, saslBind, start
<1>2. UNCHANGED <<op, lists, returned, reader, stream, working, acceptors, served>>
  BY DEF connect, simpleBind, saslBind, bind
<1>3. \A h \in Handle : link'[h] = link[h] \/ (link[h] = "unused" /\ link'[h] # "unused")
  BY DEF connect, simpleBind, saslBind, bind, TypeOK
<1>4. finish(r, <<Failure>>) \/ finish(r, <<Success(None)>>) \/ throwOut(r)
  BY DEF connect, simpleBind, saslBind, bind, bindSucceeds, bindFails, bindNotSent
<1>5. Failure \in Callback /\ Success(None) \in Callback
  BY CallbackType
<1>6. (\A i \in DOMAIN calls'[r] : calls'[r][i] = Failure) \/ (\A i \in DOMAIN calls'[r] : calls'[r][i] = Success(None))
  BY <1>1, <1>4, <1>5, ToldAtOnce
<1>7. served'[r] = None /\ Failure.outcome # "success" /\ Success(None).result = None
  BY <1>1, <1>2 DEF FlowInv, RequestFlow, Failure, Success
<1>8. \A i \in DOMAIN calls'[r] : calls'[r][i].outcome = "success" => calls'[r][i].result = served'[r]
  BY <1>6, <1>7
<1>9. phase' = [phase EXCEPT ![r] = "finished"] /\ \A q \in Req \ {r} : calls'[q] = calls[q]
  BY <1>4, FinishOwn
<1>10. QED
  BY <1>1, <1>2, <1>3, <1>8, <1>9, FlowAtOnce

LEMMA FlowSearch ==
  ASSUME TypeOK, TypeOK', WireInv, FlowInv, NEW r \in Req, search(r)
  PROVE  FlowInv'
<1> USE DEF sdkVars, conVars
<1>1. phase[r] = "new" /\ link' = link
  BY DEF search, start
<1>2. CASE searchAsync(r)
  BY <1>1, <1>2, FlowSearchAsync
<1>3. ASSUME NEW c \in Callback, finish(r, <<c>>) \/ finish(r, <<c, c>>) \/ throwOut(r),
             c.outcome = "success" => c.result = served'[r],
             \A q \in Req \ {r} : served'[q] = served[q],
             UNCHANGED <<op, lists, returned, reader, stream, working, acceptors>>
      PROVE  FlowInv'
  <2>1. \A i \in DOMAIN calls'[r] : calls'[r][i] = c
    BY <1>1, <1>3, ToldAtOnce
  <2>2. phase' = [phase EXCEPT ![r] = "finished"] /\ \A q \in Req \ {r} : calls'[q] = calls[q]
    BY <1>3, FinishOwn
  <2>3. QED
    BY <1>1, <1>3, <2>1, <2>2, FlowAtOnce
<1>4. Failure \in Callback /\ Failure.outcome # "success"
  BY CallbackType DEF Failure
<1>5. CASE searchUnbound(r) \/ searchNotSent(r)
  <2>1. /\ finish(r, <<Failure>>) \/ finish(r, <<Failure, Failure>>)
        /\ UNCHANGED <<op, lists, returned, reader, stream, working, acceptors, served>>
    BY <1>5 DEF searchUnbound, searchNotSent
  <2>2. QED
    BY <1>3, <1>4, <2>1
<1>6. CASE searchSync(r)
  <2>1. UNCHANGED <<op, lists, returned, reader, stream, working, acceptors>>
    BY <1>6 DEF searchSync
  <2>2. CASE (finish(r, <<Failure>>) \/ throwOut(r)) /\ UNCHANGED served
    BY <1>3, <1>4, <2>1, <2>2
  <2>3. ASSUME NEW n \in Nat, NEW k \in Nat, NEW es \in [1 .. n -> Entry], NEW fs \in [1 .. k -> Reference],
               NEW res, res = [entries |-> es, refs |-> fs],
               served' = [served EXCEPT ![r] = res], finish(r, <<Success(res)>>)
        PROVE  FlowInv'
    <3>1. res \in Results
      <4>1. es \in Seq(Entry) /\ fs \in Seq(Reference)
        BY SMT
      <4>2. QED
        BY <2>3, <4>1 DEF Results
    <3>2. Success(res) \in Callback /\ Success(res).result = res
      BY <3>1, CallbackType DEF Success
    <3>3. served'[r] = res /\ \A q \in Req \ {r} : served'[q] = served[q]
      BY <2>3 DEF TypeOK
    <3>4. QED
      BY <1>3, <2>1, <2>3, <3>2, <3>3
  <2>4. \A n \in 0 .. MaxItems : n \in Nat
    BY ConstantsAssumption, SMT
  <2>5. QED
    BY <1>6, <2>2, <2>3, <2>4 DEF searchSync
<1>7. QED
  BY <1>2, <1>5, <1>6 DEF search

LEMMA FlowAsyncSend ==
  ASSUME TypeOK, WireInv, WireInv', FlowInv, NEW r \in Req, asyncSend(r)
  PROVE  FlowInv'
<1> USE DEF conVars
<1>1. /\ phase[r] = "registered"
      /\ UNCHANGED <<op, lists, served, returned, reader, stream, link>>
  BY DEF asyncSend
<1>2. CASE /\ working' = working \cup {op[r]} /\ phase' = [phase EXCEPT ![r] = "written"]
           /\ UNCHANGED <<acceptors, calls, threw>>
  BY <1>1, <1>2, FlowWritten
<1>3. CASE /\ finish(r, <<Failure>>) \/ throwOut(r)
           /\ acceptors' \subseteq acceptors /\ UNCHANGED working
  <2>1. phase' = [phase EXCEPT ![r] = "finished"] /\ \A q \in Req \ {r} : calls'[q] = calls[q]
    BY <1>3, FinishOwn
  <2>2. phase'[r] = "finished" /\ \A q \in Req \ {r} : phase'[q] = phase[q]
    BY <2>1 DEF TypeOK
  <2>3. allErrors(calls'[r])
    <3>1. op'[r] # Null /\ ~onWire(r)' /\ RequestInv(r)'
      BY <1>1, <2>2 DEF WireInv, RequestInv, onWire
    <3>2. QED
      BY <3>1 DEF RequestInv
  <2>4. \A q \in Req : calls'[q] = calls[q] \/ allErrors(calls'[q])
    BY <2>1, <2>3
  <2>5. \A q \in Req : phase'[q] \in {"new", "registered"} => phase[q] \in {"new", "registered"}
    BY <1>1, <2>2
  <2>6. QED
    BY <1>1, <1>3, <2>4, <2>5, FlowFrame
<1>4. acceptors \ {r} \subseteq acceptors
  OBVIOUS
<1>5. QED
  BY <1>2, <1>3, <1>4 DEF asyncSend

\* A connection is closed: what is on its wire is lost, to no one's success.
LEMMA FlowClosed ==
  ASSUME TypeOK, FlowInv, NEW h \in Handle, close(h), UNCHANGED <<op, phase, calls>>
  PROVE  FlowInv'
<1>1. UNCHANGED <<lists, served, returned, reader>> /\ working' \subseteq working /\ acceptors' \subseteq acceptors
  BY DEF close
<1>2. \A g \in Handle : \/ link'[g] = link[g] /\ stream'[g] = stream[g]
                        \/ link'[g] = "closed" /\ stream'[g] = <<>>
  BY DEF close, TypeOK
<1>3. QED
  BY <1>1, <1>2, FlowFrame

LEMMA FlowSent ==
  ASSUME TypeOK, WireInv, FlowInv, NEW r \in Req,
         \/ \E item \in Entry \cup Reference : serverItem(r, item)
         \/ \E outcome \in Outcomes : serverDone(r, outcome)
  PROVE  FlowInv'
<1> USE DEF conVars
<1>1. op[r] \in working /\ UNCHANGED <<op, phase, lists, returned, acceptors, reader, link, calls>>
  BY DEF serverItem, serverDone
<1>2. op[r] \in Ops /\ op[r].m \in Nat
  BY <1>1, FlowTypes
<1>3. ASSUME NEW item \in Entry \cup Reference, serverItem(r, item) PROVE FlowInv'
  <2>1. PICK x : x = [m |-> op[r].m, body |-> item]
    OBVIOUS
  <2>2. x \in Message /\ x.m = op[r].m /\ x.body = item
    BY <1>2, <2>1, SMT DEF Message
  <2>3. ~IsFinal(x)
    BY <2>2, ConstantsAssumption DEF IsFinal, Outcomes
  <2>4. stream' = [stream EXCEPT ![op[r].h] = Append(@, x)] /\ working' = working
    BY <1>3, <2>1 DEF serverItem
  <2>5. served'[r] = add(served[r], x.body) /\ \A q \in Req \ {r} : served'[q] = served[q]
    BY <1>3, <2>2 DEF serverItem, TypeOK
  <2>6. QED
    BY <1>1, <2>2, <2>3, <2>4, <2>5, FlowServer
<1>4. ASSUME NEW outcome \in Outcomes, serverDone(r, outcome) PROVE FlowInv'
  <2>1. PICK x : x = [m |-> op[r].m, body |-> outcome]
    OBVIOUS
  <2>2. x \in Message /\ x.m = op[r].m /\ x.body = outcome
    BY <1>2, <2>1, SMT DEF Message
  <2>3. IsFinal(x)
    BY <2>2 DEF IsFinal
  <2>4. stream' = [stream EXCEPT ![op[r].h] = Append(@, x)] /\ working' = working \ {op[r]} /\ served' = served
    BY <1>4, <2>1 DEF serverDone
  <2>5. working' \subseteq working /\ op[r] \notin working'
    BY <2>4
  <2>6. QED
    BY <1>1, <2>2, <2>3, <2>4, <2>5, FlowServer
<1>5. QED
  BY <1>3, <1>4

\* Every step of every thread, the script, the network and the server.
LEMMA FlowStep == TypeOK /\ TypeOK' /\ WireInv /\ WireInv' /\ FlowInv /\ [Next]_vars => FlowInv'
<1> SUFFICES ASSUME TypeOK, TypeOK', WireInv, WireInv', FlowInv, [Next]_vars PROVE FlowInv'
  OBVIOUS
<1> USE DEF conVars, sdkVars
<1>1. CASE /\ UNCHANGED <<op, lists, served, returned, reader, acceptors, calls, link, stream>>
           /\ working' \subseteq working
           /\ \A q \in Req : phase'[q] \in {"new", "registered"} => phase[q] \in {"new", "registered"}
  BY <1>1, FlowFrame
<1>2. ASSUME NEW r \in Req, abandon(r) PROVE FlowInv'
  <2>1. working' \subseteq working /\ UNCHANGED <<op, lists, served, returned, reader, acceptors, calls, link, stream, phase>>
    BY <1>2 DEF abandon
  <2>2. QED
    BY <1>1, <2>1
<1>3. ASSUME NEW r \in Req, Script(r) PROVE FlowInv'
  BY <1>2, <1>3, FlowScript, FlowSearch DEF Script
<1>4. CASE disconnect
  <2>1. ld \in Handle /\ close(ld) /\ UNCHANGED <<op, phase, calls>>
    BY <1>4 DEF disconnect, TypeOK
  <2>2. QED
    BY <2>1, FlowClosed
<1>5. ASSUME NEW h \in Handle, dropped(h) PROVE FlowInv'
  BY <1>5, FlowClosed DEF dropped
<1>6. ASSUME NEW r \in Req, asyncReturn(r) PROVE FlowInv'
  <2>1. /\ UNCHANGED <<op, lists, served, returned, reader, acceptors, calls, link, stream, working>>
        /\ phase' = [phase EXCEPT ![r] = "sent"]
    BY <1>6 DEF asyncReturn
  <2>2. \A q \in Req : phase'[q] \in {"new", "registered"} => phase[q] \in {"new", "registered"}
    BY <2>1 DEF TypeOK
  <2>3. QED
    BY <1>1, <2>1, <2>2
<1>7. CASE UNCHANGED vars
  BY <1>1, <1>7 DEF vars
<1>8. ASSUME NEW positive \in BOOLEAN, setTimeLimit(positive) PROVE FlowInv'
  BY <1>1, <1>8 DEF setTimeLimit
<1>9. CASE Threads
  BY <1>6, <1>9, FlowAsyncSend, FlowTimeout, FlowReaderTake, FlowDispatch DEF Threads
<1>10. CASE Environment
  BY <1>5, <1>10, FlowSent DEF Environment
<1>11. QED
  BY <1>3, <1>4, <1>7, <1>8, <1>9, <1>10 DEF Next, Steps

LEMMA FlowInit == Init => FlowInv
<1> SUFFICES ASSUME Init PROVE FlowInv
  OBVIOUS
<1>1. ASSUME NEW r \in Req PROVE RequestFlow(r)
  <2>1. lists[r] = None /\ served[r] = None /\ op[r] = Null /\ calls[r] = <<>>
    BY DEF Init
  <2>2. DOMAIN calls[r] = {}
    BY <2>1, SMT
  <2>3. QED
    BY <2>1, <2>2 DEF RequestFlow, listens, ToldAll
<1>2. ASSUME NEW h \in Handle PROVE ReaderFlow(h) /\ FinalIsLast(h, stream[h], working)
  BY LastOfNone DEF Init, ReaderFlow
<1>3. QED
  BY <1>1, <1>2 DEF FlowInv

\* A search that succeeds hands over exactly what the server sent for it, in
\* order, for every number of requests, connections and results, however the
\* reader, the timer, a lost link, an abandon and a disconnect interleave.
THEOREM ResultsHandedOver == Spec => []ResultIntegrity
<1>1. FlowInv => ResultIntegrity
  BY DEF FlowInv, RequestFlow, ToldAll, ResultIntegrity
<1>2. QED
  BY <1>1, FlowInit, FlowStep, Bookkeeping, PTL DEF Spec
===============================================================================
