------------------------------- MODULE MCIosLdap -------------------------------
(***************************************************************************)
(* IosLdap for TLC.  Requests are numbered and used in order, which loses  *)
(* no behaviour: request proxies are alike until they are used.  A run     *)
(* starts from Init, after a connect (ConnectedInit) or after a connect    *)
(* and a simple bind that succeeded (BoundInit).                           *)
(***************************************************************************)
EXTENDS IosLdap

CONSTANT first    \* the handle that exists after connect

\* It is the turn of r: all requests before it are over.
turn(r) == \A q \in Req : q < r => calls[q] # <<>>

StartedInit(b) ==
  LET up(h) == h = first /\ b IN
  /\ heap = [h \in Handle |-> IF h = first THEN "live" ELSE "unused"]
  /\ errno = [h \in Handle |-> "success"]
  /\ msgid = [h \in Handle |-> IF up(h) THEN 1 ELSE 0]
  /\ \E limit \in BOOLEAN : timed = [h \in Handle |-> h = first /\ limit]
  /\ requests = [h \in Handle |-> {}]
  /\ responses = [h \in Handle |-> [i \in Id |-> <<>>]]
  /\ abandoned = [h \in Handle |-> {}]
  /\ conn = [h \in Handle |-> IF up(h) THEN "up" ELSE "none"]
  /\ refs = [h \in Handle |-> IF up(h) THEN 1 ELSE 0]
  /\ net = [h \in Handle |-> IF up(h) THEN [Opened EXCEPT !.auth = TRUE] ELSE Closed]
  /\ sent = [h \in Handle |-> [i \in Id |-> <<>>]]
  /\ ld = first
  /\ bound = b
  /\ wait = Null
  /\ messageId = [r \in Req |-> 0]
  /\ message = [r \in Req |-> Null]
  /\ results = [r \in Req |-> Null]
  /\ freed = [r \in Req |-> 0]
  /\ gone = {}
  /\ aborted = FALSE
  /\ op = [r \in Req |-> Null]
  /\ taken = {}
  /\ calls = [r \in Req |-> <<>>]

ConnectedInit == StartedInit(FALSE)
BoundInit == StartedInit(TRUE)

OrderedScript(r) ==
  \/ turn(r) /\ connect(r)
  \/ turn(r) /\ simpleBind(r)
  \/ turn(r) /\ saslBind(r)
  \/ turn(r) /\ search(r)
  \/ abandon(r)

OrderedNext ==
  \/ \E r \in Req : OrderedScript(r)
  \/ disconnect \/ Waiting \/ Destroy \/ Environment

\* The session properties do not look at the memory of the results, so no
\* proxy is destroyed.
OrderedCareful ==
  \/ \E r \in Req : turn(r) /\ sessionScript(r)
  \/ \E r \in Req : ownTimeout(r) /\ abandon(r)
  \/ bound /\ disconnect
  \/ Waiting \/ Environment

\* Careful, but for what it abandons.
Abandoning ==
  \/ \E r \in Req : turn(r) /\ sessionScript(r)
  \/ \E r \in Req : abandon(r)
  \/ bound /\ disconnect
  \/ Waiting \/ Environment

BoundSpec == BoundInit /\ [][OrderedNext]_vars
CarefulLiveSpec == (ConnectedInit \/ BoundInit) /\ [][OrderedCareful]_vars /\ Fairness
AbandoningSpec == Init /\ [][Abandoning]_vars
AbandoningLiveSpec == BoundInit /\ [][Abandoning]_vars /\ Fairness
===============================================================================
