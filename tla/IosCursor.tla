-------------------------------- MODULE IosCursor --------------------------------
(***************************************************************************)
(* TiLdapSearchResultProxy and TiLdapEntryProxy of the iOS half: pointers  *)
(* into the chain of messages that ldap_result returned, and BER elements  *)
(* that point into the messages.  The result proxy frees the chain when it *)
(* is destroyed, the connection proxy disconnects, and both live as long   *)
(* as their retain counts say.  Every call passes the connection's current *)
(* handle to the library, which asserts that there is one.                 *)
(***************************************************************************)
EXTENDS Naturals, Sequences, FiniteSets

CONSTANTS
  Proxy,   \* entry proxies the script can hold at a time
  Null

VARIABLES
  chain,     \* the messages of the search, the final result last
  entries,   \* history: the positions of its entries, in order
  entry,     \* TiLdapSearchResultProxy._entry: a position in chain, 0 for NULL
  at,        \* TiLdapEntryProxy._entry of each proxy, 0 if unused
  ber,       \* attributes its _ber has still to deliver, Null for NULL
  retains,   \* the retain count of each object, 0 when it is gone
  handle,    \* the connection's _ld is not NULL
  freed,     \* ldap_msgfree has been called on the chain
  aborted,   \* an assertion of the library has ended the application
  answer     \* the last call, and what it returned

data == <<chain, entries>>
memory == <<retains, handle, freed>>
vars == <<data, entry, at, ber, memory, aborted, answer>>

Object == Proxy \cup {"result", "connection"}

\* The script holds the connection and the result, and the result retains
\* the connection.
Init ==
  /\ entry = 0
  /\ at = [e \in Proxy |-> 0]
  /\ ber = [e \in Proxy |-> Null]
  /\ retains = [o \in Object |->
       IF o = "connection" THEN 2 ELSE IF o = "result" THEN 1 ELSE 0]
  /\ handle = TRUE
  /\ freed = FALSE
  /\ aborted = FALSE
  /\ answer = [to |-> "none", value |-> Null]

\* A call whose assertions are ok has its effect; otherwise it ends the
\* application.
call(ok, effect) ==
  /\ ~aborted
  /\ \/ handle /\ ok /\ effect /\ UNCHANGED <<data, handle, freed, aborted>>
     \/ ~(handle /\ ok) /\ aborted' = TRUE /\ UNCHANGED <<data, entry, at, ber, memory, answer>>

-------------------------------------------------------------------------------
(* The search result. *)

\* Mutant: messages of any type are entries.
entriesAfter_any(i) == {j \in DOMAIN chain : j > i}

\* The entries behind position i of the chain; references are passed over.
entriesAfter(i) == {j \in DOMAIN chain : j > i /\ chain[j].type = "entry"}

\* ldap_next_entry.
ldap_next_entry(i) ==
  LET js == entriesAfter(i) IN
  IF js = {} THEN 0 ELSE CHOOSE j \in js : \A k \in js : j <= k

\* Mutant: the entry proxy does not retain its result.
handOut_unretained(to, e, i) ==
  /\ entry' = i
  /\ answer' = [to |-> to, value |-> IF i = 0 THEN Null ELSE i]
  /\ IF i = 0 THEN UNCHANGED <<at, ber, retains>>
     ELSE /\ at' = [at EXCEPT ![e] = i]
          /\ ber' = [ber EXCEPT ![e] = Null]
          /\ retains' = [retains EXCEPT ![e] = 1]

\* _entry becomes i; the script is given a new proxy for it, which retains
\* the result, or nil.
handOut(to, e, i) ==
  /\ entry' = i
  /\ answer' = [to |-> to, value |-> IF i = 0 THEN Null ELSE i]
  /\ IF i = 0 THEN UNCHANGED <<at, ber, retains>>
     ELSE /\ at' = [at EXCEPT ![e] = i]
          /\ ber' = [ber EXCEPT ![e] = Null]
          /\ retains' = [retains EXCEPT ![e] = 1, !["result"] = @ + 1]

\* Mutant: only the head of the chain can be the first entry.
firstEntry_headOnly(e) ==
  call(TRUE, handOut("first", e, IF chain[1].type = "entry" THEN 1 ELSE 0))

\* ldap_first_entry returns the head of the chain or asks ldap_next_entry.
firstEntry(e) == call(TRUE, handOut("first", e, ldap_next_entry(0)))

nextEntry(e) == call(entry # 0, handOut("next", e, ldap_next_entry(entry)))

look(value) ==
  /\ answer' = [to |-> "other", value |-> value]
  /\ UNCHANGED <<entry, at, ber, retains>>

countEntries == call(TRUE, look(Cardinality(entriesAfter(0))))

-------------------------------------------------------------------------------
(* The entries. *)

attributes(e) == IF at[e] = 0 THEN <<>> ELSE chain[at[e]].attrs

\* The name of the next of n attributes that are left, if there is one.
name(to, e, n, rest) ==
  /\ answer' = [to |-> to, value |-> IF n = 0 THEN Null ELSE Len(attributes(e)) - n + 1]
  /\ ber' = [ber EXCEPT ![e] = rest]
  /\ UNCHANGED <<entry, at, retains>>

\* ldap_first_attribute leaves no element behind when there is no attribute.
firstAttribute(e) ==
  LET n == Len(attributes(e)) IN
  call(TRUE, name("first", e, n, IF n = 0 THEN Null ELSE n - 1))

\* Mutant: nextAttribute starts over at the end.
nextAttribute_wraps(e) ==
  LET n == IF ber[e] = 0 THEN Len(attributes(e)) ELSE ber[e] IN
  call(ber[e] # Null, name("next", e, n, n - 1))

\* Mutant: nextAttribute does not look whether anything is left.
nextAttribute_overruns(e) ==
  LET n == ber[e] IN call(n # Null, name("next", e, n, n - 1))

nextAttribute(e) ==
  LET n == ber[e] IN
  call(n # Null, name("next", e, n, IF n = 0 THEN 0 ELSE n - 1))

getDn(e) == call(TRUE, look(at[e]))

\* getValues and getValuesLen: an attribute without values, or that is not
\* there, has a NULL array.
getValues(e, a) ==
  LET n == IF a \in DOMAIN attributes(e) THEN attributes(e)[a] ELSE 0 IN
  call(TRUE, look(IF n = 0 THEN Null ELSE n))

-------------------------------------------------------------------------------
(* The connection's handle, and the life of the objects. *)

\* A session is closed and a new one is opened; neither touches the result.
setHandle(live) ==
  /\ ~aborted
  /\ handle' = live
  /\ UNCHANGED <<data, entry, at, ber, retains, freed, aborted, answer>>

disconnect == setHandle(FALSE)
connect == setHandle(TRUE)

\* Mutant: a result does not release its connection.
release_keepsConnection(o) ==
  LET result == o = "result" \/ (o \in Proxy /\ retains[o] = 1)
      released == {o} \cup (IF result THEN {"result"} ELSE {}) IN
  /\ ~aborted
  /\ retains' = [x \in Object |-> IF x \in released THEN retains[x] - 1 ELSE retains[x]]
  /\ at' = [e \in Proxy |-> IF e = o THEN 0 ELSE at[e]]
  /\ ber' = [e \in Proxy |-> IF e = o THEN Null ELSE ber[e]]
  /\ entry' = IF result /\ retains["result"] = 1 THEN 0 ELSE entry
  /\ freed' = (freed \/ (result /\ retains["result"] = 1))
  /\ UNCHANGED <<data, handle, aborted, answer>>

\* One retain less for o.  The last one destroys it: an entry frees its BER
\* element and releases its result, a result frees its chain and releases
\* its connection, a connection disconnects.
release(o) ==
  LET gone(x) == retains[x] = 1
      result == o = "result" \/ (o \in Proxy /\ gone(o))
      connection == o = "connection" \/ (result /\ gone("result"))
      released == {o} \cup (IF result THEN {"result"} ELSE {})
                      \cup (IF connection THEN {"connection"} ELSE {}) IN
  /\ ~aborted
  /\ retains' = [x \in Object |-> IF x \in released THEN retains[x] - 1 ELSE retains[x]]
  /\ at' = [e \in Proxy |-> IF e = o THEN 0 ELSE at[e]]
  /\ ber' = [e \in Proxy |-> IF e = o THEN Null ELSE ber[e]]
  /\ entry' = IF result /\ gone("result") THEN 0 ELSE entry
  /\ freed' = (freed \/ (result /\ gone("result")))
  /\ handle' = (handle /\ ~(connection /\ gone("connection")))
  /\ UNCHANGED <<data, aborted, answer>>

-------------------------------------------------------------------------------
(* The abstract cursor. *)

names(e) == [i \in DOMAIN attributes(e) |-> i]
Cursors == Proxy \cup {"result"}

\* What the result has still to hand out: the entries behind its pointer.
place == CHOOSE k \in DOMAIN entries : entries[k] = entry
behind == IF entry = 0 THEN <<>> ELSE SubSeq(entries, place + 1, Len(entries))

\* What an entry has still to hand out.
undelivered(e) ==
  IF ber[e] = Null THEN <<>> ELSE SubSeq(names(e), Len(names(e)) - ber[e] + 1, Len(names(e)))

Abstract == INSTANCE Cursor WITH
  Cur <- Cursors,
  items <- [c \in Cursors |-> IF c = "result" THEN entries ELSE names(c)],
  rest <- [c \in Cursors |-> IF c = "result" THEN behind ELSE undelivered(c)]
===============================================================================
