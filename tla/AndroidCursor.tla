------------------------------ MODULE AndroidCursor ------------------------------
(***************************************************************************)
(* SearchResultProxy and EntryProxy of the Android half: Java iterators    *)
(* over the entries of a result and over the attributes of an entry.       *)
(***************************************************************************)
EXTENDS Naturals, Sequences, FiniteSets

CONSTANTS
  Proxy,   \* entry proxies the script can hold at a time
  Null

VARIABLES
  chain,      \* the messages of the search, in order
  entries,    \* _searchResult.getSearchEntries(): positions in chain
  iterator,   \* SearchResultProxy._iterator: the next position, or Null
  entry,      \* EntryProxy._entry of each proxy: a position in chain, 0 if unused
  attrs,      \* EntryProxy._iterator of each proxy, or Null
  answer      \* the last call, and what it returned

data == <<chain, entries>>
vars == <<data, iterator, entry, attrs, answer>>

Init ==
  /\ iterator = Null
  /\ entry = [e \in Proxy |-> 0]
  /\ attrs = [e \in Proxy |-> Null]
  /\ answer = [to |-> "none", value |-> Null]

\* hasNext() and next() of an iterator over s that stands at i.
hasNext(i, s) == i # Null /\ i <= Len(s)

\* The next entry answers the call in a new proxy, e; null at the end.
handOut(to, e, i) ==
  /\ IF hasNext(i, entries)
     THEN /\ iterator' = i + 1
          /\ answer' = [to |-> to, value |-> entries[i]]
          /\ entry' = [entry EXCEPT ![e] = entries[i]]
          /\ attrs' = [attrs EXCEPT ![e] = Null]
     ELSE /\ iterator' = i
          /\ answer' = [to |-> to, value |-> Null]
          /\ UNCHANGED <<entry, attrs>>
  /\ UNCHANGED data

firstEntry(e) == handOut("first", e, 1)

\* Mutant: a finished iterator starts over.
nextEntry_wraps(e) == handOut("next", e, IF hasNext(iterator, entries) THEN iterator ELSE 1)

nextEntry(e) == handOut("next", e, iterator)

\* The attributes of e: how many values each has.
attributes(e) == IF entry[e] = 0 THEN <<>> ELSE chain[entry[e]].attrs

name(to, e, i) ==
  /\ IF hasNext(i, attributes(e))
     THEN answer' = [to |-> to, value |-> i] /\ attrs' = [attrs EXCEPT ![e] = i + 1]
     ELSE answer' = [to |-> to, value |-> Null] /\ attrs' = [attrs EXCEPT ![e] = i]
  /\ UNCHANGED <<data, iterator, entry>>

firstAttribute(e) == name("first", e, 1)
nextAttribute(e) == name("next", e, attrs[e])

look(value) ==
  /\ answer' = [to |-> "other", value |-> value]
  /\ UNCHANGED <<data, iterator, entry, attrs>>

countEntries == look(Len(entries))

getDn(e) == look(entry[e])

\* getValues and getValuesLen: an attribute without values has an empty array.
getValues(e, a) == look(IF a \in DOMAIN attributes(e) THEN attributes(e)[a] ELSE Null)

\* The script no longer refers to e.
collect(e) ==
  /\ entry' = [entry EXCEPT ![e] = 0]
  /\ attrs' = [attrs EXCEPT ![e] = Null]
  /\ UNCHANGED <<data, iterator, answer>>

-------------------------------------------------------------------------------
(* The abstract cursor. *)

\* What an iterator over s that stands at i has left.
left(i, s) == IF i = Null THEN <<>> ELSE SubSeq(s, i, Len(s))

names(e) == [i \in DOMAIN attributes(e) |-> i]
Cursors == Proxy \cup {"result"}

Abstract == INSTANCE Cursor WITH
  Cur <- Cursors,
  items <- [c \in Cursors |-> IF c = "result" THEN entries ELSE names(c)],
  rest <- [c \in Cursors |-> IF c = "result" THEN left(iterator, entries)
                             ELSE left(attrs[c], names(c))]
===============================================================================
