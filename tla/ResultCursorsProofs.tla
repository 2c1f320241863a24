-------------------------- MODULE ResultCursorsProofs --------------------------
(***************************************************************************)
(* What is proved of the cursors of both platforms, for results of any     *)
(* length, entries with any attributes and any number of entry objects:    *)
(* the types, the agreement of the platforms, the memory of iOS and the    *)
(* refinement of the abstract cursors.                                     *)
(*                                                                         *)
(* The inductive invariant comes first, with the lemmas that every call of *)
(* the script keeps it.  The Android lemmas show that each call moves      *)
(* Java's iterators as the abstract cursors move, the iOS lemmas show it   *)
(* of the pointers into the chain and of the BER elements, and the last    *)
(* ones compare the two.  What they need to know of counting finite sets   *)
(* is the hypothesis Counting, which the last part discharges before it    *)
(* states the theorems.                                                    *)
(***************************************************************************)
EXTENDS ResultCursors, TLAPS

-------------------------------------------------------------------------------
(* The result of the search. *)

EntryAt == {i \in DOMAIN chain : chain[i].type = "entry"}

\* s lists S, in order.
Lists(s, S) ==
  /\ s \in Seq(S)
  /\ \A i, j \in DOMAIN s : i < j => s[i] < s[j]
  /\ \A i \in S : \E k \in DOMAIN s : s[k] = i

\* There are as many positions as entries.
EntriesCounted == Cardinality(EntryAt) = Len(entries)

DataInv ==
  /\ DOMAIN chain \subseteq Nat \ {0}
  /\ \A i \in DOMAIN chain : chain[i].attrs \in Seq(Nat)
  /\ Lists(entries, EntryAt) /\ EntriesCounted

\* The entry behind the k-th one.
LEMMA EntryBehind ==
  ASSUME DataInv, NEW k \in 0 .. Len(entries), NEW i, i = IF k = 0 THEN 0 ELSE entries[k]
  PROVE  Ios!ldap_next_entry(i) = IF k = Len(entries) THEN 0 ELSE entries[k + 1]
<1> DEFINE n == Len(entries)
<1>0. n \in Nat /\ k \in Nat /\ k <= n
  BY DEF DataInv, Lists
<1>1. /\ DOMAIN entries = 1 .. n
      /\ \A j \in 1 .. n : entries[j] \in EntryAt /\ entries[j] \in Nat \ {0}
      /\ i \in Nat
  BY DEF DataInv, Lists, EntryAt
<1>1a. \A j, l \in 1 .. n : j < l => entries[j] < entries[l]
  BY <1>1, Zenon DEF DataInv, Lists
<1> HIDE DEF n
<1>2. Ios!entriesAfter(i) = {j \in EntryAt : j > i}
  BY DEF Ios!entriesAfter, EntryAt
<1>3. \A j \in 1 .. n : entries[j] > i <=> j > k
  <2>1. CASE k = 0
    BY <1>0, <1>1, <2>1
  <2>2. CASE k # 0
    <3>1. k \in 1 .. n /\ i = entries[k]
      BY <1>0, <2>2
    <3>2. SUFFICES ASSUME NEW j \in 1 .. n PROVE entries[j] > i <=> j > k
      OBVIOUS
    <3>3. j < k \/ j = k \/ k < j
      BY <1>0
    <3>4. QED
      BY <1>0, <1>1, <1>1a, <3>1, <3>3
  <2>3. QED
    BY <2>1, <2>2
<1>4. CASE k = n
  <2>1. Ios!entriesAfter(i) = {}
    BY <1>0, <1>1, <1>2, <1>3, <1>4 DEF DataInv, Lists
  <2>2. QED
    BY <1>4, <2>1 DEF Ios!ldap_next_entry, n
<1>5. CASE k # n
  <2> DEFINE js == Ios!entriesAfter(i)
  <2>1. k + 1 \in 1 .. n
    BY <1>0, <1>5
  <2>2. entries[k + 1] \in js
    BY <1>1, <1>2, <1>3, <2>1
  <2>3. \A j \in js : entries[k + 1] <= j
    <3>1. SUFFICES ASSUME NEW j \in js PROVE entries[k + 1] <= j
      OBVIOUS
    <3>2. PICK l \in 1 .. n : entries[l] = j
      BY <1>1, <1>2 DEF DataInv, Lists
    <3>3. l > k
      BY <1>2, <1>3, <3>2
    <3>4. l = k + 1 \/ k + 1 < l
      BY <1>0, <3>3
    <3>5. QED
      BY <1>1, <1>1a, <2>1, <3>2, <3>4
  <2>4. js \subseteq Nat
    BY <1>2 DEF EntryAt, DataInv
  <2>5. \A j \in js : (\A l \in js : j <= l) => j = entries[k + 1]
    BY <2>2, <2>3, <2>4
  <2>6. js # {}
    BY <2>2
  <2> HIDE DEF js
  <2>7. (CHOOSE j \in js : \A l \in js : j <= l) = entries[k + 1]
    BY <2>2, <2>3, <2>5
  <2>8. QED
    BY <1>5, <2>6, <2>7, Zenon DEF Ios!ldap_next_entry, js, n
<1>6. QED
  BY <1>4, <1>5

-------------------------------------------------------------------------------
(* The inductive invariant. *)

Positions == EntryAt \cup {0}
Values == Nat \cup {Null}
CallRecords == [to : {"none", "first", "next", "other"}, value : Values]

\* Java's iterators stand inside what they run over, or just behind it.
AndroidInv ==
  /\ iterator \in 1 .. Len(entries) + 1 \cup {Null}
  /\ aEntry \in [Proxy -> Positions]
  /\ aAttrs \in [Proxy -> Values]
  /\ \A e \in Proxy : aAttrs[e] # Null => aAttrs[e] \in 1 .. Len(Android!attributes(e)) + 1
  /\ aAnswer \in CallRecords

\* The pointers of iOS are NULL or point to entries.
IosInv ==
  /\ entry \in Positions
  /\ at \in [Proxy -> Positions]
  /\ ber \in [Proxy -> Values]
  /\ \A e \in Proxy : ber[e] # Null => ber[e] \in 0 .. Len(Ios!attributes(e))
  /\ iAnswer \in CallRecords

\* Both platforms stand at the same place.
SamePlace ==
  /\ at = aEntry
  /\ "result" \in held =>
       \/ entry = 0 /\ iterator \in {Null, Len(entries) + 1}
       \/ \E k \in 1 .. Len(entries) : entry = entries[k] /\ iterator = k + 1
  /\ \A e \in Proxy :
       \/ ber[e] = Null /\ (aAttrs[e] = Null \/ Len(Ios!attributes(e)) = 0)
       \/ ber[e] # Null /\ aAttrs[e] # Null /\ aAttrs[e] + ber[e] = Len(Ios!attributes(e)) + 1

bit(b) == IF b THEN 1 ELSE 0

\* The retain counts count the references of the script, of the entries to
\* the result and of the result to the connection.
Counted ==
  /\ \A e \in Proxy : retains[e] = bit(e \in held)
  /\ retains["result"] = bit("result" \in held) + Cardinality(held \cap Proxy)
  /\ retains["connection"] = bit("connection" \in held) + bit(retains["result"] > 0)
  /\ freed <=> retains["result"] = 0

\* What the memory owes to itself, whatever the script holds.
MemoryInv ==
  /\ retains \in [Object -> Nat]
  /\ handle \in BOOLEAN /\ freed \in BOOLEAN /\ aborted \in BOOLEAN
  /\ freed => retains["result"] = 0
  /\ \A e \in Proxy : retains[e] > 0 => retains["result"] > 0
  /\ retains["result"] > 0 => retains["connection"] > 0
  /\ handle => retains["connection"] > 0

Inv ==
  /\ DataInv /\ AndroidInv /\ IosInv /\ MemoryInv
  /\ held \subseteq Object /\ alone \in BOOLEAN
  /\ aborted => held # {} /\ ~alone
  /\ ~alone /\ ~aborted => SamePlace /\ Counted /\ SameAnswers

-------------------------------------------------------------------------------
(* What is left of a sequence from a position on. *)

from(s, i) == SubSeq(s, i, Len(s))

\* What is left is not empty, starts at the position and goes on behind it.
LEMMA FromFacts ==
  ASSUME NEW S, NEW s \in Seq(S), NEW i \in 1 .. Len(s)
  PROVE  /\ from(s, i) # <<>>
         /\ Head(from(s, i)) = s[i]
         /\ Tail(from(s, i)) = from(s, i + 1)
<1>1. s \in Seq(S) /\ i \in 1 .. Len(s)
  OBVIOUS
<1>2. Len(from(s, i)) # 0
  BY DEF from
<1>3. from(s, i) # <<>>
  BY <1>2
<1>4. /\ Head(SubSeq(s, i, Len(s))) = s[i]
      /\ Tail(SubSeq(s, i, Len(s))) = SubSeq(s, i + 1, Len(s))
  BY ONLY <1>1
<1>5. QED
  BY <1>3, <1>4 DEF from

\* At the first position everything is left, behind the last one nothing.
LEMMA FromEnds ==
  ASSUME NEW S, NEW s \in Seq(S)
  PROVE  from(s, 1) = s /\ from(s, Len(s) + 1) = <<>>
BY DEF from

-------------------------------------------------------------------------------
(* Android: the iterators are cursors. *)

\* The result of the search does not change under a cursor.
LEMMA SameData ==
  ASSUME DataInv, UNCHANGED <<chain, entries>>
  PROVE  DataInv' /\ EntryAt' = EntryAt /\ Positions' = Positions
<1>1. EntryAt' = EntryAt
  BY Zenon DEF EntryAt
<1>2. QED
  BY <1>1, Zenon DEF DataInv, EntriesCounted, Positions, Lists

\* The attributes at a position, none at the position 0.
LEMMA AttributesOf ==
  ASSUME DataInv, NEW p \in Positions
  PROVE  (IF p = 0 THEN <<>> ELSE chain[p].attrs) \in Seq(Nat)
BY DEF DataInv, Positions, EntryAt

\* The names of n attributes.
LEMMA NamesOf ==
  ASSUME NEW al \in Seq(Nat), NEW ns, ns = [i \in DOMAIN al |-> i]
  PROVE  ns \in Seq(Nat) /\ Len(ns) = Len(al) /\ \A i \in 1 .. Len(al) : ns[i] = i
<1> DEFINE n == Len(al)
<1>1. n \in Nat /\ DOMAIN al = 1 .. n
  BY ONLY al \in Seq(Nat)
<1> HIDE DEF n
<1>2. ns = [i \in 1 .. n |-> i]
  BY <1>1
<1>3. ns \in Seq(Nat)
  BY <1>1, <1>2
<1>4. Len(ns) = n
  BY <1>1, <1>2
<1>5. QED
  BY <1>2, <1>3, <1>4 DEF n

\* hasNext of Java's iterator: whether anything is left to the cursor.
LEMMA AndroidLeft ==
  ASSUME NEW s \in Seq(Nat), NEW i \in 1 .. Len(s) + 1 \cup {Null}
  PROVE  /\ i = Null => ~Android!hasNext(i, s) /\ Android!left(i, s) = <<>>
         /\ i = Len(s) + 1 => ~Android!hasNext(i, s) /\ Android!left(i, s) = <<>>
         /\ i \in 1 .. Len(s) =>
              /\ Android!hasNext(i, s)
              /\ Android!left(i, s) # <<>>
              /\ Head(Android!left(i, s)) = s[i]
              /\ Tail(Android!left(i, s)) = Android!left(i + 1, s)
         /\ Android!left(1, s) = s
<1>1. Len(s) \in Nat /\ Null \notin Nat
  BY CursorAssumption
<1>2. \A j \in Nat : Android!left(j, s) = from(s, j)
  BY <1>1 DEF Android!left, from
<1>3. from(s, 1) = s /\ from(s, Len(s) + 1) = <<>>
  BY FromEnds
<1>4. ASSUME i \in 1 .. Len(s)
      PROVE  /\ Android!left(i, s) # <<>>
             /\ Head(Android!left(i, s)) = s[i]
             /\ Tail(Android!left(i, s)) = Android!left(i + 1, s)
  <2>1. i \in Nat /\ i + 1 \in Nat
    BY <1>1, <1>4
  <2>2. /\ from(s, i) # <<>>
        /\ Head(from(s, i)) = s[i]
        /\ Tail(from(s, i)) = from(s, i + 1)
    BY <1>4, FromFacts
  <2>3. QED
    BY <1>2, <2>1, <2>2
<1>5. QED
  BY <1>1, <1>2, <1>3, <1>4, SMTT(30) DEF Android!hasNext, Android!left

\* The attribute names of an entry, in order.
LEMMA AndroidNames ==
  ASSUME DataInv, AndroidInv, NEW e \in Proxy
  PROVE  /\ Android!attributes(e) \in Seq(Nat)
         /\ Android!names(e) \in Seq(Nat)
         /\ Len(Android!names(e)) = Len(Android!attributes(e))
         /\ \A i \in 1 .. Len(Android!attributes(e)) : Android!names(e)[i] = i
<1>1. aEntry[e] \in Positions
  BY DEF AndroidInv
<1>2. Android!attributes(e) \in Seq(Nat)
  BY <1>1, AttributesOf DEF Android!attributes
<1>3. QED
  BY <1>2, NamesOf DEF Android!names

\* What an entry has depends on where it is only.
LEMMA AndroidKeeps ==
  ASSUME UNCHANGED <<chain, entries>>, NEW d, aEntry'[d] = aEntry[d]
  PROVE  Android!attributes(d)' = Android!attributes(d) /\ Android!names(d)' = Android!names(d)
BY DEF Android!attributes, Android!names

\* firstEntry and nextEntry take one entry from the cursor of the result.
LEMMA AndroidHandOut ==
  ASSUME DataInv, AndroidInv, NEW e \in Proxy, NEW to \in {"first", "next"},
         NEW i \in 1 .. Len(entries) + 1 \cup {Null},
         Android!handOut(to, e, i)
  PROVE  /\ AndroidInv'
         /\ Android!Abstract!take(to, "result", Android!left(i, entries))
<1>1. UNCHANGED <<chain, entries>>
  BY DEF Android!handOut, Android!data
<1>2. DataInv' /\ Positions' = Positions
  BY <1>1, SameData
<1>3. /\ entries \in Seq(Nat) /\ Len(entries) \in Nat /\ Null \notin Nat
      /\ \A j \in 1 .. Len(entries) : entries[j] \in Positions /\ entries[j] \in Nat
  BY CursorAssumption DEF DataInv, Lists, Positions, EntryAt
<1>4. i = Null \/ i = Len(entries) + 1 \/ i \in 1 .. Len(entries)
  BY <1>3
<1>5. "result" \notin Proxy /\ "result" \in Android!Cursors /\ e \in Android!Cursors
  BY CursorAssumption DEF Android!Cursors
<1>6. CASE i \in 1 .. Len(entries)
  <2>1. /\ Android!hasNext(i, entries)
        /\ Android!left(i, entries) # <<>>
        /\ Head(Android!left(i, entries)) = entries[i]
        /\ Tail(Android!left(i, entries)) = Android!left(i + 1, entries)
    BY <1>3, <1>6, AndroidLeft
  <2>2. /\ iterator' = i + 1
        /\ aAnswer' = [to |-> to, value |-> entries[i]]
        /\ aEntry' = [aEntry EXCEPT ![e] = entries[i]]
        /\ aAttrs' = [aAttrs EXCEPT ![e] = Null]
    BY <2>1 DEF Android!handOut
  <2>3. /\ aEntry' \in [Proxy -> Positions] /\ aAttrs' \in [Proxy -> Values]
        /\ aAttrs'[e] = Null
        /\ \A d \in Proxy \ {e} : aEntry'[d] = aEntry[d] /\ aAttrs'[d] = aAttrs[d]
    BY <1>3, <1>6, <2>2 DEF AndroidInv, Values
  <2>4. \A d \in Proxy \ {e} : /\ Android!attributes(d)' = Android!attributes(d)
                              /\ Android!names(d)' = Android!names(d)
    BY <1>1, <2>3, AndroidKeeps
  <2>5. AndroidInv'
    <3>1. iterator' \in (1 .. Len(entries) + 1 \cup {Null})'
      BY <1>1, <1>3, <1>6, <2>2
    <3>2. aAnswer' \in CallRecords
      BY <1>3, <1>6, <2>2 DEF CallRecords, Values
    <3>3. \A d \in Proxy : aAttrs'[d] # Null =>
            aAttrs'[d] \in 1 .. Len(Android!attributes(d)') + 1
      BY <2>3, <2>4 DEF AndroidInv
    <3>4. QED
      BY <1>2, <2>3, <3>1, <3>2, <3>3 DEF AndroidInv, CallRecords, Values
  <2>6. Android!left(aAttrs[e], Android!names(e))' = <<>>
    BY <2>3 DEF Android!left
  <2>7. \A d \in Proxy \ {e} : Android!left(aAttrs[d], Android!names(d))'
                              = Android!left(aAttrs[d], Android!names(d))
    BY <2>3, <2>4 DEF Android!left
  <2>8. Android!left(iterator, entries)' = Android!left(i + 1, entries)
    BY <1>1, <2>2 DEF Android!left
  <2>9. QED
    BY <1>1, <1>5, <2>1, <2>2, <2>4, <2>5, <2>6, <2>7, <2>8, Zenon
       DEF Android!Abstract!take, Android!Abstract!keeps, Android!Cursors
<1>7. CASE i = Null \/ i = Len(entries) + 1
  <2>1. ~Android!hasNext(i, entries) /\ Android!left(i, entries) = <<>>
    BY <1>3, <1>7, AndroidLeft
  <2>2. iterator' = i /\ aAnswer' = [to |-> to, value |-> Null] /\ UNCHANGED <<aEntry, aAttrs>>
    BY <2>1 DEF Android!handOut
  <2>4. \A d \in Proxy : /\ Android!attributes(d)' = Android!attributes(d)
                        /\ Android!names(d)' = Android!names(d)
    BY <1>1, <2>2, AndroidKeeps
  <2>5. AndroidInv'
    BY <1>1, <1>2, <1>3, <1>7, <2>2, <2>4 DEF AndroidInv, CallRecords, Values
  <2>7. \A d \in Proxy : Android!left(aAttrs[d], Android!names(d))'
                        = Android!left(aAttrs[d], Android!names(d))
    BY <2>2, <2>4 DEF Android!left
  <2>8. Android!left(iterator, entries)' = Android!left(i, entries)
    BY <1>1, <2>2 DEF Android!left
  <2>9. QED
    BY <1>1, <1>5, <2>1, <2>2, <2>4, <2>5, <2>7, <2>8
       DEF Android!Abstract!take, Android!Abstract!keeps, Android!Cursors
<1>8. QED
  BY <1>4, <1>6, <1>7

\* firstAttribute and nextAttribute take one name from the cursor of the entry.
LEMMA AndroidName ==
  ASSUME DataInv, AndroidInv, NEW e \in Proxy, NEW to \in {"first", "next"},
         NEW i \in 1 .. Len(Android!attributes(e)) + 1 \cup {Null},
         Android!name(to, e, i)
  PROVE  /\ AndroidInv'
         /\ Android!Abstract!take(to, e, Android!left(i, Android!names(e)))
<1> DEFINE n == Len(Android!attributes(e))
           ns == Android!names(e)
<1>1. UNCHANGED <<chain, entries, iterator, aEntry>>
  BY DEF Android!name, Android!data
<1>2. DataInv' /\ Positions' = Positions
  BY <1>1, SameData
<1>3. /\ Android!attributes(e) \in Seq(Nat) /\ n \in Nat /\ Null \notin Nat
      /\ ns \in Seq(Nat) /\ Len(ns) = n /\ \A j \in 1 .. n : ns[j] = j
  BY CursorAssumption, AndroidNames
<1>4. i = Null \/ i = n + 1 \/ i \in 1 .. n
  BY <1>3
<1>5. "result" \notin Proxy /\ "result" # e /\ e \in Android!Cursors
  BY CursorAssumption DEF Android!Cursors
<1>6. \A d \in Proxy : /\ Android!attributes(d)' = Android!attributes(d)
                      /\ Android!names(d)' = Android!names(d)
  BY <1>1, AndroidKeeps
<1>7. Android!hasNext(i, Android!attributes(e)) <=> i \in 1 .. n
  BY <1>3, <1>4 DEF Android!hasNext
<1>8. i \in 1 .. n => i + 1 \in 1 .. n + 1 /\ i \in Nat
  BY <1>3
<1> DEFINE rest == IF i \in 1 .. n THEN i + 1 ELSE i
<1>9. /\ aAttrs' = [aAttrs EXCEPT ![e] = rest]
      /\ aAnswer' = [to |-> to, value |-> IF i \in 1 .. n THEN i ELSE Null]
  BY <1>7 DEF Android!name
<1>10. rest \in 1 .. n + 1 \cup {Null} /\ rest \in Values
  BY <1>3, <1>4, <1>8 DEF Values
<1> HIDE DEF rest, n, ns
<1>11. /\ aAttrs' \in [Proxy -> Values] /\ aAttrs'[e] = rest
       /\ \A d \in Proxy \ {e} : aAttrs'[d] = aAttrs[d]
  BY <1>9, <1>10 DEF AndroidInv
<1>12. AndroidInv'
  <2>1. aAnswer' \in CallRecords
    BY <1>8, <1>9 DEF CallRecords, Values
  <2>2. \A d \in Proxy : aAttrs'[d] # Null =>
          aAttrs'[d] \in 1 .. Len(Android!attributes(d)') + 1
    BY <1>6, <1>10, <1>11 DEF AndroidInv, n
  <2>3. QED
    BY <1>1, <1>2, <1>11, <2>1, <2>2 DEF AndroidInv, CallRecords, Values
<1>13. \A d \in Proxy \ {e} : Android!left(aAttrs[d], Android!names(d))'
                             = Android!left(aAttrs[d], Android!names(d))
  BY <1>6, <1>11 DEF Android!left
<1>14. Android!left(aAttrs[e], Android!names(e))' = Android!left(rest, ns)
  BY <1>6, <1>11 DEF Android!left, ns
<1>15. Android!left(iterator, entries)' = Android!left(iterator, entries)
  BY <1>1, Zenon DEF Android!left
<1>16. CASE i \in 1 .. n
  <2>1. /\ Android!left(i, ns) # <<>>
        /\ Head(Android!left(i, ns)) = i
        /\ Tail(Android!left(i, ns)) = Android!left(rest, ns)
    BY <1>3, <1>16, AndroidLeft DEF rest
  <2>2. aAnswer' = [to |-> to, value |-> i]
    BY <1>9, <1>16
  <2>3. QED
    BY <1>1, <1>5, <1>6, <1>12, <1>13, <1>14, <1>15, <2>1, <2>2, Zenon
       DEF Android!Abstract!take, Android!Abstract!keeps, Android!Cursors, ns
<1>17. CASE i \notin 1 .. n
  <2>1. Android!left(i, ns) = <<>> /\ rest = i
    BY <1>3, <1>4, <1>17, AndroidLeft DEF rest
  <2>2. aAnswer' = [to |-> to, value |-> Null]
    BY <1>9, <1>17
  <2>3. QED
    BY <1>1, <1>5, <1>6, <1>12, <1>13, <1>14, <1>15, <2>1, <2>2
       DEF Android!Abstract!take, Android!Abstract!keeps, Android!Cursors, ns
<1>18. QED
  BY <1>16, <1>17

\* A call that only reads leaves every cursor where it is.
LEMMA AndroidLook ==
  ASSUME DataInv, AndroidInv, NEW v \in Values, Android!look(v)
  PROVE  DataInv' /\ AndroidInv' /\ Android!Abstract!Look
<1>1. /\ UNCHANGED <<chain, entries, iterator, aEntry, aAttrs>>
      /\ aAnswer' = [to |-> "other", value |-> v]
  BY DEF Android!look, Android!data
<1>2. DataInv' /\ Positions' = Positions
  BY <1>1, SameData
<1>3. \A d \in Proxy : /\ Android!attributes(d)' = Android!attributes(d)
                      /\ Android!names(d)' = Android!names(d)
  BY <1>1, AndroidKeeps
<1>4. AndroidInv'
  BY <1>1, <1>2, <1>3 DEF AndroidInv, CallRecords, Values
<1>5. /\ Android!left(iterator, entries)' = Android!left(iterator, entries)
      /\ \A d \in Proxy : Android!left(aAttrs[d], Android!names(d))'
                          = Android!left(aAttrs[d], Android!names(d))
  BY <1>1, <1>3 DEF Android!left
<1>6. QED
  BY <1>1, <1>2, <1>3, <1>4, <1>5 DEF Android!Abstract!Look, Android!Cursors

\* A proxy that is dropped closes its cursors.
LEMMA AndroidCollect ==
  ASSUME DataInv, AndroidInv, NEW e \in Proxy, Android!collect(e)
  PROVE  AndroidInv' /\ Android!Abstract!Close({e})
<1>1. /\ UNCHANGED <<chain, entries, iterator, aAnswer>>
      /\ aEntry' = [aEntry EXCEPT ![e] = 0]
      /\ aAttrs' = [aAttrs EXCEPT ![e] = Null]
  BY DEF Android!collect, Android!data
<1>2. DataInv' /\ Positions' = Positions
  BY <1>1, SameData
<1>3. /\ aEntry' \in [Proxy -> Positions] /\ aAttrs' \in [Proxy -> Values]
      /\ aAttrs'[e] = Null
      /\ \A d \in Proxy \ {e} : aEntry'[d] = aEntry[d] /\ aAttrs'[d] = aAttrs[d]
  BY <1>1 DEF AndroidInv, Values, Positions
<1>4. \A d \in Proxy \ {e} : /\ Android!attributes(d)' = Android!attributes(d)
                            /\ Android!names(d)' = Android!names(d)
  BY <1>1, <1>3, AndroidKeeps
<1>5. AndroidInv'
  BY <1>1, <1>2, <1>3, <1>4 DEF AndroidInv, CallRecords, Values
<1>6. /\ Android!left(iterator, entries)' = Android!left(iterator, entries)
      /\ Android!left(aAttrs[e], Android!names(e))' = <<>>
      /\ \A d \in Proxy \ {e} : Android!left(aAttrs[d], Android!names(d))'
                                = Android!left(aAttrs[d], Android!names(d))
  BY <1>1, <1>3, <1>4 DEF Android!left
<1>7. "result" # e
  BY CursorAssumption
<1>8. QED
  BY <1>1, <1>4, <1>5, <1>6, <1>7
     DEF Android!Abstract!Close, Android!Abstract!keeps, Android!Cursors

\* So does nothing at all.
LEMMA AndroidIdle ==
  ASSUME DataInv, AndroidInv, UNCHANGED <<chain, entries, androidVars>>
  PROVE  AndroidInv' /\ Android!Abstract!Close({})
<1>1. UNCHANGED <<chain, entries, iterator, aEntry, aAttrs, aAnswer>>
  BY DEF androidVars
<1>2. Positions' = Positions
  BY <1>1, SameData
<1>3. \A d \in Proxy : /\ Android!attributes(d)' = Android!attributes(d)
                      /\ Android!names(d)' = Android!names(d)
  BY <1>1, AndroidKeeps
<1>4. AndroidInv'
  BY <1>1, <1>2, <1>3 DEF AndroidInv, CallRecords, Values
<1>5. /\ Android!left(iterator, entries)' = Android!left(iterator, entries)
      /\ \A d \in Proxy : Android!left(aAttrs[d], Android!names(d))'
                          = Android!left(aAttrs[d], Android!names(d))
  BY <1>1, <1>3 DEF Android!left
<1>6. QED
  BY <1>1, <1>3, <1>4, <1>5 DEF Android!Abstract!Close, Android!Abstract!keeps, Android!Cursors

\* Every step of the script is a step of the abstract cursors on Android.
LEMMA AndroidNext ==
  ASSUME DataInv, AndroidInv, Next
  PROVE  DataInv' /\ AndroidInv' /\ Android!Abstract!Next
<1>1. /\ entries \in Seq(Nat) /\ Len(entries) \in Nat /\ Null \notin Nat
      /\ "result" \in Android!Cursors /\ Proxy \subseteq Android!Cursors /\ "result" \notin Proxy
  BY CursorAssumption DEF DataInv, Lists, EntryAt, Android!Cursors
<1>2. 1 \in 1 .. Len(entries) + 1 \cup {Null}
  BY <1>1
<1>3. Android!left(1, entries) = entries
  BY <1>1, <1>2, AndroidLeft
<1>4. \A e \in Proxy :
        /\ Android!attributes(e) \in Seq(Nat) /\ Len(Android!attributes(e)) \in Nat
        /\ 1 \in 1 .. Len(Android!attributes(e)) + 1
        /\ aAttrs[e] \in 1 .. Len(Android!attributes(e)) + 1 \cup {Null}
        /\ Android!left(1, Android!names(e)) = Android!names(e)
        /\ aEntry[e] \in Values
  <2> SUFFICES ASSUME NEW e \in Proxy
               PROVE  /\ Android!attributes(e) \in Seq(Nat) /\ Len(Android!attributes(e)) \in Nat
                      /\ 1 \in 1 .. Len(Android!attributes(e)) + 1
                      /\ aAttrs[e] \in 1 .. Len(Android!attributes(e)) + 1 \cup {Null}
                      /\ Android!left(1, Android!names(e)) = Android!names(e)
                      /\ aEntry[e] \in Values
    OBVIOUS
  <2>1. /\ Android!attributes(e) \in Seq(Nat) /\ Len(Android!attributes(e)) \in Nat
        /\ Android!names(e) \in Seq(Nat) /\ Len(Android!names(e)) = Len(Android!attributes(e))
    BY AndroidNames
  <2>2. 1 \in 1 .. Len(Android!names(e)) + 1
    BY <2>1
  <2>3. Android!left(1, Android!names(e)) = Android!names(e)
    BY <2>1, <2>2, AndroidLeft
  <2>4. aEntry[e] \in Values
    BY DEF AndroidInv, Positions, EntryAt, DataInv, Values
  <2>5. QED
    BY <2>1, <2>2, <2>3, <2>4 DEF AndroidInv
<1>5. ASSUME NEW e \in Proxy, firstEntry(e)
      PROVE  DataInv' /\ AndroidInv' /\ Android!Abstract!First("result")
  <2>1. Android!handOut("first", e, 1)
    BY <1>5 DEF firstEntry, both, Android!firstEntry
  <2>2. AndroidInv' /\ Android!Abstract!take("first", "result", Android!left(1, entries))
    <3>1. PICK i : i = 1
      OBVIOUS
    <3>2. PICK to \in {"first", "next"} : to = "first"
      OBVIOUS
    <3>3. i \in 1 .. Len(entries) + 1 \cup {Null} /\ Android!handOut(to, e, i)
      BY <1>2, <2>1, <3>1, <3>2 DEF Android!handOut
    <3>4. AndroidInv' /\ Android!Abstract!take(to, "result", Android!left(i, entries))
      BY <3>3, AndroidHandOut, Zenon
    <3>5. QED
      BY <3>1, <3>2, <3>4 DEF Android!Abstract!take
  <2>3. DataInv'
    BY <2>1, SameData, Zenon DEF Android!handOut, Android!data
  <2>4. QED
    BY <1>1, <1>3, <2>2, <2>3 DEF Android!Abstract!First, Android!Abstract!take
<1>6. ASSUME NEW e \in Proxy, nextEntry(e)
      PROVE  DataInv' /\ AndroidInv' /\ Android!Abstract!Following("result")
  <2>1. Android!handOut("next", e, iterator)
    BY <1>6 DEF nextEntry, both, Android!nextEntry
  <2>2. iterator \in 1 .. Len(entries) + 1 \cup {Null}
    BY DEF AndroidInv
  <2>3. AndroidInv' /\ Android!Abstract!take("next", "result", Android!left(iterator, entries))
    <3>1. PICK i : i = iterator
      OBVIOUS
    <3>2. PICK to \in {"first", "next"} : to = "next"
      BY Zenon
    <3>3. i \in 1 .. Len(entries) + 1 \cup {Null} /\ Android!handOut(to, e, i)
      BY <2>1, <2>2, <3>1, <3>2, Zenon DEF Android!handOut
    <3>4. AndroidInv' /\ Android!Abstract!take(to, "result", Android!left(i, entries))
      BY <3>3, AndroidHandOut, Zenon
    <3>5. QED
      BY <3>1, <3>2, <3>4 DEF Android!Abstract!take
  <2>4. DataInv'
    BY <2>1, SameData DEF Android!handOut, Android!data
  <2>5. QED
    BY <1>1, <2>3, <2>4 DEF Android!Abstract!Following, Android!Abstract!take
<1>7. ASSUME NEW e \in Proxy, firstAttribute(e)
      PROVE  DataInv' /\ AndroidInv' /\ Android!Abstract!First(e)
  <2>1. Android!name("first", e, 1)
    BY <1>7 DEF firstAttribute, both, Android!firstAttribute
  <2>2. AndroidInv' /\ Android!Abstract!take("first", e, Android!left(1, Android!names(e)))
    <3>1. PICK i : i = 1
      OBVIOUS
    <3>2. PICK to \in {"first", "next"} : to = "first"
      OBVIOUS
    <3>3. i \in 1 .. Len(Android!attributes(e)) + 1 \cup {Null} /\ Android!name(to, e, i)
      BY <1>4, <2>1, <3>1, <3>2 DEF Android!name
    <3>4. AndroidInv' /\ Android!Abstract!take(to, e, Android!left(i, Android!names(e)))
      BY <3>3, AndroidName, Zenon
    <3>5. QED
      BY <3>1, <3>2, <3>4 DEF Android!Abstract!take
  <2>3. DataInv'
    BY <2>1, SameData DEF Android!name, Android!data
  <2>4. QED
    BY <1>1, <1>4, <2>2, <2>3, ZenonT(30) DEF Android!Abstract!First, Android!Abstract!take
<1>8. ASSUME NEW e \in Proxy, nextAttribute(e)
      PROVE  DataInv' /\ AndroidInv' /\ Android!Abstract!Following(e)
  <2>1. Android!name("next", e, aAttrs[e])
    BY <1>8 DEF nextAttribute, both, Android!nextAttribute
  <2>2. AndroidInv' /\ Android!Abstract!take("next", e, Android!left(aAttrs[e], Android!names(e)))
    <3>1. PICK i : i = aAttrs[e]
      OBVIOUS
    <3>2. PICK to \in {"first", "next"} : to = "next"
      OBVIOUS
    <3>3. i \in 1 .. Len(Android!attributes(e)) + 1 \cup {Null} /\ Android!name(to, e, i)
      BY <1>4, <2>1, <3>1, <3>2 DEF Android!name
    <3>4. AndroidInv' /\ Android!Abstract!take(to, e, Android!left(i, Android!names(e)))
      BY <3>3, AndroidName, Zenon
    <3>5. QED
      BY <3>1, <3>2, <3>4, Zenon DEF Android!Abstract!take
  <2>3. DataInv'
    BY <2>1, SameData DEF Android!name, Android!data
  <2>4. QED
    BY <1>1, <2>2, <2>3, Zenon DEF Android!Abstract!Following, Android!Abstract!take
<1>9. ASSUME \/ countEntries
             \/ \E e \in Proxy : getDn(e) \/ \E a \in 1 .. 3 : getValues(e, a)
      PROVE  DataInv' /\ AndroidInv' /\ Android!Abstract!Look
  <2>1. CASE countEntries
    <3>1. Android!look(Len(entries)) /\ Len(entries) \in Values
      BY <1>1, <2>1 DEF countEntries, both, Android!countEntries, Values
    <3>2. QED
      BY <3>1, AndroidLook
  <2>2. ASSUME NEW e \in Proxy, getDn(e)
        PROVE  DataInv' /\ AndroidInv' /\ Android!Abstract!Look
    <3>1. Android!look(aEntry[e])
      BY <2>2 DEF getDn, both, Android!getDn
    <3>2. QED
      BY <1>4, <3>1, AndroidLook
  <2>3. ASSUME NEW e \in Proxy, NEW a \in 1 .. 3, getValues(e, a)
        PROVE  DataInv' /\ AndroidInv' /\ Android!Abstract!Look
    <3> DEFINE al == Android!attributes(e)
               v == IF a \in DOMAIN al THEN al[a] ELSE Null
    <3>1. Android!look(v)
      BY <2>3 DEF getValues, both, Android!getValues
    <3>2. al \in Seq(Nat)
      BY <1>4
    <3> HIDE DEF al
    <3>3. v \in Values
      BY <3>2 DEF Values
    <3> HIDE DEF v
    <3>4. QED
      BY <3>1, <3>3, AndroidLook
  <2>4. QED
    BY <1>9, <2>1, <2>2, <2>3
<1>10. ASSUME NEW o \in Object, drop(o)
       PROVE  DataInv' /\ AndroidInv' /\ \E gone \in SUBSET Android!Cursors : Android!Abstract!Close(gone)
  <2>1. /\ UNCHANGED <<chain, entries>>
        /\ IF o \in Proxy THEN Android!collect(o) ELSE UNCHANGED androidVars
    BY <1>10 DEF drop, both
  <2>2. DataInv'
    BY <2>1, SameData
  <2>3. CASE o \in Proxy
    BY <1>1, <2>1, <2>2, <2>3, AndroidCollect, Zenon
  <2>4. CASE o \notin Proxy
    BY <2>1, <2>2, <2>4, AndroidIdle
  <2>5. QED
    BY <2>3, <2>4
<1>11. ASSUME disconnect \/ connect
       PROVE  DataInv' /\ AndroidInv' /\ \E gone \in SUBSET Android!Cursors : Android!Abstract!Close(gone)
  <2>1. UNCHANGED <<chain, entries>> /\ UNCHANGED androidVars
    BY <1>11 DEF disconnect, connect, onConnection, both
  <2>2. QED
    BY <2>1, SameData, AndroidIdle
<1>12. QED
  BY <1>1, <1>5, <1>6, <1>7, <1>8, <1>9, <1>10, <1>11 DEF Next, Android!Abstract!Next

-------------------------------------------------------------------------------
(* iOS: the pointers and the BER elements are cursors. *)

\* An entry is at one place only.
LEMMA OnePlace ==
  ASSUME NEW S, S \subseteq Nat, NEW s, Lists(s, S), NEW k \in 1 .. Len(s)
  PROVE  (CHOOSE j \in DOMAIN s : s[j] = s[k]) = k
<1>1. DOMAIN s = 1 .. Len(s) /\ Len(s) \in Nat /\ \A j \in DOMAIN s : s[j] \in Nat
  <2>1. s \in Seq(S) /\ \A x \in S : x \in Nat
    BY DEF Lists
  <2>2. DOMAIN s = 1 .. Len(s) /\ Len(s) \in Nat /\ \A j \in DOMAIN s : s[j] \in S
    BY ONLY <2>1
  <2>3. QED
    BY <2>1, <2>2, Zenon
<1>2. \A j \in DOMAIN s : s[j] = s[k] => j = k
  <2> SUFFICES ASSUME NEW j \in DOMAIN s, s[j] = s[k], j # k PROVE FALSE
    OBVIOUS
  <2>1. j < k \/ k < j
    BY <1>1
  <2>2. QED
    BY <1>1, <2>1 DEF Lists
<1>3. QED
  BY <1>1, <1>2

\* ldap_next_entry moves the place of the result by one entry.
LEMMA IosEntry ==
  ASSUME DataInv, IosInv
  PROVE  \E k \in 0 .. Len(entries) : entry = IF k = 0 THEN 0 ELSE entries[k]
<1>1. DOMAIN entries = 1 .. Len(entries) /\ Len(entries) \in Nat
  BY DEF DataInv, Lists
<1>2. CASE entry = 0
  <2>1. 0 \in 0 .. Len(entries)
    BY <1>1
  <2>2. QED
    BY <1>2, <2>1
<1>3. CASE entry # 0
  <2>1. PICK k \in DOMAIN entries : entries[k] = entry
    BY <1>3 DEF IosInv, Positions, DataInv, Lists
  <2>2. k \in 0 .. Len(entries) /\ k # 0
    BY <1>1
  <2>3. QED
    BY <2>1, <2>2
<1>4. QED
  BY <1>2, <1>3

\* The names behind a BER element, from the place it has reached.
LEMMA IosNames ==
  ASSUME DataInv, IosInv, NEW e \in Proxy
  PROVE  /\ Ios!attributes(e) \in Seq(Nat) /\ Len(Ios!attributes(e)) \in Nat
         /\ Ios!names(e) \in Seq(Nat)
         /\ Len(Ios!names(e)) = Len(Ios!attributes(e))
         /\ \A i \in 1 .. Len(Ios!attributes(e)) : Ios!names(e)[i] = i
<1>1. at[e] \in Positions
  BY DEF IosInv
<1>2. Ios!attributes(e) \in Seq(Nat)
  BY <1>1, AttributesOf DEF Ios!attributes
<1>3. QED
  BY <1>2, NamesOf DEF Ios!names

\* The attributes of an entry stay the same while its pointer does.
LEMMA IosKeeps ==
  ASSUME UNCHANGED <<chain, entries>>, NEW d, at'[d] = at[d]
  PROVE  Ios!attributes(d)' = Ios!attributes(d) /\ Ios!names(d)' = Ios!names(d)
BY DEF Ios!attributes, Ios!names

\* firstEntry and nextEntry take one entry from the cursor of the result.
LEMMA IosHandOut ==
  ASSUME DataInv, IosInv, NEW e \in Proxy, NEW to \in {"first", "next"},
         NEW k \in 0 .. Len(entries), NEW i, i = IF k = Len(entries) THEN 0 ELSE entries[k + 1],
         UNCHANGED <<chain, entries>>, Ios!handOut(to, e, i)
  PROVE  /\ IosInv'
         /\ Ios!Abstract!take(to, "result", from(entries, k + 1))
<1>2. DataInv' /\ Positions' = Positions
  BY SameData
<1>3. /\ entries \in Seq(Nat) /\ Len(entries) \in Nat /\ Null \notin Nat
      /\ \A j \in 1 .. Len(entries) : entries[j] \in EntryAt /\ entries[j] \in Nat \ {0}
  BY CursorAssumption DEF DataInv, Lists, EntryAt
<1>5. "result" \notin Proxy /\ "result" \in Ios!Cursors /\ e \in Ios!Cursors
  BY CursorAssumption, Zenon DEF Ios!Cursors
<1>6. CASE k # Len(entries)
  <2>1. k + 1 \in 1 .. Len(entries) /\ k + 1 + 1 \in Nat
    BY <1>3, <1>6
  <2>2. i = entries[k + 1] /\ i \in EntryAt /\ i \in Nat \ {0}
    BY <1>3, <1>6, <2>1
  <2>3. /\ entry' = i
        /\ iAnswer' = [to |-> to, value |-> i]
        /\ at' = [at EXCEPT ![e] = i]
        /\ ber' = [ber EXCEPT ![e] = Null]
    BY <2>2 DEF Ios!handOut
  <2>4. /\ at' \in [Proxy -> Positions] /\ ber' \in [Proxy -> Values]
        /\ ber'[e] = Null
        /\ \A d \in Proxy \ {e} : at'[d] = at[d] /\ ber'[d] = ber[d]
    BY <2>2, <2>3 DEF IosInv, Values, Positions
  <2>5. \A d \in Proxy \ {e} : /\ Ios!attributes(d)' = Ios!attributes(d)
                              /\ Ios!names(d)' = Ios!names(d)
    BY <2>4, IosKeeps
  <2>6. IosInv'
    <3>1. entry' \in Positions /\ iAnswer' \in CallRecords
      BY <2>2, <2>3 DEF CallRecords, Values, Positions
    <3>2. \A d \in Proxy : ber'[d] # Null => ber'[d] \in 0 .. Len(Ios!attributes(d)')
      BY <2>4, <2>5 DEF IosInv
    <3>3. QED
      BY <1>2, <2>4, <3>1, <3>2 DEF IosInv, CallRecords, Values
  <2>7. Ios!behind' = from(entries, k + 1 + 1)
    <3>1. EntryAt \subseteq Nat /\ Lists(entries, EntryAt)
      BY DEF DataInv, EntryAt
    <3>2. (CHOOSE j \in DOMAIN entries : entries[j] = entries[k + 1]) = k + 1
      BY <2>1, <3>1, OnePlace
    <3>3. Ios!place' = k + 1
      BY <2>2, <2>3, <3>2 DEF Ios!place
    <3>4. QED
      BY <2>2, <2>3, <3>3 DEF Ios!behind, from
  <2>8. Ios!undelivered(e)' = <<>>
    BY <2>4 DEF Ios!undelivered
  <2>9. \A d \in Proxy \ {e} : Ios!undelivered(d)' = Ios!undelivered(d)
    BY <2>4, <2>5 DEF Ios!undelivered
  <2>10. /\ from(entries, k + 1) # <<>> /\ Head(from(entries, k + 1)) = i
         /\ Tail(from(entries, k + 1)) = from(entries, k + 1 + 1)
    BY <1>3, <2>1, <2>2, FromFacts, Zenon
  <2>11. QED
    BY <1>5, <2>3, <2>5, <2>6, <2>7, <2>8, <2>9, <2>10
       DEF Ios!Abstract!take, Ios!Abstract!keeps, Ios!Cursors
<1>7. CASE k = Len(entries)
  <2>1. entry' = 0 /\ iAnswer' = [to |-> to, value |-> Null] /\ UNCHANGED <<at, ber>>
    BY <1>7 DEF Ios!handOut
  <2>2. \A d \in Proxy : /\ Ios!attributes(d)' = Ios!attributes(d)
                        /\ Ios!names(d)' = Ios!names(d)
    BY <2>1, IosKeeps
  <2>3. IosInv'
    BY <1>2, <2>1, <2>2 DEF IosInv, CallRecords, Values, Positions
  <2>4. Ios!behind' = <<>> /\ \A d \in Proxy : Ios!undelivered(d)' = Ios!undelivered(d)
    BY <2>1, <2>2 DEF Ios!behind, Ios!undelivered
  <2>5. from(entries, k + 1) = <<>>
    BY <1>3, <1>7, FromEnds
  <2>6. QED
    BY <1>5, <2>1, <2>2, <2>3, <2>4, <2>5, Zenon
       DEF Ios!Abstract!take, Ios!Abstract!keeps, Ios!Cursors
<1>8. QED
  BY <1>6, <1>7

\* firstAttribute and nextAttribute take one name from the cursor of the entry.
LEMMA IosName ==
  ASSUME DataInv, IosInv, NEW e \in Proxy, NEW to \in {"first", "next"},
         NEW n \in 0 .. Len(Ios!attributes(e)),
         NEW rest, IF n = 0 THEN rest \in {0, Null} ELSE rest = n - 1,
         UNCHANGED <<chain, entries>>, Ios!name(to, e, n, rest)
  PROVE  /\ IosInv'
         /\ Ios!Abstract!take(to, e, from(Ios!names(e), Len(Ios!names(e)) - n + 1))
<1> DEFINE l == Len(Ios!attributes(e))
           ns == Ios!names(e)
           s == from(ns, l - n + 1)
<1>1. UNCHANGED <<entry, at>>
  BY DEF Ios!name
<1>2. Positions' = Positions
  BY SameData
<1>3. /\ l \in Nat /\ Null \notin Nat /\ ns \in Seq(Nat) /\ Len(ns) = l
      /\ \A j \in 1 .. l : ns[j] = j
  BY CursorAssumption, IosNames
<1>4. n \in Nat /\ n <= l
  BY <1>3
<1>5. "result" \notin Proxy /\ "result" # e /\ e \in Ios!Cursors
  BY CursorAssumption DEF Ios!Cursors
<1>6. \A d \in Proxy : Ios!attributes(d)' = Ios!attributes(d) /\ Ios!names(d)' = Ios!names(d)
  BY <1>1, IosKeeps
<1>7. /\ ber' = [ber EXCEPT ![e] = rest]
      /\ iAnswer' = [to |-> to, value |-> IF n = 0 THEN Null ELSE l - n + 1]
  BY DEF Ios!name
<1>8. rest \in Values /\ (rest # Null => rest \in 0 .. l)
  BY <1>3, <1>4 DEF Values
<1>9. /\ ber' \in [Proxy -> Values] /\ ber'[e] = rest
      /\ \A d \in Proxy \ {e} : ber'[d] = ber[d]
  BY <1>7, <1>8 DEF IosInv
<1> HIDE DEF l, ns
<1>10. IosInv'
  <2>1. iAnswer' \in CallRecords
    BY <1>3, <1>4, <1>7 DEF CallRecords, Values
  <2>2. \A d \in Proxy : ber'[d] # Null => ber'[d] \in 0 .. Len(Ios!attributes(d)')
    BY <1>6, <1>8, <1>9 DEF IosInv, l
  <2>3. QED
    BY <1>1, <1>2, <1>9, <2>1, <2>2, Zenon DEF IosInv, CallRecords, Values
<1>11. \A d \in Proxy \ {e} : Ios!undelivered(d)' = Ios!undelivered(d)
  BY <1>6, <1>9 DEF Ios!undelivered
<1>12. Ios!behind' = Ios!behind
  BY <1>1 DEF Ios!behind, Ios!place
<1>13. Ios!undelivered(e)' = IF rest = Null THEN <<>> ELSE from(ns, l - rest + 1)
  BY <1>3, <1>6, <1>9 DEF Ios!undelivered, from, ns
<1>14. CASE n # 0
  <2>1. l - n + 1 \in 1 .. l /\ rest # Null /\ l - rest + 1 = l - n + 1 + 1
    BY <1>3, <1>4, <1>14
  <2>2. s # <<>> /\ Head(s) = l - n + 1 /\ Tail(s) = from(ns, l - n + 1 + 1)
    BY <1>3, <2>1, FromFacts, Zenon
  <2>3. Ios!undelivered(e)' = Tail(s)
    BY <1>13, <2>1, <2>2
  <2>4. iAnswer' = [to |-> to, value |-> l - n + 1]
    BY <1>7, <1>14, Zenon
  <2> HIDE DEF s
  <2>5. Ios!Abstract!take(to, e, s)
    BY <1>5, <1>6, <1>11, <1>12, <2>2, <2>3, <2>4, Zenon
       DEF Ios!Abstract!take, Ios!Abstract!keeps, Ios!Cursors
  <2>6. QED
    BY <1>3, <1>10, <2>5, Zenon DEF s, ns, Ios!Abstract!take
<1>15. CASE n = 0
  <2>1. s = <<>>
    BY <1>3, <1>15, FromEnds
  <2>2. Ios!undelivered(e)' = <<>>
    <3>1. CASE rest = Null
      BY <1>13, <3>1
    <3>2. CASE rest = 0
      BY <1>3, <1>13, <2>1, <1>15, <3>2
    <3>3. QED
      BY <1>15, <3>1, <3>2
  <2>3. iAnswer' = [to |-> to, value |-> Null]
    BY <1>7, <1>15, Zenon
  <2> HIDE DEF s
  <2>4. Ios!Abstract!take(to, e, s)
    BY <1>5, <1>6, <1>11, <1>12, <2>1, <2>2, <2>3, Zenon
       DEF Ios!Abstract!take, Ios!Abstract!keeps, Ios!Cursors
  <2>5. QED
    BY <1>3, <1>10, <2>4, Zenon DEF s, ns, Ios!Abstract!take
<1>16. QED
  BY <1>14, <1>15

\* A call that only reads leaves every cursor where it is.
LEMMA IosLook ==
  ASSUME DataInv, IosInv, NEW v \in Values, UNCHANGED <<chain, entries>>, Ios!look(v)
  PROVE  IosInv' /\ Ios!Abstract!Look
<1>1. /\ UNCHANGED <<entry, at, ber>>
      /\ iAnswer' = [to |-> "other", value |-> v]
  BY DEF Ios!look
<1>2. Positions' = Positions
  BY SameData
<1>3. \A d \in Proxy : Ios!attributes(d)' = Ios!attributes(d) /\ Ios!names(d)' = Ios!names(d)
  BY <1>1, IosKeeps
<1>4. IosInv'
  BY <1>1, <1>2, <1>3 DEF IosInv, CallRecords, Values
<1>5. /\ Ios!behind' = Ios!behind
      /\ \A d \in Proxy : Ios!undelivered(d)' = Ios!undelivered(d)
  BY <1>1, <1>3 DEF Ios!behind, Ios!place, Ios!undelivered
<1>6. QED
  BY <1>1, <1>3, <1>4, <1>5 DEF Ios!Abstract!Look, Ios!Cursors

\* So does nothing at all.
LEMMA IosIdle ==
  ASSUME DataInv, IosInv, UNCHANGED <<chain, entries, entry, at, ber, iAnswer>>
  PROVE  IosInv' /\ Ios!Abstract!Close({})
<1>2. Positions' = Positions
  BY SameData
<1>3. \A d \in Proxy : Ios!attributes(d)' = Ios!attributes(d) /\ Ios!names(d)' = Ios!names(d)
  BY IosKeeps
<1>4. IosInv'
  BY <1>2, <1>3 DEF IosInv, CallRecords, Values
<1>5. /\ Ios!behind' = Ios!behind
      /\ \A d \in Proxy : Ios!undelivered(d)' = Ios!undelivered(d)
  BY <1>3 DEF Ios!behind, Ios!place, Ios!undelivered
<1>6. QED
  BY <1>3, <1>4, <1>5 DEF Ios!Abstract!Close, Ios!Abstract!keeps, Ios!Cursors

\* A release may close cursors and moves none.
LEMMA IosRelease ==
  ASSUME DataInv, IosInv, NEW o \in Object, UNCHANGED <<chain, entries>>, Ios!release(o)
  PROVE  IosInv' /\ \E gone \in SUBSET Ios!Cursors : Ios!Abstract!Close(gone)
<1>1. /\ at' = [e \in Proxy |-> IF e = o THEN 0 ELSE at[e]]
      /\ ber' = [e \in Proxy |-> IF e = o THEN Null ELSE ber[e]]
      /\ entry' \in {0, entry}
      /\ UNCHANGED iAnswer
  BY DEF Ios!release
<1>2. Positions' = Positions
  BY SameData
<1>3. /\ at' \in [Proxy -> Positions] /\ ber' \in [Proxy -> Values]
      /\ \A d \in Proxy \ {o} : at'[d] = at[d] /\ ber'[d] = ber[d]
      /\ o \in Proxy => ber'[o] = Null
  BY <1>1, Zenon DEF IosInv, Positions, Values
<1>4. \A d \in Proxy \ {o} : /\ Ios!attributes(d)' = Ios!attributes(d)
                            /\ Ios!names(d)' = Ios!names(d)
  BY <1>3, IosKeeps, Zenon
<1>5. IosInv'
  BY <1>1, <1>2, <1>3, <1>4 DEF IosInv, CallRecords, Values, Positions
<1>6. /\ entry' = 0 => Ios!behind' = <<>>
      /\ entry' = entry => Ios!behind' = Ios!behind
  <2>1. entry' = 0 => Ios!behind' = <<>>
    BY DEF Ios!behind
  <2>2. ASSUME entry' = entry PROVE Ios!behind' = Ios!behind
    <3>1. Ios!place' = Ios!place
      BY <2>2, Zenon DEF Ios!place
    <3>2. QED
      BY <2>2, <3>1 DEF Ios!behind
  <2>3. QED
    BY <2>1, <2>2
<1>7. /\ \A d \in Proxy \ {o} : Ios!undelivered(d)' = Ios!undelivered(d)
      /\ o \in Proxy => Ios!undelivered(o)' = <<>>
  BY <1>3, <1>4 DEF Ios!undelivered
<1> DEFINE closed == {c \in Ios!Cursors : IF c = "result" THEN entry' # entry ELSE c = o}
<1>8. PICK gone \in SUBSET Ios!Cursors : gone = closed
  <2>1. closed \in SUBSET Ios!Cursors
    OBVIOUS
  <2> HIDE DEF closed
  <2>2. QED
    BY <2>1
<1>9. "result" \notin Proxy
  BY CursorAssumption, Zenon
<1>10. Ios!Abstract!Close(gone)
  BY <1>1, <1>4, <1>6, <1>7, <1>8, <1>9
     DEF Ios!Abstract!Close, Ios!Abstract!keeps, Ios!Cursors
<1>11. QED
  BY <1>5, <1>10

\* A call to the library has its effect or leaves everything alone.
LEMMA IosCalls ==
  ASSUME Next
  PROVE  /\ UNCHANGED <<chain, entries>>
         /\ \/ UNCHANGED <<entry, at, ber, iAnswer>>
            \/ \E e \in Proxy :
                 \/ Ios!handOut("first", e, Ios!ldap_next_entry(0))
                 \/ entry # 0 /\ Ios!handOut("next", e, Ios!ldap_next_entry(entry))
                 \/ LET n == Len(Ios!attributes(e)) IN
                    Ios!name("first", e, n, IF n = 0 THEN Null ELSE n - 1)
                 \/ ber[e] # Null /\ Ios!name("next", e, ber[e], IF ber[e] = 0 THEN 0 ELSE ber[e] - 1)
                 \/ Ios!look(at[e])
                 \/ \E a \in 1 .. 3 :
                      LET n == IF a \in DOMAIN Ios!attributes(e) THEN Ios!attributes(e)[a] ELSE 0 IN
                      Ios!look(IF n = 0 THEN Null ELSE n)
            \/ Ios!look(Cardinality(Ios!entriesAfter(0)))
            \/ \E o \in Object : Ios!release(o)
<1>1. CASE alone
  <2>1. UNCHANGED <<entry, at, ber, iAnswer>>
    BY <1>1, Zenon DEF Next, firstEntry, nextEntry, firstAttribute, nextAttribute, getDn, getValues,
                countEntries, drop, disconnect, connect, both, iosVars
  <2>2. UNCHANGED <<chain, entries>>
    BY DEF Next, firstEntry, nextEntry, firstAttribute, nextAttribute, getDn, getValues,
           countEntries, drop, disconnect, connect, both, onConnection,
           Android!firstEntry, Android!nextEntry, Android!handOut, Android!firstAttribute,
           Android!nextAttribute, Android!name, Android!getDn, Android!getValues,
           Android!countEntries, Android!look, Android!data
  <2>3. QED
    BY <2>1, <2>2, ZenonT(30)
<1>2. CASE ~alone
  <2>1. ASSUME NEW e \in Proxy, firstEntry(e) \/ nextEntry(e)
        PROVE  /\ UNCHANGED <<chain, entries>>
               /\ \/ UNCHANGED <<entry, at, ber, iAnswer>>
                  \/ Ios!handOut("first", e, Ios!ldap_next_entry(0))
                  \/ entry # 0 /\ Ios!handOut("next", e, Ios!ldap_next_entry(entry))
    BY <1>2, <2>1, Zenon DEF firstEntry, nextEntry, both, Ios!firstEntry, Ios!nextEntry, Ios!call, Ios!data
  <2>2. ASSUME NEW e \in Proxy, firstAttribute(e) \/ nextAttribute(e)
        PROVE  /\ UNCHANGED <<chain, entries>>
               /\ \/ UNCHANGED <<entry, at, ber, iAnswer>>
                  \/ LET n == Len(Ios!attributes(e)) IN
                     Ios!name("first", e, n, IF n = 0 THEN Null ELSE n - 1)
                  \/ ber[e] # Null /\ Ios!name("next", e, ber[e], IF ber[e] = 0 THEN 0 ELSE ber[e] - 1)
    BY <1>2, <2>2
       DEF firstAttribute, nextAttribute, both, Ios!firstAttribute, Ios!nextAttribute, Ios!call, Ios!data
  <2>3. ASSUME NEW e \in Proxy, getDn(e)
        PROVE  UNCHANGED <<chain, entries>> /\ (UNCHANGED <<entry, at, ber, iAnswer>> \/ Ios!look(at[e]))
    BY <1>2, <2>3, Zenon DEF getDn, both, Ios!getDn, Ios!call, Ios!data
  <2>4. ASSUME NEW e \in Proxy, NEW a \in 1 .. 3, getValues(e, a)
        PROVE  /\ UNCHANGED <<chain, entries>>
               /\ \/ UNCHANGED <<entry, at, ber, iAnswer>>
                  \/ LET n == IF a \in DOMAIN Ios!attributes(e) THEN Ios!attributes(e)[a] ELSE 0 IN
                     Ios!look(IF n = 0 THEN Null ELSE n)
    BY <1>2, <2>4 DEF getValues, both, Ios!getValues, Ios!call, Ios!data
  <2>5. ASSUME countEntries
        PROVE  /\ UNCHANGED <<chain, entries>>
               /\ \/ UNCHANGED <<entry, at, ber, iAnswer>>
                  \/ Ios!look(Cardinality(Ios!entriesAfter(0)))
    <3>1. Ios!countEntries
      BY <1>2, <2>5 DEF countEntries, both
    <3>2. \/ Ios!look(Cardinality(Ios!entriesAfter(0))) /\ UNCHANGED <<Ios!data, handle, freed, aborted>>
          \/ UNCHANGED <<Ios!data, entry, at, ber, Ios!memory, iAnswer>>
      BY <3>1, Zenon DEF Ios!Cardinality, Cardinality, Ios!countEntries, Ios!call
    <3>3. QED
      BY <3>2 DEF Ios!data
  <2>6. ASSUME NEW o \in Object, drop(o)
        PROVE  UNCHANGED <<chain, entries>> /\ Ios!release(o)
    BY <1>2, <2>6 DEF drop, both
  <2>7. ASSUME disconnect \/ connect
        PROVE  UNCHANGED <<chain, entries, entry, at, ber, iAnswer>>
    BY <1>2, <2>7 DEF disconnect, connect, onConnection, both, Ios!disconnect, Ios!connect, Ios!setHandle
  <2>8. QED
    BY <2>1, <2>2, <2>3, <2>4, <2>5, <2>6, <2>7, Zenon DEF Next
<1>3. QED
  BY <1>1, <1>2, ZenonT(30)

\* ldap_count_entries counts what Java's list has.
LEMMA CountOfEntries ==
  ASSUME DataInv
  PROVE  Cardinality(Ios!entriesAfter(0)) = Len(entries) /\ Len(entries) \in Nat
<1>1. Ios!entriesAfter(0) = EntryAt
  BY DEF Ios!entriesAfter, EntryAt, DataInv
<1>2. QED
  BY <1>1 DEF DataInv, EntriesCounted, Lists

\* Every step of the script is a step of the abstract cursors on iOS.
LEMMA IosNext ==
  ASSUME DataInv, IosInv, Next
  PROVE  IosInv' /\ Ios!Abstract!Next
<1>1. UNCHANGED <<chain, entries>>
  BY IosCalls
<1>2. /\ Len(entries) \in Nat /\ Null \notin Nat /\ entries \in Seq(Nat)
      /\ "result" \in Ios!Cursors /\ Proxy \subseteq Ios!Cursors /\ "result" \notin Proxy
  BY CursorAssumption DEF DataInv, Lists, EntryAt, Ios!Cursors
<1>3. \A e \in Proxy :
        /\ Ios!attributes(e) \in Seq(Nat) /\ Len(Ios!attributes(e)) \in Nat
        /\ Ios!names(e) \in Seq(Nat) /\ Len(Ios!names(e)) = Len(Ios!attributes(e))
  BY IosNames
<1>4. CASE UNCHANGED <<entry, at, ber, iAnswer>>
  <2>1. IosInv' /\ Ios!Abstract!Close({})
    BY <1>1, <1>4, IosIdle
  <2>2. QED
    BY <2>1 DEF Ios!Abstract!Next
<1>5. ASSUME NEW e \in Proxy, Ios!handOut("first", e, Ios!ldap_next_entry(0))
      PROVE  IosInv' /\ Ios!Abstract!Next
  <2>1. PICK k \in 0 .. Len(entries) : k = 0
    BY <1>2
  <2>2. PICK i : i = Ios!ldap_next_entry(0)
    OBVIOUS
  <2>3. PICK to \in {"first", "next"} : to = "first"
    OBVIOUS
  <2>4. i = IF k = Len(entries) THEN 0 ELSE entries[k + 1]
    BY <2>1, <2>2, EntryBehind, Zenon
  <2>5. Ios!handOut(to, e, i)
    BY <1>5, <2>2, <2>3 DEF Ios!handOut
  <2>6. IosInv' /\ Ios!Abstract!take(to, "result", from(entries, k + 1))
    BY <1>1, <2>4, <2>5, IosHandOut, Zenon
  <2>7. from(entries, k + 1) = entries
    BY <1>2, <2>1, FromEnds, SMTT(30)
  <2>8. Ios!Abstract!First("result")
    BY <1>2, <2>3, <2>6, <2>7, Zenon DEF Ios!Abstract!First, Ios!Abstract!take
  <2>9. QED
    BY <1>2, <2>6, <2>8 DEF Ios!Abstract!Next
<1>6. ASSUME NEW e \in Proxy, entry # 0, Ios!handOut("next", e, Ios!ldap_next_entry(entry))
      PROVE  IosInv' /\ Ios!Abstract!Next
  <2>1. PICK k \in 0 .. Len(entries) : entry = IF k = 0 THEN 0 ELSE entries[k]
    BY IosEntry
  <2>2. PICK i : i = Ios!ldap_next_entry(entry)
    OBVIOUS
  <2>3. PICK to \in {"first", "next"} : to = "next"
    OBVIOUS
  <2>4. i = IF k = Len(entries) THEN 0 ELSE entries[k + 1]
    BY <2>1, <2>2, EntryBehind, Zenon
  <2>5. Ios!handOut(to, e, i)
    BY <1>6, <2>2, <2>3, Zenon DEF Ios!handOut
  <2>6. IosInv' /\ Ios!Abstract!take(to, "result", from(entries, k + 1))
    BY <1>1, <2>4, <2>5, IosHandOut, Zenon
  <2>7. from(entries, k + 1) = Ios!behind
    <3>1. k \in 1 .. Len(entries) /\ entry = entries[k]
      BY <1>2, <1>6, <2>1
    <3>2. EntryAt \subseteq Nat /\ Lists(entries, EntryAt)
      BY DEF DataInv, EntryAt
    <3>3. (CHOOSE j \in DOMAIN entries : entries[j] = entries[k]) = k
      BY <3>1, <3>2, OnePlace, Zenon
    <3>4. QED
      BY <1>6, <3>1, <3>3, Zenon DEF Ios!behind, Ios!place, from
  <2>8. Ios!Abstract!Following("result")
    BY <1>2, <2>3, <2>6, <2>7, Zenon DEF Ios!Abstract!Following, Ios!Abstract!take
  <2>9. QED
    BY <1>2, <2>6, <2>8 DEF Ios!Abstract!Next
<1>7. ASSUME NEW e \in Proxy, NEW n, n = Len(Ios!attributes(e)),
             Ios!name("first", e, n, IF n = 0 THEN Null ELSE n - 1)
      PROVE  IosInv' /\ Ios!Abstract!Next
  <2>1. n \in 0 .. Len(Ios!attributes(e)) /\ Len(Ios!names(e)) = n /\ n \in Nat
    BY <1>3, <1>7
  <2>2. PICK rest : rest = IF n = 0 THEN Null ELSE n - 1
    OBVIOUS
  <2>3. PICK to \in {"first", "next"} : to = "first"
    OBVIOUS
  <2>4. IF n = 0 THEN rest \in {0, Null} ELSE rest = n - 1
    BY <2>2
  <2>5. Ios!name(to, e, n, rest)
    BY <1>7, <2>2, <2>3 DEF Ios!name
  <2>6. IosInv' /\ Ios!Abstract!take(to, e, from(Ios!names(e), Len(Ios!names(e)) - n + 1))
    BY <1>1, <2>1, <2>4, <2>5, IosName, Zenon
  <2>7. from(Ios!names(e), Len(Ios!names(e)) - n + 1) = Ios!names(e)
    <3>1. Len(Ios!names(e)) - n + 1 = 1
      BY <2>1
    <3>2. QED
      BY <1>3, <3>1, FromEnds
  <2>8. Ios!Abstract!First(e)
    BY <1>2, <2>3, <2>6, <2>7, Zenon DEF Ios!Abstract!First, Ios!Abstract!take
  <2>9. QED
    BY <1>2, <2>6, <2>8 DEF Ios!Abstract!Next
<1>8. ASSUME NEW e \in Proxy, ber[e] # Null,
             Ios!name("next", e, ber[e], IF ber[e] = 0 THEN 0 ELSE ber[e] - 1)
      PROVE  IosInv' /\ Ios!Abstract!Next
  <2>1. PICK n \in 0 .. Len(Ios!attributes(e)) : n = ber[e]
    BY <1>8 DEF IosInv
  <2>2. PICK rest : rest = IF n = 0 THEN 0 ELSE n - 1
    OBVIOUS
  <2>3. PICK to \in {"first", "next"} : to = "next"
    OBVIOUS
  <2>4. IF n = 0 THEN rest \in {0, Null} ELSE rest = n - 1
    BY <2>2
  <2>5. Ios!name(to, e, n, rest)
    BY <1>8, <2>1, <2>2, <2>3 DEF Ios!name
  <2>6. IosInv' /\ Ios!Abstract!take(to, e, from(Ios!names(e), Len(Ios!names(e)) - n + 1))
    BY <1>1, <2>4, <2>5, IosName, Zenon
  <2>7. from(Ios!names(e), Len(Ios!names(e)) - n + 1) = Ios!undelivered(e)
    BY <1>8, <2>1, Zenon DEF from, Ios!undelivered
  <2>8. Ios!Abstract!Following(e)
    BY <1>2, <2>3, <2>6, <2>7, Zenon DEF Ios!Abstract!Following, Ios!Abstract!take
  <2>9. QED
    BY <1>2, <2>6, <2>8 DEF Ios!Abstract!Next
<1>9. ASSUME NEW v \in Values, Ios!look(v)
      PROVE  IosInv' /\ Ios!Abstract!Next
  BY <1>1, <1>9, IosLook DEF Ios!Abstract!Next
<1>10. ASSUME NEW e \in Proxy, Ios!look(at[e])
       PROVE  IosInv' /\ Ios!Abstract!Next
  <2>0. at[e] \in Nat
    BY DEF IosInv, Positions, EntryAt, DataInv
  <2>1. PICK v \in Values : v = at[e]
    BY <2>0 DEF Values
  <2>2. Ios!look(v)
    BY <1>10, <2>1 DEF Ios!look
  <2>3. QED
    BY <1>9, <2>2, Zenon
<1>11. ASSUME NEW e \in Proxy, NEW a \in 1 .. 3,
              LET n == IF a \in DOMAIN Ios!attributes(e) THEN Ios!attributes(e)[a] ELSE 0 IN
              Ios!look(IF n = 0 THEN Null ELSE n)
       PROVE  IosInv' /\ Ios!Abstract!Next
  <2> DEFINE al == Ios!attributes(e)
             n == IF a \in DOMAIN al THEN al[a] ELSE 0
  <2>1. Ios!look(IF n = 0 THEN Null ELSE n)
    BY <1>11
  <2>2. al \in Seq(Nat)
    BY <1>3
  <2> HIDE DEF al
  <2>3. n \in Nat
    BY <2>2
  <2> HIDE DEF n
  <2>4. PICK v \in Values : v = IF n = 0 THEN Null ELSE n
    BY <2>3, Zenon DEF Values
  <2>5. Ios!look(v)
    BY <2>1, <2>4 DEF Ios!look
  <2>6. QED
    BY <1>9, <2>5
<1>12. ASSUME Ios!look(Cardinality(Ios!entriesAfter(0)))
       PROVE  IosInv' /\ Ios!Abstract!Next
  <2>1. PICK v \in Values : v = Cardinality(Ios!entriesAfter(0))
    BY CountOfEntries DEF Values
  <2>2. Ios!look(v)
    BY <1>12, <2>1 DEF Ios!look
  <2>3. QED
    BY <1>9, <2>2
<1>13. ASSUME NEW o \in Object, Ios!release(o)
       PROVE  IosInv' /\ Ios!Abstract!Next
  BY <1>1, <1>13, IosRelease DEF Ios!Abstract!Next
<1>14. QED
  BY <1>4, <1>5, <1>6, <1>7, <1>8, <1>10, <1>11, <1>12, <1>13, IosCalls, ZenonT(30)

-------------------------------------------------------------------------------
(* Both platforms together. *)

\* How many entries the script holds, and one more or one less.
Counting ==
  \A h :
    /\ h \cap Proxy = {} => Cardinality(h \cap Proxy) = 0
    /\ Cardinality(h \cap Proxy) \in Nat
    /\ \A e \in Proxy :
         /\ e \notin h => Cardinality((h \cup {e}) \cap Proxy) = Cardinality(h \cap Proxy) + 1
         /\ e \in h => /\ Cardinality(h \cap Proxy) > 0
                       /\ Cardinality((h \ {e}) \cap Proxy) = Cardinality(h \cap Proxy) - 1

\* What both platforms have in common while neither has stopped.
Agree == SamePlace /\ Counted /\ MemoryInv

LEMMA NextIndex ==
  ASSUME NEW k \in Nat, NEW n \in Nat, k <= n, k # n PROVE k + 1 \in 1 .. n
OBVIOUS

LEMMA OneLess ==
  ASSUME NEW c \in Nat, c > 0, c # 1 PROVE c - 1 > 0
OBVIOUS

LEMMA OneMore ==
  ASSUME NEW c \in Nat PROVE c + 1 \in Nat /\ 1 \in Nat
OBVIOUS

\* Handing out an entry: the same entry, one more retain of the result.
LEMMA TogetherHandOut ==
  ASSUME Counting, DataInv, AndroidInv, IosInv, Agree, NEW e \in Proxy, handsOut(e),
         NEW to, NEW k \in 0 .. Len(entries),
         NEW i, i = IF k = Len(entries) THEN 0 ELSE entries[k + 1],
         UNCHANGED <<chain, entries, handle, freed, aborted>>,
         Android!handOut(to, e, k + 1), Ios!handOut(to, e, i)
  PROVE  Agree' /\ SameAnswers' /\ (held \subseteq Object => held' \subseteq Object)
<1>1. /\ Len(entries) \in Nat /\ Null \notin Nat
      /\ \A j \in 1 .. Len(entries) : entries[j] \in Nat \ {0}
  BY CursorAssumption DEF DataInv, Lists, EntryAt
<1>2. k \in Nat /\ k + 1 # Null /\ k <= Len(entries)
  BY <1>1
<1>3. /\ e \in Object /\ "result" \in Object /\ "connection" \in Object
      /\ "result" \notin Proxy /\ "connection" \notin Proxy /\ e # "result" /\ e # "connection"
  BY CursorAssumption, Zenon DEF Object
<1>4. "result" \in held /\ e \notin held
  BY DEF handsOut
<1>5. CASE k # Len(entries)
  <2>1. i = entries[k + 1] /\ i \in Nat \ {0} /\ i # Null /\ k + 1 \in 1 .. Len(entries)
    <3>1. k + 1 \in 1 .. Len(entries)
      BY <1>1, <1>2, <1>5, NextIndex, Zenon
    <3>2. i = entries[k + 1]
      BY <1>5, Zenon
    <3>3. QED
      BY <1>1, <3>1, <3>2, Zenon
  <2>2. /\ iterator' = k + 1 + 1
        /\ aAnswer' = [to |-> to, value |-> i]
        /\ aEntry' = [aEntry EXCEPT ![e] = i]
        /\ aAttrs' = [aAttrs EXCEPT ![e] = Null]
    BY <1>2, <2>1, SMTT(30) DEF Android!handOut, Android!hasNext
  <2>3. /\ entry' = i
        /\ iAnswer' = [to |-> to, value |-> i]
        /\ at' = [at EXCEPT ![e] = i]
        /\ ber' = [ber EXCEPT ![e] = Null]
        /\ retains' = [retains EXCEPT ![e] = 1, !["result"] = @ + 1]
    BY <2>1, Zenon DEF Ios!handOut
  <2>4. SameAnswers'
    BY <2>2, <2>3, Zenon DEF SameAnswers
  <2>5. held' = held \cup {e}
    BY <2>1, <2>2, <2>3, Zenon DEF handsOut
  <2>6. /\ aAttrs'[e] = Null /\ ber'[e] = Null
        /\ \A d \in Proxy \ {e} : aAttrs'[d] = aAttrs[d] /\ ber'[d] = ber[d] /\ at'[d] = at[d]
    BY <2>2, <2>3, Zenon DEF AndroidInv, IosInv
  <2>7. \A d \in Proxy \ {e} : Ios!attributes(d)' = Ios!attributes(d)
    BY <2>6, IosKeeps, Zenon
  <2>8. SamePlace'
    <3>1. at' = aEntry'
      BY <2>2, <2>3, Zenon DEF Agree, SamePlace
    <3>2. k + 1 \in 1 .. Len(entries)' /\ entry' = entries'[k + 1] /\ iterator' = k + 1 + 1
      BY <2>1, <2>2, <2>3, Zenon
    <3>3. \E j \in 1 .. Len(entries') : entry' = entries'[j] /\ iterator' = j + 1
      BY <3>2, Zenon
    <3>4. ASSUME NEW d \in Proxy \ {e}
          PROVE  \/ ber'[d] = Null /\ (aAttrs'[d] = Null \/ Len(Ios!attributes(d)') = 0)
                 \/ ber'[d] # Null /\ aAttrs'[d] # Null /\ aAttrs'[d] + ber'[d] = Len(Ios!attributes(d)') + 1
      BY <2>6, <2>7, Zenon DEF Agree, SamePlace
    <3>5. QED
      BY <2>6, <3>1, <3>3, <3>4, Zenon DEF SamePlace
  <2>9. /\ retains' \in [Object -> Nat] /\ retains'[e] = 1
        /\ retains'["result"] = retains["result"] + 1
        /\ retains'["connection"] = retains["connection"]
        /\ \A d \in Proxy \ {e} : retains'[d] = retains[d]
        /\ retains["result"] \in Nat /\ retains["connection"] \in Nat
    <3>1. retains \in [Object -> Nat]
      BY Zenon DEF Agree, MemoryInv
    <3>2. retains["result"] \in Nat /\ retains["connection"] \in Nat
      BY <1>3, <3>1, Zenon
    <3>3. retains["result"] + 1 \in Nat /\ 1 \in Nat
      BY <3>2, OneMore, Zenon
    <3>4. retains' \in [Object -> Nat]
      BY <1>3, <2>3, <3>1, <3>3, Zenon
    <3>5. /\ retains'[e] = 1 /\ retains'["result"] = retains["result"] + 1
          /\ retains'["connection"] = retains["connection"]
      BY <1>3, <2>3, <3>1, Zenon
    <3>6. \A d \in Proxy \ {e} : retains'[d] = retains[d]
      BY <1>3, <2>3, <3>1, Zenon DEF Object
    <3>7. QED
      BY <3>2, <3>4, <3>5, <3>6, Zenon
  <2>10. /\ Cardinality(held' \cap Proxy) = Cardinality(held \cap Proxy) + 1
         /\ Cardinality(held \cap Proxy) \in Nat
    BY <1>4, <2>5, Zenon DEF Counting
  <2>11. retains["result"] > 0
    BY <1>4, <2>10 DEF Agree, Counted, bit
  <2>12. Counted'
    <3>1. retains'["result"] = bit("result" \in held') + Cardinality(held' \cap Proxy)
      BY <1>3, <2>5, <2>9, <2>10, SMTT(30) DEF Agree, Counted, bit
    <3>2. retains'["connection"] = bit("connection" \in held') + bit(retains'["result"] > 0)
      BY <1>3, <2>5, <2>9, <2>11, SMTT(30) DEF Agree, Counted, bit
    <3>3. \A d \in Proxy : retains'[d] = bit(d \in held')
      BY <2>5, <2>9, Zenon DEF Agree, Counted, bit
    <3>4. freed' <=> retains'["result"] = 0
      BY <2>9, <2>11 DEF Agree, Counted
    <3>5. QED
      BY <3>1, <3>2, <3>3, <3>4, Zenon DEF Counted, bit
  <2>13. MemoryInv'
    <3>1. ~freed /\ retains["connection"] > 0 /\ retains'["result"] > 0
      BY <2>9, <2>11 DEF Agree, MemoryInv, Counted
    <3>2. handle' \in BOOLEAN /\ freed' \in BOOLEAN /\ aborted' \in BOOLEAN
      BY DEF Agree, MemoryInv
    <3>3. QED
      BY <2>9, <3>1, <3>2, Zenon DEF MemoryInv
  <2>14. QED
    BY <1>3, <2>4, <2>5, <2>8, <2>12, <2>13, Zenon DEF Agree, Object
<1>6. CASE k = Len(entries)
  <2>1. iterator' = k + 1 /\ aAnswer' = [to |-> to, value |-> Null] /\ UNCHANGED <<aEntry, aAttrs>>
    BY <1>2, <1>6, SMTT(30) DEF Android!handOut, Android!hasNext
  <2>2. /\ entry' = 0 /\ iAnswer' = [to |-> to, value |-> Null]
        /\ UNCHANGED <<at, ber, retains>>
    BY <1>6, Zenon DEF Ios!handOut
  <2>3. held' = held /\ SameAnswers'
    BY <2>1, <2>2, Zenon DEF handsOut, SameAnswers
  <2>4. \A d \in Proxy : Ios!attributes(d)' = Ios!attributes(d)
    BY <2>2, IosKeeps
  <2>5. SamePlace'
    BY <1>6, <2>1, <2>2, <2>4, Zenon DEF Agree, SamePlace
  <2>6. Counted' /\ MemoryInv'
    BY <2>2, <2>3, Zenon DEF Agree, Counted, MemoryInv, bit
  <2>7. QED
    BY <2>3, <2>5, <2>6, Zenon DEF Agree
<1>7. QED
  BY <1>5, <1>6, Zenon

\* Both platforms read the attributes of the same entry.
LEMMA SameAttributes ==
  ASSUME SamePlace, NEW e
  PROVE  Android!attributes(e) = Ios!attributes(e)
BY DEF SamePlace, Android!attributes, Ios!attributes

\* A call that retains and releases nothing keeps the counts.
LEMMA MemoryKept ==
  ASSUME Counted, MemoryInv, UNCHANGED <<held, retains, handle, freed, aborted>>
  PROVE  Counted' /\ MemoryInv'
BY DEF Counted, MemoryInv, bit

\* Handing out a name: the same name, and the sum of both places stays.
LEMMA TogetherName ==
  ASSUME DataInv, AndroidInv, IosInv, Agree, NEW e \in Proxy, NEW to,
         NEW l, l = Len(Ios!attributes(e)), NEW n \in 0 .. l,
         NEW rest, IF n = 0 THEN rest = 0 \/ (rest = Null /\ l = 0) ELSE rest = n - 1,
         UNCHANGED <<chain, entries, held, handle, freed, aborted>>,
         Android!name(to, e, l - n + 1), Ios!name(to, e, n, rest)
  PROVE  Agree' /\ SameAnswers'
<1>1. l \in Nat /\ Null \notin Nat /\ n \in Nat /\ n <= l
  BY CursorAssumption, IosNames
<1> DEFINE next == l - n + 1
<1>2. PICK i \in Nat : i = next /\ i + n = l + 1
  <2>1. next \in Nat /\ next + n = l + 1
    BY <1>1
  <2> HIDE DEF next
  <2>2. QED
    BY <2>1
<1>3. Len(Android!attributes(e)) = l
  BY SameAttributes, Zenon DEF Agree
<1>4. UNCHANGED <<entry, at, retains, iterator, aEntry>>
  BY DEF Ios!name, Android!name
<1>5. /\ ber' = [ber EXCEPT ![e] = rest]
      /\ iAnswer'.value = IF n = 0 THEN Null ELSE i
  BY <1>2, Zenon DEF Ios!name
<1>6. /\ aAttrs' = [aAttrs EXCEPT ![e] = IF n = 0 THEN i ELSE i + 1]
      /\ aAnswer'.value = IF n = 0 THEN Null ELSE i
  BY <1>1, <1>2, <1>3 DEF Android!name, Android!hasNext
<1>7. SameAnswers'
  BY <1>5, <1>6, Zenon DEF SameAnswers
<1>8. \A d \in Proxy : Ios!attributes(d)' = Ios!attributes(d)
  BY <1>4, IosKeeps, Zenon
<1>9. /\ ber'[e] = rest /\ aAttrs'[e] = IF n = 0 THEN i ELSE i + 1
      /\ \A d \in Proxy \ {e} : ber'[d] = ber[d] /\ aAttrs'[d] = aAttrs[d]
  BY <1>5, <1>6, Zenon DEF AndroidInv, IosInv
<1>10. SamePlace'
  <2>1. \/ ber'[e] = Null /\ l = 0
        \/ ber'[e] # Null /\ aAttrs'[e] # Null /\ aAttrs'[e] + ber'[e] = l + 1
    BY <1>1, <1>2, <1>9, SMTT(30)
  <2>2. SamePlace
    BY Zenon DEF Agree
  <2>3. /\ at' = aEntry'
        /\ "result" \in held' =>
             \/ entry' = 0 /\ iterator' \in {Null, Len(entries') + 1}
             \/ \E k \in 1 .. Len(entries') : entry' = entries'[k] /\ iterator' = k + 1
    BY <1>4, <2>2, Zenon DEF SamePlace
  <2>4. ASSUME NEW d \in Proxy
        PROVE  \/ ber'[d] = Null /\ (aAttrs'[d] = Null \/ Len(Ios!attributes(d)') = 0)
               \/ ber'[d] # Null /\ aAttrs'[d] # Null /\ aAttrs'[d] + ber'[d] = Len(Ios!attributes(d)') + 1
    <3>1. CASE d = e
      BY <1>8, <2>1, <3>1, Zenon
    <3>2. CASE d # e
      BY <1>8, <1>9, <2>2, <3>2, Zenon DEF SamePlace
    <3>3. QED
      BY <3>1, <3>2, Zenon
  <2>5. QED
    BY <2>3, <2>4, Zenon DEF SamePlace
<1>11. Counted' /\ MemoryInv'
  BY <1>4, MemoryKept, Zenon DEF Agree
<1>12. QED
  BY <1>7, <1>10, <1>11, Zenon DEF Agree

\* Reading: the same answer, or 0 on Android and null on iOS.
LEMMA TogetherLook ==
  ASSUME Agree, NEW v, NEW w, v = w \/ (v = 0 /\ w = Null),
         UNCHANGED <<chain, entries, held, handle, freed, aborted>>,
         Android!look(v), Ios!look(w)
  PROVE  Agree' /\ SameAnswers'
<1>1. UNCHANGED <<entry, at, ber, retains, iterator, aEntry, aAttrs>>
  BY DEF Ios!look, Android!look
<1>2. aAnswer'.value = v /\ iAnswer'.value = w
  BY DEF Ios!look, Android!look
<1>3. \A d \in Proxy : Ios!attributes(d)' = Ios!attributes(d)
  BY <1>1, IosKeeps, Zenon
<1>4. SamePlace'
  BY <1>1, <1>3 DEF Agree, SamePlace
<1>5. Counted' /\ MemoryInv'
  BY <1>1, MemoryKept, Zenon DEF Agree
<1>6. QED
  BY <1>2, <1>4, <1>5, Zenon DEF Agree, SameAnswers

\* A session is closed or opened.
LEMMA TogetherHandle ==
  ASSUME Agree, "connection" \in held, UNCHANGED <<chain, entries, held, androidVars>>,
         NEW live \in BOOLEAN, Ios!setHandle(live)
  PROVE  Agree' /\ (SameAnswers /\ ~alone /\ UNCHANGED alone => SameAnswers')
<1>1. /\ UNCHANGED <<entry, at, ber, retains, freed, aborted, iAnswer>>
      /\ UNCHANGED <<iterator, aEntry, aAttrs, aAnswer>>
      /\ handle' = live /\ ~aborted
  BY DEF Ios!setHandle, androidVars
<1>2. \A d \in Proxy : Ios!attributes(d)' = Ios!attributes(d)
  BY <1>1, IosKeeps, Zenon
<1>3. SamePlace'
  BY <1>1, <1>2, Zenon DEF Agree, SamePlace
<1>4. Counted'
  BY <1>1 DEF Agree, Counted, bit
<1>5. retains["connection"] > 0
  BY DEF Agree, Counted, bit
<1>6. MemoryInv'
  <2>1. handle' \in BOOLEAN /\ freed' \in BOOLEAN /\ aborted' \in BOOLEAN
    BY <1>1, Zenon DEF Agree, MemoryInv
  <2>2. QED
    BY <1>1, <1>5, <2>1, Zenon DEF Agree, MemoryInv
<1>7. QED
  BY <1>1, <1>3, <1>4, <1>6, Zenon DEF Agree, SameAnswers

\* Dropping an object: the counts follow what the script still holds.
LEMMA TogetherRelease ==
  ASSUME Counting, AndroidInv, IosInv, Agree, held \subseteq Object, NEW o \in held,
         held' = held \ {o}, UNCHANGED <<chain, entries>>,
         IF o \in Proxy THEN Android!collect(o) ELSE UNCHANGED androidVars,
         Ios!release(o)
  PROVE  Agree' /\ (SameAnswers /\ ~alone /\ UNCHANGED alone => SameAnswers')
<1> DEFINE r == retains["result"]
           c == retains["connection"]
           m == Cardinality(held \cap Proxy)
           result == o # "connection"
           last == result /\ r = 1
           connection == o = "connection" \/ last
<1>1. /\ "result" \notin Proxy /\ "connection" \notin Proxy /\ o \in Object
      /\ "result" \in Object /\ "connection" \in Object /\ Proxy \subseteq Object
      /\ o \in Proxy \/ o = "result" \/ o = "connection"
  BY CursorAssumption, Zenon DEF Object
<1>2. /\ r = bit("result" \in held) + m
      /\ c = bit("connection" \in held) + bit(r > 0)
      /\ \A e \in Proxy : retains[e] = bit(e \in held)
      /\ freed <=> r = 0
      /\ retains \in [Object -> Nat]
      /\ handle \in BOOLEAN /\ freed \in BOOLEAN /\ aborted \in BOOLEAN
  BY Zenon DEF Agree, Counted, MemoryInv
<1>3. m \in Nat /\ (o \in Proxy => m > 0 /\ Cardinality(held' \cap Proxy) = m - 1)
  <2>1. CASE o \in Proxy
    BY <2>1, Zenon DEF Counting
  <2>2. CASE o \notin Proxy
    BY <2>2 DEF Counting
  <2>3. QED
    BY <2>1, <2>2, Zenon
<1>4. o \notin Proxy => Cardinality(held' \cap Proxy) = m
  <2>1. o \notin Proxy => held' \cap Proxy = held \cap Proxy
    BY Zenon
  <2>2. QED
    BY <2>1
<1> HIDE DEF m
<1>5. result => r > 0
  BY <1>1, <1>2, <1>3, SMTT(30) DEF bit
<1>6. o \in Proxy => retains[o] = 1
  BY <1>2 DEF bit
<1>7. result <=> o = "result" \/ (o \in Proxy /\ retains[o] = 1)
  BY <1>1, <1>6, Zenon
<1>8. /\ \A x \in Object : retains'[x] =
            IF x = o \/ (x = "result" /\ result) \/ (x = "connection" /\ connection)
            THEN retains[x] - 1 ELSE retains[x]
      /\ retains' = [x \in Object |-> retains'[x]]
      /\ at' = [e \in Proxy |-> IF e = o THEN 0 ELSE at[e]]
      /\ ber' = [e \in Proxy |-> IF e = o THEN Null ELSE ber[e]]
      /\ entry' = IF last THEN 0 ELSE entry
      /\ freed' = (freed \/ last)
      /\ handle' = (handle /\ ~(connection /\ c = 1))
      /\ UNCHANGED <<aborted, iAnswer>> /\ ~aborted
  BY <1>1, <1>7, Zenon DEF Ios!release, Ios!Object, Object
<1>9. /\ retains'["result"] = IF result THEN r - 1 ELSE r
      /\ retains'["connection"] = IF connection THEN c - 1 ELSE c
      /\ \A e \in Proxy : retains'[e] = IF e = o THEN retains[e] - 1 ELSE retains[e]
      /\ r \in Nat /\ c \in Nat
  BY <1>1, <1>2, <1>8, Zenon
<1>10. Counted'
  <2>1. \A e \in Proxy : retains'[e] = bit(e \in held')
    BY <1>2, <1>9, SMTT(30) DEF bit
  <2>2. retains'["result"] = bit("result" \in held') + Cardinality(held' \cap Proxy)
    BY <1>1, <1>2, <1>3, <1>4, <1>9, SMTT(30) DEF bit
  <2>3. retains'["connection"] = bit("connection" \in held') + bit(retains'["result"] > 0)
    <3>1. CASE o = "connection"
      BY <1>1, <1>2, <1>9, <3>1, SMTT(30) DEF bit
    <3>2. CASE o # "connection"
      <4>1. "connection" \in held' <=> "connection" \in held
        BY <3>2, Zenon
      <4>2. retains'["result"] = r - 1 /\ r > 0 /\ c = bit("connection" \in held) + 1
        BY <1>2, <1>5, <1>9, <3>2, Zenon DEF bit
      <4>3. retains'["connection"] = IF r = 1 THEN c - 1 ELSE c
        BY <1>9, <3>2
      <4>4. QED
        BY <1>9, <4>1, <4>2, <4>3, SMTT(30) DEF bit
    <3>3. QED
      BY <3>1, <3>2, Zenon
  <2>4. freed' <=> retains'["result"] = 0
    <3>1. retains'["result"] = 0 <=> r = 0 \/ last
      BY <1>5, <1>9
    <3>2. freed' <=> freed \/ last
      BY <1>8, Zenon
    <3>3. QED
      BY <1>2, <3>1, <3>2, Zenon
  <2>5. QED
    BY <2>1, <2>2, <2>3, <2>4, Zenon DEF Counted, bit
<1>11. MemoryInv'
  <2>1. retains' \in [Object -> Nat]
    <3>1. \A x \in Object : retains'[x] \in Nat
      BY <1>1, <1>2, <1>5, <1>9, SMTT(30) DEF Object, bit
    <3>2. QED
      BY <1>8, <3>1, Zenon
  <2>2. handle' \in BOOLEAN /\ freed' \in BOOLEAN /\ aborted' \in BOOLEAN
    BY <1>2, <1>8, Zenon
  <2>3. \A e \in Proxy : retains'[e] > 0 => retains'["result"] > 0
    <3>1. SUFFICES ASSUME NEW e \in Proxy, retains'[e] > 0 PROVE retains'["result"] > 0
      BY Zenon
    <3>2. e \in held'
      BY <1>10, <3>1 DEF Counted, bit
    <3>3. Cardinality(held' \cap Proxy) > 0 /\ Cardinality(held' \cap Proxy) \in Nat
      BY <3>2, Zenon DEF Counting
    <3>4. \/ retains'["result"] = Cardinality(held' \cap Proxy)
          \/ retains'["result"] = 1 + Cardinality(held' \cap Proxy)
      BY <1>10, <3>3, SMTT(30) DEF Counted, bit
    <3>5. QED
      BY <3>3, <3>4
  <2>4. handle' => retains'["connection"] > 0
    <3>1. handle => c > 0
      BY Zenon DEF Agree, MemoryInv
    <3>2. handle' => handle /\ ~(connection /\ c = 1)
      BY <1>8, Zenon
    <3>3. CASE connection
      BY <1>9, <3>1, <3>2, <3>3, OneLess, Zenon
    <3>4. CASE ~connection
      BY <1>9, <3>1, <3>2, <3>4, Zenon
    <3>5. QED
      BY <3>3, <3>4, Zenon
  <2>5. retains'["result"] > 0 => retains'["connection"] > 0
    BY <1>10, SMTT(30) DEF Counted, bit
  <2>6. QED
    BY <1>10, <2>1, <2>2, <2>3, <2>4, <2>5, ZenonT(30) DEF MemoryInv, Counted
<1>12. /\ aEntry' = [e \in Proxy |-> IF e = o THEN 0 ELSE aEntry[e]]
       /\ aAttrs' = [e \in Proxy |-> IF e = o THEN Null ELSE aAttrs[e]]
       /\ UNCHANGED <<iterator, aAnswer>>
  <2>1. CASE o \in Proxy
    BY <2>1, Zenon DEF Android!collect, AndroidInv
  <2>2. CASE o \notin Proxy
    BY <2>2, Zenon DEF androidVars, AndroidInv
  <2>3. QED
    BY <2>1, <2>2, Zenon
<1>13. SamePlace'
  <2>1. at' = aEntry'
    BY <1>8, <1>12, Zenon DEF Agree, SamePlace
  <2>2. "result" \in held' => ~last
    BY <1>1, <1>2, <1>3 DEF bit
  <2>3. \A d \in Proxy \ {o} : Ios!attributes(d)' = Ios!attributes(d)
    BY <1>8, IosKeeps, Zenon
  <2>4. o \in Proxy => ber'[o] = Null /\ aAttrs'[o] = Null
    BY <1>8, <1>12, Zenon
  <2>5. \A d \in Proxy \ {o} : ber'[d] = ber[d] /\ aAttrs'[d] = aAttrs[d]
    BY <1>8, <1>12, Zenon
  <2>6. "result" \in held' =>
          \/ entry' = 0 /\ iterator' \in {Null, Len(entries') + 1}
          \/ \E k \in 1 .. Len(entries') : entry' = entries'[k] /\ iterator' = k + 1
    BY <1>8, <1>12, <2>2, Zenon DEF Agree, SamePlace
  <2>7. \A d \in Proxy :
          \/ ber'[d] = Null /\ (aAttrs'[d] = Null \/ Len(Ios!attributes(d)') = 0)
          \/ ber'[d] # Null /\ aAttrs'[d] # Null /\ aAttrs'[d] + ber'[d] = Len(Ios!attributes(d)') + 1
    BY <2>3, <2>4, <2>5, Zenon DEF Agree, SamePlace
  <2>8. QED
    BY <2>1, <2>6, <2>7, Zenon DEF SamePlace
<1>14. QED
  BY <1>8, <1>10, <1>11, <1>12, <1>13, Zenon DEF Agree, SameAnswers

\* What the script holds stays inside Object.
LEMMA HeldNext ==
  ASSUME held \subseteq Object, Next
  PROVE  held' \subseteq Object /\ UNCHANGED alone
<1>1. ASSUME NEW e \in Proxy, firstEntry(e) \/ nextEntry(e)
      PROVE  held' \subseteq Object /\ UNCHANGED alone
  BY <1>1 DEF firstEntry, nextEntry, both, handsOut, Object
<1>2. ASSUME NEW o, drop(o)
      PROVE  held' \subseteq Object /\ UNCHANGED alone
  BY <1>2 DEF drop, both
<1>3. QED
  BY <1>1, <1>2, Zenon DEF Next, firstAttribute, nextAttribute, getDn, getValues, onEntry,
     countEntries, disconnect, connect, onConnection, both

\* A call the library answers, on both platforms.
LEMMA TogetherEntry ==
  ASSUME Counting, DataInv, AndroidInv, IosInv, Agree, ~alone, ~aborted', NEW e \in Proxy,
         firstEntry(e) \/ nextEntry(e)
  PROVE  Agree' /\ SameAnswers'
<1>1. Len(entries) \in Nat /\ Null \notin Nat
  BY CursorAssumption DEF DataInv, Lists
<1>2. handsOut(e)
  BY DEF firstEntry, nextEntry
<1>3. CASE firstEntry(e)
  <2>1. /\ Android!handOut("first", e, 1) /\ Ios!handOut("first", e, Ios!ldap_next_entry(0))
        /\ UNCHANGED <<chain, entries, handle, freed, aborted>>
    BY <1>3 DEF firstEntry, both, Android!firstEntry, Ios!firstEntry, Ios!call, Ios!data
  <2>2. PICK k \in 0 .. Len(entries) : k = 0
    BY <1>1
  <2>3. PICK i : i = Ios!ldap_next_entry(0)
    OBVIOUS
  <2>4. PICK to : to = "first"
    OBVIOUS
  <2>5. i = IF k = Len(entries) THEN 0 ELSE entries[k + 1]
    BY <2>2, <2>3, EntryBehind, Zenon
  <2>5a. k + 1 = 1
    BY <2>2
  <2>6. Android!handOut(to, e, k + 1)
    BY <2>1, <2>4, <2>5a, ZenonT(30) DEF Android!handOut
  <2>7. Ios!handOut(to, e, i)
    BY <2>1, <2>3, <2>4, Zenon DEF Ios!handOut
  <2>8. QED
    BY <1>2, <2>1, <2>5, <2>6, <2>7, TogetherHandOut, ZenonT(30)
<1>4. CASE nextEntry(e)
  <2>1. /\ Android!handOut("next", e, iterator) /\ Ios!handOut("next", e, Ios!ldap_next_entry(entry))
        /\ UNCHANGED <<chain, entries, handle, freed, aborted>> /\ entry # 0
    BY <1>4, Zenon DEF nextEntry, both, Android!nextEntry, Ios!nextEntry, Ios!call, Ios!data
  <2>2. PICK k \in 1 .. Len(entries) : entry = entries[k] /\ iterator = k + 1
    BY <1>2, <2>1 DEF Agree, SamePlace, handsOut
  <2>3. PICK i : i = Ios!ldap_next_entry(entry)
    OBVIOUS
  <2>4. PICK to : to = "next"
    OBVIOUS
  <2>5. k \in 0 .. Len(entries) /\ k # 0
    BY <1>1
  <2>6. i = IF k = Len(entries) THEN 0 ELSE entries[k + 1]
    BY <2>2, <2>3, <2>5, EntryBehind
  <2>7. Android!handOut(to, e, k + 1)
    BY <2>1, <2>2, <2>4, ZenonT(30) DEF Android!handOut
  <2>8. Ios!handOut(to, e, i)
    BY <2>1, <2>3, <2>4, Zenon DEF Ios!handOut
  <2>9. QED
    BY <1>2, <2>1, <2>5, <2>6, <2>7, <2>8, TogetherHandOut, ZenonT(30)
<1>5. QED
  BY <1>3, <1>4, Zenon

\* The calls that move through the attributes.
LEMMA TogetherAttribute ==
  ASSUME DataInv, AndroidInv, IosInv, Agree, ~alone, ~aborted', NEW e \in Proxy,
         firstAttribute(e) \/ nextAttribute(e)
  PROVE  Agree' /\ SameAnswers'
<1>1. PICK l \in Nat : l = Len(Ios!attributes(e))
  BY IosNames
<1>2. held' = held
  BY DEF firstAttribute, nextAttribute, onEntry
<1>3. CASE firstAttribute(e)
  <2>1. /\ Android!name("first", e, 1) /\ Ios!name("first", e, l, IF l = 0 THEN Null ELSE l - 1)
        /\ UNCHANGED <<chain, entries, handle, freed, aborted>>
    BY <1>1, <1>3 DEF firstAttribute, both, Android!firstAttribute, Ios!firstAttribute, Ios!call, Ios!data
  <2>2. PICK rest : rest = IF l = 0 THEN Null ELSE l - 1
    OBVIOUS
  <2>3. PICK to : to = "first"
    OBVIOUS
  <2>4. PICK n \in 0 .. l : n = l
    BY <1>1
  <2>5. IF n = 0 THEN rest = 0 \/ (rest = Null /\ l = 0) ELSE rest = n - 1
    BY <2>2, <2>4, Zenon
  <2>6. Android!name(to, e, l - n + 1)
    <3>1. l - n + 1 = 1
      BY <2>4, SMTT(30)
    <3>2. QED
      BY <2>1, <2>3, <3>1 DEF Android!name
  <2>7. Ios!name(to, e, n, rest)
    BY <2>1, <2>2, <2>3, <2>4 DEF Ios!name
  <2>8. QED
    BY <1>1, <1>2, <2>1, <2>5, <2>6, <2>7, TogetherName, Zenon
<1>4. CASE nextAttribute(e)
  <2>1. /\ Android!name("next", e, aAttrs[e])
        /\ Ios!name("next", e, ber[e], IF ber[e] = 0 THEN 0 ELSE ber[e] - 1)
        /\ UNCHANGED <<chain, entries, handle, freed, aborted>> /\ ber[e] # Null
    BY <1>4, Zenon DEF nextAttribute, both, Android!nextAttribute, Ios!nextAttribute, Ios!call, Ios!data
  <2>2. PICK n \in 0 .. l : n = ber[e]
    BY <1>1, <2>1 DEF IosInv
  <2>3. PICK to : to = "next"
    OBVIOUS
  <2>4. PICK rest : rest = IF n = 0 THEN 0 ELSE n - 1
    OBVIOUS
  <2>5. IF n = 0 THEN rest = 0 \/ (rest = Null /\ l = 0) ELSE rest = n - 1
    BY <2>4, Zenon
  <2>6. Android!name(to, e, l - n + 1)
    <3>1. aAttrs[e] # Null /\ aAttrs[e] + n = l + 1
      BY <1>1, <2>1, <2>2, Zenon DEF Agree, SamePlace
    <3>2. aAttrs[e] \in Nat
      BY <3>1 DEF AndroidInv, Values
    <3>3. l - n + 1 = aAttrs[e]
      BY <3>1, <3>2, SMTT(30)
    <3>4. QED
      BY <2>1, <2>3, <3>3, Zenon DEF Android!name
  <2>7. Ios!name(to, e, n, rest)
    BY <2>1, <2>2, <2>3, <2>4, Zenon DEF Ios!name
  <2>8. QED
    BY <1>1, <1>2, <2>1, <2>5, <2>6, <2>7, TogetherName, Zenon
<1>5. QED
  BY <1>3, <1>4

\* The calls that only read.
LEMMA TogetherRead ==
  ASSUME DataInv, AndroidInv, IosInv, Agree, ~alone, ~aborted',
         \/ countEntries
         \/ \E e \in Proxy : getDn(e) \/ \E a \in 1 .. 3 : getValues(e, a)
  PROVE  Agree' /\ SameAnswers'
<1>1. CASE countEntries
  <2>1. Android!look(Len(entries)) /\ Ios!countEntries /\ held' = held
    BY <1>1 DEF countEntries, both, Android!countEntries
  <2>2. Ios!look(Cardinality(Ios!entriesAfter(0))) /\ UNCHANGED <<Ios!data, handle, freed, aborted>>
    BY <2>1, Zenon DEF Ios!Cardinality, Cardinality, Ios!countEntries, Ios!call
  <2>3. PICK v : v = Len(entries)
    BY Zenon
  <2>4. Cardinality(Ios!entriesAfter(0)) = v
    BY <2>3, CountOfEntries
  <2>5. Android!look(v)
    BY <2>1, <2>3, Zenon
  <2>6. Ios!look(v)
    BY <2>2, <2>4, Zenon
  <2>7. UNCHANGED <<chain, entries, held, handle, freed, aborted>>
    BY <2>1, <2>2 DEF Ios!data
  <2>8. QED
    BY <2>5, <2>6, <2>7, TogetherLook, Zenon
<1>2. ASSUME NEW e \in Proxy, getDn(e)
      PROVE  Agree' /\ SameAnswers'
  <2>1. /\ Android!look(aEntry[e]) /\ Ios!look(at[e])
        /\ UNCHANGED <<chain, entries, held, handle, freed, aborted>>
    BY <1>2 DEF getDn, onEntry, both, Android!getDn, Ios!getDn, Ios!call, Ios!data
  <2>2. PICK v : v = at[e]
    BY Zenon
  <2>3. aEntry[e] = v
    BY <2>2, SMTT(30) DEF Agree, SamePlace
  <2>4. Android!look(v)
    BY <2>1, <2>3, Zenon
  <2>5. Ios!look(v)
    BY <2>1, <2>2, Zenon
  <2>6. QED
    BY <2>1, <2>4, <2>5, TogetherLook, ZenonT(30)
<1>3. ASSUME NEW e \in Proxy, NEW a \in 1 .. 3, getValues(e, a)
      PROVE  Agree' /\ SameAnswers'
  <2> DEFINE al == Ios!attributes(e)
             n == IF a \in DOMAIN al THEN al[a] ELSE 0
  <2>1. Android!attributes(e) = al
    BY SameAttributes, Zenon DEF Agree
  <2>2. /\ Android!look(IF a \in DOMAIN Android!attributes(e) THEN Android!attributes(e)[a] ELSE Null)
        /\ Ios!look(IF n = 0 THEN Null ELSE n)
        /\ UNCHANGED <<chain, entries, held, handle, freed, aborted>>
    BY <1>3 DEF getValues, onEntry, both, Android!getValues, Ios!getValues, Ios!call, Ios!data
  <2> HIDE DEF al
  <2>3. PICK v : v = IF a \in DOMAIN al THEN al[a] ELSE Null
    OBVIOUS
  <2>4. PICK w : w = IF n = 0 THEN Null ELSE n
    OBVIOUS
  <2>5. v = w \/ (v = 0 /\ w = Null)
    BY <2>3, <2>4, Zenon
  <2>6. Android!look(v)
    BY <2>1, <2>2, <2>3 DEF Android!look
  <2>7. Ios!look(w)
    BY <2>2, <2>4, Zenon
  <2>8. QED
    BY <2>2, <2>5, <2>6, <2>7, TogetherLook, Zenon
<1>4. QED
  BY <1>1, <1>2, <1>3

\* Every call of a script that runs on both platforms.
LEMMA TogetherNext ==
  ASSUME Counting, Inv, Next, ~alone, ~aborted, ~aborted'
  PROVE  Agree' /\ SameAnswers'
<1>1. DataInv /\ AndroidInv /\ IosInv /\ Agree /\ SameAnswers /\ held \subseteq Object
  BY DEF Inv, Agree
<1>2. UNCHANGED alone
  BY <1>1, HeldNext, Zenon
<1>3. ASSUME NEW o \in Object, drop(o)
      PROVE  Agree' /\ SameAnswers'
  <2>1. /\ o \in held /\ held' = held \ {o} /\ UNCHANGED <<chain, entries>>
        /\ IF o \in Proxy THEN Android!collect(o) ELSE UNCHANGED androidVars
        /\ Ios!release(o)
    BY <1>3 DEF drop, both
  <2>2. QED
    BY <1>1, <1>2, <2>1, TogetherRelease, Zenon
<1>4. ASSUME disconnect \/ connect
      PROVE  Agree' /\ SameAnswers'
  <2>1. /\ "connection" \in held /\ UNCHANGED <<chain, entries, held, androidVars>>
        /\ Ios!setHandle(TRUE) \/ Ios!setHandle(FALSE)
    BY <1>4, Zenon DEF disconnect, connect, onConnection, both, Ios!disconnect, Ios!connect
  <2>2. QED
    BY <1>1, <1>2, <2>1, TogetherHandle, Zenon
<1>5. QED
  BY <1>1, <1>3, <1>4, TogetherEntry, TogetherAttribute, TogetherRead, Zenon DEF Next

\* Nothing of the memory changes when the library ends the application.
LEMMA Stopping ==
  ASSUME Next, ~alone, aborted \in BOOLEAN
  PROVE  /\ ~aborted
         /\ aborted' => /\ aborted' = TRUE /\ held \subseteq held' /\ held # {}
                        /\ UNCHANGED <<retains, handle, freed>>
<1>1. ASSUME NEW e \in Proxy, firstEntry(e) \/ nextEntry(e)
      PROVE  /\ ~aborted
             /\ aborted' => /\ aborted' = TRUE /\ held \subseteq held' /\ held # {}
                            /\ UNCHANGED <<retains, handle, freed>>
  BY <1>1 DEF firstEntry, nextEntry, both, handsOut, Ios!firstEntry, Ios!nextEntry, Ios!call, Ios!memory
<1>2. ASSUME NEW e \in Proxy,
             firstAttribute(e) \/ nextAttribute(e) \/ getDn(e) \/ \E a \in 1 .. 3 : getValues(e, a)
      PROVE  /\ ~aborted
             /\ aborted' => /\ aborted' = TRUE /\ held \subseteq held' /\ held # {}
                            /\ UNCHANGED <<retains, handle, freed>>
  BY <1>2, Zenon DEF firstAttribute, nextAttribute, getDn, getValues, both, onEntry,
     Ios!firstAttribute, Ios!nextAttribute, Ios!getDn, Ios!getValues, Ios!call, Ios!memory
<1>3. ASSUME countEntries
      PROVE  /\ ~aborted
             /\ aborted' => /\ aborted' = TRUE /\ held \subseteq held' /\ held # {}
                            /\ UNCHANGED <<retains, handle, freed>>
  BY <1>3, Zenon DEF countEntries, both, Ios!countEntries, Ios!call, Ios!memory
<1>4. ASSUME (\E o \in Object : drop(o)) \/ disconnect \/ connect
      PROVE  ~aborted /\ ~aborted'
  BY <1>4 DEF drop, disconnect, connect, both, Ios!release, Ios!disconnect, Ios!connect, Ios!setHandle
<1>5. QED
  BY <1>1, <1>2, <1>3, <1>4, ZenonT(30) DEF Next

-------------------------------------------------------------------------------
(* Every step keeps the invariant. *)

\* Every step, with one platform or with both, keeps the invariant.
LEMMA NextInv ==
  ASSUME Counting, Inv, [Next]_vars
  PROVE  Inv'
<1>1. CASE UNCHANGED vars
  <2>1. UNCHANGED <<chain, entries, held, alone, androidVars, entry, at, ber, iAnswer>>
    BY <1>1, Zenon DEF vars, iosVars
  <2>2. DataInv' /\ AndroidInv' /\ IosInv'
    BY <2>1, SameData, AndroidIdle, IosIdle, Zenon DEF Inv
  <2>3. \A d \in Proxy : Ios!attributes(d)' = Ios!attributes(d)
    BY <2>1, IosKeeps, Zenon
  <2>4. MemoryInv'
    BY <1>1 DEF vars, iosVars, Inv, MemoryInv
  <2>5. SamePlace => SamePlace'
    BY <1>1, <2>3, Zenon DEF vars, iosVars, androidVars, SamePlace
  <2>6. Counted => Counted'
    BY <1>1, Zenon DEF vars, iosVars, Counted, bit
  <2>7. SameAnswers => SameAnswers'
    BY <1>1, Zenon DEF vars, iosVars, androidVars, SameAnswers
  <2>8. UNCHANGED <<held, alone, aborted>>
    BY <1>1 DEF vars, iosVars
  <2>9. QED
    BY <2>2, <2>4, <2>5, <2>6, <2>7, <2>8, Zenon DEF Inv
<1>2. CASE Next
  <2>1. /\ DataInv /\ AndroidInv /\ IosInv /\ MemoryInv /\ held \subseteq Object
        /\ alone \in BOOLEAN /\ aborted \in BOOLEAN
    BY DEF Inv, MemoryInv
  <2>2. DataInv' /\ AndroidInv'
    BY <1>2, <2>1, AndroidNext
  <2>3. IosInv'
    BY <1>2, <2>1, IosNext
  <2>4. held' \subseteq Object /\ alone' = alone
    BY <1>2, <2>1, HeldNext, Zenon
  <2>5. CASE alone
    <3>1. UNCHANGED iosVars
      BY <1>2, <2>5, Zenon DEF Next, firstEntry, nextEntry, firstAttribute, nextAttribute, getDn, getValues,
                  countEntries, drop, disconnect, connect, both
    <3>2. MemoryInv' /\ aborted' = aborted
      BY <2>1, <3>1 DEF iosVars, MemoryInv
    <3>3. QED
      BY <2>1, <2>2, <2>3, <2>4, <2>5, <3>2, Zenon DEF Inv
  <2>6. CASE ~alone
    <3>1. /\ ~aborted
          /\ aborted' => /\ aborted' = TRUE /\ held \subseteq held' /\ held # {}
                         /\ UNCHANGED <<retains, handle, freed>>
      BY <1>2, <2>1, <2>6, Stopping, Zenon
    <3>2. CASE aborted'
      <4>1. MemoryInv'
        BY <2>1, <3>1, <3>2 DEF MemoryInv
      <4>2. held' # {}
        BY <3>1, <3>2, Zenon
      <4>3. QED
        BY <2>1, <2>2, <2>3, <2>4, <2>6, <3>2, <4>1, <4>2, Zenon DEF Inv
    <3>3. CASE ~aborted'
      <4>1. Agree' /\ SameAnswers'
        BY <1>2, <2>6, <3>1, <3>3, TogetherNext, Zenon
      <4>2. QED
        BY <2>1, <2>2, <2>3, <2>4, <3>3, <4>1, Zenon DEF Inv, Agree
    <3>4. QED
      BY <3>2, <3>3
  <2>7. QED
    BY <2>5, <2>6, Zenon
<1>3. QED
  BY <1>1, <1>2, Zenon

-------------------------------------------------------------------------------
(* What the invariant gives, and what a step may do. *)

\* The invariant gives the types ...
LEMMA InvTypes ==
  Inv => TypeOK
<1> SUFFICES ASSUME Inv PROVE TypeOK
  BY Zenon
<1>1. Positions \subseteq DOMAIN chain \cup {0} /\ Len(entries) \in Nat
  BY DEF Inv, DataInv, Lists, Positions, EntryAt
<1>2. /\ aEntry \in [Proxy -> DOMAIN chain \cup {0}]
      /\ at \in [Proxy -> DOMAIN chain \cup {0}] /\ entry \in DOMAIN chain \cup {0}
  BY <1>1 DEF Inv, AndroidInv, IosInv
<1>3. iterator \in Nat \cup {Null}
  BY <1>1 DEF Inv, AndroidInv
<1>4. QED
  BY <1>2, <1>3 DEF Inv, AndroidInv, IosInv, MemoryInv, TypeOK, CallRecords, Values

\* ... says that nothing a proxy points to is gone ...
LEMMA InvNoDangling ==
  Counting /\ Inv => NoDangling
<1> SUFFICES ASSUME Counting, Inv PROVE NoDangling
  OBVIOUS
<1>1. MemoryInv /\ held \subseteq Object
  BY DEF Inv
<1>2. /\ \A o \in Object : retains[o] \in Nat
      /\ Proxy \subseteq Object /\ "result" \in Object /\ "connection" \in Object
      /\ \A o \in Object : o \in Proxy \/ o = "result" \/ o = "connection"
  BY <1>1 DEF MemoryInv, Object
<1>3. freed => retains["result"] = 0 /\ \A e \in Proxy : retains[e] = 0
  <2>1. SUFFICES ASSUME freed PROVE retains["result"] = 0 /\ \A e \in Proxy : retains[e] = 0
    OBVIOUS
  <2>2. retains["result"] = 0 /\ \A e \in Proxy : ~(retains[e] > 0)
    BY <1>1, <2>1 DEF MemoryInv
  <2>3. QED
    BY <1>2, <2>2
<1>4. (\E o \in Object : retains[o] > 0) => retains["connection"] > 0
  BY <1>1, <1>2 DEF MemoryInv
<1>5. ASSUME ~alone, ~aborted, NEW o \in held
      PROVE  retains[o] > 0
  <2>1. Counted
    BY <1>5 DEF Inv
  <2>2. CASE o \in Proxy
    BY <2>1, <2>2 DEF Counted, bit
  <2>3. CASE o = "connection"
    BY <2>1, <2>3 DEF Counted, bit
  <2>4. CASE o = "result"
    <3>3. Cardinality(held \cap Proxy) \in Nat
      BY DEF Counting
    <3>4. retains["result"] = 1 + Cardinality(held \cap Proxy)
      BY <2>1, <2>4, Zenon DEF Counted, bit
    <3>5. QED
      BY <2>4, <3>3, <3>4
  <2>5. QED
    BY <1>1, <1>2, <2>2, <2>3, <2>4, Zenon
<1>6. QED
  BY <1>3, <1>4, <1>5 DEF NoDangling

\* ... and that nothing stays behind.
LEMMA InvNoLeak ==
  Counting /\ Inv => NoLeak
<1> SUFFICES ASSUME Counting, Inv, held = {}, ~alone PROVE freed /\ ~handle
  BY DEF NoLeak
<1>1. ~aborted
  BY DEF Inv
<1>2. Counted /\ MemoryInv
  BY <1>1 DEF Inv
<1>3. Cardinality(held \cap Proxy) = 0
  <2>1. held \cap Proxy = {}
    OBVIOUS
  <2>2. QED
    BY <2>1 DEF Counting
<1>4. retains["result"] = 0
  BY <1>2, <1>3 DEF Counted, bit
<1>5. retains["connection"] = 0
  BY <1>2, <1>4 DEF Counted, bit
<1>6. QED
  BY <1>2, <1>4, <1>5 DEF Counted, MemoryInv

\* A step that trips an assertion of the library.
LEMMA AbortStep ==
  Inv /\ [Next]_vars => [aborted' /\ ~aborted => aAnswer'.value = Null \/ ~handle]_vars
<1> SUFFICES ASSUME Inv, Next, aborted', ~aborted, handle PROVE aAnswer'.value = Null
  BY Zenon
<1>1. /\ DataInv /\ AndroidInv /\ held \subseteq Object
      /\ Len(entries) \in Nat /\ Null \notin Nat
  BY CursorAssumption DEF Inv, DataInv, Lists
<1>2. ~alone
  <2>1. SUFFICES ASSUME alone PROVE FALSE
    OBVIOUS
  <2>2. UNCHANGED iosVars
    BY <2>1, Zenon DEF Next, firstEntry, nextEntry, firstAttribute, nextAttribute, getDn, getValues,
                countEntries, drop, disconnect, connect, both
  <2>3. QED
    BY <2>2 DEF iosVars
<1>3. SamePlace
  BY <1>2, Zenon DEF Inv
<1>4. ASSUME NEW e \in Proxy, nextEntry(e)
      PROVE  aAnswer'.value = Null
  <2>1. entry = 0 /\ "result" \in held /\ Android!handOut("next", e, iterator)
    BY <1>2, <1>4, ZenonT(30) DEF nextEntry, both, handsOut, Android!nextEntry, Ios!nextEntry, Ios!call
  <2>2. iterator \in {Null, Len(entries) + 1}
    <3>1. \A k \in 1 .. Len(entries) : entries[k] # 0
      BY <1>1 DEF DataInv, Lists, EntryAt
    <3>2. QED
      BY <1>3, <2>1, <3>1, Zenon DEF SamePlace
  <2>3. ~Android!hasNext(iterator, entries)
    BY <1>1, <2>2 DEF Android!hasNext
  <2>4. QED
    BY <2>1, <2>3 DEF Android!handOut
<1>5. ASSUME NEW e \in Proxy, nextAttribute(e)
      PROVE  aAnswer'.value = Null
  <2>1. ber[e] = Null /\ Android!name("next", e, aAttrs[e])
    BY <1>2, <1>5, ZenonT(30) DEF nextAttribute, both, Android!nextAttribute, Ios!nextAttribute, Ios!call
  <2>2. aAttrs[e] = Null \/ Len(Android!attributes(e)) = 0
    BY <1>3, <2>1, SameAttributes, Zenon DEF SamePlace
  <2>3. ~Android!hasNext(aAttrs[e], Android!attributes(e))
    BY <1>1, <2>2 DEF Android!hasNext, AndroidInv
  <2>4. QED
    BY <2>1, <2>3 DEF Android!name
<1>6. ~(\E e \in Proxy : firstEntry(e) \/ firstAttribute(e) \/ getDn(e)
                         \/ \E a \in 1 .. 3 : getValues(e, a))
  BY <1>2, Zenon DEF firstEntry, firstAttribute, getDn, getValues, both,
     Ios!firstEntry, Ios!firstAttribute, Ios!getDn, Ios!getValues, Ios!call
<1>7. ~countEntries
  BY <1>2, Zenon DEF countEntries, both, Ios!countEntries, Ios!call
<1>8. ~((\E o \in Object : drop(o)) \/ disconnect \/ connect)
  BY <1>2, Zenon DEF drop, disconnect, connect, both, Ios!release, Ios!disconnect, Ios!connect, Ios!setHandle
<1>9. QED
  BY <1>4, <1>5, <1>6, <1>7, <1>8, Zenon DEF Next

\* The proxies of Android start as the abstract cursors do.
LEMMA AndroidStarts ==
  Init => Android!Abstract!Init
<1> SUFFICES ASSUME Init PROVE Android!Abstract!Init
  OBVIOUS
<1>1. iterator = Null /\ aAttrs = [e \in Proxy |-> Null] /\ aAnswer = [to |-> "none", value |-> Null]
  BY DEF Init, Android!Init
<1>2. \A s : Android!left(Null, s) = <<>>
  BY DEF Android!left
<1>3. QED
  BY <1>1, <1>2, SMTT(30) DEF Android!Abstract!Init, Android!Cursors

\* Every step of Android's proxies is a step of the abstract cursors.
LEMMA AndroidSteps ==
  Inv /\ [Next]_vars => Android!Abstract!Next
<1>1. Inv /\ Next => Android!Abstract!Next
  BY AndroidNext, Zenon DEF Inv
<1>2. Inv /\ UNCHANGED vars => Android!Abstract!Close({})
  BY AndroidIdle, Zenon DEF Inv, vars
<1>3. QED
  BY <1>1, <1>2 DEF Android!Abstract!Next

\* The proxies of iOS start as the abstract cursors do.
LEMMA IosStarts ==
  Init => Ios!Abstract!Init
<1> SUFFICES ASSUME Init PROVE Ios!Abstract!Init
  OBVIOUS
<1>1. entry = 0 /\ ber = [e \in Proxy |-> Null] /\ iAnswer = [to |-> "none", value |-> Null]
  BY Zenon DEF Init, Ios!Init
<1>2. Ios!behind = <<>> /\ \A e \in Proxy : Ios!undelivered(e) = <<>>
  BY <1>1, Zenon DEF Ios!behind, Ios!undelivered
<1>3. QED
  BY <1>1, <1>2, Zenon DEF Ios!Abstract!Init, Ios!Cursors

\* Every step of the proxies of iOS is a step of the abstract cursors.
LEMMA IosSteps ==
  Inv /\ [Next]_vars => Ios!Abstract!Next
<1>1. Inv /\ Next => Ios!Abstract!Next
  BY IosNext, Zenon DEF Inv
<1>2. Inv /\ UNCHANGED vars => Ios!Abstract!Close({})
  BY IosIdle, Zenon DEF Inv, vars, iosVars
<1>3. QED
  BY <1>1, <1>2 DEF Ios!Abstract!Next

-------------------------------------------------------------------------------
(* Counting finite sets, the initial states and the theorems. *)

INSTANCE FiniteSetTheorems

\* getSearchEntries lists every entry of the result, in order and once.
LEMMA ListingCovers ==
  ASSUME NEW n \in Nat, NEW S, S \subseteq 1 .. n, NEW s \in listings(S)
  PROVE  Lists(s, S) /\ Cardinality(S) = Len(s)
<1> DEFINE c == Cardinality(S)
<1>1. IsFiniteSet(S)
  <2>1. IsFiniteSet(1 .. n)
    BY FS_Interval
  <2>2. S \in SUBSET (1 .. n)
    OBVIOUS
  <2>3. QED
    BY <2>1, <2>2, FS_Subset, Zenon
<1>2. c \in Nat
  BY <1>1, FS_CardinalityType, Zenon
<1>3. s \in [1 .. c -> S] /\ \A i, j \in DOMAIN s : i < j => s[i] < s[j]
  BY Zenon DEF listings
<1> HIDE DEF c
<1>a. S \subseteq Nat
  OBVIOUS
<1>4. DOMAIN s = 1 .. c /\ \A i \in 1 .. c : s[i] \in Nat
  BY <1>3, <1>a, Zenon
<1>5. \A i, j \in 1 .. c : s[i] = s[j] => i = j
  BY <1>2, <1>3, <1>4
<1>6. s \in Injection(1 .. c, S)
  BY <1>3, <1>5, Zenon DEF Injection, IsInjective
<1>7. IsFiniteSet(1 .. c) /\ Cardinality(1 .. c) = c
  BY <1>2, FS_Interval
<1>8. s \in Surjection(1 .. c, S)
  BY <1>1, <1>6, <1>7, FS_Injection, Zenon DEF c
<1>9. s \in Seq(S)
  BY <1>2, <1>3
<1>10. QED
  BY <1>2, <1>3, <1>4, <1>8, <1>9 DEF Surjection, Lists, c

\* The result a search ends with.
LEMMA InitData == Init => DataInv
<1> SUFFICES ASSUME Init PROVE DataInv
  BY Zenon
<1>1. PICK n \in 0 .. MaxChain : \E ms \in [1 .. n -> Messages] : chain = Append(ms, Done)
  BY DEF Init
<1>2. PICK ms \in [1 .. n -> Messages] : chain = Append(ms, Done)
  BY <1>1, Zenon
<1>3. n \in Nat
  BY CursorAssumption
<1>4. Done \in Messages \cup {Done} /\ ms \in Seq(Messages \cup {Done}) /\ Len(ms) = n
  BY <1>2, <1>3
<1>5. /\ DOMAIN chain = 1 .. n + 1
      /\ \A i \in DOMAIN chain : chain[i] \in Messages \cup {Done}
  BY <1>2, <1>3, <1>4
<1>6. \A m \in Messages \cup {Done} : m.attrs \in Seq(Nat)
  <2>1. <<>> \in Seq(Nat)
    OBVIOUS
  <2>2. \A al \in AttrLists : al \in Seq(Nat)
    BY CursorAssumption, Zenon
  <2>3. \A m \in [type : {"entry"}, attrs : AttrLists] : m.attrs \in AttrLists
    OBVIOUS
  <2>4. SUFFICES ASSUME NEW m \in Messages \cup {Done} PROVE m.attrs \in Seq(Nat)
    BY Zenon
  <2>5. CASE m \in [type : {"entry"}, attrs : AttrLists]
    BY <2>2, <2>3, <2>5, Zenon
  <2>6. CASE m = [type |-> "reference", attrs |-> <<>>] \/ m = Done
    <3>1. m.attrs = <<>>
      BY <2>6 DEF Done
    <3>2. QED
      BY <2>1, <3>1, Zenon
  <2>7. QED
    BY <2>5, <2>6, Zenon DEF Messages
<1>7. entries \in listings(EntryAt)
  BY Zenon DEF Init, EntryAt
<1>8. EntryAt \subseteq 1 .. n + 1 /\ n + 1 \in Nat
  BY <1>3, <1>5 DEF EntryAt
<1>9. DOMAIN chain \subseteq Nat \ {0} /\ \A i \in DOMAIN chain : chain[i].attrs \in Seq(Nat)
  BY <1>3, <1>5, <1>6
<1>10. Lists(entries, EntryAt) /\ Cardinality(EntryAt) = Len(entries)
  BY <1>7, <1>8, ListingCovers, Zenon
<1>11. QED
  BY <1>9, <1>10, Zenon DEF DataInv, EntriesCounted

\* The script holds finitely many entries.
LEMMA HeldCount ==
  ASSUME NEW h
  PROVE  IsFiniteSet(h \cap Proxy) /\ Cardinality(h \cap Proxy) \in Nat
<1> DEFINE T == h \cap Proxy
<1>1. IsFiniteSet(T)
  <2>1. T \in SUBSET Proxy
    OBVIOUS
  <2>2. IsFiniteSet(Proxy)
    BY CursorAssumption, Zenon
  <2>3. QED
    BY <2>1, <2>2, FS_Subset, Zenon
<1>2. Cardinality(T) \in Nat
  BY <1>1, FS_CardinalityType, Zenon
<1>3. QED
  BY <1>1, <1>2, Zenon

\* One more or one less entry is held.
LEMMA HeldEntries ==
  ASSUME NEW h, NEW e \in Proxy
  PROVE  /\ e \notin h => Cardinality((h \cup {e}) \cap Proxy) = Cardinality(h \cap Proxy) + 1
         /\ e \in h => /\ Cardinality(h \cap Proxy) > 0
                       /\ Cardinality((h \ {e}) \cap Proxy) = Cardinality(h \cap Proxy) - 1
<1> DEFINE T == h \cap Proxy
<1>1. IsFiniteSet(T) /\ Cardinality(T) \in Nat
  BY HeldCount, Zenon
<1>3. ASSUME e \notin h
      PROVE  Cardinality((h \cup {e}) \cap Proxy) = Cardinality(T) + 1
  <2>1. (h \cup {e}) \cap Proxy = T \cup {e} /\ e \notin T
    BY <1>3, Zenon
  <2>2. QED
    BY <1>1, <2>1, FS_AddElement, Zenon
<1>4. ASSUME e \in h
      PROVE  Cardinality(T) > 0 /\ Cardinality((h \ {e}) \cap Proxy) = Cardinality(T) - 1
  <2>1. (h \ {e}) \cap Proxy = T \ {e} /\ e \in T
    BY <1>4, Zenon
  <2>2. Cardinality(T \ {e}) = Cardinality(T) - 1 /\ IsFiniteSet(T \ {e})
    BY <1>1, <2>1, FS_RemoveElement, Zenon
  <2>3. Cardinality(T \ {e}) \in Nat
    BY <2>2, FS_CardinalityType
  <2>4. QED
    BY <1>1, <2>1, <2>2, <2>3
<1>5. QED
  BY <1>3, <1>4, Zenon

\* What the lemmas above assume of counting.
LEMMA CountingHolds == Counting
<1>1. \A h : \A e \in Proxy :
        /\ e \notin h => Cardinality((h \cup {e}) \cap Proxy) = Cardinality(h \cap Proxy) + 1
        /\ e \in h => /\ Cardinality(h \cap Proxy) > 0
                      /\ Cardinality((h \ {e}) \cap Proxy) = Cardinality(h \cap Proxy) - 1
  BY HeldEntries, Zenon
<1>2. \A h : Cardinality(h \cap Proxy) \in Nat
  BY HeldCount, Zenon
<1>3. \A h : h \cap Proxy = {} => Cardinality(h \cap Proxy) = 0
  BY FS_EmptySet, Zenon
<1>4. QED
  BY <1>1, <1>2, <1>3, Zenon DEF Counting

\* The proxies of a search that has just ended.
LEMMA InitInv == Init => Inv
<1> SUFFICES ASSUME Init PROVE Inv
  OBVIOUS
<1>1. DataInv
  BY InitData, Zenon
<1>2. Android!Init /\ Ios!Init /\ held = {"result", "connection"} /\ alone \in BOOLEAN
  BY Zenon DEF Init
<1>3. 0 \in Positions /\ Null \in Values /\ Null \notin Nat
  BY CursorAssumption, Zenon DEF Positions, Values
<1>4. AndroidInv
  BY <1>2, <1>3, Zenon DEF AndroidInv, Android!Init, CallRecords
<1>5. IosInv
  BY <1>2, <1>3, Zenon DEF IosInv, Ios!Init, CallRecords
<1>6. /\ "result" \notin Proxy /\ "connection" \notin Proxy
      /\ held \subseteq Object /\ Proxy \subseteq Object
  BY <1>2, CursorAssumption, Zenon DEF Object
<1>7. /\ \A e \in Proxy : retains[e] = 0
      /\ retains["result"] = 1 /\ retains["connection"] = 2
      /\ retains \in [Object -> Nat]
  BY <1>2, <1>6, Zenon DEF Ios!Init, Object, Ios!Object
<1>8. Cardinality(held \cap Proxy) = 0
  <2>1. held \cap Proxy = {}
    BY <1>2, <1>6, Zenon
  <2>2. QED
    BY <2>1, FS_EmptySet, Zenon
<1>9. ~freed /\ handle = TRUE /\ freed = FALSE /\ aborted = FALSE
  BY <1>2, Zenon DEF Ios!Init
<1>10. MemoryInv
  <2>1. handle \in BOOLEAN /\ freed \in BOOLEAN /\ aborted \in BOOLEAN
    BY <1>9, Zenon
  <2>2. \A e \in Proxy : retains[e] > 0 => retains["result"] > 0
    BY <1>7
  <2>3. retains["result"] > 0 /\ retains["connection"] > 0
    BY <1>7
  <2>4. QED
    BY <1>7, <1>9, <2>1, <2>2, <2>3, Zenon DEF MemoryInv
<1>11. Counted
  BY <1>2, <1>6, <1>7, <1>8, <1>9 DEF Counted, bit
<1>12. SamePlace /\ SameAnswers
  <2>1. /\ at = aEntry /\ entry = 0 /\ iterator = Null
        /\ aAnswer.value = Null /\ iAnswer.value = Null
    BY <1>2, Zenon DEF Android!Init, Ios!Init
  <2>2. \A e \in Proxy : ber[e] = Null /\ aAttrs[e] = Null
    BY <1>2, Zenon DEF Android!Init, Ios!Init
  <2>3. QED
    BY <2>1, <2>2, Zenon DEF SamePlace, SameAnswers
<1>13. QED
  BY <1>1, <1>2, <1>4, <1>5, <1>6, <1>9, <1>10, <1>11, <1>12, Zenon DEF Inv

\* The fields of both platforms keep Inv, whatever the script does.
THEOREM Invariant == Spec => []Inv
<1>1. Inv /\ [Next]_vars => Inv'
  BY NextInv, CountingHolds, Zenon
<1>2. QED
  BY InitInv, <1>1, PTL DEF Spec

\* Every field of the proxies keeps its type.
THEOREM TypesKept == Spec => []TypeOK
<1>1. Inv => TypeOK
  BY InvTypes, Zenon
<1>2. QED
  BY <1>1, Invariant, PTL

\* A script that runs on both platforms gets the same answers from
\* SearchResultProxy and TiLdapSearchResultProxy, from EntryProxy and
\* TiLdapEntryProxy, except for the empty array that iOS makes null.
THEOREM AnswersAgree == Spec => []SameAnswers
<1>1. Inv => SameAnswers
  BY Zenon DEF Inv, SameAnswers
<1>2. QED
  BY <1>1, Invariant, PTL

\* The retain counts keep the chain until the last proxy that points into it
\* is gone, and the connection until the last result is.
THEOREM NothingDangles == Spec => []NoDangling
<1>1. Inv => NoDangling
  BY InvNoDangling, CountingHolds, Zenon
<1>2. QED
  BY <1>1, Invariant, PTL

\* When the script holds nothing any more, the last release has called
\* ldap_msgfree and disconnected.
THEOREM NothingLeaks == Spec => []NoLeak
<1>1. Inv => NoLeak
  BY InvNoLeak, CountingHolds
<1>2. QED
  BY <1>1, Invariant, PTL

\* An assertion of the library ends the application only in a call that
\* Android answers with null, or on a connection without a handle.
THEOREM AssertionsPastNull == Spec => AbortsOnlyPastNull
<1>1. Inv /\ [Next]_vars => [aborted' /\ ~aborted => aAnswer'.value = Null \/ ~handle]_vars
  BY AbortStep
<1>2. QED
  BY <1>1, Invariant, PTL DEF Spec, AbortsOnlyPastNull

\* SearchResultProxy and EntryProxy implement the cursors of the
\* documentation: "first" starts over, "next" goes on, null says that
\* nothing is left.
THEOREM AndroidImplements == Spec => AndroidIsCursor
<1>1. Init => Android!Abstract!Init
  BY AndroidStarts
<1>2. Inv /\ [Next]_vars => Android!Abstract!Next
  BY AndroidSteps
<1>3. QED
  BY <1>1, <1>2, Invariant, PTL DEF Spec, AndroidIsCursor, Android!Abstract!Spec

\* So do TiLdapSearchResultProxy and TiLdapEntryProxy, with their pointers
\* into the chain and their BER elements.
THEOREM IosImplements == Spec => IosIsCursor
<1>1. Init => Ios!Abstract!Init
  BY IosStarts
<1>2. Inv /\ [Next]_vars => Ios!Abstract!Next
  BY IosSteps
<1>3. QED
  BY <1>1, <1>2, Invariant, PTL DEF Spec, IosIsCursor, Ios!Abstract!Spec
====
