------------------------------ MODULE ResultCursors ------------------------------
(***************************************************************************)
(* One script, run on both platforms: it reads the result of one search    *)
(* with the same calls on the Android and on the iOS proxies, drops the    *)
(* objects it was given in any order, and disconnects and connects again   *)
(* in between.  An assertion of the library ends it; to see what Android   *)
(* does then, it also runs on Android alone.                               *)
(***************************************************************************)
EXTENDS Naturals, Sequences, FiniteSets

CONSTANTS
  Proxy,      \* entry objects the script can hold at a time
  AttrLists,  \* what an entry can have: the number of values of each attribute
  MaxChain,   \* bound: entries and references of the search
  Null

ASSUME CursorAssumption ==
  /\ IsFiniteSet(Proxy) /\ {"result", "connection"} \cap Proxy = {}
  /\ AttrLists \subseteq Seq(Nat)
  /\ MaxChain \in Nat
  /\ Null \notin Nat

VARIABLES
  chain, entries,                                   \* the search's messages
  held,                                             \* objects the script refers to
  alone,                                            \* it runs on Android alone
  iterator, aEntry, aAttrs, aAnswer,                \* Android
  entry, at, ber, retains, handle, freed, aborted,  \* iOS
  iAnswer

Android == INSTANCE AndroidCursor WITH entry <- aEntry, attrs <- aAttrs, answer <- aAnswer
Ios == INSTANCE IosCursor WITH answer <- iAnswer

iosVars == <<entry, at, ber, retains, handle, freed, aborted, iAnswer>>
androidVars == <<iterator, aEntry, aAttrs, aAnswer>>
vars == <<chain, entries, held, alone, androidVars, iosVars>>

Object == Proxy \cup {"result", "connection"}

Messages == [type : {"entry"}, attrs : AttrLists] \cup {[type |-> "reference", attrs |-> <<>>]}
Done == [type |-> "result", attrs |-> <<>>]

\* A set of positions, in order.
listings(S) ==
  {s \in [1 .. Cardinality(S) -> S] : \A i, j \in DOMAIN s : i < j => s[i] < s[j]}

Init ==
  /\ \E n \in 0 .. MaxChain : \E ms \in [1 .. n -> Messages] : chain = Append(ms, Done)
  /\ entries \in listings({i \in DOMAIN chain : chain[i].type = "entry"})
  /\ held = {"result", "connection"}
  /\ alone \in BOOLEAN
  /\ Android!Init
  /\ Ios!Init

\* The script makes the same call on both platforms, unless it runs on
\* Android alone.
both(android, ios) ==
  /\ android
  /\ IF alone THEN UNCHANGED iosVars ELSE ios
  /\ UNCHANGED alone

\* An entry is handed out in a slot that is free.
handsOut(e) ==
  /\ "result" \in held
  /\ e \notin held
  /\ held' = IF {aAnswer'.value, iAnswer'.value} = {Null} THEN held ELSE held \cup {e}

firstEntry(e) == both(Android!firstEntry(e), Ios!firstEntry(e)) /\ handsOut(e)
nextEntry(e) == both(Android!nextEntry(e), Ios!nextEntry(e)) /\ handsOut(e)

countEntries ==
  "result" \in held /\ both(Android!countEntries, Ios!countEntries) /\ UNCHANGED held

onEntry(e) == e \in held /\ UNCHANGED held

firstAttribute(e) == onEntry(e) /\ both(Android!firstAttribute(e), Ios!firstAttribute(e))
nextAttribute(e) == onEntry(e) /\ both(Android!nextAttribute(e), Ios!nextAttribute(e))
getDn(e) == onEntry(e) /\ both(Android!getDn(e), Ios!getDn(e))
getValues(e, a) == onEntry(e) /\ both(Android!getValues(e, a), Ios!getValues(e, a))

\* The script no longer refers to o, and the proxy is released.
drop(o) ==
  /\ o \in held
  /\ held' = held \ {o}
  /\ both(IF o \in Proxy THEN Android!collect(o) ELSE UNCHANGED androidVars, Ios!release(o))
  /\ UNCHANGED <<chain, entries>>

onConnection == "connection" \in held /\ UNCHANGED <<held, chain, entries>>

disconnect == onConnection /\ both(UNCHANGED androidVars, Ios!disconnect)
connect == onConnection /\ both(UNCHANGED androidVars, Ios!connect)

Next ==
  \/ \E e \in Proxy : firstEntry(e) \/ nextEntry(e)
  \/ \E e \in Proxy : firstAttribute(e) \/ nextAttribute(e) \/ getDn(e)
  \/ \E e \in Proxy, a \in 1 .. 3 : getValues(e, a)
  \/ \E o \in Object : drop(o)
  \/ countEntries \/ disconnect \/ connect

Spec == Init /\ [][Next]_vars

-------------------------------------------------------------------------------
(* Properties. *)

\* Every field of the proxies has its type.
TypeOK ==
  LET Answers == Nat \cup {Null}
      Calls == [to : {"none", "first", "next", "other"}, value : Answers] IN
  /\ held \subseteq Object
  /\ iterator \in Answers /\ aEntry \in [Proxy -> DOMAIN chain \cup {0}]
  /\ aAttrs \in [Proxy -> Answers] /\ aAnswer \in Calls
  /\ entry \in DOMAIN chain \cup {0} /\ at \in [Proxy -> DOMAIN chain \cup {0}]
  /\ ber \in [Proxy -> Answers] /\ retains \in [Object -> Nat]
  /\ handle \in BOOLEAN /\ freed \in BOOLEAN /\ aborted \in BOOLEAN /\ iAnswer \in Calls

\* Java's iterators do what the documentation says of firstEntry, nextEntry,
\* firstAttribute and nextAttribute, whatever the script does.
AndroidIsCursor == Android!Abstract!Spec

\* So do the pointers and BER elements of iOS, as long as no assertion of the
\* library ends the application: references in the chain are passed over,
\* several entries are read at the same time, and a loop may start over.
IosIsCursor == Ios!Abstract!Spec

\* The script cannot tell the platforms apart by an answer, except that the
\* empty array of an attribute without values is null on iOS.
SameAnswers ==
  ~alone /\ ~aborted =>
    aAnswer.value = iAnswer.value \/ (aAnswer.value = 0 /\ iAnswer.value = Null)

\* A script that reads while it is connected and stops at the first null
\* never meets an assertion of the library: iOS aborts only in a call that
\* Android answers with null, or without a handle.
AbortsOnlyPastNull == [][aborted' /\ ~aborted => aAnswer'.value = Null \/ ~handle]_vars

\* In whatever order the script drops its objects, no proxy outlives what it
\* points into: the chain is freed after the last entry and the result are
\* gone, and while a result or an entry is there the connection is not
\* destroyed.
NoDangling ==
  /\ freed => retains["result"] = 0 /\ \A e \in Proxy : retains[e] = 0
  /\ (\E o \in Object : retains[o] > 0) => retains["connection"] > 0
  /\ ~alone => \A o \in held : aborted \/ retains[o] > 0

\* Nothing leaks either: when the script holds nothing, all is freed.
NoLeak == held = {} /\ ~alone => freed /\ ~handle
===============================================================================
