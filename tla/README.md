# A TLA+ model of ti.ldap

ti.ldap gives Titanium applications LDAP on Android and iOS. Both halves offer
the same JavaScript objects and are built on different libraries: the Android
half (Java) on the UnboundID SDK, with a reader and a timer thread behind every
connection; the iOS half (Objective-C) on the OpenLDAP client library bundled in
`iphone/openldap`, on the JavaScript thread alone.

This directory models both, and the parts of the bundled library whose state
the iOS half depends on. TLC checks the models on small instances, and TLAPS
proves every safety property that TLC checks, for every instance.

## The system

| Part | State | Operations |
| --- | --- | --- |
| Connection proxy (both) | `_ld`, `_bound`, the options | connect, disconnect, simpleBind, saslBind, search, release / `_destroy`, the limits, TLS |
| Request proxies, Android | `_asyncRequestId`, `_ldapResult`, the callbacks | sendRequest, execute, handleSuccess, handleError, abandon |
| Search listener, Android | `_entryList`, `_referenceList` | searchEntryReturned, searchReferenceReturned, searchResultReceived, called by the SDK's threads |
| Request proxies, iOS | `_messageId`, `_ldapMessage` | sendRequest, execute, waitForResultInThread, abandon, `_destroy` |
| Search result and entry proxies | the result, the position in it | countEntries, firstEntry, nextEntry, getDn, firstAttribute, nextAttribute, getValues, getValuesLen, `_destroy` |
| OpenLDAP handle (iOS) | `ld_errno`, `ld_msgid`, `ld_requests`, `ld_responses`, the default connection and its reference count | ldap_initialize, ldap_unbind_ext, the sends, ldap_result, ldap_abandon_ext |
| List of abandoned IDs (iOS) | `ld_abandoned`, a sorted array | find, insert, delete |
| Referral chasing (iOS) | the children of a search, further connections, their queues | ldap_chase_v3referrals, ldap_new_connection, try_read1msg |
| BER stream (iOS) | the element being read | ber_get_next |
| Module objects | constants | none |

How they interact. A script calls the connection proxy, which creates a request
proxy and calls its sendRequest. sendRequest runs execute and either answers at
once or, for an asynchronous search, leaves the answer to others: on Android to
the SDK's threads, on iOS to waitForResultInThread, which despite its name
blocks the JavaScript thread. A search that succeeded hands its result to a
search result proxy, and that hands out entry proxies.

What makes it hard:

- on Android the final result (reader thread), the time-out (timer thread), the
  return of asyncSearch, abandon, disconnect and the loss of the link meet in
  any order;
- on iOS a request that timed out is answered during a later wait, a lost link
  leaves references behind, and abandon works on whatever handle is current;
- `_ld`, `_bound`, message IDs and `ld_errno` are read long after they were
  written, possibly for another connection;
- the result of a search changes owner on iOS, its entries point into it, and
  proxies are collected in any order;
- while the library waits for the bind of a referred server's connection it
  handles any other message, the end of the search included;
- a message arrives in pieces of any size.

`PROJECT.json` lists these hazards line by line.

## Modules

| Module | Models |
| --- | --- |
| `RequestContract` | what a request promises on either platform: it ends in at most one of two ways, and the answer is final |
| `AndroidLdap` | the Android proxies with the reader, timer, server and network |
| `LibLdap` | the OpenLDAP handle the iOS proxies use, with the server and the network |
| `IosLdap` | the iOS proxies on top of `LibLdap` |
| `Cursor` | what the documentation promises of first and next |
| `AndroidCursor`, `IosCursor` | the search result and entry proxies of each platform |
| `ResultCursors` | one script on both |
| `AbandonedSet` | a set of message IDs and the three calls on it |
| `AbandonedList` | the sorted array behind `ld_abandoned`, bisection step by step |
| `Referrals` | the chasing of the references and referrals of one search |
| `BerReader` | ber_get_next over a stream that arrives in pieces |
| `MC...` | instances for TLC |
| `AndroidLdapProofs`, `ReferralsProofs`, `ResultCursorsProofs` | the proofs about the module of that name |
| `LibraryProofs` | the proofs about `AbandonedList` and `BerReader` |
| `IosLdapProofs` | the iOS reference counts, the request contract and the handles |
| `IosLdapSteps` | what every iOS step does to messages, queues and proxies |
| `IosCareful` | what it does to the session of a careful application |
| `IosLdapTheorems` | what follows from these three for the iOS half |

### AndroidLdap

`ld`, `bound`, `asyncId` and `lists` are the fields of the proxies and of the
listener. `link`, `timed`, `nextId`, `returned`, `armed`, `acceptors` and
`reader` are the SDK's: the state of each LDAPConnection, the options it copied,
its message IDs, the flag by which AsyncSearchHelper lets only the first final
result through, the scheduled time-outs, the listeners registered with the
readers, and the message each reader has taken and not yet handed over. `stream`
and `working` are the wire and the server. `served`, `calls` and `op` are
history: what the server sent, what the application was told, and the operation
of each search.

One action per method: `connect`, `disconnect` (also `release`), `simpleBind`,
`saslBind`, `search`, `abandon`, `setTimeLimit`. An asynchronous search goes on
in `asyncSend` and `asyncReturn`, because other threads run in between. The
threads are `readerTake`, `readerDispatch` (which runs `itemReturned` or
`searchResultReceived`) and `timeout`; the environment is `serverItem`,
`serverDone` and `dropped`. A synchronous operation is one step: it blocks the
JavaScript thread and shares no listener with the other threads. The SDK is not
part of the repository; what is modelled of it is what the proxies depend on.

### LibLdap and IosLdap

`LibLdap` is translated from `libraries/libldap`. A handle opens its default
connection when it first sends and again whenever the connection has been freed
(`ldap_send`, `ldap_open_fails`, `ldap_write_fails`). ldap_result reads one
message after the other: it tosses answers to abandoned or unknown IDs (`toss`),
queues answers to others (`queue`), and returns when the chain it waits for is
complete (`take`) or the link is lost (`readError`). `do_abandon` is the
library's function of that name. `settle` and `ldap_free_connection` keep
`ld_requests` and `lconn_refcnt`.

In `IosLdap`, `wait` is the request the JavaScript thread is blocked in.
`answered`, `lost` and `timedOut` end the wait; a SASL bind goes through rounds
(`saslStep`, `goOn`), preceded by a search for the server's mechanisms if the
script names none. A connect with useTLS sends StartTLS (`startTLS`), waits
without a limit, ignores how that ended, and only then sets the limits
(`setLimits`). `message`, `results`, `freed` and `gone` follow the result chain
from the library to the proxy that frees it. An assertion of the library that
fails is the step `abort`: it ends the application.

Abstractions. Names, filters, entries, attributes and error texts are opaque; an
error code is one of success, error, more (SASL bind in progress), timeout and
down. A time limit is set or not set, and an expired one may be noticed at any
moment of the wait. A write to a lost link may seem to succeed. `ld_abandoned`
is a set, which `AbandonedList` justifies. The TLS handshake is one step that
succeeds or fails. A handle has its default connection only; the other ones are
in `Referrals`.

### The cursors

`AndroidCursor` has Java iterators: a next position, or null before the first
call. `IosCursor` has what is there: `entry` and `at` are pointers into the chain
of messages, `ber` is what a BER element has still to deliver, `retains` counts
the references between entry, result and connection proxies, and `release` runs
the `_destroy` methods as the last reference goes. Every call on iOS uses the
connection's current handle and fails an assertion without one. `ResultCursors`
makes each call on both platforms at once; it also runs Android alone, to see
what it does where iOS has aborted. `entries` lists the positions of the entries
in the chain: the SDK's list on Android, history on iOS. Attributes are numbers,
values are counted.
An answer names the call it is for, so that in the abstract `Cursor` a "next" that
starts over is not taken for a "first".

### AbandonedList

One step is one turn of the loop of ldap_int_bisect_find; the callers,
do_abandon, ldap_abandoned and ldap_mark_abandoned, hold the mutex for the whole
call. Growing the array may fail, which the code ignores.

### Referrals

`req` is the search and its children, `outrefcnt` the search's count of them,
`conn`, `refs`, `bound` and `queue` the connections to the servers. `stack` holds
the calls of ldap_chase_v3referrals: each but the last waits in
ldap_new_connection for a bind, and the messages it handles meanwhile push
others. `readResult`, `readRefs` and `readBind` are what try_read1msg does with a
message; the `try...` actions are the ways through one turn of the loop over a
list of URLs; `chased` is what follows the loop. `hops`, `referred` and `kept` are
history. The address of a freed connection may be in use again, so the loop
check may or may not take it for the current one.

### BerReader

A byte is its place in the stream, a message the widths of its tag, length and
contents. The server sends whole messages at any time (`send`), and `starts` is
where each begins. `head` is what has been read into the fields of the element, `buf` what
is in its buffer. `leftover` is what the code makes of bytes it has read beyond
the header: those that lie in `ber_len` must be saved before the length is stored
there. `word` is the size of that field, 4 or 8.

## What is checked

The runs `android_race`, `ios_core` and `cursors` also check the type invariants.
All runs allow the system to stop: an application may have nothing more to do
and a server need not answer, so deadlock is not an error.

| Run | Shows |
| --- | --- |
| `android_race` | two searches on a bound connection, up to two entries and references each, against all threads: `WireInv`, `OneOutcome`, `ResultIntegrity`, `ImplementsContract`, `AbandonsOwn` |
| `android_session` | four requests over two connections by a careful application: `BoundIsAuthenticated`, `NoConnectionLeft`, and under fair threads `AsyncSearchEnds` |
| `ios_core` | two requests of any kind on a bound handle, with five message IDs: `ConnRefs`, `QueueIsOurs`, `OneOwner`, `ResultIntegrity`, `ImplementsContract` |
| `ios_session` | three requests over two handles by a careful application, after a connect or a bind, with TLS or without: `AnswersHeard`, `BoundIsAuthenticated`, `NoHandleLeft`, `RequestEnds`, `TimedRequestEnds` |
| `cursors` | one result with up to three messages and two entry objects on both platforms: `AndroidIsCursor`, `IosIsCursor`, `SameAnswers`, `AbortsOnlyPastNull`, `NoDangling`, `NoLeak` |
| `abandoned_list` | every sequence of calls over a small set of IDs: `ListInv`, `ImplementsSet`, `CallEnds` |
| `referrals` | references and referrals between three servers: `DoneIsLast`, `CountCovers`, `ConnectionsHeld`, `NestingBounded`, `SearchEnds` |
| `ber_reader` | two messages cut in every way: `MessagesIntact`, `HeaderFits`, `AllReturned` |

Why the bounds are enough. A race needs two requests on one connection, and
message IDs and results are confused as soon as there are two. Stale state needs
a second connection or handle. A late answer needs one earlier request. One item
is enough to misplace it; Android has entries and references and gets two. A
cursor needs a reference before, between or behind entries, and a second entry
object that is read at the same time. Bisection goes wrong with few elements if
it does at all, and its proof has no bound. A reference that comes in while
another one is being chased needs two lists, a queue a third server or a second
list for the same one. A message boundary needs two messages; their sizes are
chosen around the eight bytes that are first asked for. Where a run starts from
`BoundInit`, it starts after a connect and a bind that succeeded, so that all its
requests can be searches. The Android requests are interchangeable (symmetry);
the iOS requests are numbered and used in order, which has the same effect and
also works for liveness.

*Careful application.* On both platforms: it connects only when disconnected
and binds only when unbound. On iOS also: it disconnects only when bound and
abandons only a search that timed out on the current handle. The session
properties are false without this discipline. Connect, bind, connect leaves
`_bound` set for a connection that was never bound, and forgets an open
one; an iOS disconnect of an unbound handle (after a bind that timed out, say)
does not close it; a second bind that fails leaves `_bound` set.

*Fairness.* Threads that can run do run, and a timer that is armed fires
(`Fairness` of `AndroidLdap` and `IosLdap`); the Java and iOS schedulers and the
library's select loop justify that. The holder of the mutex in `AbandonedList`
goes on, and in `BerReader` bytes keep arriving. Nothing is assumed of the
application, the network and the server, with two exceptions that the properties
name: `RequestEnds` has `ServerFairness` as its hypothesis, a server that
finishes what it was asked as long as the link holds, and `SearchEnds` is
checked with servers that answer every request and bind.

`SearchEnds` also excludes a refused bind and a child that is referred on (`kept`):
after either the search may never be answered, as `referral_stuck` shows.

### Where code and documentation disagree

Each is a run in which TLC finds the documented property violated.

| Run | The code does |
| --- | --- |
| `android_lost_link` | An asynchronous search whose link is lost gets no callback: the SDK tells the listener nothing, and no one else watches the request. |
| `ios_reopened` | Search, lost link, abandon: the library frees its default connection and the next search silently opens a new one, which is anonymous while isBound says otherwise. |
| `ios_stale_abandon` | Abandoning a search of an earlier handle makes the current handle throw away the answers to its own request with the same message ID; the application hangs. |
| `referral_stuck` | The search's result is read while the connection to a referred server is being bound; the bind is refused, and nobody looks again whether the search is finished. It is never answered. |

The models show further behaviour of this kind that has no run of its own:

- A search on an unbound connection calls the error callback twice
  (`searchUnbound` of both modules).
- A bind without a connection throws at the script on Android (`throwOut`) and
  ends the application on iOS (`abort`), and so does an abandon without one.
- On Android, too, abandon after a reconnect names an ID of the new connection,
  which can be another search's: `AbandonsOwn` speaks only of the connection the
  search was sent on.
- An asynchronous iOS search with time limit zero, which `apidoc` gives as the
  default, is refused by the library; the code reads a stale `ld_errno` instead
  and may report success without a result (`searchZeroLimit`).
- A synchronous iOS search ignores the connection's time limit (`searchSend`),
  and so does StartTLS, which comes before the limit is set.
- A failed StartTLS is only logged, and connect succeeds (`startTLS`).
- nextEntry and nextAttribute return null past the end on Android and end the
  application on iOS; an attribute without values is an empty array on Android
  and null on iOS.
- The hop limit, "limit on referral nesting" in `ldap-int.h`, is compared with
  the number of children the search had when the request was sent, so that
  a search with many references stops following nested ones early.

## What is proved

Every invariant, action property and refinement of the runs that pass, for every
value of the constants. `PROJECT.json` lists the theorems with the properties
they are about; each section below gives the assumptions and the argument.

| Proofs | Theorems |
| --- | --- |
| `AndroidLdapProofs` | `TypesKept`, `Bookkeeping` (`WireInv`), `OneOutcomeAlways`, `ContractImplemented`, `AbandonsOwnAlways`, `ResultsHandedOver` (`ResultIntegrity`); of a careful application `NoSessionLeft`, `BoundMeansAuthenticated` |
| `IosLdapProofs` | `RefsCounted` (`ConnRefs`), `IosContractImplemented`; of a careful application `CarefulHandles` (`NoHandleLeft`) |
| `IosLdapTheorems` | `IosTypes`, `QueuesOwned` (`QueueIsOurs`), `ChainsOwned` (`OneOwner`), `ResultsIntact` (`ResultIntegrity`); of a careful application `AnswersAreHeard`, `BoundIsGenuine` (`BoundIsAuthenticated`) |
| `ResultCursorsProofs` | `TypesKept`, `AnswersAgree`, `NothingDangles`, `NothingLeaks`, `AssertionsPastNull`, `AndroidImplements`, `IosImplements` |
| `ReferralsProofs` | `ChildrenCounted` (`CountCovers`), `AnsweredLast` (`DoneIsLast`), `ConnectionsKept` (`ConnectionsHeld`), `NestingLimited` |
| `LibraryProofs` | `BisectionFinds` (`ListInv`), `SetImplemented`; `MessagesReturned` (`MessagesIntact`), `HeaderStays` (`HeaderFits`) |

*Assumptions.* The types of the constants, and that values which a model tells
apart are different: null is no connection, operation, wait, sequence or
message in a reader's hands (`ConstantsAssumption` and `ReaderAssumption` of
`AndroidLdap`, `LibAssumption`, `NullAssumption` of `IosLdap`,
`CursorAssumption`), result codes are not entries, and entries are not
references. `IdsAssumption`: message IDs are natural numbers. `RefsAssumption`:
a list of URLs is not empty. `MessageAssumption`: a tag has one to four bytes, a
length up to four more than its first, contents are not empty, and `ber_len_t`
has four or eight bytes. The bounds of the models are arbitrary natural numbers.

*Android.* `OneOutcome` is not inductive: that a listener is called once
rests on `returned`, which is the listener's only if the message a reader holds
belongs to a search that was written, which rests on what is on the wire, and
that on what the server works on. `WireInv` says all of it: for each request how
`phase`, `op`, `returned` and `calls` agree (`RequestInv`), that no operation
belongs to two requests (`OwnOperations`), and that server, wire and readers
hold only operations of written searches (`OnlyWritten`). It is inductive with
`TypeOK`, and `TypeOK` with it: the types of `calls` and `reader` need it. There
is one lemma per action, over frame lemmas for the requests and holders an
action leaves alone. Given `WireInv`, every step concerns the answer to at most
one request, and in one of three ways (`answerStep`): issued, answered at once,
or answered later; `OneOutcome` and the refinement follow from that.

`ResultIntegrity` has an invariant on top of that, `FlowInv`. While the listener
of a request is registered on an open connection, what it has collected,
followed by what the reader holds and by the messages of its operation on the
wire, is what the server has sent (`Replays`, which says so by the existence of the
sequence of intermediate results, so that no recursion is needed); a final
response is the last message of its operation, and the server has then stopped
working on it. What is taken from the wire, handed over or sent moves one item
across these borders. The careful sessions have an invariant of their own
(`CarefulInv`), which also covers a proxy that is disconnected.

*iOS, references.* `ConnRefs` is inductive once a new request's ID is known to be fresh
(`IdsGiven`): `RefInv` has both, with the types they need. One lemma per
operation of the library shows that it keeps `RefInv` for its handle and leaves
the others alone. `WaitInv` says that a request that is waited for has not been
answered and that its handle is there. Every step then does one of four things to the answers:
none, begins a wait, goes on with one, or answers one request, and the contract
follows.

*iOS, messages.* `IosInv` of `IosLdapSteps` has the library's half and the
proxies'. The library's, `LibInv`, is about one handle at a time: the IDs in use
were given out, a final response on the wire is the last one and the server no
longer works on its operation (`Ending`), the queue holds an unfinished chain
for a request on the list and a finished one for one that is off it (`Queued`),
and for each request that is not abandoned the queued chain followed by what is
on the wire is what the server has sent (`Flows`). The proxies' half says that
the thread waits for the last ID its handle gave out (`WaitOK`), who owns the
chain of a search (`Owned`), and that a search that was given a chain has all of
it (`Received`). That a connection with a request on it is not closed is needed
throughout; it follows from `RefInv`, and so the theorems are about the
conjunction, `SessionInv`.

*iOS, careful application.* `CareInv` of `IosCareful` adds what the discipline
gives: only IDs that were given out are abandoned and each operation belongs to one request;
what is waited for is neither abandoned nor on a broken connection (`Heard`);
while the proxy is bound, the server has no bind to work on and thinks of the
session as authenticated, and while a bind is waited for, the answer on its way
says what the server thinks (`BoundInv`).

*The cursors.* The positions of the entries (`DataInv`) make Java's iterator and
the walk along the chain comparable; the platforms are then always at the same
entry and attribute as long as iOS runs (`SamePlace`), and the retain counts are
the references that exist (`Counted`, `MemoryInv`). `Inv` is the conjunction. It
gives the agreement of the answers and the memory properties; the refinements
follow call by call.

*The list.* `ListInv` is inductive: while the loop runs, the ID can only be
between `begin` and `end`; when it ends, `pos` separates the smaller IDs from the
others. The array's steps are then the set's.

*Referrals.* `CountCovers` is inductive together with the shape of the stack:
all chases but the innermost wait for a bind, and a referral is handled once,
while its request is in progress (`StackInv`). A search that is answered has
nothing counted, so nothing on the stack. For the nesting, a request's own count
bounds its depth (`HopInv`), and what is on the stack or in a queue comes from a
request below the limit. For the connections, `lconn_refcnt` covers the requests
in progress on a connection and the chases that wait for its bind (`HeldInv`).

*The stream.* Whatever `ber_get_next` holds is a run of consecutive bytes
(`ReadInv`): a header that is not complete starts where its message does and ends
at `offset`, and so do contents that are not complete, behind the header. A run cut
at the end of the header, with the bytes that lie in `ber_len` put aside, is
again a run (`Leftover`).

Only model-checked: what must happen eventually, `AsyncSearchEnds`,
`RequestEnds`, `TimedRequestEnds`, `SearchEnds`, `CallEnds` and `AllReturned`. The
prover has no rules for fairness and ENABLED. The proofs use no induction
over data: where the meaning of a sequence counts (what a listener will have
collected, where a message starts), the invariants carry the intermediate
results, or the model records them as it goes (`starts`).

## Not modelled

- What number a limit is (Java's 32-bit multiplication, negative limits), and
  sizeLimit: whether a limit is in force is a free choice of the models.
- The TLS socket factory of Android and the records of TLS.
- The loss of a link while referrals are chased, LDAPv2 referrals, and StartTLS
  extensions of referral URLs.
- Encoding, filters, DNs, URLs and the SASL mechanisms: whether they succeed is
  a choice.
- The credentials callback of the SASL bind, a lookup without state.
- Module constants, Titanium itself, the example and the unit tests.

The bulk of the source tree is not ti.ldap's: `iphone/openldap` holds
the OpenLDAP distribution, with command-line tools, server plug-ins, a Tcl
binding, a database and a rewriting library, and the headers and build files of
OpenSSL and Cyrus SASL. The module reaches `libldap` and `liblber` only, and of
those the few operations of a client that binds and searches. What is
modelled of them is what the module's own calls run through and what keeps
state between those calls. The rest of that path encodes, decodes and encrypts
data.

## Possible extensions

1. The loss of links in `Referrals`, and its composition with `LibLdap`.
2. `Limits`, what setTimeLimit, getTimeLimit and sizeLimit make of a number on
   each platform.
3. Proofs of the liveness properties, with a prover that has the rules for
   fairness.
