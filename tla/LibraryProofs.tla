----------------------------- MODULE LibraryProofs -----------------------------
(***************************************************************************)
(* What is proved of the two data structures of the bundled library.       *)
(*                                                                         *)
(* First BerReader, for messages of any length, any number of them and     *)
(* reads of any size: the messages returned are those sent, and the header *)
(* stays inside the element's fields.  Whatever the reader holds is a run  *)
(* of consecutive bytes: ReadInv says where in the stream it starts and    *)
(* ends.                                                                   *)
(*                                                                         *)
(* Then AbandonedList, for any set of message IDs and any length of the    *)
(* array: bisection finds the place it should, and the sorted array        *)
(* implements the set of abandoned IDs.                                    *)
(***************************************************************************)
EXTENDS AbandonedList, BerReader, TLAPS

-------------------------------------------------------------------------------
(* Runs of consecutive bytes. *)

\* The n bytes behind byte a.
run(a, num) == [k \in 1 .. num |-> a + k]

LEMMA RunIsSeq ==
  ASSUME NEW a \in Nat, NEW num \in Nat
  PROVE  run(a, num) \in Seq(Nat) /\ Len(run(a, num)) = num
BY DEF run

LEMMA RunJoin ==
  ASSUME NEW a \in Nat, NEW num \in Nat, NEW m \in Nat
  PROVE  run(a, num) \o run(a + num, m) = run(a, num + m)
BY DEF run

LEMMA RunCut ==
  ASSUME NEW a \in Nat, NEW num \in Nat, NEW p \in 0 .. num, NEW q \in p .. num
  PROVE  SubSeq(run(a, num), p + 1, q) = run(a + p, q - p)
BY DEF run

LEMMA SumOfThree ==
  ASSUME NEW a \in Nat, NEW b \in Nat, NEW c \in Nat
  PROVE  a + (b + c) = (a + b) + c
OBVIOUS

LEMMA PlaceIn ==
  ASSUME NEW S, NEW T, NEW s \in Seq(S), NEW t \in Seq(T), Len(s) <= Len(t)
  PROVE  /\ \A i \in DOMAIN s : i \in 1 .. Len(t)
         /\ Len(s) + 1 \in 1 .. Len(t) + 1
         /\ Len(s) < Len(t) => Len(s) + 1 \in 1 .. Len(t)
OBVIOUS

-------------------------------------------------------------------------------
(* What follows the header. *)

\* The largest place of the header that lies in ber_len.
LEMMA LastInLen ==
  ASSUME NEW num \in Nat, NEW w \in Nat, num >= 1
  PROVE  Max({k \in 1 .. num : k <= w + 1}) = IF num <= w + 1 THEN num ELSE w + 1
<1> DEFINE S == {k \in 1 .. num : k <= w + 1}
           x == IF num <= w + 1 THEN num ELSE w + 1
<1>1. x \in S /\ \A y \in S : x >= y
  OBVIOUS
<1>2. \A z \in S : (\A y \in S : z >= y) => z = x
  OBVIOUS
<1>3. QED
  BY <1>1, <1>2 DEF Max

\* Nothing is lost and nothing is overwritten: leftover is what was read
\* behind the tag and the length.
LEMMA Leftover ==
  ASSUME NEW a \in Nat, NEW num \in Nat, NEW p \in 1 .. num, word \in {4, 8}
  PROVE  leftover(run(a, num), p) = run(a + p, num - p)
<1> DEFINE h == run(a, num)
           stored == [k \in DOMAIN h |-> IF k \in 2 .. word + 1 THEN 0 ELSE h[k]]
           inLen == {k \in DOMAIN h : k <= word + 1}
           last == IF p \in inLen THEN Max(inLen) ELSE p
<1>1. DOMAIN h = 1 .. num
  BY DEF run
<1>2. Max(inLen) = IF num <= word + 1 THEN num ELSE word + 1
  <2>1. inLen = {k \in 1 .. num : k <= word + 1}
    BY <1>1, Zenon
  <2>2. Max({k \in 1 .. num : k <= word + 1}) = IF num <= word + 1 THEN num ELSE word + 1
    <3>1. word \in Nat /\ num >= 1
      OBVIOUS
    <3>2. QED
      BY <3>1, LastInLen, Zenon
  <2>3. QED
    BY <2>1, <2>2, Zenon
<1>3. last \in p .. num /\ (last = num \/ last >= word + 1)
  BY <1>1, <1>2
<1>4. SubSeq(h, p + 1, last) = run(a + p, last - p)
  <2> HIDE DEF last
  <2>1. p \in 0 .. num
    OBVIOUS
  <2>2. QED
    BY <1>3, <2>1, RunCut, Zenon
<1>5. SubSeq(stored, last + 1, num) = run(a + last, num - last)
  <2> HIDE DEF last
  <2>1. stored = [k \in 1 .. num |-> IF k \in 2 .. word + 1 THEN 0 ELSE a + k]
    BY <1>1 DEF run
  <2>2. CASE last = num
    BY <2>1, <2>2 DEF run
  <2>3. CASE last >= word + 1
    BY <1>3, <2>1, <2>3 DEF run
  <2>4. QED
    BY <1>3, <2>2, <2>3, Zenon
<1>6. run(a + p, last - p) \o run(a + last, num - last) = run(a + p, num - p)
  <2> HIDE DEF last
  <2>1. a + p \in Nat /\ last - p \in Nat /\ num - last \in Nat
        /\ (a + p) + (last - p) = a + last /\ (last - p) + (num - last) = num - p
    BY <1>3
  <2>2. run(a + p, last - p) \o run((a + p) + (last - p), num - last) = run(a + p, (last - p) + (num - last))
    BY <2>1, RunJoin, Zenon
  <2>3. QED
    BY <2>1, <2>2, Zenon
<1>7. Len(h) = num
  BY RunIsSeq
<1>8. leftover(h, p) = SubSeq(h, p + 1, last) \o SubSeq(stored, last + 1, Len(h))
  BY DEF leftover
<1>9. QED
  BY <1>4, <1>5, <1>6, <1>7, <1>8, Zenon

-------------------------------------------------------------------------------
(* The invariant. *)

\* The message that is being read, and where its contents start.
current == sent[Len(got) + 1]
contentsAt(i) == starts[i] + headerOf(sent[i])

StreamInv ==
  /\ word \in {4, 8}
  /\ sent \in Seq(Message)
  /\ starts \in Seq(Nat) /\ Len(starts) = Len(sent) + 1
  /\ \A i \in 1 .. Len(sent) : starts[i + 1] = starts[i] + Size(sent[i])
  /\ offset \in Nat /\ offset <= total

\* Every message returned is one of those sent, whole.
ReturnedInv ==
  /\ got \in Seq(Seq(Nat)) /\ Len(got) <= Len(sent)
  /\ \A i \in DOMAIN got : got[i] = run(contentsAt(i), sent[i].len)

\* The header is being read: all of it that has arrived, and not yet all.
HeaderInv ==
  /\ head = run(starts[Len(got) + 1], Len(head))
  /\ offset = starts[Len(got) + 1] + Len(head)
  /\ Len(head) <= Eager
  /\ Len(head) > 0 => Len(got) < Len(sent) /\ ~parsed(head, current)

\* The contents are being read.
ContentsInv ==
  /\ Len(got) < Len(sent)
  /\ buf \in Seq(Nat) /\ Len(buf) < current.len
  /\ buf = run(contentsAt(Len(got) + 1), Len(buf))
  /\ offset = contentsAt(Len(got) + 1) + Len(buf)

ReadInv ==
  /\ head \in Seq(Nat) /\ Len(head) <= Eager + 1
  /\ failed \in BOOLEAN
  /\ failed => Len(got) < Len(sent) /\ Size(current) < Eager
  /\ ~failed /\ buf = Null => HeaderInv
  /\ ~failed /\ buf # Null => ContentsInv

Inv == StreamInv /\ ReturnedInv /\ ReadInv

LEMMA MessageTypes ==
  ASSUME NEW m \in Message
  PROVE  /\ headerOf(m) \in 2 .. Eager + 1 /\ m.len \in Nat /\ m.len >= 1
         /\ m.tag \in Nat /\ m.ext \in Nat
         /\ Size(m) = headerOf(m) + m.len
BY MessageAssumption DEF headerOf, Size, Eager, LENSIZE

\* parsed is about the length of the header alone.
LEMMA ParsedLength ==
  ASSUME NEW m \in Message, NEW h, Len(h) \in Nat
  PROVE  parsed(h, m) <=> Len(h) >= headerOf(m)
BY MessageTypes DEF parsed, headerOf

\* Where things are in the stream.
LEMMA MessagePlaces ==
  ASSUME StreamInv, NEW i \in 1 .. Len(sent)
  PROVE  /\ sent[i] \in Message /\ starts[i] \in Nat /\ starts[i + 1] \in Nat
         /\ starts[i + 1] = starts[i] + Size(sent[i])
         /\ contentsAt(i) = starts[i] + headerOf(sent[i]) /\ contentsAt(i) \in Nat
         /\ contents(i) = run(contentsAt(i), sent[i].len)
<1>1. sent[i] \in Message /\ starts[i] \in Nat /\ starts[i + 1] \in Nat
  BY DEF StreamInv
<1>2. starts[i + 1] = starts[i] + Size(sent[i])
  BY Zenon DEF StreamInv
<1>3. contentsAt(i) = starts[i] + headerOf(sent[i]) /\ contentsAt(i) \in Nat
  BY <1>1, MessageTypes DEF contentsAt
<1>4. contents(i) = run(contentsAt(i), sent[i].len)
  BY <1>3, Zenon DEF contents, run
<1>5. QED
  BY <1>1, <1>2, <1>3, <1>4, Zenon

LEMMA Meaning == Inv => MessagesIntact /\ HeaderFits
<1> SUFFICES ASSUME Inv PROVE MessagesIntact /\ HeaderFits
  OBVIOUS
<1>1. HeaderFits
  BY DEF Inv, ReadInv, StreamInv, HeaderFits, Eager, LENSIZE
<1>2. ASSUME NEW i \in DOMAIN got PROVE got[i] = contents(i)
  <2>1. i \in 1 .. Len(sent)
    BY PlaceIn, Zenon DEF Inv, StreamInv, ReturnedInv
  <2>2. QED
    BY <2>1, MessagePlaces, Zenon DEF Inv, ReturnedInv
<1>3. QED
  BY <1>1, <1>2, Zenon DEF Inv, ReadInv, MessagesIntact, current

LEMMA Start == ReaderInit => Inv
<1> SUFFICES ASSUME ReaderInit PROVE Inv
  OBVIOUS
<1>1. StreamInv
  BY MessageAssumption DEF ReaderInit, StreamInv, total
<1>2. ReturnedInv
  BY DEF ReaderInit, ReturnedInv
<1>3. HeaderInv
  <2>1. Len(head) = 0 /\ Len(got) + 1 = 1 /\ starts[1] = 0 /\ offset = 0 /\ run(0, 0) = <<>> /\ head = <<>>
    BY DEF ReaderInit, run
  <2>2. 0 <= Eager /\ ~(0 > 0) /\ 0 = 0 + 0
    BY DEF Eager, LENSIZE
  <2>3. QED
    BY <2>1, <2>2, Zenon DEF HeaderInv
<1>4. ReadInv
  <2>1. head \in Seq(Nat) /\ Len(head) <= Eager + 1
    BY DEF ReaderInit, Eager, LENSIZE
  <2>2. QED
    BY <1>3, <2>1, Zenon DEF ReaderInit, ReadInv
<1>5. QED
  BY <1>1, <1>2, <1>4 DEF Inv

-------------------------------------------------------------------------------
(* The steps. *)

\* A message that was sent is where it was when another one is sent.
LEMMA SendKeeps ==
  ASSUME Inv, NEW m \in Message, send(m)
  PROVE  Inv'
<1>0. StreamInv /\ ReturnedInv /\ ReadInv
  BY DEF Inv
<1>1. total \in Nat /\ Size(m) \in Nat
  <2>1. headerOf(m) \in Nat /\ m.len \in Nat /\ Size(m) = headerOf(m) + m.len
    BY MessageTypes
  <2>2. total \in Nat
    BY <1>0 DEF StreamInv, total
  <2>3. QED
    BY <2>1, <2>2
<1>2. UNCHANGED <<word, offset, head, buf, got, failed>>
  BY DEF send
<1>3. /\ sent' \in Seq(Message) /\ Len(sent') = Len(sent) + 1
      /\ sent'[Len(sent) + 1] = m
      /\ \A i \in 1 .. Len(sent) : sent'[i] = sent[i]
  BY <1>0 DEF send, StreamInv
<1>4. /\ starts' \in Seq(Nat) /\ Len(starts') = Len(sent) + 2
      /\ starts'[Len(sent) + 2] = total + Size(m) /\ total = starts[Len(sent) + 1]
      /\ \A i \in 1 .. Len(sent) + 1 : starts'[i] = starts[i]
  BY <1>0, <1>1 DEF send, StreamInv, total
<1>5. StreamInv'
  <2>1. \A i \in 1 .. Len(sent') : starts'[i + 1] = starts'[i] + Size(sent'[i])
    <3> TAKE i \in 1 .. Len(sent')
    <3>1. CASE i = Len(sent) + 1
      <4>1. i + 1 = Len(sent) + 2 /\ i \in 1 .. Len(sent) + 1
        BY <1>0, <3>1 DEF StreamInv
      <4>2. QED
        BY <1>3, <1>4, <3>1, <4>1, Zenon
    <3>2. CASE i \in 1 .. Len(sent)
      <4>1. starts'[i] = starts[i] /\ starts'[i + 1] = starts[i + 1] /\ sent'[i] = sent[i]
        BY <1>3, <1>4, <3>2
      <4>2. QED
        BY <1>0, <3>2, <4>1, Zenon DEF StreamInv
    <3>3. QED
      BY <1>3, <3>1, <3>2
  <2>2. total' = total + Size(m)
    BY <1>4 DEF total
  <2>3. QED
    BY <1>0, <1>1, <1>2, <1>3, <1>4, <2>1, <2>2 DEF StreamInv
<1>6. \A i \in 1 .. Len(sent) : sent'[i] = sent[i] /\ contentsAt(i)' = contentsAt(i)
  <2> TAKE i \in 1 .. Len(sent)
  <2>1. i \in 1 .. Len(sent) + 1
    BY <1>0 DEF StreamInv
  <2>2. QED
    BY <1>3, <1>4, <2>1, Zenon DEF contentsAt
<1>7. ReturnedInv'
  <2>1. \A i \in DOMAIN got : i \in 1 .. Len(sent)
    BY <1>0, PlaceIn, Zenon DEF StreamInv, ReturnedInv
  <2>2. Len(got) <= Len(sent')
    BY <1>0, <1>3 DEF StreamInv, ReturnedInv
  <2>3. QED
    BY <1>0, <1>2, <1>6, <2>1, <2>2, Zenon DEF ReturnedInv
<1>8. starts'[Len(got) + 1] = starts[Len(got) + 1]
  BY <1>0, <1>4 DEF ReturnedInv, StreamInv
<1>9. Len(got) < Len(sent) =>
        Len(got) < Len(sent') /\ current' = current /\ contentsAt(Len(got) + 1)' = contentsAt(Len(got) + 1)
  <2> HAVE Len(got) < Len(sent)
  <2>1. Len(got) + 1 \in 1 .. Len(sent) /\ Len(got) < Len(sent')
    BY <1>0, <1>3 DEF ReturnedInv, StreamInv
  <2>2. QED
    BY <1>2, <1>6, <2>1, Zenon DEF current, contentsAt
<1>10. HeaderInv => HeaderInv'
  BY <1>2, <1>8, <1>9, Zenon DEF HeaderInv, parsed
<1>11. ContentsInv => ContentsInv'
  BY <1>2, <1>9, Zenon DEF ContentsInv
<1>12. ReadInv'
  BY <1>0, <1>2, <1>9, <1>10, <1>11, Zenon DEF ReadInv
<1>13. QED
  BY <1>5, <1>7, <1>12 DEF Inv

\* A read does not change the stream.
LEMMA ReadStream ==
  ASSUME Inv, NEW num \in Nat, NEW max, read(num, max), UNCHANGED <<word, sent, starts>>
  PROVE  StreamInv' /\ offset' = offset + num /\ offset + num <= total /\ offset' \in Nat
<1>1. offset' = offset + num /\ offset + num <= total /\ total' = total
  BY DEF read, total
<1>2. QED
  BY <1>1 DEF Inv, StreamInv

\* A message is complete when all its bytes have been read.
LEMMA ReturnKeeps ==
  ASSUME Inv, Len(got) < Len(sent), UNCHANGED <<word, sent, starts, failed>>, StreamInv', ~failed,
         done(run(contentsAt(Len(got) + 1), current.len)),
         offset' = contentsAt(Len(got) + 1) + current.len
  PROVE  Inv'
<1> DEFINE k == Len(got) + 1
           c == run(contentsAt(k), sent[k].len)
<1>0. StreamInv /\ ReturnedInv
  BY DEF Inv
<1>1. k \in 1 .. Len(sent) /\ Len(got) \in Nat
  BY <1>0 DEF StreamInv, ReturnedInv
<1>2. /\ sent[k] \in Message /\ starts[k] \in Nat /\ starts[k + 1] \in Nat
      /\ starts[k + 1] = starts[k] + Size(sent[k])
      /\ contentsAt(k) = starts[k] + headerOf(sent[k]) /\ contentsAt(k) \in Nat
  BY <1>0, <1>1, MessagePlaces, Zenon
<1>3. c \in Seq(Nat) /\ starts[k + 1] = contentsAt(k) + sent[k].len
  <2>1. /\ headerOf(sent[k]) \in Nat /\ sent[k].len \in Nat
        /\ Size(sent[k]) = headerOf(sent[k]) + sent[k].len
    <3>1. headerOf(sent[k]) \in 2 .. Eager + 1 /\ sent[k].len \in Nat
          /\ Size(sent[k]) = headerOf(sent[k]) + sent[k].len
      BY <1>2, MessageTypes, Zenon
    <3>2. QED
      BY <3>1 DEF Eager, LENSIZE
  <2>2. c \in Seq(Nat)
    BY <1>2, <2>1, RunIsSeq, Zenon
  <2>3. starts[k] + Size(sent[k]) = contentsAt(k) + sent[k].len
    <3>1. starts[k] \in Nat /\ headerOf(sent[k]) \in Nat /\ sent[k].len \in Nat
      BY <1>2, <2>1, Zenon
    <3>2. starts[k] + (headerOf(sent[k]) + sent[k].len) = (starts[k] + headerOf(sent[k])) + sent[k].len
      BY <3>1, SumOfThree, Zenon
    <3>3. QED
      BY <1>2, <2>1, <3>2, Zenon
  <2>4. QED
    BY <1>2, <2>1, <2>2, <2>3, Zenon
<1>4. got' = Append(got, c) /\ head' = <<>> /\ buf' = Null
  BY Zenon DEF done, current
<1>5. got' \in Seq(Seq(Nat)) /\ Len(got') = k /\ got'[k] = c /\ \A i \in DOMAIN got : got'[i] = got[i]
  <2> HIDE DEF c
  <2>1. QED
    BY <1>0, <1>3, <1>4 DEF ReturnedInv
<1>6. \A i : contentsAt(i)' = contentsAt(i)
  BY Zenon DEF contentsAt
<1>7. ReturnedInv'
  <2>1. DOMAIN got' = 1 .. k /\ DOMAIN got = 1 .. Len(got)
    BY <1>0, <1>5 DEF ReturnedInv
  <2>2. \A i \in DOMAIN got' : got'[i] = run(contentsAt(i), sent[i].len)
    <3> TAKE i \in DOMAIN got'
    <3>1. i \in DOMAIN got \/ i = k
      BY <1>1, <2>1
    <3>2. QED
      BY <1>0, <1>5, <3>1, Zenon DEF ReturnedInv
  <2>3. k <= Len(sent)
    BY <1>1
  <2>4. QED
    BY <1>5, <1>6, <2>2, <2>3, Zenon DEF ReturnedInv
<1>8. offset' = starts[k + 1]
  BY <1>3, Zenon DEF current
<1>9. HeaderInv'
  <2>1. Len(head') = 0 /\ run(starts[k + 1], 0) = <<>> /\ starts[k + 1] + 0 = starts[k + 1]
    BY <1>2, <1>4 DEF run
  <2>2. 0 <= Eager /\ ~(0 > 0)
    BY DEF Eager, LENSIZE
  <2>3. QED
    BY <1>4, <1>5, <1>8, <2>1, <2>2, Zenon DEF HeaderInv
<1>10. ReadInv'
  <2>1. head' \in Seq(Nat) /\ Len(head') <= Eager + 1
    BY <1>4 DEF Eager, LENSIZE
  <2>2. failed' = failed /\ failed \in BOOLEAN
    BY Zenon DEF Inv, ReadInv
  <2>3. ~failed' /\ failed' \in BOOLEAN
    BY <2>2
  <2>4. QED
    BY <1>4, <1>9, <2>1, <2>3, Zenon DEF ReadInv
<1>11. QED
  BY <1>7, <1>10, Zenon DEF Inv

LEMMA AskBounds ==
  ASSUME NEW l \in Nat, l <= Eager, NEW num \in Nat,
         num <= IF l < Eager THEN Eager - l ELSE 1
  PROVE  l + num \in Nat /\ l + num <= Eager + 1 /\ (l + num = Eager + 1 => l = Eager)
BY DEF Eager, LENSIZE

\* How much of the contents comes with the header.
LEMMA BehindHeader ==
  ASSUME NEW l \in Nat, NEW p \in 2 .. Eager + 1, l <= Eager + 1, l >= p, NEW len \in Nat, len >= 1
  PROVE  /\ p \in 1 .. l /\ l - p \in Nat /\ p \in Nat
         /\ l - p > len => (l <= Eager /\ p + len < Eager) \/ l = Eager + 1
BY DEF Eager, LENSIZE

\* What has been read of the header, before and after a read of n bytes.
LEMMA HeaderRead ==
  ASSUME Inv, ~failed, buf = Null, NEW num \in Nat, num >= 1, read(num, ask)
  PROVE  /\ Len(got) < Len(sent) /\ Len(head) \in Nat /\ Len(head) <= Eager
         /\ num <= ask
         /\ head \o bytes(num) = run(starts[Len(got) + 1], Len(head) + num)
         /\ offset + num = starts[Len(got) + 1] + (Len(head) + num)
<1> DEFINE k == Len(got) + 1
<1>0. StreamInv /\ ReturnedInv /\ HeaderInv /\ head \in Seq(Nat)
  BY Zenon DEF Inv, ReadInv
<1>1. k \in 1 .. Len(sent) + 1 /\ (Len(got) < Len(sent) => k \in 1 .. Len(sent))
  BY <1>0, PlaceIn, Zenon DEF StreamInv, ReturnedInv
<1>2. starts[k] \in Nat /\ Len(head) \in Nat /\ Len(head) <= Eager
  BY <1>0, <1>1 DEF StreamInv, HeaderInv
<1>3. offset = starts[k] + Len(head) /\ offset + num <= total /\ num <= ask
  BY <1>0, Zenon DEF HeaderInv, read
<1>4. Len(got) < Len(sent)
  <2> SUFFICES ASSUME ~(Len(got) < Len(sent)) PROVE FALSE
    OBVIOUS
  <2>1. Len(got) = Len(sent)
    BY <1>0 DEF StreamInv, ReturnedInv
  <2>2. starts[k] = total
    BY <1>0, <2>1, Zenon DEF StreamInv, total
  <2>3. QED
    BY <1>2, <1>3, <2>2
<1>5. run(starts[k], Len(head)) \o run(starts[k] + Len(head), num) = run(starts[k], Len(head) + num)
  BY <1>2, RunJoin, Zenon
<1>6. head \o bytes(num) = run(starts[k], Len(head) + num)
  BY <1>0, <1>3, <1>5, Zenon DEF HeaderInv, bytes, run
<1>7. offset + num = starts[k] + (Len(head) + num)
  <2>1. starts[k] + (Len(head) + num) = (starts[k] + Len(head)) + num
    BY <1>2
  <2>2. QED
    BY <1>3, <2>1, Zenon
<1>8. QED
  BY <1>2, <1>3, <1>4, <1>6, <1>7, Zenon

LEMMA ReadHeaderKeeps ==
  ASSUME Inv, NEW num \in Nat, num >= 1, readHeader(num)
  PROVE  Inv'
<1> DEFINE k == Len(got) + 1
           l == Len(head) + num
           h == head \o bytes(num)
           p == headerOf(current)
           c == leftover(h, p)
<1>0. StreamInv /\ ReturnedInv /\ ReadInv /\ ~failed /\ buf = Null
  BY Zenon DEF Inv, readHeader
<1>1. read(num, ask) /\ UNCHANGED <<word, sent, starts>>
  BY Zenon DEF readHeader
<1>2. /\ Len(got) < Len(sent) /\ Len(head) \in Nat /\ Len(head) <= Eager
      /\ num <= ask /\ h = run(starts[k], l) /\ offset + num = starts[k] + l
  BY <1>0, <1>1, HeaderRead, Zenon
<1>3. StreamInv' /\ offset' = offset + num
  BY <1>1, ReadStream, Zenon
<1>4. k \in 1 .. Len(sent)
  BY <1>0, <1>2, PlaceIn, Zenon DEF StreamInv, ReturnedInv
<1>5. /\ current \in Message /\ starts[k] \in Nat
      /\ contentsAt(k) = starts[k] + p
  BY <1>0, <1>4, MessagePlaces, Zenon DEF current
<1>6. /\ p \in 2 .. Eager + 1 /\ current.len \in Nat /\ current.len >= 1
      /\ Size(current) = p + current.len
  BY <1>5, MessageTypes, Zenon
<1>7. l \in Nat /\ l <= Eager + 1 /\ (l = Eager + 1 => Len(head) = Eager)
  BY <1>2, AskBounds, Zenon DEF ask
<1>8. h \in Seq(Nat) /\ Len(h) = l
  <2>1. run(starts[k], l) \in Seq(Nat) /\ Len(run(starts[k], l)) = l
    BY <1>5, <1>7, RunIsSeq, Zenon
  <2>2. QED
    BY <1>2, <2>1, Zenon
<1>9. parsed(h, current) <=> l >= p
  BY <1>5, <1>7, <1>8, ParsedLength, Zenon
<1>10. ASSUME l >= p
       PROVE  /\ l - p \in Nat /\ c = run(contentsAt(k), l - p) /\ Len(c) = l - p
              /\ c \in Seq(Nat) /\ contentsAt(k) \in Nat
              /\ starts[k] + l = contentsAt(k) + (l - p)
              /\ l - p > current.len => Size(current) < Eager
  <2>1. /\ p \in 1 .. l /\ l - p \in Nat /\ p \in Nat
        /\ l - p > current.len => (l <= Eager /\ p + current.len < Eager) \/ l = Eager + 1
    BY <1>6, <1>7, <1>10, BehindHeader, Zenon
  <2>2. leftover(run(starts[k], l), p) = run(starts[k] + p, l - p)
    <3>1. word \in {4, 8}
      BY <1>0, Zenon DEF StreamInv
    <3>2. QED
      BY <1>5, <1>7, <2>1, <3>1, Leftover, Zenon
  <2>3. c = run(contentsAt(k), l - p)
    BY <1>2, <1>5, <2>2, Zenon
  <2>4. contentsAt(k) \in Nat /\ starts[k] + l = contentsAt(k) + (l - p)
    <3> HIDE DEF l, p, k
    <3>1. QED
      BY <1>5, <1>7, <2>1
  <2>5. c \in Seq(Nat) /\ Len(c) = l - p
    <3>1. run(contentsAt(k), l - p) \in Seq(Nat) /\ Len(run(contentsAt(k), l - p)) = l - p
      BY <2>1, <2>4, RunIsSeq, Zenon
    <3>2. QED
      BY <2>3, <3>1, Zenon
  <2>6. l = Eager + 1 => ~parsed(head, current) /\ Len(head) = Eager
    <3> HAVE l = Eager + 1
    <3>1. Len(head) = Eager /\ Len(head) > 0
      BY <1>7 DEF Eager, LENSIZE
    <3>2. QED
      BY <1>0, <3>1, Zenon DEF ReadInv, HeaderInv
  <2>7. l = Eager + 1 => l - p = 0
    <3> HAVE l = Eager + 1
    <3>1. ~(Eager >= p)
      BY <1>2, <1>5, <2>6, ParsedLength, Zenon
    <3>2. QED
      BY <1>6, <3>1 DEF Eager, LENSIZE
  <2>8. l - p > current.len => p + current.len < Eager
    <3> HIDE DEF l, p
    <3>1. QED
      BY <1>6, <2>1, <2>7
  <2>9. QED
    BY <1>6, <2>1, <2>3, <2>4, <2>5, <2>8, Zenon
<1>11. CASE ~parsed(h, current) /\ head' = h /\ UNCHANGED <<buf, got, failed>>
  <2>1. HeaderInv'
    <3>1. l <= Eager
      <4> HIDE DEF l, p
      <4>1. QED
        BY <1>6, <1>7, <1>9, <1>11 DEF Eager, LENSIZE
    <3>2. Len(head') = l /\ head' = run(starts[k], l) /\ offset' = starts[k] + l
      BY <1>2, <1>3, <1>8, <1>11, Zenon
    <3>3. current' = current /\ ~parsed(head', current)
      BY <1>1, <1>11, Zenon DEF current
    <3>4. QED
      BY <1>1, <1>2, <1>11, <3>1, <3>2, <3>3, Zenon DEF HeaderInv, parsed
  <2>2. ReadInv'
    BY <1>0, <1>7, <1>8, <1>11, <2>1, Zenon DEF ReadInv
  <2>3. ReturnedInv'
    BY <1>0, <1>1, <1>11, Zenon DEF ReturnedInv, contentsAt
  <2>4. QED
    BY <1>3, <2>2, <2>3, Zenon DEF Inv
<1>12. CASE parsed(h, current) /\ Len(c) > current.len /\ failed' = TRUE /\ UNCHANGED <<head, buf, got>>
  <2>1. Size(current) < Eager
    BY <1>9, <1>10, <1>12, Zenon
  <2>2. current' = current
    BY <1>1, <1>12, Zenon DEF current
  <2>3. ReadInv'
    BY <1>0, <1>1, <1>2, <1>12, <2>1, <2>2, Zenon DEF ReadInv
  <2>4. ReturnedInv'
    BY <1>0, <1>1, <1>12, Zenon DEF ReturnedInv, contentsAt
  <2>5. QED
    BY <1>3, <2>3, <2>4, Zenon DEF Inv
<1>13. CASE parsed(h, current) /\ Len(c) = current.len /\ done(c) /\ UNCHANGED failed
  <2>1. c = run(contentsAt(k), current.len) /\ offset' = contentsAt(k) + current.len
    BY <1>2, <1>3, <1>9, <1>10, <1>13, Zenon
  <2>2. QED
    BY <1>0, <1>1, <1>2, <1>3, <1>13, <2>1, ReturnKeeps, Zenon
<1>14. CASE parsed(h, current) /\ Len(c) < current.len /\ head' = h /\ buf' = c /\ UNCHANGED <<got, failed>>
  <2>1. /\ buf' = run(contentsAt(k), l - p) /\ Len(buf') = l - p /\ buf' \in Seq(Nat)
        /\ offset' = contentsAt(k) + (l - p)
    BY <1>2, <1>3, <1>9, <1>10, <1>14, Zenon
  <2>2. current' = current /\ contentsAt(k)' = contentsAt(k) /\ Len(got') + 1 = k
    BY <1>1, <1>14, Zenon DEF current, contentsAt
  <2>3. Len(buf') < current.len
    BY <1>14, Zenon
  <2>4. ContentsInv'
    BY <1>1, <1>2, <1>14, <2>1, <2>2, <2>3, Zenon DEF ContentsInv
  <2>5. buf' # Null
    BY <2>1, MessageAssumption, Zenon
  <2>6. ReadInv'
    BY <1>0, <1>7, <1>8, <1>14, <2>4, <2>5, Zenon DEF ReadInv
  <2>7. ReturnedInv'
    BY <1>0, <1>1, <1>14, Zenon DEF ReturnedInv, contentsAt
  <2>8. QED
    BY <1>3, <2>6, <2>7, Zenon DEF Inv
<1>15. QED
  BY <1>11, <1>12, <1>13, <1>14, Zenon DEF readHeader, current

LEMMA ReadContentsKeeps ==
  ASSUME Inv, NEW num \in Nat, num >= 1, readContents(num)
  PROVE  Inv'
<1> DEFINE k == Len(got) + 1
           l == Len(buf) + num
           c == buf \o bytes(num)
<1>0. StreamInv /\ ReturnedInv /\ ReadInv /\ ~failed /\ buf # Null /\ ContentsInv
  BY Zenon DEF Inv, ReadInv, readContents
<1>1. read(num, toGo(current)) /\ UNCHANGED <<word, sent, starts, failed>>
  BY Zenon DEF readContents, current
<1>2. StreamInv' /\ offset' = offset + num
  BY <1>1, ReadStream, Zenon
<1>3. k \in 1 .. Len(sent) /\ Len(got) < Len(sent)
  BY <1>0, PlaceIn, Zenon DEF StreamInv, ReturnedInv, ContentsInv
<1>4. current \in Message /\ contentsAt(k) \in Nat
  BY <1>0, <1>3, MessagePlaces, Zenon DEF current
<1>5. current.len \in Nat
  BY <1>4, MessageTypes, Zenon
<1>6. /\ buf \in Seq(Nat) /\ buf = run(contentsAt(k), Len(buf)) /\ offset = contentsAt(k) + Len(buf)
      /\ num <= current.len - Len(buf)
  BY <1>0, <1>1, Zenon DEF ContentsInv, read, toGo
<1>7. Len(buf) \in Nat /\ l \in Nat /\ l <= current.len
  <2>1. Len(buf) \in Nat
    BY <1>6
  <2>2. QED
    BY <1>5, <1>6, <2>1
<1>8. c = run(contentsAt(k), l) /\ offset' = contentsAt(k) + l
  <2>1. run(contentsAt(k), Len(buf)) \o run(contentsAt(k) + Len(buf), num) = run(contentsAt(k), l)
    BY <1>4, <1>7, RunJoin, Zenon
  <2>2. contentsAt(k) + (Len(buf) + num) = (contentsAt(k) + Len(buf)) + num
    BY <1>4, <1>7
  <2>3. QED
    BY <1>2, <1>6, <2>1, <2>2, Zenon DEF bytes, run
<1>9. c \in Seq(Nat) /\ Len(c) = l
  <2>1. run(contentsAt(k), l) \in Seq(Nat) /\ Len(run(contentsAt(k), l)) = l
    BY <1>4, <1>7, RunIsSeq, Zenon
  <2>2. QED
    BY <1>8, <2>1, Zenon
<1>10. CASE Len(c) = current.len /\ done(c)
  <2>1. done(run(contentsAt(k), current.len)) /\ offset' = contentsAt(k) + current.len
    BY <1>8, <1>9, <1>10, Zenon
  <2>2. QED
    BY <1>0, <1>1, <1>2, <1>3, <2>1, ReturnKeeps, Zenon
<1>11. CASE Len(c) # current.len /\ buf' = c /\ UNCHANGED <<head, got>>
  <2>1. current' = current /\ contentsAt(k)' = contentsAt(k) /\ Len(got') + 1 = k
    BY <1>1, <1>11, Zenon DEF current, contentsAt
  <2>2. l < current.len
    <3>1. l # current.len
      BY <1>9, <1>11, Zenon
    <3> HIDE DEF l
    <3>2. QED
      BY <1>5, <1>7, <3>1
  <2>3. ContentsInv'
    BY <1>1, <1>3, <1>8, <1>9, <1>11, <2>1, <2>2, Zenon DEF ContentsInv
  <2>4. buf' # Null
    BY <1>9, <1>11, MessageAssumption, Zenon
  <2>5. ReadInv'
    BY <1>0, <1>1, <1>11, <2>3, <2>4, Zenon DEF ReadInv
  <2>6. ReturnedInv'
    BY <1>0, <1>1, <1>11, Zenon DEF ReturnedInv, contentsAt
  <2>7. QED
    BY <1>2, <2>5, <2>6, Zenon DEF Inv
<1>12. QED
  BY <1>10, <1>11, Zenon DEF readContents, current

LEMMA StepKeeps == Inv /\ [ReaderNext]_readerVars => Inv'
<1> SUFFICES ASSUME Inv, [ReaderNext]_readerVars PROVE Inv'
  OBVIOUS
<1>1. ASSUME NEW num \in Reads, readHeader(num) \/ readContents(num) PROVE Inv'
  <2>1. num \in Nat /\ num >= 1
    BY MessageAssumption DEF Reads
  <2>2. QED
    BY <1>1, <2>1, ReadHeaderKeeps, ReadContentsKeeps, Zenon
<1>2. CASE UNCHANGED readerVars
  <2>1. StreamInv'
    BY <1>2, Zenon DEF Inv, StreamInv, readerVars, total
  <2>2. ReturnedInv'
    BY <1>2, Zenon DEF Inv, ReturnedInv, readerVars, contentsAt
  <2>3. ReadInv'
    BY <1>2, Zenon DEF Inv, ReadInv, HeaderInv, ContentsInv, readerVars, contentsAt, current, parsed
  <2>4. QED
    BY <2>1, <2>2, <2>3 DEF Inv
<1>3. QED
  BY <1>1, <1>2, SendKeeps, Zenon DEF ReaderNext, ber_get_next

-------------------------------------------------------------------------------
(* The theorems. *)

\* However the network cuts the stream into pieces and whenever the server
\* sends: the messages ber_get_next returns are the ones sent, in order and
\* byte for byte, and only a message of less than eight bytes is refused.
THEOREM MessagesReturned == ReaderSpec => []MessagesIntact
<1>1. Inv => MessagesIntact
  BY Meaning
<1>2. QED
  BY <1>1, Start, StepKeeps, PTL DEF ReaderSpec

\* No byte of a header is written behind ber_usertag, for either size of
\* ber_len_t and whatever pieces the header comes in.
THEOREM HeaderStays == ReaderSpec => []HeaderFits
<1>1. Inv => HeaderFits
  BY Meaning
<1>2. QED
  BY <1>1, Start, StepKeeps, PTL DEF ReaderSpec

-------------------------------------------------------------------------------
(* The list of abandoned IDs: bisection. *)

USE IdsAssumption DEF Places

\* The middle of an interval lies in it.
LEMMA Middle ==
  ASSUME NEW a \in Int, NEW b \in Int, a <= b
  PROVE  (a + b) \div 2 \in Int /\ a <= (a + b) \div 2 /\ (a + b) \div 2 <= b
  OBVIOUS

\* IDs are numbers, in ascending order.
LEMMA Ascending ==
  ASSUME TypeOK, Sorted, NEW i \in Places, NEW j \in Places, i <= j
  PROVE  v[i] \in Nat /\ v[j] \in Nat /\ v[i] <= v[j]
<1>1. n \in Nat /\ v[i] \in Nat /\ v[j] \in Nat
  BY Zenon DEF TypeOK
<1>2. CASE i = j
  BY <1>1, <1>2
<1>3. CASE i < j
  <2>1. v[i] < v[j]
    BY <1>3 DEF Sorted
  <2> QED
    BY <1>1, <2>1
<1> QED
  BY <1>1, <1>2, <1>3

LEMMA InitListInv == Init => ListInv
<1> SUFFICES ASSUME Init PROVE ListInv
  OBVIOUS
<1>1. Places = {} /\ n = 0
  BY DEF Init
<1>2. v \in [Places -> Ids]
  <2>1. 0 .. -1 = {}
    OBVIOUS
  <2> QED
    BY <1>1, <2>1 DEF Init
<1>3. TypeOK
  <2>1. n \in Nat /\ begin \in Int /\ end \in Int /\ pos \in Int /\ rc \in {0, 1}
    BY DEF Init
  <2>2. answer \in BOOLEAN /\ caller = "none" /\ pc = "enter"
    BY Zenon DEF Init
  <2> QED
    BY <1>2, <2>1, <2>2, Zenon DEF TypeOK
<1>4. Sorted
  <2>1. \A i \in Places : FALSE
    BY <1>1
  <2> QED
    BY <2>1 DEF Sorted
<1> QED
  BY <1>3, <1>4 DEF Init, ListInv

\* The comparisons with the two ends bracket the ID or locate it.
LEMMA EndsStep == ListInv /\ compareEnds => ListInv'
<1> SUFFICES ASSUME ListInv, compareEnds PROVE ListInv'
  OBVIOUS
<1>1. TypeOK' /\ Sorted'
  BY DEF ListInv, TypeOK, Sorted, compareEnds, list, call
<1>2. pc' = "found" => Located'
  <2>1. /\ n \in Nat /\ id \in Nat /\ rc = 0 /\ begin = 0 /\ end = n - 1
        /\ v' = v /\ n' = n /\ id' = id /\ rc' = rc
    BY Zenon DEF ListInv, TypeOK, compareEnds, list, call
  <2>2. \A i \in Places : v[i] \in Nat /\ v[0] <= v[i] /\ v[i] <= v[n - 1]
    BY <2>1, Ascending DEF ListInv
  <2>3. CASE below /\ pos' = 0
    BY <2>1, <2>2, <2>3 DEF below, Located
  <2>4. CASE ~below /\ id > v[end] /\ pos' = n
    BY <2>1, <2>2, <2>4 DEF below, Located
  <2> QED
    BY <2>3, <2>4 DEF compareEnds
<1>3. pc' = "loop" => Bracketed' /\ rc' = 0
  BY DEF ListInv, TypeOK, Bracketed, compareEnds, below, list, call
<1>4. pc' # "enter"
  BY DEF compareEnds
<1> QED
  BY <1>1, <1>2, <1>3, <1>4 DEF ListInv

\* A turn of the loop keeps the bracket or locates the ID.
LEMMA BisectStep == ListInv /\ bisect => ListInv'
<1> SUFFICES ASSUME ListInv, bisect PROVE ListInv'
  OBVIOUS
<1> DEFINE mid == (begin + end) \div 2
<1>1. /\ TypeOK /\ Sorted /\ Bracketed /\ rc = 0 /\ caller # "none"
      /\ v' = v /\ n' = n /\ id' = id /\ caller' = caller /\ answer' = answer
  BY DEF ListInv, bisect, list, call
<1>2. mid \in Places /\ begin <= mid /\ mid <= end
  BY <1>1, Middle DEF TypeOK, Bracketed
<1>3. v[mid] \in Nat /\ id \in Nat /\ n \in Nat /\ begin \in Int /\ end \in Int
  BY <1>1, <1>2, Zenon DEF TypeOK
<1>4. Sorted'
  BY <1>1 DEF Sorted
<1> HIDE DEF mid
<1>5. CASE id < v[mid] /\ end' = mid - 1 /\ pos' = mid /\ begin' = begin /\ rc' = rc
  <2>1. ASSUME NEW i \in Places, i >= mid PROVE id < v[i]
    <3>1. v[i] \in Nat /\ v[mid] <= v[i]
      BY <1>1, <1>2, <2>1, Ascending
    <3> QED
      BY <1>3, <1>5, <3>1
  <2>2. TypeOK'
    BY <1>1, <1>2, <1>3, <1>5 DEF TypeOK, bisect
  <2>3. end' >= begin' => Bracketed'
    BY <1>1, <1>2, <1>3, <1>5, <2>1 DEF Bracketed
  <2>4. end' < begin' => Located'
    BY <1>1, <1>2, <1>3, <1>5, <2>1 DEF Bracketed, Located
  <2> QED
    BY <1>1, <1>2, <1>3, <1>4, <1>5, <2>2, <2>3, <2>4 DEF ListInv, bisect
<1>6. CASE id > v[mid] /\ begin' = mid + 1 /\ pos' = mid + 1 /\ end' = end /\ rc' = rc
  <2>1. ASSUME NEW i \in Places, i <= mid PROVE v[i] < id
    <3>1. v[i] \in Nat /\ v[i] <= v[mid]
      BY <1>1, <1>2, <2>1, Ascending
    <3> QED
      BY <1>3, <1>6, <3>1
  <2>2. TypeOK'
    BY <1>1, <1>2, <1>3, <1>6 DEF TypeOK, bisect
  <2>3. end' >= begin' => Bracketed'
    BY <1>1, <1>2, <1>3, <1>6, <2>1 DEF Bracketed
  <2>4. end' < begin' => Located'
    BY <1>1, <1>2, <1>3, <1>6, <2>1 DEF Bracketed, Located
  <2> QED
    BY <1>1, <1>2, <1>3, <1>4, <1>6, <2>2, <2>3, <2>4 DEF ListInv, bisect
<1>7. CASE id = v[mid] /\ rc' = 1 /\ pos' = mid /\ begin' = begin /\ end' = end
  <2>1. TypeOK'
    BY <1>1, <1>2, <1>3, <1>7 DEF TypeOK, bisect
  <2>2. Located' /\ pc' = "found"
    BY <1>1, <1>2, <1>7 DEF Located, bisect
  <2> QED
    BY <1>4, <2>1, <2>2 DEF ListInv
<1> QED
  BY <1>5, <1>6, <1>7 DEF bisect, mid

\* An ID inserted at its place leaves the array sorted.
LEMMA InsertStep == ListInv /\ ldap_int_bisect_insert => ListInv'
<1> SUFFICES ASSUME ListInv, ldap_int_bisect_insert PROVE ListInv'
  OBVIOUS
<1> USE DEF ldap_int_bisect_insert, return, locals, list
<1>1. CASE UNCHANGED list
  BY <1>1 DEF ListInv, TypeOK, Sorted
<1>2. CASE rc = 0 /\ n' = n + 1
        /\ v' = [i \in 0 .. n |-> IF i < pos THEN v[i] ELSE IF i = pos THEN id ELSE v[i - 1]]
  <2>1. Located /\ pos \in 0 .. n /\ n \in Nat /\ id \in Ids
    BY <1>2 DEF ListInv, Located, TypeOK, Callers
  <2>2. v' \in [0 .. n -> Ids]
    BY <1>2, <2>1 DEF ListInv, TypeOK
  <2>3. TypeOK'
    BY <1>2, <2>1, <2>2 DEF ListInv, TypeOK
  <2>4. Sorted'
    BY <1>2, <2>1 DEF ListInv, Sorted, Located, TypeOK
  <2> QED
    BY <2>3, <2>4 DEF ListInv
<1> QED
  BY <1>1, <1>2

LEMMA DeleteStep == ListInv /\ ldap_int_bisect_delete => ListInv'
<1> SUFFICES ASSUME ListInv, ldap_int_bisect_delete PROVE ListInv'
  OBVIOUS
<1> USE DEF ldap_int_bisect_delete, return, locals, list
<1>1. CASE UNCHANGED list
  BY <1>1 DEF ListInv, TypeOK, Sorted
<1>2. CASE rc = 1 /\ n' = n - 1
        /\ v' = [i \in 0 .. n - 2 |-> IF i < pos THEN v[i] ELSE v[i + 1]]
  <2>1. pos \in Places /\ n \in Nat \ {0}
    BY <1>2 DEF ListInv, Located, TypeOK, Callers
  <2>2. v' \in [0 .. n - 2 -> Ids]
    BY <1>2, <2>1 DEF ListInv, TypeOK
  <2>3. TypeOK'
    BY <1>2, <2>1, <2>2 DEF ListInv, TypeOK
  <2>4. Sorted'
    BY <1>2, <2>1 DEF ListInv, Sorted, TypeOK
  <2> QED
    BY <2>3, <2>4 DEF ListInv
<1> QED
  BY <1>1, <1>2

LEMMA NextListInv == ListInv /\ [Next]_vars => ListInv'
<1> SUFFICES ASSUME ListInv, [Next]_vars PROVE ListInv'
  OBVIOUS
<1>1. ASSUME NEW c \in Callers, NEW x \in Ids, ldap_int_bisect_find(c, x) PROVE ListInv'
  BY <1>1 DEF ldap_int_bisect_find, ListInv, TypeOK, Sorted, list
<1>2. CASE ldap_abandoned
  BY <1>2 DEF ldap_abandoned, return, locals, list, ListInv, TypeOK, Sorted
<1>3. CASE UNCHANGED vars
  BY <1>3 DEF vars, list, call, locals, ListInv, TypeOK, Sorted, Bracketed, Located
<1> QED
  BY <1>1, <1>2, <1>3, EndsStep, BisectStep, InsertStep, DeleteStep DEF Next, Step

\* In a list of any length over any set of IDs, ldap_int_bisect_find locates
\* an ID or its place, and insert and delete keep the array sorted.
THEOREM BisectionFinds == Spec => []ListInv
  BY InitListInv, NextListInv, PTL DEF Spec

-------------------------------------------------------------------------------
(* Refinement. *)

abandoned == {v[i] : i \in Places}

\* Bisection tells whether the ID is in the array.
LEMMA FoundIsMember ==
  ASSUME ListInv, caller # "none", pc = "found"
  PROVE  rc = 1 <=> id \in abandoned
<1>1. Located /\ TypeOK /\ Sorted
  BY DEF ListInv
<1>2. CASE rc = 1
  BY <1>1, <1>2 DEF Located, abandoned
<1>3. CASE rc = 0
  <2>1. ASSUME NEW i \in Places PROVE v[i] # id
    <3>1. n \in Nat /\ v[i] \in Nat /\ id \in Nat /\ pos \in Int
      BY <1>1, Zenon DEF TypeOK
    <3>2. (i < pos => v[i] < id) /\ (i >= pos => id < v[i])
      BY <1>1, <1>3 DEF Located
    <3> QED
      BY <3>1, <3>2
  <2> QED
    BY <1>3, <2>1 DEF abandoned
<1> QED
  BY <1>1, <1>2, <1>3 DEF TypeOK

\* Inserting adds the ID to the set.
LEMMA InsertAdds ==
  ASSUME ListInv, caller = "do_abandon", pc = "found", rc = 0, n' = n + 1,
         v' = [i \in 0 .. n |-> IF i < pos THEN v[i] ELSE IF i = pos THEN id ELSE v[i - 1]]
  PROVE  abandoned' = abandoned \cup {id}
<1>1. n \in Nat /\ pos \in 0 .. n
  BY DEF ListInv, TypeOK, Located
<1>2. Places' = 0 .. n
  BY <1>1
<1>3. ASSUME NEW i \in 0 .. n PROVE v'[i] \in abandoned \cup {id}
  <2>1. CASE i < pos
    BY <1>1, <2>1 DEF abandoned
  <2>2. CASE i = pos
    BY <1>1, <2>2
  <2>3. CASE i > pos
    <3>1. i - 1 \in Places /\ v'[i] = v[i - 1]
      BY <1>1, <2>3
    <3> QED
      BY <3>1 DEF abandoned
  <2> QED
    BY <1>1, <2>1, <2>2, <2>3
<1>4. ASSUME NEW i \in Places PROVE \E j \in 0 .. n : v'[j] = v[i]
  <2>1. CASE i < pos
    BY <1>1, <2>1
  <2>2. CASE i >= pos
    <3>1. i + 1 \in 0 .. n /\ v'[i + 1] = v[i]
      BY <1>1, <2>2
    <3> QED
      BY <3>1
  <2> QED
    BY <1>1, <2>1, <2>2
<1>5. v'[pos] = id
  BY <1>1
<1>6. abandoned' = {v'[i] : i \in 0 .. n}
  BY <1>2, Zenon DEF abandoned
<1>7. abandoned' \subseteq abandoned \cup {id}
  BY <1>3, <1>6
<1>8. abandoned \cup {id} \subseteq abandoned'
  <2>1. id \in abandoned'
    BY <1>1, <1>5, <1>6
  <2>2. abandoned \subseteq abandoned'
    <3> SUFFICES ASSUME NEW x \in abandoned PROVE x \in abandoned'
      OBVIOUS
    <3>1. PICK i \in Places : x = v[i]
      BY DEF abandoned
    <3>2. PICK j \in 0 .. n : v'[j] = v[i]
      BY <1>4
    <3> QED
      BY <1>6, <3>1, <3>2
  <2> QED
    BY <2>1, <2>2
<1> QED
  BY <1>7, <1>8

\* Deleting takes the ID out of the set, and no other.
LEMMA DeleteRemoves ==
  ASSUME ListInv, caller = "ldap_mark_abandoned", pc = "found", rc = 1, n' = n - 1,
         v' = [i \in 0 .. n - 2 |-> IF i < pos THEN v[i] ELSE v[i + 1]]
  PROVE  abandoned' = abandoned \ {id}
<1>1. n \in Nat \ {0} /\ pos \in Places /\ v[pos] = id
  BY DEF ListInv, TypeOK, Located
<1>2. Places' = 0 .. n - 2
  BY <1>1
<1>3. ASSUME NEW i \in Places, i # pos PROVE v[i] # id
  <2>1. v[i] \in Nat /\ v[pos] \in Nat
    BY <1>1, Zenon DEF ListInv, TypeOK
  <2>2. v[i] < v[pos] \/ v[pos] < v[i]
    BY <1>1, <1>3 DEF ListInv, Sorted
  <2> QED
    BY <1>1, <2>1, <2>2
<1>4. ASSUME NEW i \in 0 .. n - 2 PROVE \E j \in Places : j # pos /\ v'[i] = v[j]
  <2>1. CASE i < pos
    BY <1>1, <2>1
  <2>2. CASE i >= pos
    <3>1. i + 1 \in Places /\ i + 1 # pos /\ v'[i] = v[i + 1]
      BY <1>1, <2>2
    <3> QED
      BY <3>1
  <2> QED
    BY <1>1, <2>1, <2>2
<1>5. ASSUME NEW i \in Places, i # pos PROVE \E j \in 0 .. n - 2 : v'[j] = v[i]
  <2>1. CASE i < pos
    BY <1>1, <2>1
  <2>2. CASE i > pos
    <3>1. i - 1 \in 0 .. n - 2 /\ v'[i - 1] = v[i]
      BY <1>1, <2>2
    <3> QED
      BY <3>1
  <2> QED
    BY <1>1, <1>5, <2>1, <2>2
<1>6. abandoned' = {v'[i] : i \in 0 .. n - 2}
  BY <1>2, Zenon DEF abandoned
<1>7. abandoned' \subseteq abandoned \ {id}
  <2> SUFFICES ASSUME NEW x \in abandoned' PROVE x \in abandoned /\ x # id
    OBVIOUS
  <2>1. PICK i \in 0 .. n - 2 : x = v'[i]
    BY <1>6
  <2>2. PICK j \in Places : j # pos /\ v'[i] = v[j]
    BY <1>4
  <2> QED
    BY <1>3, <2>1, <2>2 DEF abandoned
<1>8. abandoned \ {id} \subseteq abandoned'
  <2> SUFFICES ASSUME NEW x \in abandoned, x # id PROVE x \in abandoned'
    OBVIOUS
  <2>1. PICK i \in Places : x = v[i]
    BY DEF abandoned
  <2>2. PICK j \in 0 .. n - 2 : v'[j] = v[i]
    BY <1>1, <1>5, <2>1
  <2> QED
    BY <1>6, <2>1, <2>2
<1> QED
  BY <1>7, <1>8

LEMMA ListStep == ListInv /\ [Next]_vars => [Set!Next]_(Set!vars)
<1> SUFFICES ASSUME ListInv, Next PROVE Set!Next \/ UNCHANGED <<abandoned, answer>>
  BY DEF vars, list, call, locals, Set!vars, abandoned
<1>1. CASE \E c \in Callers, x \in Ids : ldap_int_bisect_find(c, x)
  BY <1>1 DEF ldap_int_bisect_find, list, abandoned
<1>2. CASE compareEnds \/ bisect
  BY <1>2 DEF compareEnds, bisect, list, abandoned
<1>3. CASE ldap_int_bisect_insert
  <2>1. CASE UNCHANGED list
    BY <1>3, <2>1 DEF ldap_int_bisect_insert, list, abandoned
  <2>2. CASE ~ UNCHANGED list
    <3>1. id \in Ids /\ abandoned' = abandoned \cup {id} /\ answer' = answer
      BY <1>3, <2>2, InsertAdds
        DEF ldap_int_bisect_insert, return, ListInv, TypeOK
    <3> QED
      BY <3>1 DEF Set!Next, Set!Add, abandoned
  <2> QED
    BY <2>1, <2>2
<1>4. CASE ldap_int_bisect_delete
  <2>1. CASE UNCHANGED list
    BY <1>4, <2>1 DEF ldap_int_bisect_delete, list, abandoned
  <2>2. CASE ~ UNCHANGED list
    <3>1. id \in Ids /\ abandoned' = abandoned \ {id} /\ answer' = answer
      BY <1>4, <2>2, DeleteRemoves
        DEF ldap_int_bisect_delete, return, ListInv, TypeOK
    <3> QED
      BY <3>1 DEF Set!Next, Set!Remove, abandoned
  <2> QED
    BY <2>1, <2>2
<1>5. CASE ldap_abandoned
  <2>1. id \in Ids /\ answer' = (id \in abandoned) /\ abandoned' = abandoned
    BY <1>5, FoundIsMember DEF ldap_abandoned, return, list, ListInv, TypeOK, abandoned
  <2> QED
    BY <2>1 DEF Set!Next, Set!Ask, abandoned
<1> QED
  BY <1>1, <1>2, <1>3, <1>4, <1>5 DEF Next, Step

\* do_abandon, ldap_abandoned and ldap_mark_abandoned treat the array as the
\* set of abandoned IDs, for any set of IDs: what LibLdap takes it for.
THEOREM SetImplemented == Spec => ImplementsSet
<1>1. Init => Set!Init
  BY DEF Init, Set!Init
<1> QED
  BY <1>1, ListStep, BisectionFinds, PTL DEF Spec, ImplementsSet, Set!Spec
===============================================================================
