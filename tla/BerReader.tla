-------------------------------- MODULE BerReader --------------------------------
(***************************************************************************)
(* ber_get_next of liblber, which cuts the stream of bytes a server sends  *)
(* into messages.  It keeps what it has read between calls: first the tag  *)
(* and the length, in the bytes of the element's own fields, then the      *)
(* contents, in a buffer of that length.  A read returns what has arrived, *)
(* at least one byte and at most what was asked for, or nothing.           *)
(*                                                                         *)
(* A byte is the number of its place in the stream.  A message has a tag   *)
(* of tag bytes, a byte of length, ext more bytes of length if ext is not  *)
(* 0, and len bytes of contents.                                           *)
(***************************************************************************)
EXTENDS Integers, Sequences, FiniteSetsExt

CONSTANTS
  Message,    \* messages, records with tag, ext and len
  MaxSent,    \* bound: messages of a server
  WordSizes,  \* sizes of ber_len_t
  MaxRead,    \* bound: bytes a read returns
  Null

LENSIZE == 4

\* The number of bytes ber_get_next first asks for.
Eager == 2 * LENSIZE

\* The bytes of the tag and the length, and of all of a message.
headerOf(m) == m.tag + 1 + m.ext
Size(m) == headerOf(m) + m.len

\* Tags and lengths are at most 32 bits wide; ber_len_t is an unsigned long.
ASSUME MessageAssumption ==
  /\ \A m \in Message :
       m.tag \in 1 .. 4 /\ m.ext \in 0 .. LENSIZE /\ m.len \in Nat \ {0}
  /\ WordSizes \subseteq {4, 8}
  /\ MaxSent \in Nat /\ MaxRead \in Nat
  /\ Null \notin Seq(Nat)

VARIABLES
  word,    \* sizeof(ber_len_t)
  sent,    \* the messages of the server, in order
  starts,  \* the number of bytes before each of them and before the next one
  offset,  \* bytes of the stream that have been read
  head,    \* the bytes from just before ber_len up to ber_rwptr
  buf,     \* ber_buf up to ber_rwptr, Null if it is not allocated
  got,     \* the messages returned, as the bytes of their contents
  failed   \* ERANGE was reported, which ends the connection

readerVars == <<word, sent, starts, offset, head, buf, got, failed>>

ReaderInit ==
  /\ word \in WordSizes
  /\ sent = <<>>
  /\ starts = <<0>>
  /\ offset = 0
  /\ head = <<>>
  /\ buf = Null
  /\ got = <<>>
  /\ failed = FALSE

-------------------------------------------------------------------------------
(* The stream. *)

\* The number of bytes the server has sent.
total == starts[Len(starts)]

\* The server sends a message.
send(m) ==
  /\ Len(sent) < MaxSent
  /\ sent' = Append(sent, m)
  /\ starts' = Append(starts, total + Size(m))
  /\ UNCHANGED <<word, offset, head, buf, got, failed>>

\* The contents of message i.
contents(i) ==
  LET m == sent[i] IN [k \in 1 .. m.len |-> starts[i] + headerOf(m) + k]

\* ber_int_sb_read returns n of at most max bytes.
read(n, max) == n <= max /\ offset + n <= total /\ offset' = offset + n
bytes(n) == [k \in 1 .. n |-> offset + k]

-------------------------------------------------------------------------------
(* ber_get_next. *)

\* Mutant: nothing is put aside.
leftover_clobbered(h, p) ==
  SubSeq([k \in DOMAIN h |-> IF k \in 2 .. word + 1 THEN 0 ELSE h[k]], p + 1, Len(h))

\* What follows the tag and the length, which end with byte p of the header.
\* The bytes that lie in ber_len are put aside before the length is stored
\* there; the others are still in their place.
leftover(h, p) ==
  LET stored == [k \in DOMAIN h |-> IF k \in 2 .. word + 1 THEN 0 ELSE h[k]]
      inLen == {k \in DOMAIN h : k <= word + 1}
      last == IF p \in inLen THEN Max(inLen) ELSE p IN
  SubSeq(h, p + 1, last) \o SubSeq(stored, last + 1, Len(h))

\* The message is complete: the element is new for the next one.
done(c) == got' = Append(got, c) /\ head' = <<>> /\ buf' = Null

\* Mutant: the bytes already read are not subtracted from what is asked for.
ask_full == Eager

\* How many bytes of the header are asked for: never more than eight in all,
\* but for the last byte of a length that ends with the ninth.
ask == IF Len(head) < Eager THEN Eager - Len(head) ELSE 1

\* The tag and the length of message m have been read: a tag that is all
\* there is would block, and so would a length that is not complete.
parsed(h, m) == Len(h) > m.tag /\ Len(h) >= headerOf(m)

\* The bytes of the tag and the length, and perhaps some of the contents.
readHeader(n) ==
  LET h == head \o bytes(n)
      m == sent[Len(got) + 1]
      c == leftover(h, headerOf(m)) IN
  /\ ~failed /\ buf = Null
  /\ read(n, ask)
  /\ \/ ~parsed(h, m) /\ head' = h /\ UNCHANGED <<buf, got, failed>>
     \/ parsed(h, m) /\ Len(c) > m.len /\ failed' = TRUE /\ UNCHANGED <<head, buf, got>>
     \/ parsed(h, m) /\ Len(c) = m.len /\ done(c) /\ UNCHANGED failed
     \/ parsed(h, m) /\ Len(c) < m.len /\ head' = h /\ buf' = c /\ UNCHANGED <<got, failed>>
  /\ UNCHANGED <<word, sent, starts>>

\* Mutant: the last byte of the buffer is taken to be its end.
toGo_short(m) == m.len - Len(buf) - 1

toGo(m) == m.len - Len(buf)

\* The rest of the contents.
readContents(n) ==
  LET c == buf \o bytes(n)  m == sent[Len(got) + 1] IN
  /\ ~failed /\ buf # Null
  /\ read(n, toGo(m))
  /\ IF Len(c) = m.len THEN done(c) ELSE buf' = c /\ UNCHANGED <<head, got>>
  /\ UNCHANGED <<word, sent, starts, failed>>

Reads == 1 .. MaxRead

ber_get_next == \E n \in Reads : readHeader(n) \/ readContents(n)

ReaderNext == ber_get_next \/ \E m \in Message : send(m)

\* What has been sent arrives, and the library keeps calling ber_get_next.
ReaderSpec == ReaderInit /\ [][ReaderNext]_readerVars /\ WF_readerVars(ber_get_next)

-------------------------------------------------------------------------------
(* Properties. *)

\* However the network cuts the stream into pieces, the messages returned are
\* the ones sent, in order and byte for byte.  None is refused but one so
\* short that the first read reaches into the message behind it; the shortest
\* response to what the module sends, a reference with an empty URL, has nine
\* bytes.
MessagesIntact ==
  /\ failed => Size(sent[Len(got) + 1]) < Eager
  /\ \A i \in DOMAIN got : got[i] = contents(i)

\* However the header arrives, it ends before ber_usertag does: no byte of it
\* is written over the pointers that follow.
HeaderFits == Len(head) <= 1 + 2 * word

\* No byte that has arrived is left behind: every message is returned, or the
\* connection is given up.
AllReturned == []<>(Len(got) = Len(sent) \/ failed)
===============================================================================
