----------------------------- MODULE RelayProofs -----------------------------
(***************************************************************************)
(* Proofs about Relay, for a stream, a ClientHello, buffers and an answer  *)
(* of any length.  RelayInv says of every sequence which prefix of the     *)
(* client's stream it is:                                                  *)
(*   Capturing  while sniffing, what was captured is what was read;        *)
(*   Replaying  a reader that has not used up the prefix has the bytes     *)
(*              before pos, then it has all that was read off the socket,  *)
(*              and keeps it when the connection is over early;            *)
(*   EndIsLast  an end of stream was seen, passed on or counted only after *)
(*              all that precedes it, in either direction;                 *)
(*   Counted    which of the counters has been raised, by the link.        *)
(***************************************************************************)
EXTENDS Relay, SequenceTheorems, TLAPS

First(n) == SubSeq(Stream, 1, n)

Capturing ==
  /\ phase \in {"sniff", "routed"} => hello = First(taken) /\ bytes = First(taken)
  /\ phase \in {"sniff", "routed"} => out = <<>> /\ ~ended
  /\ phase # "passthrough" => link = "connecting"
  /\ link = "connecting" => written = 0 /\ ~shut

Got == IF phase = "passthrough" /\ pos < Len(prefix) THEN pos ELSE taken

Replaying ==
  /\ phase = "passthrough" =>
       /\ prefix = First(Len(prefix))
       /\ pos < Len(prefix) => taken = Len(prefix)
  /\ phase \in {"passthrough", "terminate"} => out = First(Got)
  /\ phase = "gone" => out = First(Got) \/ (out = <<>> /\ ~ended)

EndIsLast ==
  /\ ended => Drained /\ Got = sent
  /\ shut => phase = "passthrough" /\ ended /\ written = Len(out)
  /\ fetchedAll => hungUp /\ fetched = answered
  /\ closing => fetchedAll /\ returned = fetched
  /\ link \in {"to_service", "to_client", "over"} => shut /\ closing

Counted ==
  /\ stats.to_service = IF link \in {"to_client", "over"} THEN written ELSE 0
  /\ stats.to_client = IF link = "over" THEN returned ELSE 0

RelayInv == RelayTypeOK /\ Capturing /\ Replaying /\ EndIsLast /\ Counted

------------------------------------------------------------------------------
(* Prefixes of the stream. *)

LEMMA StreamType == Stream \in Seq(1..Total) /\ Len(Stream) = Total
BY LengthsAssumption DEF Stream

LEMMA FirstType ==
  ASSUME NEW n \in 0..Total
  PROVE  First(n) \in Seq(1..Total) /\ Len(First(n)) = n
<1>1. \A i \in 1..n : Stream[i] \in 1..Total
  BY LengthsAssumption DEF Stream
<1>. QED  BY <1>1, LengthsAssumption, SubSeqProperties DEF First

LEMMA FirstNone == First(0) = <<>>
BY SubSeqEmpty DEF First

(* What is read next makes a longer prefix of a prefix. *)
LEMMA FirstExtend ==
  ASSUME NEW m \in 0..Total, NEW n \in Nat, m + n <= Total
  PROVE  First(m) \o SubSeq(Stream, m + 1, m + n) = First(m + n)
<1>1. 1 \in 1..Len(Stream) + 1 /\ m \in (1 - 1)..Len(Stream) /\ m + n \in m..Len(Stream)
  BY StreamType, LengthsAssumption
<1>. QED  BY <1>1, StreamType, ConcatAdjacentSubSeq DEF First

(* A piece of a prefix is that piece of the stream. *)
LEMMA FirstPiece ==
  ASSUME NEW k \in 1..Total, NEW m \in 1..k, NEW n \in 1..k
  PROVE  SubSeq(First(k), m, n) = SubSeq(Stream, m, n)
<1>1. 1 \in 1..Len(Stream) /\ k \in 1..Len(Stream) /\ m \in 1..(k - 1 + 1) /\ n \in 1..(k - 1 + 1)
  BY StreamType, LengthsAssumption
<1>2. 1 + m - 1 = m /\ 1 + n - 1 = n
  BY LengthsAssumption
<1>3. SubSeq(SubSeq(Stream, 1, k), m, n) = SubSeq(Stream, 1 + m - 1, 1 + n - 1)
  BY <1>1, StreamType, SubSeqOfSubSeq
<1>. QED  BY <1>2, <1>3 DEF First

LEMMA FirstOfFirst ==
  ASSUME NEW k \in 0..Total, NEW n \in 0..k
  PROVE  SubSeq(First(k), 1, n) = First(n)
<1>1. CASE n = 0
  BY <1>1, SubSeqEmpty DEF First
<1>2. CASE n # 0
  BY <1>2, FirstPiece, LengthsAssumption DEF First
<1>. QED  BY <1>1, <1>2

------------------------------------------------------------------------------
LEMMA LengthsTyped ==
  ASSUME TypeOK
  PROVE  /\ sent \in 0..Total /\ taken \in 0..sent /\ taken \in 0..Total
         /\ Len(prefix) \in 0..taken /\ pos \in 0..Len(prefix) /\ Got \in 0..taken
<1>1. sent \in 0..Total /\ taken \in 0..sent /\ pos \in 0..Len(prefix)
  BY DEF TypeOK
<1>2. prefix \in Seq(1..Total) /\ Len(prefix) <= taken
  BY DEF TypeOK
<1>3. Len(prefix) \in Nat
  BY <1>2, LenProperties
<1>. QED  BY <1>1, <1>2, <1>3, LengthsAssumption DEF Got

(* A read of the socket appends what comes next in the stream. *)
LEMMA SocketRead ==
  ASSUME TypeOK, NEW b \in Buffers, NEW n \in Lengths(b)
  PROVE  /\ n \in Nat \ {0} /\ taken + n \in 1..sent /\ taken + n \in 0..Total
         /\ First(taken) \o Socket(n) = First(taken + n)
<1>1. n \in Nat \ {0} /\ taken + n \in 1..sent /\ taken + n \in 0..Total
  BY LengthsTyped, BuffersAssumption, LengthsAssumption DEF Lengths, AtMost
<1>2. taken \in 0..Total /\ n \in Nat /\ taken + n <= Total
  BY <1>1, LengthsTyped, LengthsAssumption
<1>. QED  BY <1>1, <1>2, FirstExtend DEF Socket

LEMMA BytesTyped ==
  ASSUME NEW n, NEW a, NEW b, NEW c, NEW d
  PROVE  (\A s \in {a, b, c, d} : s \in Seq(1..Total) /\ Len(s) <= n)
           <=> /\ a \in Seq(1..Total) /\ Len(a) <= n
               /\ b \in Seq(1..Total) /\ Len(b) <= n
               /\ c \in Seq(1..Total) /\ Len(c) <= n
               /\ d \in Seq(1..Total) /\ Len(d) <= n
OBVIOUS

LEMMA InitRelayInv == RelayInit => RelayInv
<1>. SUFFICES ASSUME RelayInit PROVE RelayInv
  OBVIOUS
<1>. USE LengthsAssumption DEF RelayInit, Init
<1>1. <<>> \in Seq(1..Total) /\ Len(<<>>) = 0
  BY EmptySeq
<1>2. TypeOK
  <2>1. \A s \in {hello, bytes, prefix, out} : s = <<>>
    OBVIOUS
  <2>2. taken = 0
    OBVIOUS
  <2>3. \A s \in {hello, bytes, prefix, out} : s \in Seq(1..Total) /\ Len(s) <= taken
    <3>. SUFFICES ASSUME NEW s, s = <<>> PROVE s \in Seq(1..Total) /\ Len(s) <= taken
      BY <2>1
    <3>1. s \in Seq(1..Total)
      BY <1>1
    <3>2. Len(s) <= taken
      BY <1>1, <2>2
    <3>. QED  BY <3>1, <3>2
  <2>4. sent \in 0..Total /\ taken \in 0..sent /\ pos \in 0..Len(prefix)
    BY <1>1
  <2>. QED  BY <2>3, <2>4 DEF TypeOK
<1>3. RelayTypeOK
  <2>1. stats \in [{"to_service", "to_client"} -> Nat]
    OBVIOUS
  <2>2. written \in 0..Len(out) /\ answered \in 0..Answer
        /\ fetched \in 0..answered /\ returned \in 0..fetched
    BY <1>1, AnswerAssumption
  <2>. QED  BY <1>2, <2>1, <2>2 DEF RelayTypeOK
<1>4. Capturing
  BY FirstNone DEF Capturing
<1>. QED  BY <1>3, <1>4 DEF RelayInv, Replaying, EndIsLast, Counted

(* The two ends send and close: what reprox has read is not touched.        *)
LEMMA PeersKeepInv ==
  ASSUME RelayInv, Peers
  PROVE  RelayInv'
<1>0. RelayTypeOK /\ TypeOK /\ sent \in 0..Total /\ taken \in 0..sent
  BY LengthsTyped DEF RelayInv, RelayTypeOK
<1>1. CASE (Send \/ Close) /\ UNCHANGED relayVars
  <2>. USE DEF clientVars, captureVars, prefixVars, readerVars, relayVars,
               upVars, serverVars, downVars
  <2>1. sent' \in 0..Total /\ taken' \in 0..sent' /\ closed' \in BOOLEAN
    <3>1. sent' \in 0..Total /\ taken' \in 0..sent'
      BY <1>0, <1>1, LengthsAssumption DEF Send, Close
    <3>2. closed' \in BOOLEAN
      BY <1>0, <1>1 DEF TypeOK, Send, Close
    <3>. QED  BY <3>1, <3>2
  <2>2. TypeOK'
    BY <1>0, <1>1, <2>1 DEF TypeOK, Send, Close
  <2>3. RelayTypeOK'
    BY <1>0, <1>1, <2>2 DEF RelayTypeOK, Send, Close
  <2>4. EndIsLast'
    BY <1>1 DEF RelayInv, Send, Close, EndIsLast, Drained, Got
  <2>5. Capturing' /\ Replaying' /\ Counted'
    BY <1>1 DEF RelayInv, Send, Close, Capturing, Replaying, Got, Counted, First
  <2>. QED  BY <2>3, <2>4, <2>5 DEF RelayInv
<1>2. CASE Respond \/ HangUp
  <2>. USE DEF upVars, downVars
  <2>1. UNCHANGED vars
    BY <1>2 DEF Respond, HangUp
  <2>2. UNCHANGED <<sent, closed, taken, phase, hello, bytes, prefix, pos, out, ended>>
    BY <2>1 DEF vars, clientVars, captureVars, prefixVars, readerVars
  <2>3. TypeOK'
    BY <1>0, <2>2 DEF TypeOK
  <2>4. answered' \in 0..Answer /\ fetched' \in 0..answered' /\ hungUp' \in BOOLEAN
    <3>1. answered' \in 0..Answer /\ fetched' \in 0..answered'
      BY <1>0, <1>2, AnswerAssumption DEF RelayTypeOK, Respond, HangUp
    <3>2. hungUp' \in BOOLEAN
      BY <1>0, <1>2 DEF RelayTypeOK, Respond, HangUp
    <3>. QED  BY <3>1, <3>2
  <2>5. RelayTypeOK'
    BY <1>0, <1>2, <2>2, <2>3, <2>4 DEF RelayTypeOK, Respond, HangUp
  <2>6. EndIsLast'
    BY <1>2, <2>2 DEF RelayInv, Respond, HangUp, EndIsLast, Drained, Got
  <2>7. Capturing' /\ Replaying' /\ Counted'
    BY <1>2, <2>2 DEF RelayInv, Respond, HangUp, Capturing, Replaying, Got, Counted, First
  <2>. QED  BY <2>5, <2>6, <2>7 DEF RelayInv
<1>. QED  BY <1>1, <1>2 DEF Peers

(* Sniffing: what is captured is what rustls has read; passthrough takes it *)
(* as the prefix, the other routes as what rustls goes on from.             *)
LEMMA SniffReadKeepsInv ==
  ASSUME RelayInv, NEW b \in Buffers, SniffRead(b), UNCHANGED relayVars
  PROVE  RelayInv'
<1>1. RelayTypeOK /\ TypeOK /\ phase = "sniff"
  BY DEF RelayInv, RelayTypeOK, SniffRead
<1>2. PICK n \in Lengths(b) :
        hello' = hello \o Socket(n) /\ bytes' = bytes \o Socket(n) /\ taken' = taken + n
  BY DEF SniffRead, Captured
<1>3. /\ n \in Nat \ {0} /\ taken' \in 1..sent /\ taken' \in 0..Total /\ taken \in 0..sent
      /\ hello' = First(taken') /\ bytes' = First(taken')
  BY <1>1, <1>2, SocketRead, LengthsTyped DEF RelayInv, Capturing
<1>4. UNCHANGED <<sent, closed, phase, prefix, pos, out, ended>>
  BY DEF SniffRead, clientVars, prefixVars, readerVars
<1>5. TypeOK'
  <2>1. \A s \in {hello', bytes'} : s \in Seq(1..Total) /\ Len(s) <= taken'
    BY <1>3, FirstType
  <2>2. \A s \in {prefix', out'} : s \in Seq(1..Total) /\ Len(s) <= taken'
    <3>1. \A s \in {prefix, out} : s \in Seq(1..Total) /\ Len(s) \in Nat /\ Len(s) <= taken
      BY <1>1, LenProperties DEF TypeOK
    <3>. QED  BY <1>2, <1>3, <1>4, <3>1
  <2>3. taken' \in 0..sent'
    BY <1>3, <1>4
  <2>. QED  BY <1>1, <1>4, <2>1, <2>2, <2>3 DEF TypeOK
<1>6. RelayTypeOK'
  BY <1>1, <1>4, <1>5 DEF RelayTypeOK, relayVars, upVars, serverVars, downVars
<1>. USE <1>1, <1>4 DEF RelayInv, relayVars, upVars, serverVars, downVars
<1>7. Capturing'
  BY <1>3 DEF Capturing
<1>8. Replaying' /\ EndIsLast' /\ Counted'
  BY DEF Capturing, Replaying, EndIsLast, Counted
<1>. QED  BY <1>6, <1>7, <1>8

LEMMA RoutedKeepsInv ==
  ASSUME RelayInv, SniffDone \/ SniffFails \/ Passthrough \/ Terminate, UNCHANGED relayVars
  PROVE  RelayInv'
<1>1. RelayTypeOK /\ TypeOK /\ phase \in {"sniff", "routed"} /\ taken \in 0..Total
  BY LengthsTyped DEF RelayInv, RelayTypeOK, SniffDone, SniffFails, Passthrough, Terminate
<1>2. /\ hello = First(taken) /\ bytes = First(taken) /\ out = <<>> /\ ~ended
      /\ link = "connecting" /\ written = 0 /\ ~shut
  BY <1>1 DEF RelayInv, Capturing
<1>3. First(taken) \in Seq(1..Total) /\ Len(First(taken)) = taken /\ <<>> \in Seq(1..Total)
      /\ Len(<<>>) = 0
  BY <1>1, FirstType, EmptySeq
<1>. USE DEF clientVars, captureVars, prefixVars, readerVars
<1>4. UNCHANGED <<sent, closed, taken, ended>>
  BY DEF SniffDone, SniffFails, Passthrough, Terminate
<1>5. CASE SniffDone \/ SniffFails
  <2>1. UNCHANGED <<hello, bytes, prefix, pos, out>> /\ phase' \in {"routed", "gone"}
    BY <1>5 DEF SniffDone, SniffFails
  <2>2. TypeOK'
    BY <1>1, <1>4, <2>1 DEF TypeOK
  <2>3. RelayTypeOK'
    BY <1>1, <2>1, <2>2 DEF RelayTypeOK, relayVars, upVars, serverVars, downVars
  <2>. QED  BY <1>1, <1>2, <1>4, <2>1, <2>3
            DEF RelayInv, Capturing, Replaying, EndIsLast, Counted, First,
                relayVars, upVars, serverVars, downVars
<1>6. CASE Passthrough
  <2>1. /\ prefix' = First(taken) /\ pos' = 0 /\ hello' = <<>> /\ bytes' = <<>>
        /\ out' = <<>> /\ phase' = "passthrough"
    BY <1>2, <1>6 DEF Passthrough
  <2>2. TypeOK'
    <3>1. \A s \in {hello', bytes', prefix', out'} : s = <<>> \/ s = First(taken)
      BY <2>1
    <3>2. ASSUME NEW s, s = <<>> \/ s = First(taken)
          PROVE  s \in Seq(1..Total) /\ Len(s) <= taken
      <4>1. s \in Seq(1..Total)
        BY <1>3, <3>2
      <4>2. Len(s) <= taken
        BY <1>1, <1>3, <3>2
      <4>. QED  BY <4>1, <4>2
    <3>3. pos' \in 0..Len(prefix')
      BY <1>1, <1>3, <2>1
    <3>4. \A s \in {hello', bytes', prefix', out'} : s \in Seq(1..Total) /\ Len(s) <= taken'
      BY <1>4, <3>1, <3>2
    <3>. QED  BY <1>1, <1>4, <2>1, <3>3, <3>4 DEF TypeOK
  <2>3. RelayTypeOK'
    BY <1>1, <1>2, <2>1, <2>2 DEF RelayTypeOK, relayVars, upVars, serverVars, downVars
  <2>4. Got' = 0
    BY <1>1, <1>3, <1>4, <2>1 DEF Got
  <2>5. Replaying'
    <3>1. Len(prefix') = taken /\ taken' = taken
      BY <1>3, <1>4, <2>1
    <3>2. prefix' = First(Len(prefix'))
      BY <2>1, <3>1
    <3>3. out' = First(Got')
      BY <2>1, <2>4, FirstNone
    <3>. QED  BY <2>1, <3>1, <3>2, <3>3 DEF Replaying, First
  <2>. QED  BY <1>1, <1>2, <1>4, <2>1, <2>3, <2>5
            DEF RelayInv, Capturing, EndIsLast, Counted, relayVars, upVars, serverVars, downVars
<1>7. CASE Terminate
  <2>1. /\ out' = First(taken) /\ hello' = <<>> /\ bytes' = <<>>
        /\ phase' = "terminate" /\ UNCHANGED <<prefix, pos>>
    BY <1>2, <1>7 DEF Terminate
  <2>2. TypeOK'
    <3>1. \A s \in {hello', bytes', prefix', out'} : s = <<>> \/ s = First(taken) \/ s = prefix
      BY <2>1
    <3>2. ASSUME NEW s, s = <<>> \/ s = First(taken) \/ s = prefix
          PROVE  s \in Seq(1..Total) /\ Len(s) <= taken
      <4>1. prefix \in Seq(1..Total) /\ Len(prefix) <= taken
        BY <1>1 DEF TypeOK
      <4>2. s \in Seq(1..Total)
        BY <1>3, <3>2, <4>1
      <4>3. Len(s) <= taken
        BY <1>1, <1>3, <3>2, <4>1
      <4>. QED  BY <4>2, <4>3
    <3>3. \A s \in {hello', bytes', prefix', out'} : s \in Seq(1..Total) /\ Len(s) <= taken'
      BY <1>4, <3>1, <3>2
    <3>. QED  BY <1>1, <1>4, <2>1, <3>3 DEF TypeOK
  <2>3. RelayTypeOK'
    <3>1. written' \in 0..Len(out')
      BY <1>1, <1>2, <1>3, <2>1 DEF relayVars, upVars
    <3>. QED  BY <1>1, <2>2, <3>1 DEF RelayTypeOK, relayVars, upVars, serverVars, downVars
  <2>4. Got' = taken
    BY <1>4, <2>1 DEF Got
  <2>5. Replaying'
    BY <2>1, <2>4 DEF Replaying, First
  <2>. QED  BY <1>1, <1>2, <1>4, <2>1, <2>3, <2>5
            DEF RelayInv, Capturing, EndIsLast, Counted, relayVars, upVars, serverVars, downVars
<1>. QED  BY <1>5, <1>6, <1>7

(* The reader gets more of the stream, from the prefix while it lasts and   *)
(* then from the socket.                                                    *)
FetchGets ==
  /\ phase = "passthrough" \/ phase = "terminate"
  /\ UNCHANGED <<sent, closed, phase, hello, bytes, prefix, ended>>
  /\ ~ended
  /\ taken' \in taken..sent /\ pos' \in 0..Len(prefix)
  /\ phase = "passthrough" /\ pos' < Len(prefix) => taken' = Len(prefix)
  /\ Got' \in (Got + 1)..taken' /\ out' = First(Got')

LEMMA ReplayGets ==
  ASSUME RelayInv, NEW b \in Buffers, Replay(b)
  PROVE  FetchGets
<1>1. TypeOK /\ phase = "passthrough" /\ pos < Len(prefix)
  BY DEF RelayInv, RelayTypeOK, Replay
<1>2. /\ prefix = First(Len(prefix)) /\ taken = Len(prefix) /\ Got = pos /\ out = First(pos)
  BY <1>1 DEF RelayInv, Replaying, Got
<1>3. /\ sent \in 0..Total /\ taken \in 0..sent /\ Len(prefix) \in 1..Total /\ pos \in 0..Total
      /\ b \in Nat \ {0}
  BY <1>1, LengthsTyped, BuffersAssumption, LengthsAssumption
<1>. DEFINE n == AtMost(Len(prefix) - pos, b)
<1>4. /\ out' = out \o SubSeq(prefix, pos + 1, pos + n) /\ pos' = pos + n
      /\ UNCHANGED <<sent, closed, taken, phase, hello, bytes, prefix, ended>>
  BY DEF Replay, clientVars, captureVars
<1>5. /\ n \in Nat \ {0} /\ pos + n \in (pos + 1)..Len(prefix)
      /\ pos + 1 \in 1..Len(prefix) /\ pos + n \in 1..Len(prefix) /\ pos + n <= Total
  <2>1. Len(prefix) \in Int /\ pos \in Nat /\ Total \in Nat /\ Len(prefix) <= Total
    BY <1>3, LengthsAssumption
  <2>2. n \in Nat \ {0} /\ n <= Len(prefix) - pos
    BY <1>1, <1>3, <2>1 DEF AtMost
  <2>. HIDE DEF n
  <2>. QED  BY <1>1, <2>1, <2>2
<1>. HIDE DEF n
<1>6. SubSeq(prefix, pos + 1, pos + n) = SubSeq(Stream, pos + 1, pos + n)
  BY <1>2, <1>3, <1>5, FirstPiece
<1>7. out' = First(pos')
  BY <1>2, <1>3, <1>4, <1>5, <1>6, FirstExtend
<1>8. Got' = pos' /\ Got' \in (Got + 1)..taken'
  BY <1>1, <1>2, <1>3, <1>4, <1>5 DEF Got
<1>9. ~ended
  BY <1>1, <1>2, <1>3 DEF RelayInv, EndIsLast, Drained
<1>10. /\ taken' \in taken..sent /\ pos' \in 0..Len(prefix)
       /\ phase = "passthrough" /\ pos' < Len(prefix) => taken' = Len(prefix)
  BY <1>2, <1>3, <1>4, <1>5
<1>. QED  BY <1>1, <1>4, <1>7, <1>8, <1>9, <1>10 DEF FetchGets

LEMMA ReadGets ==
  ASSUME RelayInv, NEW b \in Buffers, Read(b)
  PROVE  FetchGets
<1>1. TypeOK /\ Bare /\ ~ended /\ (phase = "passthrough" \/ phase = "terminate")
  BY DEF RelayInv, RelayTypeOK, Read, Bare
<1>2. Got = taken /\ out = First(taken)
  BY <1>1 DEF RelayInv, Replaying, Got, Bare
<1>3. PICK n \in Lengths(b) : out' = out \o Socket(n) /\ taken' = taken + n
  BY DEF Read
<1>4. UNCHANGED <<sent, closed, phase, hello, bytes, prefix, pos, ended>>
  BY DEF Read, clientVars, captureVars, prefixVars
<1>5. n \in Nat \ {0} /\ taken' \in 1..sent /\ out' = First(taken')
  BY <1>1, <1>2, <1>3, SocketRead
<1>6. taken \in 0..sent /\ sent \in 0..Total /\ Len(prefix) \in Nat /\ pos \in 0..Len(prefix)
  BY <1>1, LengthsTyped
<1>7. Got' = taken'
  BY <1>1, <1>4 DEF Got, Bare
<1>8. /\ taken' \in taken..sent /\ pos' \in 0..Len(prefix) /\ Got' \in (Got + 1)..taken'
      /\ phase = "passthrough" /\ pos' < Len(prefix) => taken' = Len(prefix)
  BY <1>1, <1>2, <1>3, <1>4, <1>5, <1>6, <1>7, LengthsAssumption DEF Bare
<1>. QED  BY <1>1, <1>4, <1>5, <1>7, <1>8 DEF FetchGets

LEMMA FetchKeepsInv ==
  ASSUME RelayInv, NEW b \in Buffers, Replay(b) \/ Read(b), UNCHANGED relayVars
  PROVE  RelayInv' /\ FetchGets
<1>1. FetchGets /\ UNCHANGED relayVars
  BY ReplayGets, ReadGets
<1>2. RelayTypeOK /\ TypeOK /\ sent \in 0..Total /\ taken \in 0..sent /\ Got \in 0..taken
  BY LengthsTyped DEF RelayInv, RelayTypeOK
<1>3. /\ Got' \in 0..Total /\ taken' \in 0..sent' /\ taken' \in Nat /\ taken <= taken'
      /\ Got' <= taken' /\ Got <= Got'
  BY <1>1, <1>2, LengthsAssumption DEF FetchGets
<1>4. out' \in Seq(1..Total) /\ Len(out') = Got' /\ Len(out) = Got
  <2>1. out' \in Seq(1..Total) /\ Len(out') = Got'
    BY <1>1, <1>3, FirstType DEF FetchGets
  <2>2. Len(out) = Got
    BY <1>1, <1>2, FirstType, LengthsAssumption DEF FetchGets, RelayInv, Replaying
  <2>. QED  BY <2>1, <2>2
<1>5. TypeOK'
  <2>1. \A s \in {hello, bytes, prefix} : s \in Seq(1..Total) /\ Len(s) \in Nat /\ Len(s) <= taken
    BY <1>2, LenProperties DEF TypeOK
  <2>2. \A s \in {hello', bytes', prefix'} : s \in Seq(1..Total) /\ Len(s) <= taken'
    BY <1>1, <1>2, <1>3, <2>1 DEF FetchGets
  <2>. QED  BY <1>1, <1>2, <1>3, <1>4, <2>2 DEF TypeOK, FetchGets
<1>. USE DEF relayVars, upVars, serverVars, downVars
<1>6. written' \in 0..Len(out')
  BY <1>1, <1>2, <1>3, <1>4 DEF RelayTypeOK
<1>7. RelayTypeOK'
  BY <1>1, <1>2, <1>5, <1>6 DEF RelayTypeOK
<1>8. Capturing' /\ Counted'
  BY <1>1 DEF RelayInv, Capturing, Counted, FetchGets
<1>9. Replaying'
  BY <1>1 DEF RelayInv, Replaying, FetchGets, First
<1>10. EndIsLast'
  BY <1>1 DEF RelayInv, EndIsLast, FetchGets
<1>. QED  BY <1>1, <1>7, <1>8, <1>9, <1>10 DEF RelayInv

LEMMA ReadEndKeepsInv ==
  ASSUME RelayInv, ReadEnd, UNCHANGED relayVars
  PROVE  RelayInv'
<1>1. /\ Bare /\ ~ended /\ Drained /\ ended' = TRUE
      /\ UNCHANGED <<sent, closed, taken, phase, hello, bytes, prefix, pos, out>>
      /\ UNCHANGED relayVars
  BY DEF ReadEnd, clientVars, captureVars, prefixVars
<1>2. TypeOK'
  BY <1>1 DEF RelayInv, RelayTypeOK, TypeOK
<1>. USE <1>1 DEF RelayInv, relayVars, upVars, serverVars, downVars
<1>3. RelayTypeOK'
  BY <1>2 DEF RelayTypeOK
<1>4. Capturing' /\ Replaying' /\ Counted'
  BY DEF Capturing, Replaying, Counted, Got, First, Bare
<1>5. EndIsLast'
  BY DEF EndIsLast, Drained, Got, Bare
<1>. QED  BY <1>3, <1>4, <1>5

(* A terminated connection that is over keeps what it had.                  *)
LEMMA AbandonKeepsInv ==
  ASSUME RelayInv, Abandon, UNCHANGED relayVars
  PROVE  RelayInv'
<1>1. /\ phase = "terminate" /\ phase' = "gone"
      /\ UNCHANGED <<sent, closed, taken, hello, bytes, prefix, pos, out, ended>>
  BY DEF Abandon, clientVars, captureVars, prefixVars, readerVars
<1>2. TypeOK'
  BY <1>1 DEF RelayInv, RelayTypeOK, TypeOK
<1>. USE <1>1 DEF RelayInv, relayVars, upVars, serverVars, downVars
<1>3. RelayTypeOK'
  BY <1>2 DEF RelayTypeOK
<1>4. Capturing' /\ Replaying' /\ EndIsLast' /\ Counted'
  BY DEF Capturing, Replaying, EndIsLast, Drained, Counted, Got, First
<1>. QED  BY <1>3, <1>4

(* The copy itself: what is read is written, and an end passed on, in turn. *)
LEMMA StreamStays ==
  ASSUME RelayInv, UNCHANGED vars
  PROVE  /\ TypeOK' /\ Got' = Got /\ First(Got)' = First(Got)
         /\ UNCHANGED <<sent, closed, taken, phase, hello, bytes, prefix, pos, out, ended>>
<1>1. UNCHANGED <<sent, closed, taken, phase, hello, bytes, prefix, pos, out, ended>>
  BY DEF vars, clientVars, captureVars, prefixVars, readerVars
<1>2. TypeOK'
  BY <1>1 DEF RelayInv, RelayTypeOK, TypeOK
<1>. QED  BY <1>1, <1>2 DEF Got, First

LEMMA LinkKeepsInv ==
  ASSUME RelayInv, Connect \/ ConnectFails \/ Break \/ Ending
  PROVE  RelayInv'
<1>. USE DEF Connect, ConnectFails, Break, Lose, Ending, BothDone, Up,
             CountToService, CountToClient, upVars, serverVars, downVars
<1>1. UNCHANGED <<vars, upVars, serverVars, downVars>>
  OBVIOUS
<1>2. /\ TypeOK' /\ Got' = Got /\ First(Got)' = First(Got)
      /\ UNCHANGED <<sent, closed, taken, phase, hello, bytes, prefix, pos, out, ended>>
  BY <1>1, StreamStays
<1>3. stats' \in [{"to_service", "to_client"} -> Nat]
  <2>1. written \in Nat /\ returned \in Nat /\ stats \in [{"to_service", "to_client"} -> Nat]
    <3>1. out \in Seq(1..Total)
      BY DEF RelayInv, RelayTypeOK, TypeOK
    <3>2. Len(out) \in Nat
      BY <3>1, LenProperties
    <3>. QED  BY <3>2, AnswerAssumption DEF RelayInv, RelayTypeOK
  <2>. QED  BY <2>1
<1>4. RelayTypeOK'
  BY <1>2, <1>3 DEF RelayInv, RelayTypeOK
<1>5. Capturing' /\ Replaying'
  BY <1>2 DEF RelayInv, Capturing, Replaying, First
<1>6. EndIsLast'
  BY <1>2 DEF RelayInv, EndIsLast, Drained
<1>7. Counted'
  BY <1>2 DEF RelayInv, RelayTypeOK, Counted
<1>. QED  BY <1>4, <1>5, <1>6, <1>7 DEF RelayInv

LEMMA CopyKeepsInv ==
  ASSUME RelayInv, Write \/ Shut \/ ToClient
  PROVE  RelayInv'
<1>. USE DEF Write, Shut, ToClient, Draw, DrawEnd, Return, CloseClient, Up,
             upVars, serverVars, downVars
<1>1. UNCHANGED vars /\ UNCHANGED <<link, stats, serverVars>> /\ link = "up"
  OBVIOUS
<1>2. /\ TypeOK' /\ Got' = Got /\ First(Got)' = First(Got)
      /\ UNCHANGED <<sent, closed, taken, phase, hello, bytes, prefix, pos, out, ended>>
  BY <1>1, StreamStays
<1>3. /\ Len(out) \in Nat /\ written \in 0..Len(out) /\ answered \in Nat
      /\ fetched \in 0..answered /\ returned \in 0..fetched
  <2>1. out \in Seq(1..Total)
    BY DEF RelayInv, RelayTypeOK, TypeOK
  <2>. QED  BY <2>1, LenProperties, AnswerAssumption DEF RelayInv, RelayTypeOK
<1>4. RelayTypeOK'
  <2>1. written' \in 0..Len(out')
    BY <1>2, <1>3
  <2>2. fetched' \in 0..answered' /\ returned' \in 0..fetched'
    BY <1>1, <1>3
  <2>3. shut' \in BOOLEAN /\ fetchedAll' \in BOOLEAN /\ closing' \in BOOLEAN
    BY DEF RelayInv, RelayTypeOK
  <2>. QED  BY <1>1, <1>2, <2>1, <2>2, <2>3 DEF RelayInv, RelayTypeOK
<1>5. Capturing' /\ Replaying' /\ Counted'
  BY <1>1, <1>2 DEF RelayInv, Capturing, Replaying, Counted, First
<1>6. EndIsLast'
  BY <1>1, <1>2, <1>3 DEF RelayInv, EndIsLast, Drained
<1>. QED  BY <1>4, <1>5, <1>6 DEF RelayInv

LEMMA NextRelayInv == RelayInv /\ [RelayNext]_allVars => RelayInv'
<1>. SUFFICES ASSUME RelayInv, [RelayNext]_allVars PROVE RelayInv'
  OBVIOUS
<1>1. CASE Sniffing \/ (SniffFails /\ UNCHANGED relayVars)
  BY <1>1, SniffReadKeepsInv, RoutedKeepsInv DEF Sniffing
<1>2. CASE ToService
  BY <1>2, FetchKeepsInv, ReadEndKeepsInv, CopyKeepsInv DEF ToService, Fetch, FetchEnd
<1>3. CASE UNCHANGED allVars
  <2>1. UNCHANGED vars /\ UNCHANGED relayVars
    BY <1>3 DEF allVars
  <2>2. /\ TypeOK' /\ Got' = Got /\ First(Got)' = First(Got)
        /\ UNCHANGED <<sent, closed, taken, phase, hello, bytes, prefix, pos, out, ended>>
    BY <2>1, StreamStays
  <2>. QED  BY <2>1, <2>2 DEF RelayInv, RelayTypeOK, Capturing, Replaying, EndIsLast, Drained,
                              Counted, First, relayVars, upVars, serverVars, downVars
<1>4. CASE ByRustls
  BY <1>4, FetchKeepsInv, ReadEndKeepsInv, AbandonKeepsInv DEF ByRustls
<1>. QED  BY <1>1, <1>2, <1>3, <1>4, PeersKeepInv, LinkKeepsInv, CopyKeepsInv DEF RelayNext, Settled

------------------------------------------------------------------------------
(* The refinement: what the one who serves the connection has got is the    *)
(* stream up to some length, and each step lengthens it, ends it, or is the *)
(* client's, or none of Pipe's.                                             *)

delivered == IF phase = "passthrough" THEN SubSeq(out, 1, written) ELSE out
told      == IF phase = "passthrough" THEN shut ELSE ended

(* how much of it that is *)
Reached == IF phase = "passthrough" THEN written
           ELSE IF phase \in {"sniff", "routed"} \/ (phase = "gone" /\ out = <<>>) THEN 0
           ELSE taken

LEMMA DeliveredIsPrefix ==
  ASSUME RelayInv
  PROVE  /\ Reached \in 0..Total /\ delivered = First(Reached) /\ Len(delivered) = Reached
         /\ sent \in 0..Total /\ taken \in 0..sent /\ Len(Stream) = Total
<1>1. /\ TypeOK /\ sent \in 0..Total /\ taken \in 0..sent /\ taken \in 0..Total
      /\ Got \in 0..Total
  BY LengthsTyped, LengthsAssumption DEF RelayInv, RelayTypeOK
<1>2. Reached \in 0..Total /\ delivered = First(Reached)
  <2>1. CASE phase = "passthrough"
    <3>1. out = First(Got) /\ Len(out) = Got
      BY <1>1, <2>1, FirstType DEF RelayInv, Replaying
    <3>2. written \in 0..Got
      BY <3>1 DEF RelayInv, RelayTypeOK
    <3>. QED  BY <1>1, <2>1, <3>1, <3>2, FirstOfFirst, LengthsAssumption DEF delivered, Reached
  <2>2. CASE phase = "terminate"
    BY <1>1, <2>2 DEF RelayInv, Replaying, Got, delivered, Reached
  <2>3. CASE phase \in {"sniff", "routed"}
    BY <2>3, FirstNone, LengthsAssumption DEF RelayInv, Capturing, delivered, Reached
  <2>4. CASE phase = "gone"
    BY <1>1, <2>4, FirstNone, LengthsAssumption DEF RelayInv, Replaying, Got, delivered, Reached
  <2>. QED  BY <1>1, <2>1, <2>2, <2>3, <2>4 DEF TypeOK
<1>. QED  BY <1>1, <1>2, FirstType, StreamType

LEMMA DeliveredNext == RelayInv' => (delivered = First(Reached))'
<1>1. RelayInv => delivered = First(Reached)
  BY DeliveredIsPrefix
<1>. QED  BY <1>1, PTL

LEMMA PipeInit == RelayInit => Served!Init
<1>. SUFFICES ASSUME RelayInit PROVE Served!Init
  OBVIOUS
<1>. QED  BY DEF RelayInit, Init, Served!Init

(* Lengthening it is Pipe's Deliver. *)
LEMMA DeliverStep ==
  ASSUME RelayInv, RelayInv', UNCHANGED <<sent, closed>>, ~told, told' = told,
         Reached' \in (Reached + 1)..sent
  PROVE  Served!Deliver
<1>1. Len(delivered) = Reached /\ delivered' = First(Reached')
  <2>1. delivered' = First(Reached)'
    BY DeliveredNext
  <2>. QED  BY <2>1, DeliveredIsPrefix DEF First
<1>. QED  BY <1>1 DEF Served!Deliver, delivered, told, First

LEMMA PipeStep == RelayInv /\ RelayInv' /\ [RelayNext]_allVars => [Served!Next]_(Served!vars)
<1>. SUFFICES ASSUME RelayInv, RelayInv', [RelayNext]_allVars
              PROVE  Served!Next \/ UNCHANGED Served!vars
  OBVIOUS
<1>0. /\ Reached \in 0..Total /\ delivered = First(Reached) /\ Len(delivered) = Reached
      /\ sent \in 0..Total /\ taken \in 0..sent /\ Len(Stream) = Total
  BY DeliveredIsPrefix
<1>a. UNCHANGED <<sent, closed, delivered, told>> => UNCHANGED Served!vars
  BY DEF Served!vars, delivered, told
<1>b. UNCHANGED vars /\ UNCHANGED upVars => UNCHANGED <<sent, closed, delivered, told>>
  BY DEF vars, clientVars, readerVars, upVars, delivered, told
<1>1. CASE Peers
  <2>1. CASE Send /\ UNCHANGED relayVars
    <3>1. UNCHANGED <<delivered, told>>
      BY <2>1 DEF Send, readerVars, relayVars, upVars, delivered, told
    <3>. QED  BY <1>0, <2>1, <3>1 DEF Send, Served!Send, Served!Next, delivered, told
  <2>2. CASE Close /\ UNCHANGED relayVars
    <3>1. UNCHANGED <<delivered, told>>
      BY <2>2 DEF Close, readerVars, relayVars, upVars, delivered, told
    <3>. QED  BY <2>2, <3>1 DEF Close, Served!Close, Served!Next, delivered, told
  <2>3. CASE Respond \/ HangUp
    BY <1>a, <1>b, <2>3 DEF Respond, HangUp
  <2>. QED  BY <1>1, <2>1, <2>2, <2>3 DEF Peers
<1>2. CASE Sniffing \/ (SniffFails /\ UNCHANGED relayVars)
  <2>. USE DEF clientVars, captureVars, prefixVars, readerVars, relayVars, upVars
  <2>1. phase \in {"sniff", "routed"} /\ out = <<>> /\ ~ended /\ link = "connecting"
        /\ written = 0 /\ ~shut /\ UNCHANGED <<sent, closed, ended, shut, written>>
    BY <1>2 DEF Sniffing, SniffRead, SniffDone, SniffFails, Passthrough, Terminate,
                RelayInv, Capturing
  <2>2. CASE Terminate
    <3>1. Reached = 0 /\ Reached' = taken
      BY <2>1, <2>2 DEF Terminate, Reached
    <3>2. ~told /\ told' = told
      BY <2>1, <2>2 DEF Terminate, told
    <3>3. taken = 0 \/ taken \in (Reached + 1)..sent
      BY <1>0, <3>1
    <3>4. CASE taken = 0
      <4>1. delivered' = delivered
        <5>1. delivered' = First(Reached)'
          BY DeliveredNext
        <5>. QED  BY <1>0, <3>1, <3>4, <5>1 DEF First
      <4>. QED  BY <1>a, <2>1, <3>2, <4>1
    <3>. QED  BY <2>1, <3>1, <3>2, <3>3, <3>4, DeliverStep DEF Served!Next
  <2>3. CASE ~Terminate
    <3>1. Reached = 0 /\ Reached' = 0 /\ ~told /\ ~told'
      BY <1>2, <2>1, <2>3 DEF Sniffing, SniffRead, SniffDone, SniffFails, Passthrough,
                              Reached, told
    <3>2. delivered' = First(Reached)'
      BY DeliveredNext
    <3>3. delivered' = delivered /\ told' = told
      <4>1. told \in BOOLEAN /\ told' \in BOOLEAN
        BY DEF told, RelayInv, RelayTypeOK, TypeOK
      <4>. QED  BY <1>0, <3>1, <3>2, <4>1 DEF First
    <3>. QED  BY <1>a, <2>1, <3>3
  <2>. QED  BY <2>2, <2>3
<1>3. ASSUME NEW b \in Buffers, Replay(b) \/ Read(b), UNCHANGED relayVars
      PROVE  Served!Next \/ UNCHANGED Served!vars
  <2>1. FetchGets /\ UNCHANGED relayVars
    BY <1>3, FetchKeepsInv
  <2>2. UNCHANGED <<sent, closed, told>>
    BY <2>1 DEF FetchGets, relayVars, upVars, told
  <2>3. CASE phase = "passthrough"
    <3>1. Reached' = Reached
      BY <2>1, <2>3 DEF FetchGets, relayVars, upVars, Reached
    <3>2. delivered' = First(Reached)'
      BY DeliveredNext
    <3>. QED  BY <1>0, <1>a, <2>2, <3>1, <3>2 DEF First
  <2>4. CASE phase = "terminate"
    <3>1. Reached' \in (Reached + 1)..sent /\ ~told
      BY <1>0, <2>1, <2>4 DEF FetchGets, Got, Reached, told
    <3>. QED  BY <2>2, <3>1, DeliverStep DEF Served!Next
  <2>. QED  BY <2>1, <2>3, <2>4 DEF FetchGets
<1>4. ASSUME ReadEnd, UNCHANGED relayVars PROVE Served!Next \/ UNCHANGED Served!vars
  <2>1. /\ Bare /\ Drained /\ ended' = TRUE
        /\ UNCHANGED <<sent, closed, phase, out, written, shut>>
    BY <1>4 DEF ReadEnd, clientVars, captureVars, prefixVars, relayVars, upVars
  <2>2. CASE phase = "passthrough"
    BY <1>a, <2>1, <2>2 DEF delivered, told
  <2>3. CASE phase = "terminate"
    <3>1. closed /\ Len(delivered) = sent /\ told' = TRUE /\ UNCHANGED <<sent, closed, delivered>>
      BY <1>0, <2>1, <2>3 DEF Drained, Reached, delivered, told
    <3>. QED  BY <3>1 DEF Served!End, Served!Next, delivered, told
  <2>. QED  BY <2>1, <2>2, <2>3 DEF Bare
<1>5. CASE Write \/ Shut
  <2>1. phase = "passthrough" /\ out = First(Got) /\ Len(out) = Got /\ Got \in 0..sent
    <3>1. TypeOK /\ Got \in 0..sent /\ Got \in 0..Total
      BY <1>0, LengthsTyped, LengthsAssumption DEF RelayInv, RelayTypeOK
    <3>. QED  BY <1>5, <3>1, FirstType DEF Write, Shut, Up, RelayInv, Replaying
  <2>2. UNCHANGED <<sent, closed, phase, out>>
    BY <1>5 DEF Write, Shut, vars, clientVars, readerVars
  <2>3. CASE Write
    <3>1. ~told /\ told' = told
      BY <1>0, <2>1, <2>2, <2>3 DEF Write, RelayInv, RelayTypeOK, EndIsLast, told
    <3>2. Reached' \in (Reached + 1)..sent
      BY <1>0, <2>1, <2>2, <2>3 DEF Write, Reached
    <3>. QED  BY <2>2, <3>1, <3>2, DeliverStep DEF Served!Next
  <2>4. CASE Shut
    <3>1. /\ closed /\ Len(delivered) = sent /\ told' = TRUE
          /\ UNCHANGED <<sent, closed, delivered>>
      BY <1>0, <2>1, <2>2, <2>4
         DEF Shut, RelayInv, EndIsLast, Drained, Reached, delivered, told
    <3>. QED  BY <3>1 DEF Served!End, Served!Next, delivered, told
  <2>. QED  BY <1>5, <2>3, <2>4
<1>6. CASE Connect \/ ConnectFails \/ Break \/ ToClient \/ Ending
  BY <1>a, <1>b, <1>6
     DEF Connect, ConnectFails, Break, Lose, ToClient, Draw, DrawEnd, Return, CloseClient,
         Ending, BothDone, CountToService, CountToClient
<1>7. CASE UNCHANGED allVars
  BY <1>a, <1>b, <1>7 DEF allVars, relayVars
<1>8. CASE ByRustls
  <2>1. CASE Abandon
    <3>1. UNCHANGED <<sent, closed, out, ended>> /\ phase = "terminate" /\ phase' = "gone"
      BY <2>1 DEF Abandon, clientVars, readerVars
    <3>. QED  BY <1>a, <3>1 DEF delivered, told
  <2>. QED  BY <1>3, <1>4, <1>8, <2>1 DEF ByRustls
<1>9. CASE ToService
  BY <1>3, <1>4, <1>5, <1>9 DEF ToService, Fetch, FetchEnd
<1>. QED  BY <1>1, <1>2, <1>6, <1>7, <1>8, <1>9 DEF RelayNext, Settled

------------------------------------------------------------------------------
(* The relay's buffers, positions and counters stay well formed, however    *)
(* long the stream, its ClientHello and the answer, and whatever the sizes  *)
(* of the buffers.                                                          *)
THEOREM TypeCorrect == RelaySpec => []RelayTypeOK
<1>1. RelayInv => RelayTypeOK
  BY DEF RelayInv
<1>. QED  BY <1>1, InitRelayInv, NextRelayInv, PTL DEF RelaySpec

(* proxy.rs: a relay is counted only when it is over, and then for all that *)
(* its two ends have sent; what is counted has arrived.                     *)
THEOREM CountedIsDeliveredHolds == RelaySpec => []CountedIsDelivered
<1>1. RelayInv => CountedIsDelivered
  <2>. SUFFICES ASSUME RelayInv PROVE CountedIsDelivered
    OBVIOUS
  <2>1. written \in Nat /\ returned \in Nat
    <3>1. out \in Seq(1..Total)
      BY DEF RelayInv, RelayTypeOK, TypeOK
    <3>. QED  BY <3>1, LenProperties, AnswerAssumption DEF RelayInv, RelayTypeOK
  <2>2. stats.to_service <= written /\ stats.to_client <= returned
    BY <2>1 DEF RelayInv, Counted
  <2>3. ASSUME link = "over" PROVE closed /\ written = sent /\ hungUp /\ returned = answered
    <3>1. phase = "passthrough" /\ shut /\ closing /\ ended
      BY <2>3 DEF RelayInv, EndIsLast
    <3>2. Len(out) = Got
      <4>1. Got \in 0..Total /\ out = First(Got)
        BY <3>1, LengthsTyped, LengthsAssumption DEF RelayInv, RelayTypeOK, Replaying
      <4>. QED  BY <4>1, FirstType
    <3>. QED  BY <3>1, <3>2 DEF RelayInv, EndIsLast, Drained
  <2>. QED  BY <2>2, <2>3 DEF RelayInv, Counted, CountedIsDelivered
<1>. QED  BY <1>1, InitRelayInv, NextRelayInv, PTL DEF RelaySpec

(* "no byte of the original TLS handshake is ever lost" (prefixed_stream.rs)*)
(* nor any later one: through the capture, the replay and the copy, whoever *)
(* serves the connection gets the client's bytes in order and once, and the *)
(* end after the last, for a stream, a ClientHello and buffers of any size. *)
THEOREM ImplementsPipe == RelaySpec => PipePromise
BY InitRelayInv, NextRelayInv, PipeInit, PipeStep, PTL
   DEF RelaySpec, PipePromise, Served!Spec
=============================================================================
