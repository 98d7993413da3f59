---------------------------- MODULE ClientStream ----------------------------
(***************************************************************************)
(* A client's bytes on their way through reprox: sniffed by rustls through *)
(* ReadCapturingStream (src/route/capturing_stream.rs), then, for a        *)
(* passthrough route, replayed to the relay by PrefixedStream              *)
(* (prefixed_stream.rs); for the other two routes rustls keeps what it has *)
(* read and goes on reading from the bare socket.                          *)
(*                                                                         *)
(* A read returns as many bytes as the socket or the caller's buffer       *)
(* allows, so its length is any number from 1 to either bound; one that    *)
(* finds nothing is no step.  `out` is what whoever serves the connection  *)
(* (the relay, or rustls) has got, `hello` what rustls has while sniffing. *)
(***************************************************************************)
EXTENDS Integers, Sequences

CONSTANTS Total,    \* bytes the client would send
          Hello,    \* length of its ClientHello
          Buffers   \* sizes of the buffers that readers offer

ASSUME LengthsAssumption == Total \in Nat /\ Hello \in 1..Total
ASSUME BuffersAssumption == Buffers \subseteq Nat \ {0}

VARIABLES sent, closed,   \* the client's side of the socket
          taken,          \* how many bytes have been read off the socket
          phase,          \* sniff, routed, passthrough, terminate, gone
          hello,          \* the acceptor's bytes
          bytes,          \* ReadCapturingStream.bytes
          prefix, pos,    \* PrefixedStream.prefix: its bytes and its position
          out, ended      \* the reader's bytes, and its end of stream

clientVars  == <<sent, closed>>
captureVars == <<hello, bytes>>
prefixVars  == <<prefix, pos>>
readerVars  == <<out, ended>>
vars        == <<clientVars, taken, phase, captureVars, prefixVars, readerVars>>

Stream == [i \in 1..Total |-> i]

TypeOK ==
  /\ sent \in 0..Total /\ closed \in BOOLEAN /\ taken \in 0..sent
  /\ phase \in {"sniff", "routed", "passthrough", "terminate", "gone"}
  /\ \A s \in {hello, bytes, prefix, out} : s \in Seq(1..Total) /\ Len(s) <= taken
  /\ pos \in 0..Len(prefix) /\ ended \in BOOLEAN

Init ==
  /\ sent = 0 /\ closed = FALSE /\ taken = 0
  /\ phase = "sniff" /\ hello = <<>> /\ bytes = <<>>
  /\ prefix = <<>> /\ pos = 0
  /\ out = <<>> /\ ended = FALSE

------------------------------------------------------------------------------
Send ==
  /\ ~closed
  /\ sent' \in (sent + 1)..Total
  /\ UNCHANGED <<closed, taken, phase, captureVars, prefixVars, readerVars>>

Close ==
  /\ ~closed
  /\ closed' = TRUE
  /\ UNCHANGED <<sent, taken, phase, captureVars, prefixVars, readerVars>>

(* the next n bytes of the socket *)
Socket(n) == SubSeq(Stream, taken + 1, taken + n)

AtMost(n, bound) == IF n < bound THEN n ELSE bound

(* reads of the socket into a buffer with room for b *)
Lengths(b) == 1..AtMost(b, sent - taken)

Drained == closed /\ taken = sent

------------------------------------------------------------------------------
(* Sniffing: LazyConfigAcceptor reads through the capturing stream until it *)
(* has a whole ClientHello, and may by then have read beyond it.            *)

(* Definitions named Mut... are slips the properties must catch; each one   *)
(* is a variant of the definition that follows it and is used nowhere else. *)
MutCaptured(new) == new          \* the bytes replaced, not extended
Captured(new)    == bytes \o new

SniffRead(b) ==
  /\ phase = "sniff"
  /\ Len(hello) < Hello
  /\ \E n \in Lengths(b) :
       /\ hello' = hello \o Socket(n)
       /\ bytes' = Captured(Socket(n))
       /\ taken' = taken + n
  /\ UNCHANGED <<clientVars, phase, prefixVars, readerVars>>

SniffDone ==
  /\ phase = "sniff"
  /\ Len(hello) >= Hello
  /\ phase' = "routed"
  /\ UNCHANGED <<clientVars, taken, captureVars, prefixVars, readerVars>>

(* an end of stream before that, a read error, or the timeout *)
SniffFails ==
  /\ phase = "sniff"
  /\ phase' = "gone"
  /\ UNCHANGED <<clientVars, taken, captureVars, prefixVars, readerVars>>

------------------------------------------------------------------------------
(* take_captured, into_inner, PrefixedStream::new *)
Passthrough ==
  /\ phase = "routed"
  /\ phase' = "passthrough"
  /\ prefix' = bytes /\ pos' = 0
  /\ bytes' = <<>> /\ hello' = <<>>
  /\ UNCHANGED <<clientVars, taken, readerVars>>

(* into_inner alone: rustls keeps its own bytes *)
Terminate ==
  /\ phase = "routed"
  /\ phase' = "terminate"
  /\ out' = hello
  /\ bytes' = <<>> /\ hello' = <<>>
  /\ UNCHANGED <<clientVars, taken, prefixVars, ended>>

(* A terminated connection can end at any point, with the client's bytes    *)
(* unread: the handshake fails or takes too long, its configuration is not  *)
(* built, the service cannot be reached, or hyper is done with it.          *)
Abandon ==
  /\ phase = "terminate"
  /\ phase' = "gone"
  /\ UNCHANGED <<clientVars, taken, captureVars, prefixVars, readerVars>>

MutReplay(b) ==  \* set_position(n)
  /\ phase = "passthrough"
  /\ pos < Len(prefix)
  /\ LET n == AtMost(Len(prefix) - pos, b)
     IN  out' = out \o SubSeq(prefix, pos + 1, pos + n) /\ pos' = n
  /\ UNCHANGED <<clientVars, taken, phase, captureVars, prefix, ended>>

MutReplayShort(b) ==  \* the last byte of the prefix held back
  /\ phase = "passthrough"
  /\ pos < Len(prefix)
  /\ LET n == AtMost(Len(prefix) - pos - 1, b)
     IN  out' = out \o SubSeq(prefix, pos + 1, pos + n) /\ pos' = pos + n
  /\ UNCHANGED <<clientVars, taken, phase, captureVars, prefix, ended>>

(* PrefixedStream::poll_read while the prefix lasts ... *)
Replay(b) ==
  /\ phase = "passthrough"
  /\ pos < Len(prefix)
  /\ LET n == AtMost(Len(prefix) - pos, b)
     IN  out' = out \o SubSeq(prefix, pos + 1, pos + n) /\ pos' = pos + n
  /\ UNCHANGED <<clientVars, taken, phase, captureVars, prefix, ended>>

(* ... and when it is used up; on the other routes, always. *)
Bare == \/ phase = "terminate"
        \/ phase = "passthrough" /\ pos = Len(prefix)

Read(b) ==
  /\ Bare
  /\ ~ended
  /\ \E n \in Lengths(b) : out' = out \o Socket(n) /\ taken' = taken + n
  /\ UNCHANGED <<clientVars, phase, captureVars, prefixVars, ended>>

ReadEnd ==
  /\ Bare
  /\ ~ended
  /\ Drained
  /\ ended' = TRUE
  /\ UNCHANGED <<clientVars, taken, phase, captureVars, prefixVars, out>>

Stopped == phase = "gone" \/ ended

Next ==
  \/ Send \/ Close
  \/ \E b \in Buffers : SniffRead(b) \/ Replay(b) \/ Read(b)
  \/ SniffDone \/ SniffFails \/ Passthrough \/ Terminate \/ Abandon \/ ReadEnd
  \/ (Stopped /\ UNCHANGED vars)

Spec == Init /\ [][Next]_vars
=============================================================================
