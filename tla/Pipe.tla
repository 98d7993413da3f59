--------------------------------- MODULE Pipe ---------------------------------
(***************************************************************************)
(* What the reader of a client's stream is promised: the bytes the client  *)
(* sent, each once and in the order sent, and an end of stream only after  *)
(* the last of them.  Relay is shown to implement it.                      *)
(***************************************************************************)
EXTENDS Integers, Sequences

CONSTANT Stream  \* the bytes the client would send, told apart by position

VARIABLES sent,       \* how many of them it has sent
          closed,     \* it has closed its side
          delivered,  \* what the reader has got
          ended       \* the reader was told that there is no more

vars == <<sent, closed, delivered, ended>>

Init == sent = 0 /\ closed = FALSE /\ delivered = <<>> /\ ended = FALSE

Send ==
  /\ ~closed
  /\ sent' \in (sent + 1)..Len(Stream)
  /\ UNCHANGED <<closed, delivered, ended>>

Close == closed' = TRUE /\ UNCHANGED <<sent, delivered, ended>>

Deliver ==
  /\ ~ended
  /\ \E n \in (Len(delivered) + 1)..sent : delivered' = SubSeq(Stream, 1, n)
  /\ UNCHANGED <<sent, closed, ended>>

End ==
  /\ closed /\ Len(delivered) = sent
  /\ ended' = TRUE
  /\ UNCHANGED <<sent, closed, delivered>>

Next == Send \/ Close \/ Deliver \/ End

Spec == Init /\ [][Next]_vars
=============================================================================
