-------------------------------- MODULE Relay --------------------------------
(***************************************************************************)
(* A passthrough connection between its client and its service:            *)
(* relay_to_service (src/route/proxy.rs) connects and then leaves both     *)
(* directions to tokio::io::copy_bidirectional, whose result it counts.    *)
(* The client's bytes come through ClientStream, and none of them is read  *)
(* again before the service is connected; the service's bytes are counted  *)
(* only.  A connection of another route has rustls as its reader, no relay *)
(* here, and may be over before the client's bytes are.                    *)
(*                                                                         *)
(* copy_bidirectional ends well once both directions have seen an end of   *)
(* stream and passed it on; an error in either ends it at once, with what  *)
(* was read and not yet written, and without saying how much was moved.    *)
(***************************************************************************)
EXTENDS ClientStream

CONSTANT Answer  \* bytes the service would send

ASSUME AnswerAssumption == Answer \in Nat

VARIABLES
  link,                \* connecting, up, to_service, to_client, over, off
  written, shut,       \* what the service has got, and that it was told the end
  answered, hungUp,    \* the service's side of its socket
  fetched, fetchedAll, \* read from the service, and its end of stream
  returned, closing,   \* what the client has got, and that it was told the end
  stats                \* the two byte counters

upVars    == <<written, shut>>
serverVars == <<answered, hungUp>>
downVars  == <<fetched, fetchedAll, returned, closing>>
relayVars == <<link, upVars, serverVars, downVars, stats>>
allVars   == <<vars, relayVars>>

RelayTypeOK ==
  /\ TypeOK
  /\ link \in {"connecting", "up", "to_service", "to_client", "over", "off"}
  /\ written \in 0..Len(out) /\ shut \in BOOLEAN
  /\ answered \in 0..Answer /\ hungUp \in BOOLEAN
  /\ fetched \in 0..answered /\ fetchedAll \in BOOLEAN
  /\ returned \in 0..fetched /\ closing \in BOOLEAN
  /\ stats \in [{"to_service", "to_client"} -> Nat]

RelayInit ==
  /\ Init
  /\ link = "connecting"
  /\ written = 0 /\ shut = FALSE
  /\ answered = 0 /\ hungUp = FALSE
  /\ fetched = 0 /\ fetchedAll = FALSE
  /\ returned = 0 /\ closing = FALSE
  /\ stats = [to_service |-> 0, to_client |-> 0]

------------------------------------------------------------------------------
Connect ==
  /\ phase = "passthrough" /\ link = "connecting"
  /\ link' = "up"
  /\ UNCHANGED <<vars, upVars, serverVars, downVars, stats>>

Lose(here) ==
  /\ phase = "passthrough" /\ link = here
  /\ link' = "off"
  /\ UNCHANGED <<vars, upVars, serverVars, downVars, stats>>

(* every attempt failed *)
ConnectFails == Lose("connecting")

(* an error in either direction of the copy *)
Break == Lose("up")

Up == phase = "passthrough" /\ link = "up"

(* the client's direction: replayed and read ... *)
Fetch(b) ==
  /\ Up
  /\ Replay(b) \/ Read(b)
  /\ UNCHANGED relayVars

FetchEnd ==
  /\ Up
  /\ ReadEnd
  /\ UNCHANGED relayVars

(* ... and written, as much at a time as the service's socket takes *)
Write ==
  /\ Up
  /\ written' \in (written + 1)..Len(out)
  /\ UNCHANGED <<vars, link, shut, serverVars, downVars, stats>>

MutShut ==  \* the end passed on ahead of what is still in the buffer
  /\ Up
  /\ ended /\ ~shut
  /\ shut' = TRUE
  /\ UNCHANGED <<vars, link, written, serverVars, downVars, stats>>

Shut ==
  /\ Up
  /\ ended /\ written = Len(out) /\ ~shut
  /\ shut' = TRUE
  /\ UNCHANGED <<vars, link, written, serverVars, downVars, stats>>

(* the service *)
Respond ==
  /\ Up
  /\ ~hungUp
  /\ answered' \in (answered + 1)..Answer
  /\ UNCHANGED <<vars, link, upVars, hungUp, downVars, stats>>

HangUp ==
  /\ Up
  /\ ~hungUp
  /\ hungUp' = TRUE
  /\ UNCHANGED <<vars, link, upVars, answered, downVars, stats>>

(* its direction *)
Draw ==
  /\ Up
  /\ fetched' \in (fetched + 1)..answered
  /\ UNCHANGED <<vars, link, upVars, serverVars, fetchedAll, returned, closing, stats>>

DrawEnd ==
  /\ Up
  /\ hungUp /\ fetched = answered /\ ~fetchedAll
  /\ fetchedAll' = TRUE
  /\ UNCHANGED <<vars, link, upVars, serverVars, fetched, returned, closing, stats>>

Return ==
  /\ Up
  /\ returned' \in (returned + 1)..fetched
  /\ UNCHANGED <<vars, link, upVars, serverVars, fetched, fetchedAll, closing, stats>>

CloseClient ==
  /\ Up
  /\ fetchedAll /\ returned = fetched /\ ~closing
  /\ closing' = TRUE
  /\ UNCHANGED <<vars, link, upVars, serverVars, fetched, fetchedAll, returned, stats>>

------------------------------------------------------------------------------
MutBothDone ==  \* two copies under select!: the first to end ends both
  /\ Up
  /\ shut \/ closing
  /\ link' = "to_service"
  /\ UNCHANGED <<vars, upVars, serverVars, downVars, stats>>

(* Ok: the client's bytes are counted, then the service's; both streams are *)
(* closed with the task.                                                    *)
BothDone ==
  /\ Up
  /\ shut /\ closing
  /\ link' = "to_service"
  /\ UNCHANGED <<vars, upVars, serverVars, downVars, stats>>

MutCountToService ==  \* the bytes of the bare socket alone
  /\ link = "to_service"
  /\ link' = "to_client"
  /\ stats' = [stats EXCEPT !.to_service = @ + written - Len(prefix)]
  /\ UNCHANGED <<vars, upVars, serverVars, downVars>>

CountToService ==
  /\ link = "to_service"
  /\ link' = "to_client"
  /\ stats' = [stats EXCEPT !.to_service = @ + written]
  /\ UNCHANGED <<vars, upVars, serverVars, downVars>>

CountToClient ==
  /\ link = "to_client"
  /\ link' = "over"
  /\ stats' = [stats EXCEPT !.to_client = @ + returned]
  /\ UNCHANGED <<vars, upVars, serverVars, downVars>>

(* what the two ends may do, and what reprox does for them *)
Peers == ((Send \/ Close) /\ UNCHANGED relayVars) \/ Respond \/ HangUp

Sniffing == ((\E b \in Buffers : SniffRead(b)) \/ SniffDone \/ Passthrough \/ Terminate)
              /\ UNCHANGED relayVars

(* rustls, of which nothing says how far it will read *)
ByRustls == /\ phase = "terminate"
            /\ (\E b \in Buffers : Read(b)) \/ ReadEnd \/ Abandon
            /\ UNCHANGED relayVars

ToService == (\E b \in Buffers : Fetch(b)) \/ FetchEnd \/ Write \/ Shut
ToClient  == Draw \/ DrawEnd \/ Return \/ CloseClient
Ending    == BothDone \/ CountToService \/ CountToClient

Settled == (phase = "gone" \/ link \in {"off", "over"}) /\ UNCHANGED allVars

RelayNext ==
  \/ Peers \/ Sniffing \/ (SniffFails /\ UNCHANGED relayVars) \/ ByRustls
  \/ Connect \/ ConnectFails \/ Break \/ ToService \/ ToClient \/ Ending
  \/ Settled

RelaySpec == RelayInit /\ [][RelayNext]_allVars

(* The task is polled when a socket is ready for it: either direction moves *)
(* whatever the other does, and connecting ends, well or not.  Nothing says *)
(* that a copy will break, nor what becomes of a terminated connection.     *)
FairRelaySpec ==
  /\ RelaySpec
  /\ WF_allVars(Sniffing) /\ WF_allVars(Connect \/ ConnectFails)
  /\ WF_allVars(ToService) /\ WF_allVars(ToClient) /\ WF_allVars(Ending)

------------------------------------------------------------------------------
(* What serves the connection, the service or rustls, gets a Pipe from the  *)
(* client: "no byte of the original TLS handshake is ever lost"             *)
(* (prefixed_stream.rs), none twice, none out of order, and the end only    *)
(* after the last, through the capture, the replay and the copy.            *)
Served == INSTANCE Pipe WITH
  delivered <- IF phase = "passthrough" THEN SubSeq(out, 1, written) ELSE out,
  ended     <- IF phase = "passthrough" THEN shut ELSE ended

PipePromise == Served!Spec

(* A client that closes its side has sent all it will: on a passthrough     *)
(* route all of that arrives at the service, and its end too, however long  *)
(* the service goes on, unless the connection is given up.  (What rustls    *)
(* terminates may be over first, see Abandon; it is promised PipePromise.)  *)
GivenUp == \/ phase \in {"gone", "terminate"}
           \/ link = "off"
           \/ phase = "sniff" /\ Drained /\ taken < Hello

RequestDelivered == closed ~> GivenUp \/ (shut /\ written = sent)

(* A half-closed client, "done sending, still reading", gets the answer to  *)
(* its end: one direction's end does not end the other.                     *)
AnswerDelivered == hungUp ~> (link = "off" \/ (closing /\ returned = answered))

(* bytes_client_to_service and bytes_service_to_client: once a relay is     *)
(* counted it is counted for all that either end has sent, replayed bytes   *)
(* included; and no byte is counted that did not arrive.                    *)
CountedIsDelivered ==
  /\ stats.to_service <= written /\ stats.to_client <= returned
  /\ link = "over" =>
       /\ closed /\ stats.to_service = sent
       /\ hungUp /\ stats.to_client = answered
=============================================================================
