----------------------------- MODULE ChannelSafety -----------------------------
(***************************************************************************)
(* What must hold of a connection: it is a Link, whatever the sizes of the  *)
(* writes and reads its bytes pass in.                                      *)
(***************************************************************************)
EXTENDS Channel

Bytes == [frame : Frames, place : Nat]

\* The variables hold values of their types, and nothing grows past its
\* ceiling: the queue, the frame being written, the decoder's buffer.
TypeOK ==
  /\ near \in Ends /\ far \in Ends
  /\ outbound \in Seq(Frames) /\ Len(outbound) <= MaxQueued
  /\ encoded \in Seq(Bytes) /\ offset \in 0..Len(encoded)
  /\ wire \in Seq(Bytes) /\ Len(wire) <= WireBytes
  /\ decoder.buffer \in Seq(Bytes)
  /\ Len(decoder.buffer) < HeaderBytes + MaxBody
  /\ accepted \in Seq(Frames) /\ taken \in Seq(Frames)

\* An end that nobody closed fails only because of the other end, of damage,
\* or of a frame that was too large when it was queued (transport.cpp:671,
\* 718): no legal burst and no queue limit breaks a connection by itself, and
\* however the writes of one end and the reads of the other cut the stream,
\* across header, body and frame boundaries, the decoder never misreads it
\* (transport.cpp:274).
FailuresHaveACause ==
  /\ far = "failed" => near # "open" \/ damaged
  /\ near = "failed" => far # "open" \/ \E i \in DOMAIN accepted : accepted[i].body > MaxBody
  /\ decoder.failed => damaged

ToLink == INSTANCE Link WITH
  sent <- accepted, received <- taken, listening <- (far = "open")

\* The connection is a Link: what the receiver takes is always a prefix of
\* what was queued, whole, in order and once (transport.cpp:186, 655, 696);
\* the adapter and the workers rely on it for every acknowledgement that
\* follows an evidence record.
IsALink == ToLink!Spec

\* A frame that was queued is taken, or one of the ends is gone
\* (transport.cpp:279: "A frame that happens to end exactly on a chunk
\* boundary is emitted before the input runs out").
Delivered ==
  \A n \in 1..MaxSent :
    [](Len(accepted) >= n =>
         <>(Len(taken) >= n \/ near # "open" \/ far # "open"))
=============================================================================
