-------------------------------- MODULE Channel --------------------------------
(***************************************************************************)
(* One direction of a connection between two FrameChannels (transport.cpp): *)
(* the bounded queue and the partial writes of the sending end, the bytes   *)
(* the two systems hold, and the reads and the incremental decoder of the   *)
(* receiving end.  Each end also fails, closes, or dies.                    *)
(*                                                                          *)
(* A byte names the frame and the place in it that it belongs to, so that   *)
(* the header's CRC and the body's digest verify exactly when the bytes of  *)
(* one frame stand in order; a damaged byte belongs to none.                *)
(***************************************************************************)
EXTENDS Integers, Sequences

CONSTANTS
  Bodies,      \* the body sizes callers queue
  HeaderBytes, \* kFrameHeaderBytes
  MaxBody,     \* max_frame_bytes
  MaxQueued,   \* max_queued_frames_per_connection
  ReadChunk,   \* kReadChunkBytes
  WireBytes,   \* what the two systems buffer
  MaxSent,     \* bound: the frames queued over the life of the channel
  Damages      \* may a byte be damaged on its way?

ASSUME ChannelAssumption ==
  /\ Bodies \subseteq Nat
  /\ {HeaderBytes, MaxQueued, ReadChunk, WireBytes} \subseteq Nat \ {0}
  /\ MaxBody \in Nat /\ MaxSent \in Nat /\ Damages \in BOOLEAN

VARIABLES
  near, far,  \* the sending and the receiving end: open, failed or closed
  outbound,   \* outbound_, the frames that were queued
  encoded,    \* outbound_bytes_, the frame being written
  offset,     \* outbound_offset_, how much of it the socket took
  wire,       \* the bytes on their way
  decoder,    \* FrameDecoder: its buffer, declared total and latch
  accepted,   \* history: every frame queued
  taken,      \* history: every frame the receiver took
  damaged     \* history: a byte was damaged

nearVars == <<near, outbound, encoded, offset, accepted>>
farVars  == <<far, decoder, taken>>
vars == <<nearVars, farVars, wire, damaged>>

Ends == {"open", "failed", "closed"}

Frame(n, size) == [number |-> n, body |-> size]
Frames == [number : 1..MaxSent, body : Bodies]
Byte(f, place) == [frame |-> f, place |-> place]
Total(f) == HeaderBytes + f.body

\* encode_frame
Envelope(f) == [place \in 1..Total(f) |-> Byte(f, place)]

Fresh == [buffer |-> <<>>, declared |-> 0, failed |-> FALSE, frames |-> <<>>]

Init ==
  /\ near = "open" /\ far = "open"
  /\ outbound = <<>> /\ encoded = <<>> /\ offset = 0
  /\ wire = <<>> /\ decoder = Fresh
  /\ accepted = <<>> /\ taken = <<>> /\ damaged = FALSE

-----------------------------------------------------------------------------
(* The decoder.                                                             *)

Latched(d) == [d EXCEPT !.buffer = <<>>, !.declared = 0, !.failed = TRUE]

\* parse_header, once the header is complete
ParseHeader(d) ==
  LET f == d.buffer[1].frame
  IN  IF d.declared # 0 \/ Len(d.buffer) < HeaderBytes THEN d
      ELSE IF d.buffer = SubSeq(Envelope(f), 1, HeaderBytes) /\ f.body <= MaxBody
           THEN [d EXCEPT !.declared = Total(f)]
           ELSE Latched(d)

\* the frame the buffer holds: with another body it is another frame
Held(buffer) ==
  LET f == buffer[1].frame
  IN  IF buffer = Envelope(f) THEN f ELSE [f EXCEPT !.number = 0]

\* faulty: the digest of the body is not compared
AnyBody(buffer) == TRUE
Verified(buffer) == buffer = Envelope(buffer[1].frame)

\* faulty: a frame is looked for after a byte of its body has arrived
EmitAfterBody(d) ==
  IF d.declared = 0 \/ Len(d.buffer) < d.declared \/ d.declared = HeaderBytes THEN d
  ELSE [d EXCEPT !.frames = Append(@, Held(d.buffer)), !.buffer = <<>>, !.declared = 0]

\* emit_frame, once the frame is complete: at its last byte, which is the
\* header's for an empty body
EmitFrame(d) ==
  IF d.declared = 0 \/ Len(d.buffer) < d.declared THEN d
  ELSE IF Verified(d.buffer)
       THEN [d EXCEPT !.frames = Append(@, Held(d.buffer)), !.buffer = <<>>,
                      !.declared = 0]
       ELSE Latched(d)

\* feed takes no byte beyond the header or the frame it is after, so it may as
\* well be fed one byte after the other
Absorb(d, byte) ==
  IF d.failed THEN d
  ELSE EmitFrame(ParseHeader([d EXCEPT !.buffer = Append(@, byte)]))

Feed(d, bytes) ==
  LET fed[n \in 0..Len(bytes)] == IF n = 0 THEN d ELSE Absorb(fed[n - 1], bytes[n])
  IN  fed[Len(bytes)]

-----------------------------------------------------------------------------
(* The sending end.                                                         *)

\* faulty: the ceiling is checked against the bytes being written
QueueUnbounded == encoded = <<>> \/ Len(outbound) < MaxQueued
QueueHasRoom == Len(outbound) < MaxQueued

\* a frame that does not fit the queue is refused, and one too large for a
\* frame is not: it is queue() that is bounded and encode_frame that looks
Queue ==
  /\ near = "open" /\ QueueHasRoom
  /\ Len(accepted) < MaxSent
  /\ \E size \in Bodies :
       /\ outbound' = Append(outbound, Frame(Len(accepted) + 1, size))
       /\ accepted' = Append(accepted, Frame(Len(accepted) + 1, size))
  /\ UNCHANGED <<near, encoded, offset, wire, farVars, damaged>>

\* the frame pump_out is writing: the one under way, or the next one
Unwritten == IF encoded = <<>> THEN Envelope(Head(outbound)) ELSE encoded

\* faulty: a frame the socket took in part is written from its start again
WroteAgain(n) == encoded' = Unwritten /\ offset' = 0
\* the socket took n bytes; a frame it took all of leaves the queue
Wrote(n) ==
  IF offset + n = Len(Unwritten)
  THEN encoded' = <<>> /\ offset' = 0
  ELSE encoded' = Unwritten /\ offset' = offset + n

\* pump_out: one write of as much as the socket takes; it goes on until the
\* socket is full or the queue is empty
PumpOut ==
  /\ near = "open" /\ outbound # <<>>
  /\ Head(outbound).body <= MaxBody
  /\ \E n \in 1..(Len(Unwritten) - offset) :
       /\ Len(wire) + n <= WireBytes
       /\ wire' = wire \o SubSeq(Unwritten, offset + 1, offset + n)
       /\ Wrote(n)
       /\ outbound' = IF encoded' = <<>> THEN Tail(outbound) ELSE outbound
  /\ UNCHANGED <<near, accepted, farVars, damaged>>

\* encode_frame refuses a body over the ceiling, and that fails the channel;
\* so does a write to a peer that is gone
PumpOutFails ==
  /\ near = "open" /\ outbound # <<>>
  /\ Head(outbound).body > MaxBody \/ far # "open"
  /\ near' = "failed"
  /\ UNCHANGED <<outbound, encoded, offset, accepted, farVars, wire, damaged>>

\* close, or the end of the process; the queue is lost with it
CloseNear ==
  /\ near = "open" /\ near' = "closed"
  /\ UNCHANGED <<outbound, encoded, offset, accepted, farVars, wire, damaged>>

-----------------------------------------------------------------------------
(* The receiving end.  Every reader calls pump_in once and then takes what  *)
(* it decoded, unless the channel failed in between.                        *)

PumpIn ==
  /\ far = "open" /\ wire # <<>>
  /\ \E n \in 1..ReadChunk :
       /\ n <= Len(wire)
       /\ wire' = SubSeq(wire, n + 1, Len(wire))
       /\ LET fed == Feed(decoder, SubSeq(wire, 1, n))
          IN  /\ decoder' = [fed EXCEPT !.frames = <<>>]
              /\ IF fed.failed \/ Len(fed.frames) > MaxQueued
                 THEN far' = "failed" /\ UNCHANGED taken
                 ELSE taken' = taken \o fed.frames /\ UNCHANGED far
  /\ UNCHANGED <<nearVars, damaged>>

\* nothing is left to read and the peer is gone
PumpInFails ==
  /\ far = "open" /\ wire = <<>> /\ near # "open"
  /\ far' = "failed"
  /\ UNCHANGED <<nearVars, decoder, taken, wire, damaged>>

CloseFar ==
  /\ far = "open" /\ far' = "closed"
  /\ UNCHANGED <<nearVars, decoder, taken, wire, damaged>>

-----------------------------------------------------------------------------
(* The wire.                                                                *)

\* a tail of what a lost end had sent never arrives
Cut ==
  /\ near # "open"
  /\ \E n \in 0..(Len(wire) - 1) : wire' = SubSeq(wire, 1, n)
  /\ UNCHANGED <<nearVars, farVars, damaged>>

Damage ==
  /\ Damages /\ ~damaged /\ damaged' = TRUE
  /\ \E i \in DOMAIN wire : wire' = [wire EXCEPT ![i].place = 0]
  /\ UNCHANGED <<nearVars, farVars>>

Next ==
  \/ Queue \/ PumpOut \/ PumpOutFails \/ CloseNear
  \/ PumpIn \/ PumpInFails \/ CloseFar
  \/ Cut \/ Damage
Spec == Init /\ [][Next]_vars

(* Both ends pump in every turn of their loop.  Nothing obliges a caller to *)
(* send, or the system to lose or damage anything.                          *)
FairSpec ==
  /\ Spec
  /\ WF_vars(PumpOut) /\ WF_vars(PumpOutFails)
  /\ WF_vars(PumpIn) /\ WF_vars(PumpInFails)
=============================================================================
