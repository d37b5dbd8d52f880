----------------------------- MODULE ChannelProofs -----------------------------
(***************************************************************************)
(* Theorems about a connection: however the stream is cut by writes and     *)
(* reads, it is a Link, and it fails only where something is wrong.         *)
(***************************************************************************)
EXTENDS ChannelSafety, WellFoundedInduction, TLAPS

-----------------------------------------------------------------------------
(* The inductive invariant.  bound says where each frame begins in the      *)
(* stream of all bytes ever to be written: frame n is the bytes after       *)
(* bound[n], up to bound[n + 1].                                            *)

LaidOut(bound) ==
  /\ bound \in [1..(Len(accepted) + 1) -> Nat] /\ bound[1] = 0
  /\ \A n \in DOMAIN accepted : bound[n + 1] = bound[n] + Total(accepted[n])
  /\ \A n, m \in 1..(Len(accepted) + 1) : n < m => bound[n] < bound[m]

(* The byte at place x of the stream, or what damage made of it.            *)
Lies(bound, x, b) ==
  \E n \in DOMAIN accepted :
    /\ bound[n] < x /\ x <= bound[n + 1]
    /\ b.frame = accepted[n] /\ accepted[n].body <= MaxBody
    /\ (b.place = x - bound[n] \/ (damaged /\ b.place = 0))

(* A decoder that has emitted all frames up to the k-th.                    *)
Decodes(bound, d, k) ==
  /\ ~d.failed /\ k \in 0..Len(accepted) /\ d.buffer \in Seq(Bytes)
  /\ \A i \in DOMAIN d.buffer : Lies(bound, bound[k + 1] + i, d.buffer[i])
  /\ d.buffer # <<>> => k < Len(accepted) /\ Len(d.buffer) < Total(accepted[k + 1])
  /\ d.declared = IF Len(d.buffer) < HeaderBytes THEN 0 ELSE Total(accepted[k + 1])

Decoders == [buffer : Seq(Bytes), declared : Nat, failed : BOOLEAN, frames : Seq(Frames)]

Typed ==
  /\ TypeOK /\ damaged \in BOOLEAN /\ decoder \in Decoders /\ decoder.frames = <<>>
  /\ Len(accepted) <= MaxSent /\ \A n \in DOMAIN accepted : accepted[n].number = n

(* The sending end: what is queued is what was accepted last, and the first *)
(* of it may be half written.                                               *)
Sending ==
  /\ Len(outbound) <= Len(accepted)
  /\ \A i \in DOMAIN outbound : outbound[i] = accepted[Len(accepted) - Len(outbound) + i]
  /\ \/ encoded = <<>> /\ offset = 0
     \/ /\ outbound # <<>> /\ encoded = Envelope(outbound[1])
        /\ offset < Len(encoded) /\ outbound[1].body <= MaxBody

(* Where the sending end stands in the stream.                              *)
Written(bound) == bound[Len(accepted) - Len(outbound) + 1] + offset

(* The receiving end took the first frames that were accepted; what it has  *)
(* buffered and what is on the wire continue them without a gap.            *)
Receiving(bound) ==
  LET x == bound[Len(taken) + 1] + Len(decoder.buffer)
  IN  /\ Decodes(bound, decoder, Len(taken))
      /\ \A i \in DOMAIN wire : Lies(bound, x + i, wire[i])
      /\ x + Len(wire) <= Written(bound)
      /\ near = "open" => x + Len(wire) = Written(bound)

Took == Len(taken) <= Len(accepted) /\ \A i \in DOMAIN taken : taken[i] = accepted[i]

StreamInv == \E bound : LaidOut(bound) /\ (far = "open" => Receiving(bound))

ChannelInv == Typed /\ Sending /\ Took /\ StreamInv

-----------------------------------------------------------------------------
(* Induction over natural numbers, and what feed computes.                  *)

LEMMA LeastNatural ==
  ASSUME NEW S \in SUBSET Nat, S # {}
  PROVE  \E n \in S : \A m \in S : n <= m
<1> DEFINE R == OpToRel(<, Nat)
<1>1. IsWellFoundedOn(R, Nat)
  BY NatLessThanWellFounded
<1>2. PICK n \in S : \A m \in S : <<m, n>> \notin R
  BY <1>1, WFMin
<1>3. \A m \in S : ~(m < n)
  BY <1>2 DEF OpToRel
<1> QED  BY <1>3

(* A set of numbers with the first, and the next of each up to top.         *)
LEMMA UpTo ==
  ASSUME NEW top \in Nat, NEW S, 0 \in S, \A n \in 0..top : n \in S /\ n < top => n + 1 \in S
  PROVE  0..top \subseteq S
<1> DEFINE left == (0..top) \ S
<1> SUFFICES ASSUME left # {} PROVE FALSE
  OBVIOUS
<1>1. PICK n \in left : \A m \in left : n <= m
  <2>1. left \in SUBSET Nat
    OBVIOUS
  <2> HIDE DEF left
  <2> QED  BY <2>1, LeastNatural
<1>2. n # 0 /\ n \in 0..top /\ n \notin S
  BY <1>1
<1>3. n - 1 \in 0..top /\ n - 1 < top /\ (n - 1) + 1 = n /\ ~(n <= n - 1)
  BY <1>2
<1>4. n - 1 \in S
  BY <1>1, <1>3
<1> QED  BY <1>2, <1>3, <1>4

(* feed goes through the bytes one after the other: what its recursion      *)
(* defines exists, and is what it says.                                     *)
LEMMA FeedIs ==
  ASSUME NEW d, NEW bytes, Len(bytes) \in Nat
  PROVE  \E fed : /\ fed[0] = d /\ Feed(d, bytes) = fed[Len(bytes)]
                  /\ \A n \in 1..Len(bytes) : fed[n] = Absorb(fed[n - 1], bytes[n])
<1> DEFINE top == Len(bytes)
           Is(f, n) == f = [i \in 0..n |-> IF i = 0 THEN d ELSE Absorb(f[i - 1], bytes[i])]
           S == {n \in 0..top : \E f : Is(f, n)}
<1>1. 0 \in S
  <2> DEFINE f == [i \in 0..0 |-> d]
  <2>1. f = [i \in 0..0 |-> IF i = 0 THEN d ELSE Absorb(f[i - 1], bytes[i])]
    OBVIOUS
  <2>2. Is(f, 0)
    BY <2>1
  <2> HIDE DEF Is, f
  <2> QED  BY <2>2
<1>2. \A n \in 0..top : n \in S /\ n < top => n + 1 \in S
  <2> SUFFICES ASSUME NEW n \in 0..top, n \in S, n < top PROVE \E f : Is(f, n + 1)
    <3> HIDE DEF Is
    <3> QED  OBVIOUS
  <2>1. PICK g : Is(g, n)
    OBVIOUS
  <2> DEFINE f == [i \in 0..(n + 1) |-> IF i = n + 1 THEN Absorb(g[n], bytes[n + 1]) ELSE g[i]]
             h == [i \in 0..(n + 1) |-> IF i = 0 THEN d ELSE Absorb(f[i - 1], bytes[i])]
  <2>2. \A i \in 0..(n + 1) : f[i] = h[i]
    <3> TAKE i \in 0..(n + 1)
    <3>1. CASE i = n + 1
      <4>1. i # 0 /\ i - 1 = n /\ n # n + 1 /\ n \in 0..(n + 1)
        BY <3>1
      <4>2. f[n] = g[n] /\ f[i] = Absorb(g[n], bytes[i])
        BY <3>1, <4>1
      <4>3. h[i] = Absorb(f[n], bytes[i])
        BY <4>1
      <4> QED  BY <4>2, <4>3
    <3>2. CASE i \in 1..n
      <4>1. f[i] = g[i] /\ f[i - 1] = g[i - 1] /\ i # 0
        BY <3>2
      <4>2. g[i] = Absorb(g[i - 1], bytes[i])
        BY <2>1, <3>2
      <4> QED  BY <4>1, <4>2
    <3>3. CASE i = 0
      BY <2>1, <3>3
    <3> QED  BY <3>1, <3>2, <3>3
  <2>3. f = h
    BY <2>2
  <2> QED  BY <2>3
<1>3. PICK f : Is(f, top)
  <2>1. 0..top \subseteq S
    <3> HIDE DEF S, top
    <3> QED  BY <1>1, <1>2, UpTo DEF top
  <2> QED  BY <2>1
<1> DEFINE fed == CHOOSE g : Is(g, top)
<1>4. Is(fed, top)
  BY <1>3
<1>5. Feed(d, bytes) = fed[top]
  BY DEF Feed
<1>6. fed[0] = d /\ \A n \in 1..top : fed[n] = Absorb(fed[n - 1], bytes[n])
  <2> HIDE DEF fed
  <2> QED  BY <1>4
<1> HIDE DEF fed
<1> QED  BY <1>5, <1>6

-----------------------------------------------------------------------------
(* The decoder, one byte at a time.                                         *)

LEMMA Sizes ==
  /\ HeaderBytes \in Nat \ {0} /\ MaxBody \in Nat /\ MaxQueued \in Nat \ {0}
  /\ MaxSent \in Nat /\ ReadChunk \in Nat \ {0} /\ WireBytes \in Nat \ {0}
  /\ \A f \in Frames : /\ f.number \in Nat /\ f.body \in Nat
                       /\ Total(f) \in Nat /\ Total(f) >= HeaderBytes /\ Total(f) > 0
                       /\ f.body <= MaxBody => Total(f) <= HeaderBytes + MaxBody
<1>1. /\ HeaderBytes \in Nat \ {0} /\ MaxBody \in Nat /\ MaxQueued \in Nat \ {0}
      /\ MaxSent \in Nat /\ ReadChunk \in Nat \ {0} /\ WireBytes \in Nat \ {0}
  BY ChannelAssumption
<1>2. \A f \in Frames : f.number \in Nat /\ f.body \in Nat
  <2>1. Bodies \subseteq Nat
    BY ChannelAssumption
  <2> TAKE f \in Frames
  <2>2. f.number \in 1..MaxSent /\ f.body \in Bodies
    BY DEF Frames
  <2>3. f.number \in Nat
    BY <1>1, <2>2
  <2>4. f.body \in Nat
    BY <2>1, <2>2
  <2> QED  BY <2>3, <2>4
<1> QED  BY <1>1, <1>2 DEF Total

LEMMA EnvelopeIs ==
  ASSUME NEW f \in Frames
  PROVE  /\ Envelope(f) \in Seq(Bytes) /\ Len(Envelope(f)) = Total(f)
         /\ \A i \in 1..Total(f) : Envelope(f)[i] = Byte(f, i)
<1>1. Total(f) \in Nat
  BY Sizes
<1>2. \A i \in 1..Total(f) : Byte(f, i) \in Bytes
  BY <1>1 DEF Byte, Bytes
<1> QED  BY <1>1, <1>2 DEF Envelope

(* The byte after the h bytes of a frame that was begun is of that frame,   *)
(* and after a whole frame comes the next one.                              *)
LEMMA NextByte ==
  ASSUME Typed, NEW bound, LaidOut(bound), NEW k \in 0..Len(accepted), NEW h \in Nat,
         h > 0 => k < Len(accepted) /\ h < Total(accepted[k + 1]),
         NEW b \in Bytes, Lies(bound, bound[k + 1] + h + 1, b)
  PROVE  /\ k < Len(accepted) /\ accepted[k + 1] \in Frames /\ h + 1 <= Total(accepted[k + 1])
         /\ b.frame = accepted[k + 1] /\ accepted[k + 1].body <= MaxBody
         /\ b.place = h + 1 \/ (damaged /\ b.place = 0)
<1> DEFINE N == Len(accepted)
<1>1. accepted \in Seq(Frames) /\ N \in Nat /\ DOMAIN accepted = 1..N
  BY DEF Typed, TypeOK
<1>2. PICK n \in 1..N : /\ bound[n] < bound[k + 1] + h + 1 /\ bound[k + 1] + h + 1 <= bound[n + 1]
                        /\ b.frame = accepted[n] /\ accepted[n].body <= MaxBody
                        /\ b.place = (bound[k + 1] + h + 1) - bound[n] \/ (damaged /\ b.place = 0)
  <2> DEFINE x == bound[k + 1] + h + 1
  <2>1. Lies(bound, x, b)
    OBVIOUS
  <2> HIDE DEF x
  <2>2. PICK n \in DOMAIN accepted :
          /\ bound[n] < x /\ x <= bound[n + 1]
          /\ b.frame = accepted[n] /\ accepted[n].body <= MaxBody
          /\ (b.place = x - bound[n] \/ (damaged /\ b.place = 0))
    BY <2>1 DEF Lies
  <2>3. n \in 1..N
    BY <1>1
  <2> WITNESS n \in 1..N
  <2> QED  BY <2>2 DEF x
<1>3. /\ \A i \in 1..(N + 1) : bound[i] \in Nat
      /\ \A i, j \in 1..(N + 1) : i < j => bound[i] < bound[j]
      /\ \A i \in 1..N : bound[i + 1] = bound[i] + Total(accepted[i]) /\ Total(accepted[i]) \in Nat
  <2>1. \A i \in 1..N : accepted[i] \in Frames
    BY <1>1
  <2>2. \A i \in 1..N : Total(accepted[i]) \in Nat
    BY <2>1, Sizes
  <2> QED  BY <1>1, <2>2 DEF LaidOut
<1>4. k + 1 \in 1..(N + 1) /\ n + 1 \in 1..(N + 1) /\ n \in 1..(N + 1) /\ bound[k + 1] \in Nat
  BY <1>1, <1>2, <1>3
<1>a. PICK p \in Nat : p = bound[k + 1]
  BY <1>4
<1>b. PICK q \in Nat : q = bound[n]
  BY <1>3, <1>4
<1>c. PICK t \in Nat : t = bound[n + 1]
  BY <1>3, <1>4
<1>d. q < p + h + 1 /\ p + h + 1 <= t
  BY <1>2, <1>a, <1>b, <1>c
<1>e. \A i, j \in 1..(N + 1) : i < j => bound[i] < bound[j]
  BY <1>3
<1>f. n \in Nat /\ k \in Nat /\ N \in Nat /\ n <= N /\ k <= N /\ 1 <= n
  BY <1>1, <1>2
<1>g. \A i \in 1..N : bound[i + 1] = bound[i] + Total(accepted[i]) /\ Total(accepted[i]) \in Nat
  BY <1>3
<1> HIDE DEF N
<1>5. n <= k + 1
  <2> SUFFICES ASSUME k + 1 < n PROVE FALSE
    BY <1>f
  <2>1. p < q
    BY <1>4, <1>a, <1>b, <1>e
  <2>2. CASE h = 0
    BY <1>d, <2>1, <2>2
  <2>3. CASE h > 0
    <3>1. k + 1 \in 1..N /\ (k + 1) + 1 = k + 2
      BY <1>f
    <3>2. PICK s \in Nat : s = Total(accepted[k + 1])
      BY <1>g, <3>1
    <3>3. h < s
      BY <2>3, <3>2
    <3>4. bound[k + 2] = p + s
      BY <1>a, <1>g, <3>1, <3>2
    <3>5. k + 2 = n \/ (k + 2 < n /\ k + 2 \in 1..(N + 1))
      BY <1>f
    <3>6. p + s <= q
      BY <1>4, <1>b, <1>e, <3>4, <3>5
    <3> QED  BY <1>d, <3>3, <3>6
  <2> QED  BY <2>2, <2>3
<1>6. k + 1 <= n
  <2> SUFFICES ASSUME n < k + 1 PROVE FALSE
    BY <1>f
  <2>1. n + 1 = k + 1 \/ n + 1 < k + 1
    BY <1>f
  <2>2. t <= p
    BY <1>4, <1>a, <1>c, <1>e, <2>1
  <2> QED  BY <1>d, <2>2
<1>7. n = k + 1 /\ k + 1 \in 1..N /\ k < N
  BY <1>f, <1>5, <1>6
<1>8. h + 1 <= Total(accepted[k + 1])
  <2>1. PICK s \in Nat : s = Total(accepted[k + 1])
    BY <1>g, <1>7
  <2>2. t = p + s
    BY <1>a, <1>c, <1>g, <1>7, <2>1
  <2> QED  BY <1>d, <2>1, <2>2
<1>9. (bound[k + 1] + h + 1) - bound[n] = h + 1
  <2>1. (p + h + 1) - p = h + 1
    OBVIOUS
  <2> QED  BY <1>a, <1>7, <2>1
<1>10. accepted[k + 1] \in Frames
  BY <1>1, <1>7
<1> QED  BY <1>2, <1>7, <1>8, <1>9, <1>10 DEF N

(* What a decoder that is in step makes of the next byte: it goes on with   *)
(* the frame, or emits it at its last byte; it fails only on damage.        *)
LEMMA AbsorbStays ==
  ASSUME Typed, NEW bound, LaidOut(bound), NEW d \in Decoders, NEW k, Decodes(bound, d, k),
         NEW b \in Bytes, Lies(bound, bound[k + 1] + Len(d.buffer) + 1, b)
  PROVE  /\ Absorb(d, b) \in Decoders
         /\ \/ Absorb(d, b).failed /\ damaged /\ Absorb(d, b).buffer = <<>>
            \/ /\ Decodes(bound, Absorb(d, b), k) /\ Absorb(d, b).frames = d.frames
               /\ Len(Absorb(d, b).buffer) = Len(d.buffer) + 1
            \/ /\ k < Len(accepted) /\ Decodes(bound, Absorb(d, b), k + 1)
               /\ Absorb(d, b).frames = Append(d.frames, accepted[k + 1])
               /\ Absorb(d, b).buffer = <<>> /\ Len(d.buffer) + 1 = Total(accepted[k + 1])
<1> DEFINE h == Len(d.buffer)
           g == accepted[k + 1]
           buffer == Append(d.buffer, b)
           d1 == [d EXCEPT !.buffer = Append(@, b)]
           d2 == ParseHeader(d1)
<1>1. /\ accepted \in Seq(Frames) /\ Len(accepted) \in Nat /\ k \in 0..Len(accepted)
      /\ d.buffer \in Seq(Bytes) /\ h \in Nat /\ DOMAIN d.buffer = 1..h /\ d.frames \in Seq(Frames)
      /\ ~d.failed
  <2>1. accepted \in Seq(Frames)
    BY DEF Typed, TypeOK
  <2>2. k \in 0..Len(accepted) /\ ~d.failed
    BY DEF Decodes
  <2>3. d.buffer \in Seq(Bytes) /\ d.frames \in Seq(Frames)
    BY DEF Decoders
  <2> QED  BY <2>1, <2>2, <2>3
<1>2. h > 0 => k < Len(accepted) /\ h < Total(g)
  BY <1>1 DEF Decodes
<1>3. /\ k < Len(accepted) /\ g \in Frames /\ h + 1 <= Total(g) /\ g.body <= MaxBody
      /\ b.frame = g /\ (b.place = h + 1 \/ (damaged /\ b.place = 0))
  BY <1>1, <1>2, NextByte
<1>4. \A i \in 1..h : /\ d.buffer[i].frame = g
                      /\ d.buffer[i].place = i \/ (damaged /\ d.buffer[i].place = 0)
  <2> TAKE i \in 1..h
  <2>1. i - 1 \in Nat /\ d.buffer[i] \in Bytes /\ (i - 1) + 1 = i /\ i - 1 < h
    BY <1>1
  <2>2. Lies(bound, bound[k + 1] + (i - 1) + 1, d.buffer[i])
    <3>1. bound[k + 1] \in Nat
      BY <1>1 DEF LaidOut
    <3>2. bound[k + 1] + (i - 1) + 1 = bound[k + 1] + i
      BY <3>1, <2>1
    <3> QED  BY <1>1, <3>2 DEF Decodes
  <2>3. Total(g) \in Nat
    BY <1>3, Sizes
  <2>4. (i - 1) > 0 => k < Len(accepted) /\ i - 1 < Total(g)
    BY <1>1, <1>2, <1>3, <2>1, <2>3
  <2> DEFINE j == i - 1
  <2>5. /\ d.buffer[i].frame = g
        /\ d.buffer[i].place = j + 1 \/ (damaged /\ d.buffer[i].place = 0)
    <3> HIDE DEF j
    <3> QED  BY <1>1, <2>1, <2>2, <2>4, NextByte DEF j
  <2> QED  BY <2>1, <2>5
<1>5. /\ buffer \in Seq(Bytes) /\ Len(buffer) = h + 1 /\ DOMAIN buffer = 1..(h + 1)
      /\ buffer[h + 1] = b /\ \A i \in 1..h : buffer[i] = d.buffer[i]
  BY <1>1
<1>6. \A i \in 1..(h + 1) : /\ buffer[i].frame = g /\ buffer[i] \in Bytes
                            /\ ~damaged => buffer[i] = Byte(g, i)
  <2> TAKE i \in 1..(h + 1)
  <2>1. buffer[i].frame = g /\ (buffer[i].place = i \/ (damaged /\ buffer[i].place = 0))
    <3> HIDE DEF buffer, g
    <3>1. CASE i = h + 1
      BY <1>3, <1>5, <3>1
    <3>2. CASE i \in 1..h
      BY <1>4, <1>5, <3>2
    <3>3. h \in Nat
      BY <1>1
    <3> HIDE DEF h
    <3>4. i = h + 1 \/ i \in 1..h
      BY <3>3
    <3> QED  BY <3>1, <3>2, <3>4
  <2>2. buffer[i] \in Bytes
    BY <1>5
  <2> HIDE DEF buffer
  <2>3. ~damaged => buffer[i] = Byte(g, i)
    BY <2>1, <2>2 DEF Bytes, Byte
  <2> QED  BY <2>1, <2>2, <2>3
<1>7. /\ Total(g) \in Nat /\ Total(g) >= HeaderBytes /\ HeaderBytes \in Nat \ {0} /\ Total(g) > 0
      /\ Envelope(g) \in Seq(Bytes) /\ Len(Envelope(g)) = Total(g)
      /\ \A i \in 1..Total(g) : Envelope(g)[i] = Byte(g, i)
  BY <1>3, Sizes, EnvelopeIs
<1>8. ~damaged => buffer = SubSeq(Envelope(g), 1, h + 1)
  <2> SUFFICES ASSUME ~damaged PROVE buffer = SubSeq(Envelope(g), 1, h + 1)
    OBVIOUS
  <2>1. \A i \in 1..(h + 1) : SubSeq(Envelope(g), 1, h + 1)[i] = Byte(g, i)
    BY <1>1, <1>3, <1>7
  <2>2. /\ SubSeq(Envelope(g), 1, h + 1) \in Seq(Bytes)
        /\ Len(SubSeq(Envelope(g), 1, h + 1)) = h + 1
    BY <1>1, <1>3, <1>7
  <2> HIDE DEF buffer
  <2> QED  BY <1>5, <1>6, <2>1, <2>2
<1>9. \A i \in 1..(h + 1) : Lies(bound, bound[k + 1] + i, buffer[i])
  <2> TAKE i \in 1..(h + 1)
  <2>1. bound[k + 1] \in Nat
    BY <1>1 DEF LaidOut
  <2>2. bound[k + 1] + h + 1 = bound[k + 1] + (h + 1)
    BY <1>1, <2>1
  <2>3. CASE i = h + 1
    BY <1>5, <2>2, <2>3
  <2>4. CASE i \in 1..h
    BY <1>1, <1>5, <2>4 DEF Decodes
  <2> QED  BY <1>1, <2>3, <2>4
<1>10. /\ d1 \in Decoders /\ d1.buffer = buffer /\ d1.declared = d.declared /\ ~d1.failed
       /\ d1.frames = d.frames /\ buffer[1].frame = g
       /\ d.declared = IF h < HeaderBytes THEN 0 ELSE Total(g)
  <2>1. buffer[1].frame = g
    BY <1>1, <1>6
  <2> HIDE DEF buffer
  <2>2. d.declared = IF h < HeaderBytes THEN 0 ELSE Total(g)
    BY <1>1 DEF Decodes
  <2>3. d1 = [d EXCEPT !.buffer = buffer]
    BY DEF buffer
  <2> QED  BY <1>1, <1>5, <2>1, <2>2, <2>3 DEF Decoders
<1> HIDE DEF buffer, d1
<1>11. \/ d2 = Latched(d1) /\ damaged
       \/ d2 = [d1 EXCEPT !.declared = IF h + 1 < HeaderBytes THEN 0 ELSE Total(g)]
  <2>0. [d1 EXCEPT !.declared = d1.declared] = d1
    BY <1>10 DEF Decoders
  <2>1. CASE d1.declared # 0 \/ h + 1 < HeaderBytes
    <3>1. d2 = d1
      BY <1>5, <1>10, <2>1 DEF ParseHeader
    <3>2. d1.declared = IF h + 1 < HeaderBytes THEN 0 ELSE Total(g)
      BY <1>1, <1>7, <1>10, <2>1
    <3> QED  BY <2>0, <3>1, <3>2
  <2>2. CASE d1.declared = 0 /\ ~(h + 1 < HeaderBytes)
    <3>1. h + 1 = HeaderBytes
      <4>1. /\ h \in Nat /\ HeaderBytes \in Nat /\ Total(g) # 0
            /\ d.declared = 0 /\ d.declared = IF h < HeaderBytes THEN 0 ELSE Total(g)
        BY <1>1, <1>7, <1>10, <2>2
      <4> HIDE DEF g, h
      <4>2. h < HeaderBytes
        BY <4>1
      <4> QED  BY <2>2, <4>1, <4>2
    <3>2. d2 = IF buffer = SubSeq(Envelope(g), 1, HeaderBytes) /\ g.body <= MaxBody
               THEN [d1 EXCEPT !.declared = Total(g)] ELSE Latched(d1)
      <4>1. d1.declared = 0 /\ ~(Len(d1.buffer) < HeaderBytes)
        BY <1>5, <1>10, <2>2
      <4>2. d1.buffer = buffer /\ d1.buffer[1].frame = g
        BY <1>10
      <4> HIDE DEF g, h
      <4> QED  BY <4>1, <4>2 DEF ParseHeader
    <3> HIDE DEF d2
    <3>3. CASE buffer = SubSeq(Envelope(g), 1, HeaderBytes) /\ g.body <= MaxBody
      BY <2>2, <3>2, <3>3
    <3>4. CASE ~(buffer = SubSeq(Envelope(g), 1, HeaderBytes) /\ g.body <= MaxBody)
      <4>1. damaged
        BY <1>3, <1>8, <3>1, <3>4 DEF Typed
      <4> QED  BY <3>2, <3>4, <4>1
    <3> QED  BY <3>3, <3>4
  <2> QED  BY <2>1, <2>2
<1>12. Absorb(d, b) = EmitFrame(d2)
  BY <1>1 DEF Absorb, d1
<1>13. CASE d2 = Latched(d1) /\ damaged
  <2>1. d2 \in Decoders /\ d2.failed /\ d2.buffer = <<>> /\ d2.declared = 0
    <3>1. <<>> \in Seq(Bytes)
      OBVIOUS
    <3> HIDE DEF d2
    <3> QED  BY <1>10, <1>13, <3>1 DEF Latched, Decoders
  <2>2. EmitFrame(d2) = d2
    BY <2>1 DEF EmitFrame
  <2> QED  BY <1>12, <1>13, <2>1, <2>2
<1>14. CASE d2 = [d1 EXCEPT !.declared = IF h + 1 < HeaderBytes THEN 0 ELSE Total(g)]
  <2>1. /\ d2 \in Decoders /\ d2.buffer = buffer /\ ~d2.failed /\ d2.frames = d.frames
        /\ d2.declared = IF h + 1 < HeaderBytes THEN 0 ELSE Total(g)
    <3>1. PICK n \in Nat : n = IF h + 1 < HeaderBytes THEN 0 ELSE Total(g)
      BY <1>7
    <3> HIDE DEF d2, g, h
    <3>2. d2 = [d1 EXCEPT !.declared = n]
      BY <1>14, <3>1
    <3> QED  BY <1>10, <3>1, <3>2 DEF Decoders
  <2> HIDE DEF d2
  <2>2. CASE h + 1 < Total(g)
    <3>1. EmitFrame(d2) = d2
      BY <1>5, <1>7, <2>1, <2>2 DEF EmitFrame
    <3>2. Decodes(bound, d2, k)
      BY <1>1, <1>3, <1>5, <1>9, <2>1, <2>2 DEF Decodes
    <3> QED  BY <1>5, <1>12, <2>1, <3>1, <3>2
  <2>3. CASE h + 1 = Total(g)
    <3>1. d2.declared = Total(g) /\ d2.declared # 0 /\ Len(d2.buffer) = d2.declared
      BY <1>5, <1>7, <2>1, <2>3
    <3>2. EmitFrame(d2) =
            IF Verified(buffer)
            THEN [d2 EXCEPT !.frames = Append(@, Held(buffer)), !.buffer = <<>>, !.declared = 0]
            ELSE Latched(d2)
      BY <2>1, <3>1, <1>7 DEF EmitFrame
    <3>3. CASE Verified(buffer)
      <4>1. Held(buffer) = g
        BY <1>10, <3>3 DEF Held, Verified
      <4> DEFINE e == [d2 EXCEPT !.frames = Append(@, g), !.buffer = <<>>, !.declared = 0]
      <4>2. EmitFrame(d2) = e
        BY <3>2, <3>3, <4>1
      <4>3. /\ e \in Decoders /\ e.buffer = <<>> /\ e.declared = 0 /\ ~e.failed
            /\ e.frames = Append(d.frames, g)
        <5>1. <<>> \in Seq(Bytes) /\ Append(d.frames, g) \in Seq(Frames)
          BY <1>1, <1>3
        <5> HIDE DEF g
        <5> QED  BY <2>1, <5>1 DEF Decoders
      <4> HIDE DEF e
      <4>4. Decodes(bound, e, k + 1)
        BY <1>1, <1>3, <1>7, <4>3 DEF Decodes
      <4> QED  BY <1>3, <1>12, <2>3, <4>2, <4>3, <4>4
    <3>4. CASE ~Verified(buffer)
      <4>1. damaged
        <5> SUFFICES ASSUME ~damaged PROVE FALSE
          BY DEF Typed
        <5>1. SubSeq(Envelope(g), 1, Total(g)) = Envelope(g)
          BY <1>7
        <5> QED  BY <1>8, <1>10, <2>3, <3>4, <5>1 DEF Verified
      <4>2. Latched(d2) \in Decoders /\ Latched(d2).failed /\ Latched(d2).buffer = <<>>
        <5>1. <<>> \in Seq(Bytes)
          OBVIOUS
        <5> QED  BY <2>1, <5>1 DEF Latched, Decoders
      <4> QED  BY <1>12, <3>2, <3>4, <4>1, <4>2
    <3> QED  BY <3>3, <3>4
  <2>4. h \in Nat /\ Total(g) \in Nat /\ h + 1 <= Total(g)
    BY <1>1, <1>3, <1>7
  <2>5. h + 1 < Total(g) \/ h + 1 = Total(g)
    <3> HIDE DEF g, h
    <3> QED  BY <2>4
  <2> QED  BY <2>2, <2>3, <2>5
<1> QED  BY <1>11, <1>13, <1>14

-----------------------------------------------------------------------------
(* A whole read.                                                            *)

(* What the decoder is after j bytes of a read: in step, having emitted the *)
(* next frames in order, no more than j bytes can hold; or failed.          *)
InStep(bound, d, j) ==
  LET m == Len(d.frames)
      k == Len(taken)
  IN  /\ Decodes(bound, d, k + m) /\ \A i \in 1..m : d.frames[i] = accepted[k + i]
      /\ bound[k + m + 1] + Len(d.buffer) = bound[k + 1] + Len(decoder.buffer) + j
      /\ m > 0 => (m - 1) * HeaderBytes + Len(d.buffer) + 1 <= j

Fed(bound, d, j) ==
  d \in Decoders /\ (InStep(bound, d, j) \/ (d.failed /\ damaged /\ d.buffer = <<>>))

LEMMA AbsorbKeepsFed ==
  ASSUME Typed, Took, NEW bound, LaidOut(bound), NEW d, NEW j \in Nat, Fed(bound, d, j),
         NEW b \in Bytes,
         Lies(bound, bound[Len(taken) + 1] + Len(decoder.buffer) + j + 1, b)
  PROVE  Fed(bound, Absorb(d, b), j + 1)
<1>1. CASE d.failed /\ damaged /\ d.buffer = <<>>
  BY <1>1 DEF Absorb, Fed
<1>2. CASE InStep(bound, d, j)
  <2>a. PICK m : m = Len(d.frames)
    OBVIOUS
  <2>b. PICK k : k = Len(taken)
    OBVIOUS
  <2>c. PICK h : h = Len(d.buffer)
    OBVIOUS
  <2>d. PICK H : H = HeaderBytes
    OBVIOUS
  <2>e. PICK e : e = Absorb(d, b)
    OBVIOUS
  <2>f. PICK B : B = bound[k + 1] + Len(decoder.buffer)
    OBVIOUS
  <2>g. PICK A : A = bound[(k + m) + 1]
    OBVIOUS
  <2>1. /\ d \in Decoders /\ d.frames \in Seq(Frames) /\ m \in Nat /\ k \in Nat
        /\ d.buffer \in Seq(Bytes) /\ h \in Nat /\ decoder.buffer \in Seq(Bytes)
        /\ Len(accepted) \in Nat /\ accepted \in Seq(Frames) /\ H \in Nat \ {0}
    <3>1. d \in Decoders /\ decoder.buffer \in Seq(Bytes) /\ taken \in Seq(Frames)
          /\ accepted \in Seq(Frames)
      BY DEF Fed, Typed, TypeOK
    <3> QED  BY <2>a, <2>b, <2>c, <2>d, <3>1, Sizes DEF Decoders
  <2>2. /\ Decodes(bound, d, k + m) /\ \A i \in 1..m : d.frames[i] = accepted[k + i]
        /\ A + h = B + j
        /\ m > 0 => (m - 1) * H + h + 1 <= j
    BY <1>2, <2>a, <2>b, <2>c, <2>d, <2>f, <2>g DEF InStep
  <2>3. k + m \in 0..Len(accepted) /\ k + m \in Nat
    BY <2>1, <2>2 DEF Decodes
  <2>4. /\ \A i \in 1..(Len(accepted) + 1) : bound[i] \in Nat
        /\ \A i \in 1..Len(accepted) : bound[i + 1] = bound[i] + Total(accepted[i])
    <3>1. DOMAIN accepted = 1..Len(accepted)
      BY <2>1
    <3> QED  BY <3>1 DEF LaidOut
  <2>5. A \in Nat /\ B \in Nat
    <3>1. (k + m) + 1 \in 1..(Len(accepted) + 1) /\ k + 1 \in 1..(Len(accepted) + 1)
      BY <2>1, <2>3
    <3>2. bound[(k + m) + 1] \in Nat /\ bound[k + 1] \in Nat
      BY <2>4, <3>1
    <3>3. Len(decoder.buffer) \in Nat
      BY <2>1
    <3> QED  BY <2>f, <2>g, <3>2, <3>3
  <2>h. A \in Nat /\ B \in Nat /\ h \in Nat /\ j \in Nat /\ A + h = B + j
    BY <2>1, <2>2, <2>5
  <2>6. /\ e \in Decoders
        /\ \/ e.failed /\ damaged /\ e.buffer = <<>>
           \/ /\ Decodes(bound, e, k + m) /\ e.frames = d.frames
              /\ Len(e.buffer) = h + 1
           \/ /\ k + m < Len(accepted) /\ Decodes(bound, e, (k + m) + 1)
              /\ e.frames = Append(d.frames, accepted[(k + m) + 1])
              /\ e.buffer = <<>> /\ h + 1 = Total(accepted[(k + m) + 1])
    <3>1. A + h + 1 = B + j + 1
      BY <2>h
    <3>2. PICK n : n = k + m
      OBVIOUS
    <3>3. Lies(bound, bound[n + 1] + Len(d.buffer) + 1, b)
      BY <3>1, <3>2, <2>b, <2>c, <2>f, <2>g
    <3>4. d \in Decoders /\ Decodes(bound, d, n)
      BY <2>1, <2>2, <3>2
    <3>5. /\ e \in Decoders
          /\ \/ e.failed /\ damaged /\ e.buffer = <<>>
             \/ /\ Decodes(bound, e, n) /\ e.frames = d.frames
                /\ Len(e.buffer) = Len(d.buffer) + 1
             \/ /\ n < Len(accepted) /\ Decodes(bound, e, n + 1)
                /\ e.frames = Append(d.frames, accepted[n + 1])
                /\ e.buffer = <<>> /\ Len(d.buffer) + 1 = Total(accepted[n + 1])
      BY <2>e, <3>3, <3>4, AbsorbStays
    <3> QED  BY <2>c, <3>2, <3>5
  <2>7. CASE e.failed /\ damaged /\ e.buffer = <<>>
    BY <2>6, <2>7, <2>e DEF Fed
  <2>8. CASE Decodes(bound, e, k + m) /\ e.frames = d.frames /\ Len(e.buffer) = h + 1
    <3>1. A + (h + 1) = B + (j + 1)
      BY <2>h
    <3>2. m > 0 => (m - 1) * H + (h + 1) + 1 <= j + 1
      <4>1. PICK z \in Int : z = (m - 1) * H
        BY <2>1
      <4>2. m > 0 => z + h + 1 <= j
        BY <2>2, <4>1
      <4>3. m > 0 => z + (h + 1) + 1 <= j + 1
        BY <2>1, <4>2
      <4> QED  BY <4>1, <4>3
    <3>3. Len(e.frames) = m /\ \A i \in 1..m : e.frames[i] = accepted[k + i]
      BY <2>2, <2>8, <2>a
    <3>4. InStep(bound, e, j + 1)
      BY <2>8, <2>b, <2>d, <2>f, <2>g, <3>1, <3>2, <3>3 DEF InStep
    <3> QED  BY <2>6, <2>e, <3>4 DEF Fed
  <2>9. CASE /\ k + m < Len(accepted) /\ Decodes(bound, e, (k + m) + 1)
             /\ e.frames = Append(d.frames, accepted[(k + m) + 1])
             /\ e.buffer = <<>> /\ h + 1 = Total(accepted[(k + m) + 1])
    <3>1. (k + m) + 1 \in 1..Len(accepted) /\ accepted[(k + m) + 1] \in Frames
      BY <2>1, <2>3, <2>9
    <3>2. H <= h + 1
      BY <2>9, <2>d, <3>1, Sizes
    <3>3. /\ Len(e.frames) = m + 1 /\ \A i \in 1..m : e.frames[i] = d.frames[i]
          /\ e.frames[m + 1] = accepted[(k + m) + 1] /\ Len(e.buffer) = 0
      <4>1. e.frames = Append(d.frames, accepted[(k + m) + 1]) /\ e.buffer = <<>>
        BY <2>9
      <4> QED  BY <2>1, <2>a, <3>1, <4>1
    <3>4. k + (m + 1) = (k + m) + 1
      BY <2>1
    <3>5. \A i \in 1..(m + 1) : e.frames[i] = accepted[k + i]
      <4> TAKE i \in 1..(m + 1)
      <4>1. CASE i = m + 1
        BY <3>3, <3>4, <4>1
      <4>2. CASE i \in 1..m
        BY <2>2, <3>3, <4>2
      <4>3. i = m + 1 \/ i \in 1..m
        BY <2>1
      <4> QED  BY <4>1, <4>2, <4>3
    <3>6. bound[((k + m) + 1) + 1] + 0 = B + (j + 1)
      <4>1. bound[((k + m) + 1) + 1] = A + (h + 1)
        BY <2>4, <2>9, <2>g, <3>1
      <4>2. (A + (h + 1)) + 0 = B + (j + 1)
        BY <2>h
      <4> QED  BY <4>1, <4>2
    <3>7. ((m + 1) - 1) * H + 0 + 1 <= j + 1
      <4>1. PICK z \in Int : z = m * H
        BY <2>1
      <4>2. z <= j
        <5>1. CASE m = 0
          BY <2>1, <4>1, <5>1
        <5>2. CASE m > 0
          <6>1. PICK y \in Int : y = (m - 1) * H
            BY <2>1
          <6>2. y + h + 1 <= j
            BY <2>2, <5>2, <6>1
          <6>3. z = y + H
            BY <2>1, <4>1, <6>1
          <6> QED  BY <2>1, <3>2, <6>2, <6>3
        <5> QED  BY <2>1, <5>1, <5>2
      <4>3. (m + 1) - 1 = m /\ z + 0 + 1 <= j + 1
        BY <2>1, <4>2
      <4> QED  BY <4>1, <4>3
    <3>8. InStep(bound, e, j + 1)
      BY <2>9, <2>b, <2>d, <2>f, <3>3, <3>4, <3>5, <3>6, <3>7 DEF InStep
    <3> QED  BY <2>6, <2>e, <3>8 DEF Fed
  <2> QED  BY <2>6, <2>7, <2>8, <2>9
<1> QED  BY <1>1, <1>2 DEF Fed

(* pump_in: the decoder after a read of n bytes of the wire.                *)
LEMMA FeedStays ==
  ASSUME Typed, Took, NEW bound, LaidOut(bound), Receiving(bound), NEW n \in 1..Len(wire)
  PROVE  Fed(bound, Feed(decoder, SubSeq(wire, 1, n)), n)
<1> DEFINE bytes == SubSeq(wire, 1, n)
           x == bound[Len(taken) + 1] + Len(decoder.buffer)
<1>1. /\ wire \in Seq(Bytes) /\ Len(wire) \in Nat /\ DOMAIN wire = 1..Len(wire)
      /\ bytes \in Seq(Bytes) /\ Len(bytes) = n
      /\ \A i \in 1..n : bytes[i] = wire[i] /\ bytes[i] \in Bytes
  BY DEF Typed, TypeOK
<1>2. \A i \in 1..n : Lies(bound, x + i, bytes[i])
  BY <1>1 DEF Receiving
<1>3. PICK fed : /\ fed[0] = decoder /\ Feed(decoder, bytes) = fed[Len(bytes)]
                 /\ \A i \in 1..Len(bytes) : fed[i] = Absorb(fed[i - 1], bytes[i])
  <2> HIDE DEF bytes
  <2> QED  BY <1>1, FeedIs
<1> HIDE DEF bytes
<1> DEFINE S == {j \in Nat : Fed(bound, fed[j], j)}
<1>4. /\ taken \in Seq(Frames) /\ Len(taken) \in Nat /\ Len(decoder.buffer) \in Nat
      /\ x \in Nat /\ bound[Len(taken) + 1] \in Nat
  <2>1. taken \in Seq(Frames) /\ decoder.buffer \in Seq(Bytes) /\ accepted \in Seq(Frames)
    BY DEF Typed, TypeOK
  <2>2. Len(taken) + 1 \in 1..(Len(accepted) + 1)
    BY <2>1 DEF Took
  <2>3. bound[Len(taken) + 1] \in Nat
    BY <2>2 DEF LaidOut
  <2>4. Len(taken) \in Nat /\ Len(decoder.buffer) \in Nat
    BY <2>1
  <2> HIDE DEF bytes, S
  <2> QED  BY <2>1, <2>3, <2>4
<1>5. 0 \in S
  <2>1. decoder \in Decoders /\ Len(decoder.frames) = 0
    BY DEF Typed
  <2>2. Decodes(bound, decoder, Len(taken))
    BY DEF Receiving
  <2>3. Len(taken) + 0 = Len(taken) /\ Len(taken) + 0 + 1 = Len(taken) + 1 /\ x + 0 = x
    BY <1>4
  <2>4. InStep(bound, decoder, 0)
    BY <2>1, <2>2, <2>3 DEF InStep
  <2> QED  BY <1>3, <2>1, <2>4 DEF Fed
<1>6. \A j \in 0..n : j \in S /\ j < n => j + 1 \in S
  <2> SUFFICES ASSUME NEW j \in 0..n, Fed(bound, fed[j], j), j < n
               PROVE  Fed(bound, fed[j + 1], j + 1)
    OBVIOUS
  <2>1. j + 1 \in 1..n /\ (j + 1) - 1 = j /\ j \in Nat
    OBVIOUS
  <2>2. fed[j + 1] = Absorb(fed[j], bytes[j + 1])
    BY <1>1, <1>3, <2>1
  <2>3. Lies(bound, bound[Len(taken) + 1] + Len(decoder.buffer) + j + 1, bytes[j + 1])
    <3>1. x + (j + 1) = bound[Len(taken) + 1] + Len(decoder.buffer) + j + 1
      BY <1>4, <2>1
    <3>2. Lies(bound, x + (j + 1), bytes[j + 1])
      BY <1>2, <2>1
    <3> QED  BY <3>1, <3>2
  <2>4. bytes[j + 1] \in Bytes
    BY <1>1, <2>1
  <2> QED  BY <2>1, <2>2, <2>3, <2>4, AbsorbKeepsFed
<1>7. n \in S
  <2>1. n \in Nat
    OBVIOUS
  <2> HIDE DEF S
  <2>2. 0..n \subseteq S
    BY <1>5, <1>6, <2>1, UpTo
  <2> QED  BY <2>1, <2>2
<1> QED  BY <1>1, <1>3, <1>7 DEF bytes

-----------------------------------------------------------------------------
(* The steps.                                                               *)

LEMMA InitChannelInv == Init => ChannelInv
<1> SUFFICES ASSUME Init PROVE ChannelInv
  OBVIOUS
<1>1. /\ accepted = <<>> /\ taken = <<>> /\ outbound = <<>> /\ encoded = <<>> /\ wire = <<>>
      /\ near = "open" /\ far = "open" /\ offset = 0 /\ damaged = FALSE
      /\ decoder = [buffer |-> <<>>, declared |-> 0, failed |-> FALSE, frames |-> <<>>]
  BY DEF Init, Fresh
<1>2. decoder \in Decoders /\ Len(decoder.buffer) = 0
  BY <1>1 DEF Decoders
<1>3. Typed
  <2>1. Len(outbound) = 0 /\ Len(wire) = 0 /\ Len(encoded) = 0 /\ Len(accepted) = 0
    BY <1>1
  <2>2. /\ outbound \in Seq(Frames) /\ encoded \in Seq(Bytes) /\ wire \in Seq(Bytes)
        /\ accepted \in Seq(Frames) /\ taken \in Seq(Frames) /\ decoder.buffer \in Seq(Bytes)
    BY <1>1
  <2>3. DOMAIN accepted = {} /\ decoder.frames = <<>>
    BY <1>1
  <2>4. HeaderBytes \in Nat \ {0} /\ MaxBody \in Nat /\ MaxQueued \in Nat /\ WireBytes \in Nat
        /\ MaxSent \in Nat
    BY Sizes
  <2>5. Len(decoder.buffer) < HeaderBytes + MaxBody
    BY <1>2, <2>4
  <2>6. offset \in 0..Len(encoded)
    BY <1>1, <2>1
  <2>7. TypeOK
    BY <1>1, <2>1, <2>2, <2>4, <2>5, <2>6 DEF TypeOK, Ends
  <2>8. \A n \in DOMAIN accepted : accepted[n].number = n
    BY <2>3
  <2>9. Len(accepted) <= MaxSent
    BY <2>1, <2>4
  <2>10. damaged \in BOOLEAN
    BY <1>1
  <2> QED  BY <1>2, <2>3, <2>7, <2>8, <2>9, <2>10 DEF Typed
<1>4. Sending /\ Took
  BY <1>1 DEF Sending, Took
<1> DEFINE bound == [i \in 1..1 |-> 0]
<1>5. Len(accepted) = 0 /\ Len(outbound) = 0 /\ Len(wire) = 0 /\ Len(taken) = 0
  BY <1>1
<1>6. /\ DOMAIN accepted = {} /\ DOMAIN wire = {}
      /\ decoder.buffer = <<>> /\ ~decoder.failed /\ decoder.declared = 0 /\ DOMAIN decoder.buffer = {}
  BY <1>1
<1>7. LaidOut(bound)
  <2>1. \A n, m \in 1..(Len(accepted) + 1) : n = m
    BY <1>5
  <2>2. 1..(Len(accepted) + 1) = 1..1 /\ \A n \in 1..1 : ~(n < n)
    BY <1>5
  <2>3. bound \in [1..(Len(accepted) + 1) -> Nat] /\ bound[1] = 0
    BY <2>2
  <2> HIDE DEF bound
  <2> QED  BY <1>6, <2>1, <2>2, <2>3 DEF LaidOut
<1>8. Receiving(bound)
  <2>1. bound[Len(taken) + 1] = 0 /\ bound[Len(accepted) - Len(outbound) + 1] = 0
    BY <1>5
  <2> HIDE DEF bound
  <2>2. Decodes(bound, decoder, 0)
    BY <1>2, <1>5, <1>6, Sizes DEF Decodes, Decoders
  <2> QED  BY <1>1, <1>2, <1>5, <1>6, <2>1, <2>2 DEF Receiving, Written
<1>9. StreamInv
  <2> HIDE DEF bound
  <2> QED  BY <1>7, <1>8 DEF StreamInv
<1> QED  BY <1>3, <1>4, <1>9 DEF ChannelInv

(* A byte of the stream stays one when more is accepted and when the wire   *)
(* is damaged.                                                              *)
LEMMA LiesStays ==
  ASSUME NEW bound, NEW later, NEW x, NEW b, Lies(bound, x, b), damaged => damaged',
         \A n \in DOMAIN accepted :
           /\ n \in DOMAIN accepted' /\ accepted'[n] = accepted[n]
           /\ later[n] = bound[n] /\ later[n + 1] = bound[n + 1]
  PROVE  Lies(later, x, b)'
BY DEF Lies

LEMMA QueueKeepsChannelInv == ChannelInv /\ Queue => ChannelInv'
<1> SUFFICES ASSUME ChannelInv, Queue PROVE ChannelInv'
  OBVIOUS
<1> DEFINE N == Len(accepted)
           L == Len(outbound)
<1>1. PICK size \in Bodies :
        /\ outbound' = Append(outbound, Frame(N + 1, size))
        /\ accepted' = Append(accepted, Frame(N + 1, size))
  BY DEF Queue
<1> DEFINE f == Frame(N + 1, size)
<1>2. /\ near = "open" /\ L < MaxQueued /\ N < MaxSent
      /\ UNCHANGED <<near, encoded, offset, wire, far, decoder, taken, damaged>>
  BY DEF Queue, QueueHasRoom, farVars
<1>3. /\ accepted \in Seq(Frames) /\ outbound \in Seq(Frames) /\ taken \in Seq(Frames)
      /\ N \in Nat /\ L \in Nat /\ L <= N
  BY DEF ChannelInv, Typed, TypeOK, Sending
<1>4. f \in Frames /\ f.number = N + 1
  BY <1>1, <1>2, <1>3, Sizes DEF Frame, Frames
<1>5. /\ accepted' \in Seq(Frames) /\ Len(accepted') = N + 1 /\ accepted'[N + 1] = f
      /\ DOMAIN accepted = 1..N /\ DOMAIN accepted' = 1..(N + 1)
      /\ \A n \in 1..N : accepted'[n] = accepted[n]
  BY <1>1, <1>3, <1>4
<1>6. /\ outbound' \in Seq(Frames) /\ Len(outbound') = L + 1 /\ outbound'[L + 1] = f
      /\ DOMAIN outbound = 1..L /\ DOMAIN outbound' = 1..(L + 1)
      /\ \A n \in 1..L : outbound'[n] = outbound[n]
  BY <1>1, <1>3, <1>4
<1> HIDE DEF f
<1>7. Typed'
  <2>1. L + 1 <= MaxQueued /\ N + 1 <= MaxSent
    BY <1>2, <1>3, Sizes
  <2>2. \A n \in DOMAIN accepted' : accepted'[n].number = n
    BY <1>4, <1>5 DEF ChannelInv, Typed
  <2> QED  BY <1>2, <1>5, <1>6, <2>1, <2>2 DEF ChannelInv, Typed, TypeOK, Bytes
<1>8. Sending'
  <2>1. \A i \in 1..(L + 1) : outbound'[i] = accepted'[(N + 1) - (L + 1) + i]
    <3> TAKE i \in 1..(L + 1)
    <3>1. (N + 1) - (L + 1) + i = (N - L) + i
      BY <1>3
    <3>2. CASE i = L + 1
      BY <1>3, <1>5, <1>6, <3>1, <3>2
    <3>3. CASE i \in 1..L
      <4>1. outbound[i] = accepted[N - L + i]
        BY <1>6, <3>3 DEF ChannelInv, Sending
      <4>2. (N - L) + i \in 1..N
        <5> HIDE DEF N, L
        <5> QED  BY <1>3, <3>3
      <4> QED  BY <1>5, <1>6, <3>1, <3>3, <4>1, <4>2
    <3> HIDE DEF L
    <3> QED  BY <1>3, <3>2, <3>3
  <2>2. outbound # <<>> => outbound'[1] = outbound[1] /\ outbound' # <<>>
    BY <1>3, <1>6
  <2>3. L + 1 <= N + 1
    BY <1>3
  <2>4. \/ encoded' = <<>> /\ offset' = 0
        \/ /\ outbound' # <<>> /\ encoded' = Envelope(outbound'[1])
           /\ offset' < Len(encoded') /\ outbound'[1].body <= MaxBody
    BY <1>2, <2>2 DEF ChannelInv, Sending
  <2>5. Envelope(outbound[1])' = Envelope(outbound'[1])
    BY DEF Envelope, Byte, Total
  <2> HIDE DEF N, L
  <2> QED  BY <1>5, <1>6, <2>1, <2>3, <2>4, <2>5 DEF Sending
<1>9. Took'
  BY <1>2, <1>3, <1>5 DEF ChannelInv, Took
<1>10. StreamInv'
  <2>1. PICK bound : LaidOut(bound) /\ (far = "open" => Receiving(bound))
    BY DEF ChannelInv, StreamInv
  <2>0. PICK later : later = [i \in 1..(N + 2) |->
                         IF i = N + 2 THEN bound[N + 1] + Total(f) ELSE bound[i]]
    OBVIOUS
  <2>2. /\ \A i \in 1..(N + 1) : bound[i] \in Nat
        /\ \A i \in 1..N : bound[i + 1] = bound[i] + Total(accepted[i])
        /\ \A i, j \in 1..(N + 1) : i < j => bound[i] < bound[j]
        /\ bound[1] = 0
    BY <1>5, <2>1 DEF LaidOut
  <2>3. /\ \A i \in 1..(N + 1) : later[i] = bound[i]
        /\ later[N + 2] = bound[N + 1] + Total(f) /\ later \in [1..(N + 2) -> Nat]
        /\ Total(f) \in Nat /\ Total(f) > 0
    <3>1. Total(f) \in Nat /\ Total(f) > 0
      BY <1>4, Sizes
    <3> HIDE DEF N
    <3> QED  BY <1>3, <2>0, <2>2, <3>1
  <2> HIDE DEF N
  <2>4. LaidOut(later)'
    <3>1. \A n \in 1..(N + 1) : later[n + 1] = later[n] + Total(accepted'[n])
      <4> TAKE n \in 1..(N + 1)
      <4>1. CASE n = N + 1
        <5>1. n + 1 = N + 2 /\ n \in 1..(N + 1)
          BY <1>3, <4>1
        <5> QED  BY <1>5, <2>3, <4>1, <5>1
      <4>2. CASE n \in 1..N
        <5>1. n + 1 \in 1..(N + 1) /\ n \in 1..(N + 1)
          BY <1>3, <4>2
        <5> QED  BY <1>5, <2>2, <2>3, <4>2, <5>1
      <4> QED  BY <1>3, <4>1, <4>2
    <3>2. \A n, m \in 1..(N + 2) : n < m => later[n] < later[m]
      <4> SUFFICES ASSUME NEW n \in 1..(N + 2), NEW m \in 1..(N + 2), n < m
                   PROVE  later[n] < later[m]
        OBVIOUS
      <4>1. n \in 1..(N + 1) /\ later[n] = bound[n] /\ bound[n] \in Nat
        BY <1>3, <2>2, <2>3
      <4>2. CASE m = N + 2
        <5>1. N + 1 \in 1..(N + 1) /\ (n = N + 1 \/ n < N + 1)
          BY <1>3, <4>1
        <5>2. \A i, j \in 1..(N + 1) : i < j => bound[i] < bound[j]
          BY <2>2
        <5>3. PICK t \in Nat : t = bound[N + 1]
          BY <2>2, <5>1
        <5>4. bound[n] <= t
          BY <4>1, <5>1, <5>2, <5>3
        <5>5. later[m] = t + Total(f) /\ Total(f) \in Nat /\ Total(f) > 0
          BY <2>3, <4>2, <5>3
        <5> QED  BY <4>1, <5>4, <5>5
      <4>3. CASE m \in 1..(N + 1)
        BY <2>2, <2>3, <4>1, <4>3
      <4> QED  BY <1>3, <4>2, <4>3
    <3>3. (N + 1) + 1 = N + 2 /\ 1 \in 1..(N + 1)
      BY <1>3
    <3>4. later[1] = 0
      BY <2>2, <2>3, <3>3
    <3> QED  BY <1>5, <2>3, <3>1, <3>2, <3>3, <3>4 DEF LaidOut
  <2>5. ASSUME far = "open" PROVE Receiving(later)'
    <3> DEFINE k == Len(taken)
               x == bound[k + 1] + Len(decoder.buffer)
    <3>1. Receiving(bound)
      BY <2>1, <2>5
    <3>2. /\ k \in Nat /\ k <= N /\ k + 1 \in 1..(N + 1) /\ later[k + 1] = bound[k + 1]
      BY <1>3, <2>3 DEF ChannelInv, Took, N
    <3>3. \A y, b : Lies(bound, y, b) => Lies(later, y, b)'
      <4> TAKE y, b
      <4>1. \A n \in DOMAIN accepted :
              /\ n \in DOMAIN accepted' /\ accepted'[n] = accepted[n]
              /\ later[n] = bound[n] /\ later[n + 1] = bound[n + 1]
        <5> SUFFICES ASSUME NEW n \in 1..N
                     PROVE  /\ n \in 1..(N + 1) /\ accepted'[n] = accepted[n]
                            /\ later[n] = bound[n] /\ later[n + 1] = bound[n + 1]
          BY <1>5
        <5>1. n \in 1..(N + 1) /\ n + 1 \in 1..(N + 1)
          BY <1>3
        <5> QED  BY <1>5, <2>3, <5>1
      <4> QED  BY <1>2, <4>1, LiesStays
    <3>4. Decodes(later, decoder, k)'
      <4>1. Decodes(bound, decoder, k)
        BY <3>1 DEF Receiving
      <4>2. k < N => accepted'[k + 1] = accepted[k + 1]
        BY <1>3, <1>5, <3>2
      <4>3. Len(decoder.buffer) \in Nat /\ (Len(decoder.buffer) > 0 => decoder.buffer # <<>>)
        BY DEF ChannelInv, Typed, TypeOK
      <4>4. decoder.declared = IF Len(decoder.buffer) < HeaderBytes THEN 0 ELSE Total(accepted'[k + 1])
        BY <4>1, <4>2, <4>3, Sizes DEF Decodes, N
      <4>5. k \in 0..(N + 1)
        BY <1>3, <3>2
      <4>6. decoder.buffer # <<>> => k < N /\ Len(decoder.buffer) < Total(accepted'[k + 1]) /\ k < N + 1
        BY <1>3, <3>2, <4>1, <4>2 DEF Decodes, N
      <4>7. \A i \in DOMAIN decoder.buffer : Lies(later, later[k + 1] + i, decoder.buffer[i])'
        BY <1>2, <3>2, <3>3, <4>1 DEF Decodes
      <4> QED  BY <1>2, <1>5, <4>1, <4>4, <4>5, <4>6, <4>7 DEF Decodes
    <3>5. Written(later)' = Written(bound)
      <4>1. N - L + 1 \in 1..(N + 1) /\ (N + 1) - (L + 1) + 1 = N - L + 1
        BY <1>3
      <4>2. later[N - L + 1] = bound[N - L + 1]
        BY <2>3, <4>1
      <4>3. Len(accepted') - Len(outbound') + 1 = N - L + 1 /\ offset' = offset
        BY <1>2, <1>5, <1>6, <4>1
      <4>4. Written(later)' = later[N - L + 1] + offset
        BY <4>3 DEF Written
      <4>5. Written(bound) = bound[N - L + 1] + offset
        BY DEF Written, N
      <4> QED  BY <4>2, <4>4, <4>5
    <3>6. /\ \A i \in DOMAIN wire : Lies(later, x + i, wire[i])'
          /\ x + Len(wire) <= Written(bound)
          /\ near = "open" => x + Len(wire) = Written(bound)
      BY <1>2, <3>1, <3>3 DEF Receiving
    <3> QED  BY <1>2, <3>2, <3>4, <3>5, <3>6 DEF Receiving
  <2> QED  BY <1>2, <2>4, <2>5 DEF StreamInv
<1> QED  BY <1>7, <1>8, <1>9, <1>10 DEF ChannelInv

(* A step that moves no byte: the wire, the decoder and what was queued,    *)
(* written and taken stay, and an end may be lost.                          *)
LEMMA StillKeepsChannelInv ==
  ASSUME ChannelInv, near' \in Ends, far' \in Ends,
         near' = "open" => near = "open", far' = "open" => far = "open",
         UNCHANGED <<outbound, encoded, offset, accepted, decoder, taken, wire, damaged>>
  PROVE  ChannelInv'
<1>1. Typed'
  BY DEF ChannelInv, Typed, TypeOK, Bytes
<1>2. Sending' /\ Took'
  BY DEF ChannelInv, Sending, Took, Envelope, Byte, Total
<1>3. StreamInv'
  <2>1. PICK bound : LaidOut(bound) /\ (far = "open" => Receiving(bound))
    BY DEF ChannelInv, StreamInv
  <2>2. LaidOut(bound)'
    BY <2>1 DEF LaidOut, Total
  <2>3. ASSUME far' = "open" PROVE Receiving(bound)'
    <3>1. \A x, b : Lies(bound, x, b) => Lies(bound, x, b)'
      BY DEF Lies
    <3>2. Receiving(bound)
      BY <2>1, <2>3
    <3>3. Decodes(bound, decoder, Len(taken))'
      BY <3>1, <3>2 DEF Receiving, Decodes
    <3>4. Written(bound)' = Written(bound)
      BY DEF Written
    <3> QED  BY <3>1, <3>2, <3>3, <3>4 DEF Receiving
  <2> QED  BY <2>2, <2>3 DEF StreamInv
<1> QED  BY <1>1, <1>2, <1>3 DEF ChannelInv

LEMMA LossKeepsChannelInv ==
  ChannelInv /\ (PumpOutFails \/ CloseNear \/ PumpInFails \/ CloseFar \/ UNCHANGED vars)
    => ChannelInv'
<1> SUFFICES ASSUME ChannelInv,
                    PumpOutFails \/ CloseNear \/ PumpInFails \/ CloseFar \/ UNCHANGED vars
             PROVE  ChannelInv'
  OBVIOUS
<1>1. near \in Ends /\ far \in Ends
  BY DEF ChannelInv, Typed, TypeOK
<1>2. /\ near' \in Ends /\ far' \in Ends
      /\ near' = "open" => near = "open"
      /\ far' = "open" => far = "open"
      /\ UNCHANGED <<outbound, encoded, offset, accepted, decoder, taken, wire, damaged>>
  BY <1>1 DEF PumpOutFails, CloseNear, PumpInFails, CloseFar, vars, nearVars, farVars, Ends
<1> QED  BY <1>2, StillKeepsChannelInv

(* A step of the wire alone: it may lose its tail, and damage a byte.       *)
Suffers ==
  /\ UNCHANGED <<nearVars, farVars>> /\ damaged' \in BOOLEAN /\ (damaged => damaged')
  /\ wire' \in Seq(Bytes) /\ Len(wire') <= Len(wire)
  /\ near = "open" => Len(wire') = Len(wire)
  /\ \A i \in 1..Len(wire') :
       /\ wire'[i].frame = wire[i].frame
       /\ wire'[i].place = wire[i].place \/ (damaged' /\ wire'[i].place = 0)

LEMMA WireKeepsChannelInv == ChannelInv /\ Suffers => ChannelInv'
<1> SUFFICES ASSUME ChannelInv, Suffers PROVE ChannelInv'
  OBVIOUS
<1>1. /\ wire \in Seq(Bytes) /\ Len(wire) \in Nat /\ Len(wire') \in Nat
      /\ DOMAIN wire = 1..Len(wire) /\ DOMAIN wire' = 1..Len(wire') /\ WireBytes \in Nat
      /\ Len(wire) <= WireBytes /\ Len(wire') <= Len(wire)
  BY Sizes DEF ChannelInv, Typed, TypeOK, Suffers
<1>2. Typed'
  <2>1. Len(wire') <= WireBytes
    BY <1>1
  <2> QED  BY <2>1 DEF ChannelInv, Typed, TypeOK, Bytes, nearVars, farVars, Suffers
<1>3. Sending' /\ Took'
  BY DEF ChannelInv, Sending, Took, Envelope, Byte, Total, nearVars, farVars, Suffers
<1>4. StreamInv'
  <2>1. PICK bound : LaidOut(bound) /\ (far = "open" => Receiving(bound))
    BY DEF ChannelInv, StreamInv
  <2>2. LaidOut(bound)'
    BY <2>1 DEF LaidOut, Total, nearVars, Suffers
  <2>3. ASSUME far' = "open" PROVE Receiving(bound)'
    <3>0. PICK x : x = bound[Len(taken) + 1] + Len(decoder.buffer)
      OBVIOUS
    <3>1. \A y, b : Lies(bound, y, b) => Lies(bound, y, b)'
      BY DEF Lies, nearVars, Suffers
    <3>2. Receiving(bound)
      BY <2>1, <2>3 DEF farVars, Suffers
    <3>3. Decodes(bound, decoder, Len(taken))'
      BY <3>1, <3>2 DEF Receiving, Decodes, nearVars, farVars, Suffers
    <3>4. Written(bound)' = Written(bound) /\ Written(bound) \in Int /\ x \in Int
      <4>1. /\ accepted \in Seq(Frames) /\ outbound \in Seq(Frames) /\ taken \in Seq(Frames)
            /\ decoder.buffer \in Seq(Bytes) /\ offset \in Nat
            /\ Len(outbound) <= Len(accepted) /\ Len(taken) <= Len(accepted)
        BY DEF ChannelInv, Typed, TypeOK, Sending, Took
      <4>2. /\ Len(accepted) - Len(outbound) + 1 \in 1..(Len(accepted) + 1)
            /\ Len(taken) + 1 \in 1..(Len(accepted) + 1)
        BY <4>1
      <4>3. /\ bound[Len(accepted) - Len(outbound) + 1] \in Nat
            /\ bound[Len(taken) + 1] \in Nat
        BY <2>1, <4>2 DEF LaidOut
      <4>4. Len(decoder.buffer) \in Nat /\ offset \in Nat
        BY <4>1
      <4>5. Written(bound) \in Int /\ x \in Int
        BY <3>0, <4>3, <4>4 DEF Written
      <4>6. UNCHANGED <<accepted, outbound, offset>>
        BY DEF nearVars, Suffers
      <4>7. Written(bound)' = Written(bound)
        BY <4>6 DEF Written
      <4> QED  BY <4>5, <4>7
    <3>5. \A i \in 1..Len(wire') : Lies(bound, x + i, wire[i])'
      <4> TAKE i \in 1..Len(wire')
      <4>1. PICK y : y = x + i
        OBVIOUS
      <4>2. i \in DOMAIN wire
        BY <1>1
      <4>3. Lies(bound, y, wire[i])
        BY <3>0, <3>2, <4>1, <4>2 DEF Receiving
      <4>4. PICK n \in DOMAIN accepted :
              /\ bound[n] < y /\ y <= bound[n + 1]
              /\ wire[i].frame = accepted[n] /\ accepted[n].body <= MaxBody
              /\ (wire[i].place = y - bound[n] \/ (damaged /\ wire[i].place = 0))
        BY <4>3 DEF Lies
      <4>5. /\ n \in DOMAIN accepted'
            /\ bound[n] < y /\ y <= bound[n + 1]
            /\ wire'[i].frame = accepted'[n] /\ accepted'[n].body <= MaxBody
            /\ (wire'[i].place = y - bound[n] \/ (damaged' /\ wire'[i].place = 0))
        BY <4>4 DEF nearVars, Suffers
      <4>6. Lies(bound, y, wire[i])'
        BY <4>5 DEF Lies
      <4> QED  BY <4>1, <4>6
    <3>6. /\ x + Len(wire) <= Written(bound)
          /\ near = "open" => x + Len(wire) = Written(bound)
      BY <3>0, <3>2 DEF Receiving
    <3>7. /\ x + Len(wire') <= Written(bound)
          /\ near = "open" => x + Len(wire') = Written(bound)
      <4>1. Len(wire') <= Len(wire) /\ (near = "open" => Len(wire') = Len(wire))
        BY DEF Suffers
      <4>2. PICK w \in Int : w = Written(bound)
        BY <3>4
      <4>3. x + Len(wire) <= w /\ (near = "open" => x + Len(wire) = w) /\ x \in Int
        BY <3>4, <3>6, <4>2
      <4>4. PICK l \in Nat, m \in Nat : l = Len(wire) /\ m = Len(wire')
        BY <1>1
      <4>5. x + m <= w
        BY <4>1, <4>3, <4>4
      <4>6. near = "open" => x + m = w
        BY <4>1, <4>3, <4>4
      <4> QED  BY <4>2, <4>4, <4>5, <4>6
    <3>8. /\ x = bound[Len(taken') + 1] + Len(decoder'.buffer)
          /\ near' = near /\ taken' = taken
      BY <3>0 DEF nearVars, farVars, Suffers
    <3> QED  BY <1>1, <3>3, <3>4, <3>5, <3>7, <3>8 DEF Receiving
  <2> QED  BY <2>2, <2>3 DEF StreamInv
<1> QED  BY <1>2, <1>3, <1>4 DEF ChannelInv

LEMMA CutKeepsChannelInv == ChannelInv /\ Cut => ChannelInv'
<1> SUFFICES ASSUME ChannelInv, Cut PROVE ChannelInv'
  OBVIOUS
<1>1. wire \in Seq(Bytes) /\ damaged \in BOOLEAN
  BY DEF ChannelInv, Typed, TypeOK
<1>2. PICK n \in 0..(Len(wire) - 1) : wire' = SubSeq(wire, 1, n)
  BY DEF Cut
<1>3. /\ wire' \in Seq(Bytes) /\ Len(wire') = n /\ n <= Len(wire)
      /\ \A i \in 1..n : wire'[i] = wire[i]
  BY <1>1, <1>2
<1>4. near # "open" /\ UNCHANGED <<nearVars, farVars, damaged>>
  BY DEF Cut
<1> QED  BY <1>1, <1>3, <1>4, WireKeepsChannelInv DEF Suffers

LEMMA DamageKeepsChannelInv == ChannelInv /\ Damage => ChannelInv'
<1> SUFFICES ASSUME ChannelInv, Damage PROVE ChannelInv'
  OBVIOUS
<1>1. wire \in Seq(Bytes) /\ Len(wire) \in Nat /\ DOMAIN wire = 1..Len(wire)
  BY DEF ChannelInv, Typed, TypeOK
<1>2. PICK i \in 1..Len(wire) : wire' = [wire EXCEPT ![i].place = 0]
  BY <1>1 DEF Damage
<1>3. wire[i] \in Bytes
  BY <1>1
<1>3a. [wire[i] EXCEPT !.place = 0] \in Bytes
  BY <1>3 DEF Bytes
<1>4. /\ wire' \in Seq(Bytes) /\ Len(wire') = Len(wire)
      /\ \A j \in 1..Len(wire) : j # i => wire'[j] = wire[j]
      /\ wire'[i] = [wire[i] EXCEPT !.place = 0]
  BY <1>1, <1>2, <1>3a
<1>5. wire'[i].frame = wire[i].frame /\ wire'[i].place = 0
  BY <1>3, <1>4 DEF Bytes
<1>6. damaged' = TRUE /\ UNCHANGED <<nearVars, farVars>>
  BY DEF Damage
<1>7. \A j \in 1..Len(wire') :
        /\ wire'[j].frame = wire[j].frame
        /\ wire'[j].place = wire[j].place \/ (damaged' /\ wire'[j].place = 0)
  BY <1>4, <1>5, <1>6
<1> QED  BY <1>1, <1>4, <1>6, <1>7, WireKeepsChannelInv DEF Suffers

(* What pump_out writes: bytes of the first frame of the queue, which is    *)
(* the one the stream goes on with.                                         *)
LEMMA WriteIs ==
  ASSUME ChannelInv, PumpOut
  PROVE  LET N == Len(accepted)
             L == Len(outbound)
             f == outbound[1]
         IN  /\ N \in Nat /\ L \in Nat /\ 0 < L /\ L <= N
             /\ f \in Frames /\ f = accepted[N - L + 1] /\ f.body <= MaxBody
             /\ Unwritten = Envelope(f) /\ offset \in Nat /\ offset < Total(f)
             /\ Total(f) \in Nat
<1> DEFINE N == Len(accepted)
           L == Len(outbound)
           f == outbound[1]
<1>1. /\ accepted \in Seq(Frames) /\ outbound \in Seq(Frames) /\ N \in Nat /\ L \in Nat
      /\ outbound # <<>> /\ L > 0 /\ L <= N /\ DOMAIN outbound = 1..L
  <2>1. accepted \in Seq(Frames) /\ outbound \in Seq(Frames) /\ outbound # <<>> /\ L <= N
    BY DEF ChannelInv, Typed, TypeOK, Sending, PumpOut
  <2> QED  BY <2>1
<1>2. Head(outbound) = f /\ f \in Frames /\ f.body <= MaxBody
  BY <1>1 DEF PumpOut
<1>3. f = accepted[N - L + 1]
  BY <1>1 DEF ChannelInv, Sending
<1>4. /\ Total(f) \in Nat /\ Total(f) > 0 /\ Envelope(f) \in Seq(Bytes)
      /\ Len(Envelope(f)) = Total(f)
  BY <1>2, Sizes, EnvelopeIs
<1>5. offset \in Nat
  BY DEF ChannelInv, Typed, TypeOK
<1>6. CASE encoded = <<>> /\ offset = 0
  BY <1>1, <1>2, <1>3, <1>4, <1>5, <1>6 DEF Unwritten
<1>7. CASE encoded = Envelope(f) /\ offset < Len(encoded)
  <2>1. encoded # <<>>
    BY <1>4, <1>7
  <2> QED  BY <1>1, <1>2, <1>3, <1>4, <1>5, <1>7, <2>1 DEF Unwritten
<1> QED  BY <1>6, <1>7 DEF ChannelInv, Sending

LEMMA PumpOutKeepsChannelInv == ChannelInv /\ PumpOut => ChannelInv'
<1> SUFFICES ASSUME ChannelInv, PumpOut PROVE ChannelInv'
  OBVIOUS
<1>1. PICK N, L, f, T, W :
        /\ N = Len(accepted) /\ L = Len(outbound) /\ f = outbound[1] /\ T = Total(f)
        /\ W = Len(wire)
  OBVIOUS
<1>2. /\ N \in Nat /\ L \in Nat /\ 0 < L /\ L <= N /\ f \in Frames /\ f = accepted[N - L + 1]
      /\ f.body <= MaxBody /\ Unwritten = Envelope(f) /\ offset \in Nat /\ offset < T /\ T \in Nat
  BY <1>1, WriteIs
<1>3. /\ Envelope(f) \in Seq(Bytes) /\ Len(Envelope(f)) = T
      /\ \A i \in 1..T : Envelope(f)[i] = Byte(f, i)
  BY <1>1, <1>2, EnvelopeIs
<1>4. PICK n \in 1..(T - offset) :
        /\ W + n <= WireBytes
        /\ wire' = wire \o SubSeq(Envelope(f), offset + 1, offset + n)
        /\ IF offset + n = T THEN encoded' = <<>> /\ offset' = 0
                             ELSE encoded' = Envelope(f) /\ offset' = offset + n
        /\ outbound' = IF encoded' = <<>> THEN Tail(outbound) ELSE outbound
  BY <1>1, <1>2, <1>3 DEF PumpOut, Wrote
<1>5. /\ near = "open" /\ UNCHANGED <<near, accepted, far, decoder, taken, damaged>>
  BY DEF PumpOut, farVars
<1>0. n \in Nat /\ n >= 1 /\ offset + n <= T
  BY <1>2
<1>6. PICK more : more = SubSeq(Envelope(f), offset + 1, offset + n)
  OBVIOUS
<1>7. /\ more \in Seq(Bytes) /\ Len(more) = n
      /\ \A i \in 1..n : more[i] = Byte(f, offset + i)
  <2>1. offset + 1 \in 1..T /\ offset + n \in 1..T /\ (offset + n) - (offset + 1) + 1 = n
    BY <1>0, <1>2
  <2>2. \A i \in 1..n : ((offset + 1) + i) - 1 = offset + i /\ offset + i \in 1..T
    BY <1>0, <1>2
  <2>3. /\ SubSeq(Envelope(f), offset + 1, offset + n) \in Seq(Bytes)
        /\ Len(SubSeq(Envelope(f), offset + 1, offset + n)) = n
    BY <1>0, <1>2, <1>3, <2>1
  <2>4. \A i \in 1..n : SubSeq(Envelope(f), offset + 1, offset + n)[i] = Envelope(f)[offset + i]
    BY <1>0, <1>2, <1>3, <2>1, <2>2
  <2> QED  BY <1>3, <1>6, <2>2, <2>3, <2>4
<1>8. /\ wire \in Seq(Bytes) /\ W \in Nat /\ wire' \in Seq(Bytes) /\ Len(wire') = W + n
      /\ DOMAIN wire' = 1..(W + n)
      /\ \A i \in 1..W : wire'[i] = wire[i]
      /\ \A i \in 1..n : wire'[W + i] = Byte(f, offset + i)
  <2>1. wire \in Seq(Bytes)
    BY DEF ChannelInv, Typed, TypeOK
  <2>2. wire' = wire \o more
    BY <1>4, <1>6
  <2>3. W \in Nat /\ DOMAIN wire = 1..W /\ W = Len(wire)
    BY <1>1, <2>1
  <2>4. wire \o more \in Seq(Bytes) /\ Len(wire \o more) = Len(wire) + Len(more)
    <3>1. more \in Seq(Bytes)
      BY <1>7
    <3> QED  BY <2>1, <3>1
  <2>7. wire' \in Seq(Bytes) /\ Len(wire') = W + n /\ DOMAIN wire' = 1..(W + n)
    BY <1>7, <2>2, <2>3, <2>4
  <2>5. \A i \in 1..W : wire'[i] = wire[i]
    BY <1>0, <1>7, <2>1, <2>2, <2>3
  <2>6. \A i \in 1..n : wire'[W + i] = more[i]
    BY <1>0, <1>7, <2>1, <2>2, <2>3
  <2>8. \A i \in 1..n : wire'[W + i] = Byte(f, offset + i)
    BY <1>7, <2>6
  <2> QED  BY <2>1, <2>3, <2>5, <2>7, <2>8
<1>9. /\ accepted \in Seq(Frames) /\ outbound \in Seq(Frames) /\ taken \in Seq(Frames)
      /\ decoder.buffer \in Seq(Bytes)
      /\ \A i \in 1..L : outbound[i] = accepted[N - L + i]
  <2>1. /\ accepted \in Seq(Frames) /\ outbound \in Seq(Frames) /\ taken \in Seq(Frames)
        /\ decoder.buffer \in Seq(Bytes)
    BY DEF ChannelInv, Typed, TypeOK
  <2>2. DOMAIN outbound = 1..L
    BY <1>1, <2>1
  <2> QED  BY <1>1, <2>1, <2>2 DEF ChannelInv, Sending
<1>10. \/ /\ offset + n = T /\ encoded' = <<>> /\ offset' = 0
          /\ outbound' \in Seq(Frames) /\ Len(outbound') = L - 1
          /\ \A i \in 1..(L - 1) : outbound'[i] = outbound[i + 1]
       \/ /\ offset + n < T /\ encoded' = Envelope(f) /\ offset' = offset + n
          /\ outbound' = outbound /\ Len(outbound') = L
  <2>1. CASE offset + n = T
    <3>1. encoded' = <<>> /\ offset' = 0 /\ outbound' = Tail(outbound)
      BY <1>4, <2>1
    <3> QED  BY <1>1, <1>2, <1>9, <2>1, <3>1
  <2>2. CASE offset + n < T
    <3>1. encoded' = Envelope(f) /\ offset' = offset + n /\ Envelope(f) # <<>>
      BY <1>2, <1>3, <1>4, <2>2
    <3>2. outbound' = outbound
      BY <1>4, <3>1
    <3> QED  BY <1>1, <2>2, <3>1, <3>2
  <2> QED  BY <1>2, <1>4, <2>1, <2>2
<1>11. Typed'
  <2>1. /\ outbound' \in Seq(Frames) /\ Len(outbound') <= MaxQueued
        /\ encoded' \in Seq(Bytes) /\ offset' \in 0..Len(encoded')
    <3>1. L <= MaxQueued
      BY <1>1 DEF ChannelInv, Typed, TypeOK
    <3>2. MaxQueued \in Nat
      BY Sizes
    <3>3. CASE offset + n = T /\ Len(outbound') = L - 1 /\ encoded' = <<>> /\ offset' = 0
               /\ outbound' \in Seq(Frames)
      BY <1>2, <3>1, <3>2, <3>3
    <3>4. CASE offset + n < T /\ encoded' = Envelope(f) /\ offset' = offset + n
               /\ outbound' = outbound
      BY <1>1, <1>2, <1>3, <1>4, <1>9, <3>1, <3>4
    <3> QED  BY <1>10, <3>3, <3>4
  <2>2. Len(wire') <= WireBytes
    BY <1>4, <1>8
  <2> QED  BY <1>5, <1>8, <2>1, <2>2 DEF ChannelInv, Typed, TypeOK, Bytes
<1>12. Sending'
  <2>1. CASE /\ offset + n = T /\ encoded' = <<>> /\ offset' = 0
             /\ outbound' \in Seq(Frames) /\ Len(outbound') = L - 1
             /\ \A i \in 1..(L - 1) : outbound'[i] = outbound[i + 1]
    <3>1. \A i \in 1..(L - 1) : outbound'[i] = accepted[N - (L - 1) + i]
      <4> TAKE i \in 1..(L - 1)
      <4>1. i + 1 \in 1..L /\ N - L + (i + 1) = N - (L - 1) + i
        BY <1>2
      <4>2. outbound[i + 1] = accepted[N - L + (i + 1)]
        BY <1>9, <4>1
      <4> QED  BY <2>1, <4>1, <4>2
    <3>2. DOMAIN outbound' = 1..(L - 1) /\ L - 1 <= N
      BY <1>2, <2>1
    <3> QED  BY <1>1, <1>5, <2>1, <3>1, <3>2 DEF Sending
  <2>2. CASE /\ offset + n < T /\ encoded' = Envelope(f) /\ offset' = offset + n
             /\ outbound' = outbound
    <3>0. Len(outbound) > 0 /\ outbound # <<>>
      BY <1>1, <1>2, <1>9
    <3>1. offset' < Len(encoded') /\ encoded' = Envelope(outbound'[1]) /\ outbound' # <<>>
      BY <1>0, <1>1, <1>3, <2>2, <3>0
    <3>2. Envelope(outbound[1])' = Envelope(outbound'[1])
      BY DEF Envelope, Byte, Total
    <3>3. outbound'[1].body <= MaxBody
      BY <1>1, <1>2, <2>2
    <3> QED  BY <1>1, <1>2, <1>5, <2>2, <3>1, <3>2, <3>3 DEF ChannelInv, Sending
  <2> QED  BY <1>10, <2>1, <2>2
<1>13. Took'
  BY <1>5 DEF ChannelInv, Took
<1>14. StreamInv'
  <2>1. PICK bound : LaidOut(bound) /\ (far = "open" => Receiving(bound))
    BY DEF ChannelInv, StreamInv
  <2>2. LaidOut(bound)'
    BY <1>5, <2>1 DEF LaidOut, Total
  <2>3. PICK j \in 1..N : j = N - L + 1
    BY <1>2
  <2>4. /\ bound[j] \in Nat /\ bound[j + 1] = bound[j] + T /\ j \in DOMAIN accepted
        /\ Written(bound) = bound[j] + offset
    <3>1. DOMAIN accepted = 1..N /\ j \in 1..(N + 1)
      BY <1>1, <1>2, <1>9, <2>3
    <3> QED  BY <1>1, <1>2, <2>1, <2>3, <3>1 DEF LaidOut, Written
  <2>5. Written(bound)' = Written(bound) + n
    <3>1. CASE offset + n = T /\ offset' = 0 /\ Len(outbound') = L - 1
      <4>1. N - (L - 1) + 1 = j + 1
        BY <1>2, <2>3
      <4>2. Written(bound)' = bound[j + 1] + 0
        BY <1>1, <1>5, <3>1, <4>1 DEF Written
      <4>3. (bound[j] + T) + 0 = (bound[j] + offset) + n
        BY <1>0, <1>2, <2>4, <3>1
      <4> QED  BY <2>4, <4>2, <4>3
    <3>2. CASE offset' = offset + n /\ Len(outbound') = L
      <4>1. Written(bound)' = bound[j] + (offset + n)
        BY <1>1, <1>5, <2>3, <3>2 DEF Written
      <4>2. bound[j] + (offset + n) = (bound[j] + offset) + n
        BY <1>0, <1>2, <2>4
      <4> QED  BY <2>4, <4>1, <4>2
    <3> QED  BY <1>10, <3>1, <3>2
  <2>6. ASSUME far' = "open" PROVE Receiving(bound)'
    <3>1. PICK x : x = bound[Len(taken) + 1] + Len(decoder.buffer)
      OBVIOUS
    <3>2. Receiving(bound)
      BY <1>5, <2>1, <2>6
    <3>3. x \in Nat
      <4>1. Len(taken) \in Nat /\ Len(taken) <= N
        BY <1>1, <1>9 DEF ChannelInv, Took
      <4>2. Len(taken) + 1 \in 1..(N + 1)
        BY <1>2, <4>1
      <4>3. bound[Len(taken) + 1] \in Nat
        BY <1>1, <2>1, <4>2 DEF LaidOut
      <4> QED  BY <1>9, <3>1, <4>3
    <3>4. x + W = Written(bound)
      BY <1>1, <1>5, <3>1, <3>2 DEF Receiving
    <3>5. \A y, b : Lies(bound, y, b) => Lies(bound, y, b)'
      BY <1>5 DEF Lies
    <3>6. \A i \in 1..(W + n) : Lies(bound, x + i, wire[i])'
      <4> TAKE i \in 1..(W + n)
      <4>1. CASE i \in 1..W
        <5>1. i \in DOMAIN wire /\ wire'[i] = wire[i]
          BY <1>1, <1>8, <4>1
        <5>2. Lies(bound, x + i, wire[i])
          BY <3>1, <3>2, <5>1 DEF Receiving
        <5>3. PICK b : b = wire[i]
          OBVIOUS
        <5> QED  BY <3>5, <5>1, <5>2, <5>3
      <4>2. CASE i \in (W + 1)..(W + n)
        <5>1. PICK p \in 1..n : i = W + p
          <6>1. i - W \in 1..n /\ i = W + (i - W)
            BY <1>8, <4>2
          <6> QED  BY <6>1
        <5>2. PICK y, b : y = x + i /\ b = wire'[i]
          OBVIOUS
        <5>3. y = bound[j] + offset + p
          BY <1>2, <1>8, <2>4, <3>3, <3>4, <5>1, <5>2
        <5>4. b = Byte(f, offset + p) /\ b.frame = f /\ b.place = offset + p
          BY <1>8, <5>1, <5>2 DEF Byte
        <5>5. bound[j] < y /\ y <= bound[j + 1] /\ y - bound[j] = offset + p
          <6>1. p \in Nat /\ p >= 1 /\ offset + p <= T
            BY <1>0, <1>2
          <6>2. y = bound[j] + (offset + p)
            BY <1>2, <2>4, <5>3, <6>1
          <6>3. PICK B \in Nat : B = bound[j]
            BY <2>4
          <6>4. B < B + (offset + p) /\ B + (offset + p) <= B + T /\ (B + (offset + p)) - B = offset + p
            BY <1>2, <6>1
          <6> QED  BY <2>4, <6>2, <6>3, <6>4
        <5>6. accepted[j] = f
          BY <1>2, <2>3
        <5>7. Lies(bound, y, b)
          BY <1>2, <2>4, <5>4, <5>5, <5>6 DEF Lies
        <5>8. Lies(bound, y, b)'
          BY <3>5, <5>7
        <5> QED  BY <5>2, <5>8
      <4> QED  BY <1>8, <4>1, <4>2
    <3>7. Decodes(bound, decoder, Len(taken))'
      BY <1>5, <3>2, <3>5 DEF Receiving, Decodes
    <3>8. x + (W + n) = Written(bound) + n /\ x + (W + n) \in Nat
      <4>1. PICK w \in Nat : w = Written(bound)
        BY <1>8, <3>3, <3>4
      <4> QED  BY <1>8, <3>3, <3>4, <4>1
    <3>9. x = (bound[Len(taken) + 1] + Len(decoder.buffer))'
      BY <1>5, <3>1
    <3>10. Written(bound)' = x + (W + n) /\ Len(wire') = W + n /\ DOMAIN wire' = 1..(W + n)
      BY <1>8, <2>5, <3>8
    <3>11. x + (W + n) <= x + (W + n)
      BY <3>8
    <3> QED  BY <3>6, <3>7, <3>9, <3>10, <3>11 DEF Receiving
  <2> QED  BY <2>2, <2>6 DEF StreamInv
<1> QED  BY <1>11, <1>12, <1>13, <1>14 DEF ChannelInv

(* A decoder in step holds less than a frame of the size that is allowed.   *)
LEMMA BufferIsBounded ==
  ASSUME Typed, NEW bound, LaidOut(bound), NEW d \in Decoders, NEW k, Decodes(bound, d, k)
  PROVE  Len(d.buffer) < HeaderBytes + MaxBody
<1>1. /\ d.buffer \in Seq(Bytes) /\ k \in 0..Len(accepted) /\ Len(d.buffer) \in Nat
      /\ HeaderBytes \in Nat \ {0} /\ MaxBody \in Nat
  BY Sizes DEF Decodes
<1>2. CASE d.buffer = <<>>
  BY <1>1, <1>2
<1>3. CASE d.buffer # <<>>
  <2>1. 1 \in DOMAIN d.buffer /\ d.buffer[1] \in Bytes
    BY <1>1, <1>3
  <2>2. Lies(bound, bound[k + 1] + 1, d.buffer[1])
    BY <2>1 DEF Decodes
  <2>3. bound[k + 1] \in Nat
    BY <1>1 DEF LaidOut
  <2>4. Lies(bound, bound[k + 1] + 0 + 1, d.buffer[1])
    <3>1. bound[k + 1] + 1 = bound[k + 1] + 0 + 1
      BY <2>3
    <3> QED  BY <2>2, <3>1
  <2>5. accepted[k + 1] \in Frames /\ accepted[k + 1].body <= MaxBody
    BY <1>1, <2>1, <2>4, NextByte
  <2>6. Len(d.buffer) < Total(accepted[k + 1])
    BY <1>3 DEF Decodes
  <2>7. Total(accepted[k + 1]) \in Nat /\ Total(accepted[k + 1]) <= HeaderBytes + MaxBody
    BY <2>5, Sizes
  <2> QED  BY <1>1, <2>6, <2>7
<1> QED  BY <1>2, <1>3

(* What pump_in reads: n bytes, and the decoder is what they make of it.    *)
LEMMA PumpInReads ==
  ASSUME ChannelInv, PumpIn
  PROVE  \E bound, n, e :
           /\ n \in 1..ReadChunk
           /\ LaidOut(bound) /\ Receiving(bound) /\ Fed(bound, e, n) /\ n <= Len(wire)
           /\ wire' = SubSeq(wire, n + 1, Len(wire)) /\ decoder' = [e EXCEPT !.frames = <<>>]
           /\ IF e.failed \/ Len(e.frames) > MaxQueued
              THEN far' = "failed" /\ UNCHANGED taken
              ELSE taken' = taken \o e.frames /\ UNCHANGED far
<1>1. PICK bound : LaidOut(bound) /\ Receiving(bound)
  BY DEF ChannelInv, StreamInv, PumpIn
<1>2. PICK n, e :
        /\ n \in 1..ReadChunk /\ e = Feed(decoder, SubSeq(wire, 1, n)) /\ n <= Len(wire)
        /\ wire' = SubSeq(wire, n + 1, Len(wire)) /\ decoder' = [e EXCEPT !.frames = <<>>]
        /\ IF e.failed \/ Len(e.frames) > MaxQueued
           THEN far' = "failed" /\ UNCHANGED taken
           ELSE taken' = taken \o e.frames /\ UNCHANGED far
  BY DEF PumpIn
<1>3. n \in 1..Len(wire)
  BY <1>2, Sizes DEF ChannelInv, Typed, TypeOK
<1>4. Fed(bound, e, n)
  BY <1>1, <1>2, <1>3, FeedStays DEF ChannelInv
<1> QED  BY <1>1, <1>2, <1>4

LEMMA PumpInKeepsChannelInv == ChannelInv /\ PumpIn => ChannelInv'
<1> SUFFICES ASSUME ChannelInv, PumpIn PROVE ChannelInv'
  OBVIOUS
<1>1. PICK bound, n, e :
        /\ n \in 1..ReadChunk /\ LaidOut(bound) /\ Receiving(bound) /\ Fed(bound, e, n) /\ n <= Len(wire)
        /\ wire' = SubSeq(wire, n + 1, Len(wire)) /\ decoder' = [e EXCEPT !.frames = <<>>]
        /\ IF e.failed \/ Len(e.frames) > MaxQueued
           THEN far' = "failed" /\ UNCHANGED taken
           ELSE taken' = taken \o e.frames /\ UNCHANGED far
  BY PumpInReads
<1>4. /\ far = "open" /\ Receiving(bound) /\ UNCHANGED <<near, outbound, encoded, offset, accepted, damaged>>
      /\ wire' = SubSeq(wire, n + 1, Len(wire)) /\ decoder' = [e EXCEPT !.frames = <<>>]
      /\ \/ far' = "failed" /\ taken' = taken
         \/ ~e.failed /\ far' = far /\ taken' = taken \o e.frames
  BY <1>1 DEF PumpIn, nearVars
<1>5. PICK W, k, A : W = Len(wire) /\ k = Len(taken) /\ A = Len(accepted)
  OBVIOUS
<1>6. /\ wire \in Seq(Bytes) /\ taken \in Seq(Frames) /\ accepted \in Seq(Frames)
      /\ W \in Nat /\ k \in Nat /\ A \in Nat /\ k <= A /\ n \in Nat /\ n >= 1 /\ n <= W
      /\ DOMAIN wire = 1..W /\ decoder.buffer \in Seq(Bytes) /\ W <= WireBytes
  <2>1. wire \in Seq(Bytes) /\ taken \in Seq(Frames) /\ accepted \in Seq(Frames)
    BY DEF ChannelInv, Typed, TypeOK
  <2>2. k <= A /\ W <= WireBytes /\ decoder.buffer \in Seq(Bytes)
    BY <1>5 DEF ChannelInv, Took, Typed, TypeOK
  <2>3. n \in Nat /\ n >= 1
    BY <1>1, Sizes
  <2> QED  BY <1>1, <1>5, <2>1, <2>2, <2>3
<1>7. Fed(bound, e, n)
  BY <1>1
<1>8. /\ e \in Decoders /\ decoder' \in Decoders /\ decoder'.buffer = e.buffer
      /\ decoder'.frames = <<>> /\ decoder'.failed = e.failed /\ decoder'.declared = e.declared
  <2>1. e \in Decoders /\ <<>> \in Seq(Frames)
    BY <1>7 DEF Fed
  <2> QED  BY <1>4, <2>1 DEF Decoders
<1>9. /\ wire' \in Seq(Bytes) /\ Len(wire') = W - n /\ DOMAIN wire' = 1..(W - n)
      /\ \A i \in 1..(W - n) : wire'[i] = wire[n + i]
  <2>1. (W - (n + 1)) + 1 = W - n /\ \A i \in 1..(W - n) : ((n + 1) + i) - 1 = n + i
    BY <1>6
  <2>2. SubSeq(wire, n + 1, W) \in Seq(Bytes) /\ Len(SubSeq(wire, n + 1, W)) = W - n
    BY <1>5, <1>6, <2>1
  <2>3. \A i \in 1..(W - n) : SubSeq(wire, n + 1, W)[i] = wire[n + i]
    BY <1>5, <1>6, <2>1
  <2> QED  BY <1>4, <1>5, <2>2, <2>3
<1>10. ~e.failed => InStep(bound, e, n)
  BY <1>7 DEF Fed
<1>11. Len(decoder'.buffer) < HeaderBytes + MaxBody
  <2>1. CASE ~e.failed
    BY <1>1, <1>8, <1>10, <2>1, BufferIsBounded DEF InStep, ChannelInv
  <2>2. CASE e.failed
    <3>1. e.buffer = <<>>
      BY <1>7, <2>2 DEF Fed, InStep, Decodes
    <3> QED  BY <1>8, <3>1, Sizes
  <2> QED  BY <2>1, <2>2
<1>12. /\ taken' \in Seq(Frames) /\ Len(taken') <= A
       /\ \A i \in DOMAIN taken' : taken'[i] = accepted[i]
       /\ far' = "open" => Len(taken') = k + Len(e.frames) /\ ~e.failed
  <2>1. CASE far' = "failed" /\ taken' = taken
    BY <1>5, <1>6, <2>1 DEF ChannelInv, Took
  <2>2. CASE ~e.failed /\ taken' = taken \o e.frames
    <3>1. PICK m : m = Len(e.frames)
      OBVIOUS
    <3>2. e.frames \in Seq(Frames) /\ m \in Nat /\ DOMAIN e.frames = 1..m
      BY <1>8, <3>1 DEF Decoders
    <3>3. /\ k + m \in 0..A /\ \A i \in 1..m : e.frames[i] = accepted[k + i]
      BY <1>5, <1>10, <2>2, <3>1 DEF InStep, Decodes
    <3>4. /\ taken \o e.frames \in Seq(Frames)
          /\ Len(taken \o e.frames) = Len(taken) + Len(e.frames)
      BY <1>6, <3>2
    <3>5. taken' \in Seq(Frames) /\ Len(taken') = k + m /\ DOMAIN taken' = 1..(k + m)
      BY <1>5, <1>6, <2>2, <3>1, <3>2, <3>4
    <3>6. \A i \in 1..k : taken'[i] = taken[i]
      BY <1>5, <1>6, <2>2, <3>1, <3>2
    <3>7. \A i \in 1..m : taken'[k + i] = e.frames[i]
      BY <1>5, <1>6, <2>2, <3>1, <3>2
    <3>8. \A i \in 1..(k + m) : taken'[i] = accepted[i]
      <4> TAKE i \in 1..(k + m)
      <4>1. CASE i \in 1..k
        <5>1. i \in DOMAIN taken
          BY <1>5, <1>6, <4>1
        <5> QED  BY <3>6, <4>1, <5>1 DEF ChannelInv, Took
      <4>2. CASE i \in (k + 1)..(k + m)
        <5>1. PICK p \in 1..m : i = k + p
          <6>1. i - k \in 1..m /\ i = k + (i - k)
            BY <1>6, <3>2, <4>2
          <6> QED  BY <6>1
        <5> QED  BY <3>3, <3>7, <5>1
      <4> QED  BY <1>6, <3>2, <4>1, <4>2
    <3> QED  BY <2>2, <3>1, <3>3, <3>5, <3>8
  <2> QED  BY <1>4, <2>1, <2>2
<1>13. Typed'
  <2>1. Len(wire') <= WireBytes
    <3>1. WireBytes \in Nat
      BY Sizes
    <3> QED  BY <1>6, <1>9, <3>1
  <2>2. far' \in Ends
    BY <1>4 DEF Ends
  <2>3. TypeOK'
    BY <1>4, <1>8, <1>9, <1>11, <1>12, <2>1, <2>2 DEF ChannelInv, Typed, TypeOK, Bytes, Decoders
  <2> QED  BY <1>4, <1>8, <2>3 DEF ChannelInv, Typed, Decoders, Bytes
<1>14. Sending'
  BY <1>4 DEF ChannelInv, Sending, Envelope, Byte, Total
<1>15. Took'
  BY <1>4, <1>5, <1>12 DEF Took
<1>16. StreamInv'
  <2>1. LaidOut(bound)'
    BY <1>1, <1>4 DEF LaidOut, Total
  <2>2. ASSUME far' = "open" PROVE Receiving(bound)'
    <3>1. PICK x, y, m : /\ x = bound[k + 1] + Len(decoder.buffer) /\ m = Len(e.frames)
                         /\ y = bound[(k + m) + 1] + Len(e.buffer)
      OBVIOUS
    <3>2. /\ Len(taken') = k + m /\ ~e.failed /\ InStep(bound, e, n) /\ m \in Nat
          /\ k + m \in 0..A /\ Decodes(bound, e, k + m)
      <4>1. m \in Nat
        BY <1>8, <3>1 DEF Decoders
      <4> QED  BY <1>5, <1>10, <1>12, <2>2, <3>1, <4>1 DEF InStep, Decodes
    <3>3. x \in Nat /\ y = x + n
      <4>1. k + 1 \in 1..(A + 1)
        BY <1>6
      <4>2. bound[k + 1] \in Nat
        BY <1>1, <1>5, <4>1 DEF LaidOut
      <4>3. x \in Nat
        BY <1>6, <3>1, <4>2
      <4>4. bound[k + m + 1] + Len(e.buffer) = bound[k + 1] + Len(decoder.buffer) + n
        BY <1>5, <3>1, <3>2 DEF InStep
      <4>5. k + m + 1 = (k + m) + 1
        BY <1>6, <3>2
      <4> QED  BY <3>1, <4>3, <4>4, <4>5
    <3>4. \A z, b : Lies(bound, z, b) => Lies(bound, z, b)'
      BY <1>4 DEF Lies
    <3>5. Decodes(bound, decoder, Len(taken))'
      <4>1. Decodes(bound, decoder', k + m)
        BY <1>8, <3>2 DEF Decodes
      <4> QED  BY <1>4, <3>2, <3>4, <4>1 DEF Decodes, Bytes, Total
    <3>6. \A i \in 1..(W - n) : Lies(bound, y + i, wire[i])'
      <4> TAKE i \in 1..(W - n)
      <4>1. n + i \in DOMAIN wire /\ x + (n + i) = y + i /\ wire'[i] = wire[n + i]
        <5>1. n \in Nat /\ W \in Nat /\ i \in Nat /\ i >= 1 /\ n + i <= W /\ x \in Nat
          BY <1>6, <3>3
        <5>2. x + (n + i) = y + i
          BY <3>3, <5>1
        <5>3. n + i \in 1..W
          BY <5>1
        <5> QED  BY <1>6, <1>9, <5>2, <5>3
      <4>2. PICK z, b : z = y + i /\ b = wire'[i]
        OBVIOUS
      <4>3. Lies(bound, x + (n + i), wire[n + i])
        BY <1>4, <1>5, <3>1, <4>1 DEF Receiving
      <4>4. Lies(bound, z, b)'
        BY <3>4, <4>1, <4>2, <4>3
      <4> QED  BY <4>2, <4>4
    <3>7. /\ x + W <= Written(bound)
          /\ near = "open" => x + W = Written(bound)
      BY <1>4, <1>5, <3>1 DEF Receiving
    <3>8. y + (W - n) = x + W
      BY <1>6, <3>3
    <3>9. Written(bound)' = Written(bound) /\ near' = near
      BY <1>4 DEF Written
    <3>10. y = (bound[Len(taken) + 1] + Len(decoder.buffer))'
      BY <1>8, <3>1, <3>2
    <3> QED  BY <1>9, <3>5, <3>6, <3>7, <3>8, <3>9, <3>10 DEF Receiving
  <2> QED  BY <2>1, <2>2 DEF StreamInv
<1> QED  BY <1>13, <1>14, <1>15, <1>16 DEF ChannelInv

LEMMA StepKeepsChannelInv == ChannelInv /\ [Next]_vars => ChannelInv'
<1> SUFFICES ASSUME ChannelInv, [Next]_vars PROVE ChannelInv'
  OBVIOUS
<1>1. CASE Queue
  BY <1>1, QueueKeepsChannelInv
<1>2. CASE PumpOut
  BY <1>2, PumpOutKeepsChannelInv
<1>3. CASE PumpIn
  BY <1>3, PumpInKeepsChannelInv
<1>4. CASE PumpOutFails \/ CloseNear \/ PumpInFails \/ CloseFar \/ UNCHANGED vars
  BY <1>4, LossKeepsChannelInv
<1>5. CASE Cut
  BY <1>5, CutKeepsChannelInv
<1>6. CASE Damage
  BY <1>6, DamageKeepsChannelInv
<1> QED  BY <1>1, <1>2, <1>3, <1>4, <1>5, <1>6 DEF Next

(* However the writes of one end and the reads of the other cut the stream, *)
(* each byte the receiver has yet to see lies where its frame puts it, and  *)
(* the receiver has emitted exactly the frames before it.                   *)
THEOREM ChannelInvariant == Spec => []ChannelInv
<1>1. Init => ChannelInv
  BY InitChannelInv
<1>2. ChannelInv /\ [Next]_vars => ChannelInv'
  BY StepKeepsChannelInv
<1> QED  BY <1>1, <1>2, PTL DEF Spec

(* The queue, the wire and the decoder's buffer stay within their ceilings, *)
(* whatever is queued and however it is read.                               *)
THEOREM ChannelTypes == Spec => []TypeOK
<1>1. ChannelInv => TypeOK
  BY DEF ChannelInv, Typed
<1> QED  BY <1>1, ChannelInvariant, PTL

-----------------------------------------------------------------------------
(* The connection is a Link.                                                *)

LEMMA InitIsALink == Init => ToLink!Init
BY DEF Init, ToLink!Init

LEMMA StepIsALinkStep ==
  ChannelInv /\ ChannelInv' /\ [Next]_vars => [ToLink!Next]_ToLink!linkVars
<1> SUFFICES ASSUME ChannelInv, ChannelInv', [Next]_vars
             PROVE  ToLink!Next \/ UNCHANGED <<accepted, taken, (far = "open")>>
  BY DEF ToLink!linkVars
<1>1. CASE Queue
  <2>1. PICK size \in Bodies : accepted' = Append(accepted, Frame(Len(accepted) + 1, size))
    BY <1>1 DEF Queue
  <2>2. Frame(Len(accepted) + 1, size) \in Frames
    <3>1. Len(accepted) \in Nat /\ Len(accepted) < MaxSent /\ MaxSent \in Nat
      BY <1>1, Sizes DEF Queue, ChannelInv, Typed, TypeOK
    <3> QED  BY <3>1 DEF Frame, Frames
  <2>3. taken' = taken /\ far' = far
    BY <1>1 DEF Queue, farVars
  <2>4. ToLink!Send(Frame(Len(accepted) + 1, size))
    BY <2>1, <2>3 DEF ToLink!Send
  <2> QED  BY <2>2, <2>4 DEF ToLink!Next
<1>2. CASE PumpIn
  <2>1. far = "open" /\ accepted' = accepted
    BY <1>2 DEF PumpIn, nearVars
  <2>2. PICK e : /\ e \in Decoders
                 /\ \/ far' = "failed" /\ taken' = taken
                    \/ far' = far /\ taken' = taken \o e.frames
    BY <1>2, PumpInReads DEF Fed
  <2>3. CASE far' = "failed" /\ taken' = taken
    <3>1. ToLink!Leave
      BY <2>1, <2>3 DEF ToLink!Leave
    <3> QED  BY <3>1 DEF ToLink!Next
  <2>4. CASE far' = far /\ taken' = taken \o e.frames
    <3>1. /\ accepted \in Seq(Frames) /\ taken \in Seq(Frames) /\ e.frames \in Seq(Frames)
      BY <2>2 DEF ChannelInv, Typed, TypeOK, Decoders
    <3>2. PICK n : n = Len(taken')
      OBVIOUS
    <3>3. taken' \in Seq(Frames) /\ n \in Len(taken)..Len(accepted)
      <4>1. taken \o e.frames \in Seq(Frames) /\ Len(taken \o e.frames) = Len(taken) + Len(e.frames)
        BY <3>1
      <4>2. Len(taken') <= Len(accepted)
        BY <2>1 DEF ChannelInv, Took
      <4> QED  BY <2>4, <3>1, <3>2, <4>1, <4>2
    <3>4. \A i \in 1..n : taken'[i] = accepted[i]
      BY <2>1, <3>2, <3>3 DEF ChannelInv, Took
    <3>5. taken' = SubSeq(accepted, 1, n)
      <4>1. /\ SubSeq(accepted, 1, n) \in Seq(Frames) /\ Len(SubSeq(accepted, 1, n)) = n
            /\ \A i \in 1..n : SubSeq(accepted, 1, n)[i] = accepted[i]
        BY <3>1, <3>3
      <4> QED  BY <3>2, <3>3, <3>4, <4>1
    <3>6. ToLink!Receive
      BY <2>1, <2>4, <3>3, <3>5 DEF ToLink!Receive
    <3> QED  BY <3>6 DEF ToLink!Next
  <2> QED  BY <2>2, <2>3, <2>4
<1>3. CASE PumpInFails \/ CloseFar
  <2>1. far' # "open" /\ UNCHANGED <<accepted, taken>>
    BY <1>3 DEF PumpInFails, CloseFar, nearVars
  <2>2. ToLink!Leave
    BY <2>1 DEF ToLink!Leave
  <2> QED  BY <2>2 DEF ToLink!Next
<1>4. CASE PumpOut \/ PumpOutFails \/ CloseNear \/ Cut \/ Damage \/ UNCHANGED vars
  <2>1. UNCHANGED <<accepted, taken, far>>
    BY <1>4 DEF PumpOut, PumpOutFails, CloseNear, Cut, Damage, vars, nearVars, farVars
  <2> QED  BY <2>1
<1> QED  BY <1>1, <1>2, <1>3, <1>4 DEF Next

(* What the receiver takes is a prefix of what was queued, whole, in order  *)
(* and once: every step of the connection is one of a Link, or none.        *)
THEOREM ChannelIsALink == Spec => IsALink
<1>1. Init => ToLink!Init
  BY InitIsALink
<1>2. ChannelInv /\ ChannelInv' /\ [Next]_vars => [ToLink!Next]_ToLink!linkVars
  BY StepIsALinkStep
<1> QED  BY <1>1, <1>2, ChannelInvariant, PTL DEF Spec, IsALink, ToLink!Spec

-----------------------------------------------------------------------------
(* What makes an end fail.                                                  *)

LEMMA StepKeepsCauses ==
  ASSUME ReadChunk <= MaxQueued * HeaderBytes,
         ChannelInv, [Next]_vars, FailuresHaveACause
  PROVE  FailuresHaveACause'
<1>1. CASE PumpIn
  <2>1. PICK bound, n, e :
          /\ n \in 1..ReadChunk /\ LaidOut(bound) /\ Fed(bound, e, n) /\ decoder' = [e EXCEPT !.frames = <<>>]
          /\ IF e.failed \/ Len(e.frames) > MaxQueued
             THEN far' = "failed" /\ UNCHANGED taken
             ELSE taken' = taken \o e.frames /\ UNCHANGED far
    BY <1>1, PumpInReads
  <2>2. far = "open" /\ near' = near /\ accepted' = accepted /\ damaged' = damaged
    BY <1>1 DEF PumpIn, nearVars
  <2>3. e \in Decoders /\ decoder'.failed = e.failed /\ (e.failed => damaged)
    <3>1. e \in Decoders /\ (e.failed => damaged)
      BY <2>1 DEF Fed, InStep, Decodes
    <3> QED  BY <2>1, <3>1 DEF Decoders
  <2>4. ASSUME ~e.failed PROVE ~(Len(e.frames) > MaxQueued)
    <3>1. PICK m, H, h : m = Len(e.frames) /\ H = HeaderBytes /\ h = Len(e.buffer)
      OBVIOUS
    <3>2. /\ m \in Nat /\ h \in Nat /\ H \in Nat \ {0} /\ MaxQueued \in Nat /\ ReadChunk \in Nat
          /\ n \in Nat /\ n <= ReadChunk
      BY <2>1, <2>3, <3>1, Sizes DEF Decoders
    <3>3. m > 0 => (m - 1) * H + h + 1 <= n
      BY <2>1, <2>4, <3>1 DEF Fed, InStep
    <3> SUFFICES ASSUME m > MaxQueued PROVE FALSE
      BY <3>1
    <3>4. PICK a, z : a = MaxQueued * H /\ z = (m - 1) * H
      OBVIOUS
    <3>5. a \in Nat /\ z \in Nat /\ a <= z
      <4>1. PICK r \in Nat : m - 1 = MaxQueued + r
        <5>1. (m - 1) - MaxQueued \in Nat /\ m - 1 = MaxQueued + ((m - 1) - MaxQueued)
          BY <3>2
        <5> QED  BY <5>1
      <4>2. (MaxQueued + r) * H = MaxQueued * H + r * H /\ r * H \in Nat /\ MaxQueued * H \in Nat
        BY <3>2
      <4> QED  BY <3>4, <4>1, <4>2
    <3>6. z + h + 1 <= n
      <4>1. m > 0
        BY <3>2
      <4> QED  BY <3>3, <3>4, <4>1
    <3>7. ReadChunk <= a
      BY <3>1, <3>4
    <3> QED  BY <3>2, <3>5, <3>6, <3>7
  <2> QED  BY <2>1, <2>2, <2>3, <2>4 DEF FailuresHaveACause
<1>2. CASE PumpOutFails
  <2>1. Head(outbound).body > MaxBody => \E i \in DOMAIN accepted : accepted[i].body > MaxBody
    <3>1. PICK N, L : N = Len(accepted) /\ L = Len(outbound)
      OBVIOUS
    <3>2. /\ accepted \in Seq(Frames) /\ outbound \in Seq(Frames) /\ outbound # <<>>
          /\ L <= N
      BY <1>2, <3>1 DEF PumpOutFails, ChannelInv, Typed, TypeOK, Sending
    <3>3. /\ N \in Nat /\ L \in Nat /\ L > 0 /\ DOMAIN accepted = 1..N /\ DOMAIN outbound = 1..L
          /\ Head(outbound) = outbound[1]
      BY <3>1, <3>2
    <3>4. N - L + 1 \in 1..N
      BY <3>2, <3>3
    <3>5. outbound[1] = accepted[N - L + 1]
      BY <3>1, <3>3 DEF ChannelInv, Sending
    <3> QED  BY <3>3, <3>4, <3>5
  <2>2. UNCHANGED <<accepted, far, decoder, damaged>> /\ near' = "failed"
    BY <1>2 DEF PumpOutFails, farVars
  <2>3. Head(outbound).body > MaxBody \/ far # "open"
    BY <1>2 DEF PumpOutFails
  <2> QED  BY <2>1, <2>2, <2>3 DEF FailuresHaveACause
<1>3. CASE CloseNear \/ PumpInFails \/ CloseFar
  BY <1>3 DEF CloseNear, PumpInFails, CloseFar, FailuresHaveACause, nearVars, farVars
<1>4. CASE Queue
  <2>1. \A i \in DOMAIN accepted : i \in DOMAIN accepted' /\ accepted'[i] = accepted[i]
    <3>1. accepted \in Seq(Frames)
      BY DEF ChannelInv, Typed, TypeOK
    <3>2. PICK f : accepted' = Append(accepted, f)
      BY <1>4 DEF Queue
    <3> QED  BY <3>1, <3>2
  <2>2. UNCHANGED <<near, far, decoder, damaged>>
    BY <1>4 DEF Queue, farVars
  <2> QED  BY <2>1, <2>2 DEF FailuresHaveACause
<1>5. CASE PumpOut \/ Cut \/ Damage \/ UNCHANGED vars
  <2>1. UNCHANGED <<near, far, decoder, accepted>> /\ (damaged => damaged')
    BY <1>5 DEF PumpOut, Cut, Damage, vars, nearVars, farVars
  <2> QED  BY <2>1 DEF FailuresHaveACause
<1> QED  BY <1>1, <1>2, <1>3, <1>4, <1>5 DEF Next

(* No legal burst breaks a connection, and the decoder rejects nothing that *)
(* was not damaged, as long as the queue of the receiver can hold what one  *)
(* read can bring: the defaults, reads of 16 KiB, headers of 48 bytes and   *)
(* 1024 queued frames, are three times on the safe side.                    *)
THEOREM FailuresAreCaused ==
  ASSUME ReadChunk <= MaxQueued * HeaderBytes
  PROVE  Spec => []FailuresHaveACause
<1>1. Init => FailuresHaveACause
  BY DEF Init, Fresh, FailuresHaveACause
<1>2. ChannelInv /\ FailuresHaveACause /\ [Next]_vars => FailuresHaveACause'
  BY StepKeepsCauses
<1> QED  BY <1>1, <1>2, ChannelInvariant, PTL DEF Spec
=============================================================================
