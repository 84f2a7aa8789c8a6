-------------------------- MODULE FrameDecoderProofs --------------------------
(***************************************************************************)
(* netmodel_decode for every size of headers, frames, units and buffers    *)
(* and every number of frames.                                             *)
(*                                                                         *)
(*   - RingInv: the positions count the bytes in the buffer.  A position   *)
(*     that has wrapped is below the truncate position, and the tail given *)
(*     up by the wrap is shorter than a unit.                              *)
(*   - StreamInv: what is in the buffer and on the wire is the frames not  *)
(*     yet delivered, one after the other.  The concatenation of so many   *)
(*     frames has no closed form, so the invariant says there are places   *)
(*     where they start.                                                   *)
(*   - CallInv: decode runs on an open context only, and a login is the    *)
(*     one handler that closes the context under the parse loop.           *)
(*   - LeftOver: what a call of decode has left in the buffer is shorter   *)
(*     than a frame, or is none.                                           *)
(***************************************************************************)
EXTENDS FrameDecoder, SequenceTheorems, TLAPS

RingInv ==
    /\ {r, w, t} \subseteq 0..Capacity
    /\ Len(buf) = IF w < r THEN t - r + w ELSE w - r
    /\ w < r => r < t /\ t > Capacity - Unit

CallInv ==
    /\ pc # "idle" => open /\ (CLOSED => is_detached)
    /\ pc = "reading" => ~CLOSED
    /\ is_detached => CLOSED

\* The i-th byte that no handler has seen, and how many there are.
ByteAt(i) == IF i <= Len(buf) THEN buf[i] ELSE wire[i - Len(buf)]
Unread == Len(buf) + Len(wire)

Waiting == (Len(delivered) + 1)..Len(sent)

\* Frames d+1 to n start at these places among u bytes, one after the other.
Placed(start, d, n, u) ==
    /\ start \in [1..(MaxFrames + 1) -> Int]
    /\ start[d + 1] = 1
    /\ start[n + 1] = u + 1
    /\ \A k, l \in (d + 1)..(n + 1) : k <= l => start[k] <= start[l]

\* Frame k, one of those waiting, starts at byte start[k].
Laid(start) ==
    /\ Placed(start, Len(delivered), Len(sent), Unread)
    /\ \A k \in Waiting :
          /\ start[k + 1] = start[k] + Total(sent[k])
          /\ \A j \in 1..Total(sent[k]) :
                ByteAt(start[k] + j - 1) = [frame |-> k, off |-> j - 1]

StreamInv ==
    /\ Len(delivered) <= Len(sent)
    /\ Len(sent) <= MaxFrames
    /\ \E start : Laid(start)

\* Of frames of at most n bytes, a call that has begun has found less than one.
LeftOver(n) ==
    (\A g \in Frames : Total(g) <= n) =>
        \/ pc = "idle" /\ CLOSED /\ ~is_detached
        \/ Len(buf) < (IF pc = "reading" THEN batch ELSE 0) + n
        \/ buf # <<>> /\ ~MagicOk
        \/ pc = "parsing"

Types ==
    /\ sent \in Seq(Frames)
    /\ wire \in Seq(Byte)
    /\ buf \in Seq(Byte)
    /\ pc \in {"idle", "reading", "parsing"}
    /\ {CLOSED, is_detached, with_worker, open} \subseteq BOOLEAN
    /\ delivered \in Seq(Seq(Byte))
    /\ batch \in Nat

Inv == Types /\ RingInv /\ CallInv /\ StreamInv

-----------------------------------------------------------------------------
(* Frames and their bytes.                                                  *)

LEMMA Sizes ==
    /\ \A f \in Frames : Total(f) \in Nat /\ Total(f) >= Hdr /\ Total(f) >= 1
    /\ Hdr \in Nat /\ Hdr >= 1 /\ Unit \in Nat /\ Unit >= 1 /\ Capacity \in Nat /\ MaxFrames \in Nat
BY SizesAssumption DEF Total

LEMMA BytesFacts ==
    ASSUME NEW f \in Frames, NEW k \in 1..MaxFrames
    PROVE  /\ Bytes(f, k) \in Seq(Byte)
           /\ Len(Bytes(f, k)) = Total(f)
           /\ \A j \in 1..Total(f) : Bytes(f, k)[j] = [frame |-> k, off |-> j - 1]
<1>1. Total(f) \in Nat
    BY Sizes
<1>2. \A j \in 1..Total(f) : [frame |-> k, off |-> j - 1] \in Byte
    BY <1>1 DEF Byte
<1>3. Bytes(f, k) \in [1..Total(f) -> Byte]
    BY <1>2 DEF Bytes
<1>4. Bytes(f, k) \in Seq(Byte) /\ Len(Bytes(f, k)) = Total(f)
    BY <1>1, <1>3
<1> QED
    BY <1>4 DEF Bytes

\* What a read does to the sequences: n bytes go from the wire to the buffer.
LEMMA ReadFacts ==
    ASSUME Types, NEW n \in 0..Unit, ReadUnit(n)
    PROVE  /\ n \in Nat /\ n <= Len(wire)
           /\ buf' \in Seq(Byte) /\ Len(buf') = Len(buf) + n
           /\ \A i \in 1..Len(buf') :
                 buf'[i] = IF i <= Len(buf) THEN buf[i] ELSE wire[i - Len(buf)]
           /\ wire' \in Seq(Byte) /\ Len(wire') = Len(wire) - n
           /\ \A i \in 1..Len(wire') : wire'[i] = wire[n + i]
<1>1. n \in Nat /\ n <= Len(wire) /\ Len(wire) \in Nat /\ Len(buf) \in Nat
    BY Sizes DEF Types, ReadUnit
<1>2. /\ SubSeq(wire, 1, n) \in Seq(Byte) /\ Len(SubSeq(wire, 1, n)) = n
      /\ \A i \in 1..n : SubSeq(wire, 1, n)[i] = wire[i]
    <2>1. \A i \in 1..n : wire[i] \in Byte
        BY <1>1, ElementOfSeq DEF Types
    <2> QED
        BY <1>1, <2>1, SubSeqProperties
<1>3. /\ wire' \in Seq(Byte) /\ Len(wire') = Len(wire) - n
      /\ \A i \in 1..Len(wire') : wire'[i] = wire[n + i]
    <2>1. \A i \in (n + 1)..Len(wire) : wire[i] \in Byte
        BY <1>1, ElementOfSeq DEF Types
    <2>2. wire' = SubSeq(wire, n + 1, Len(wire))
        BY DEF ReadUnit
    <2>3. /\ wire' \in Seq(Byte)
          /\ Len(wire') = IF n + 1 <= Len(wire) THEN Len(wire) - (n + 1) + 1 ELSE 0
          /\ \A i \in 1..(Len(wire) - (n + 1) + 1) : wire'[i] = wire[(n + 1) + i - 1]
        BY <1>1, <2>1, <2>2, SubSeqProperties
    <2>4. Len(wire') = Len(wire) - n
        BY <1>1, <2>3
    <2>5. ASSUME NEW i \in 1..Len(wire') PROVE wire'[i] = wire[n + i]
        <3>1. wire'[i] = wire[(n + 1) + i - 1]
            BY <1>1, <2>3, <2>4
        <3>2. (n + 1) + i - 1 = n + i
            BY <1>1
        <3> QED
            BY <3>1, <3>2
    <2> QED
        BY <2>3, <2>4, <2>5
<1>4. buf' = buf \o SubSeq(wire, 1, n)
    BY DEF ReadUnit
<1>5. /\ buf' \in Seq(Byte) /\ Len(buf') = Len(buf) + n
      /\ \A i \in 1..(Len(buf) + n) :
            buf'[i] = IF i <= Len(buf) THEN buf[i] ELSE SubSeq(wire, 1, n)[i - Len(buf)]
    BY <1>2, <1>4, ConcatProperties DEF Types
<1> QED
    BY <1>1, <1>2, <1>3, <1>5

\* What a delivery does to them.
LEMMA ParseFacts ==
    ASSUME Types, NEW n \in Nat, n >= 1, n <= Len(buf)
    PROVE  /\ SubSeq(buf, n + 1, Len(buf)) \in Seq(Byte)
           /\ Len(SubSeq(buf, n + 1, Len(buf))) = Len(buf) - n
           /\ \A i \in 1..(Len(buf) - n) : SubSeq(buf, n + 1, Len(buf))[i] = buf[i + n]
           /\ SubSeq(buf, 1, n) \in Seq(Byte)
           /\ Len(SubSeq(buf, 1, n)) = n
           /\ \A i \in 1..n : SubSeq(buf, 1, n)[i] = buf[i]
<1>1. Len(buf) \in Nat /\ \A i \in 1..Len(buf) : buf[i] \in Byte
    BY ElementOfSeq DEF Types
<1>2. /\ SubSeq(buf, 1, n) \in Seq(Byte) /\ Len(SubSeq(buf, 1, n)) = n
      /\ \A i \in 1..n : SubSeq(buf, 1, n)[i] = buf[i]
    BY <1>1, SubSeqProperties
<1> DEFINE rest == SubSeq(buf, n + 1, Len(buf))
<1>3. /\ rest \in Seq(Byte)
      /\ Len(rest) = IF n + 1 <= Len(buf) THEN Len(buf) - (n + 1) + 1 ELSE 0
      /\ \A i \in 1..(Len(buf) - (n + 1) + 1) : rest[i] = buf[(n + 1) + i - 1]
    BY <1>1, SubSeqProperties
<1> HIDE DEF rest
<1>4. Len(rest) = Len(buf) - n
    BY <1>1, <1>3
<1>5. ASSUME NEW i \in 1..(Len(buf) - n) PROVE rest[i] = buf[i + n]
    <2>1. rest[i] = buf[(n + 1) + i - 1]
        BY <1>1, <1>3
    <2>2. (n + 1) + i - 1 = i + n
        BY <1>1
    <2> QED
        BY <2>1, <2>2
<1> QED
    BY <1>2, <1>3, <1>4, <1>5 DEF rest

\* The byte at the front is the first one of the frame to be delivered next.
LEMMA HeadFacts ==
    ASSUME Types, StreamInv, buf # <<>>
    PROVE  /\ Len(delivered) + 1 \in Waiting
           /\ Len(delivered) + 1 \in 1..MaxFrames
           /\ sent[Len(delivered) + 1] \in Frames
           /\ Head(buf) = [frame |-> Len(delivered) + 1, off |-> 0]
           /\ TotalBytes = Total(sent[Len(delivered) + 1])
           /\ MagicOk <=> sent[Len(delivered) + 1] # "bad"
<1> DEFINE d == Len(delivered)
<1>1. PICK start : Laid(start)
    BY DEF StreamInv
<1>2. /\ d \in Nat /\ Len(sent) \in Nat /\ Len(buf) \in Nat \ {0} /\ Len(wire) \in Nat
      /\ d <= Len(sent) /\ Len(sent) <= MaxFrames
    BY EmptySeq DEF Types, StreamInv
<1>3. d # Len(sent)
    BY <1>1, <1>2 DEF Laid, Placed, Unread
<1>4. d + 1 \in Waiting /\ d + 1 \in 1..MaxFrames /\ d + 1 \in 1..Len(sent)
    BY <1>2, <1>3, Sizes DEF Waiting
<1>5. sent[d + 1] \in Frames
    BY <1>4, ElementOfSeq DEF Types
<1>6. ByteAt(1) = [frame |-> d + 1, off |-> 0]
    <2>1. 1 \in 1..Total(sent[d + 1])
        BY <1>5, Sizes
    <2>2. ByteAt(start[d + 1] + 1 - 1) = [frame |-> d + 1, off |-> 1 - 1]
        BY <1>1, <1>4, <2>1 DEF Laid
    <2>3. start[d + 1] = 1
        BY <1>1 DEF Laid, Placed
    <2> QED
        BY <2>2, <2>3
<1>7. Head(buf) = [frame |-> d + 1, off |-> 0]
    BY <1>2, <1>6 DEF ByteAt
<1> QED
    BY <1>4, <1>5, <1>7 DEF TotalBytes, MagicOk

\* A frame that is ready lies in the buffer.
LEMMA ReadyFacts ==
    ASSUME Types, StreamInv, ParseFrame
    PROVE  /\ buf # <<>> /\ TotalBytes \in Nat /\ TotalBytes >= 1 /\ TotalBytes <= Len(buf)
           /\ TotalBytes = Total(sent[Len(delivered) + 1])
           /\ Len(buf') = Len(buf) - TotalBytes
<1>1. Len(buf) \in Nat /\ Len(buf) >= 1
    BY Sizes DEF Types, ParseFrame, HasHeader
<1>2. buf # <<>>
    BY <1>1
<1>3. TotalBytes \in Nat /\ TotalBytes >= 1
    BY <1>2, HeadFacts, Sizes
<1>4. TotalBytes <= Len(buf)
    BY <1>1, <1>3 DEF ParseFrame, FrameReady
<1>5. buf' = SubSeq(buf, TotalBytes + 1, Len(buf))
    BY DEF ParseFrame
<1> QED
    BY <1>2, <1>3, <1>4, <1>5, ParseFacts, HeadFacts

-----------------------------------------------------------------------------
(* The types and the ring.                                                  *)

LEMMA TypesStep == Types /\ StreamInv /\ [Next]_vars => Types'
<1> SUFFICES ASSUME Types, StreamInv, [Next]_vars PROVE Types'
    OBVIOUS
<1>1. ASSUME NEW f \in Frames, PeerSends(f) PROVE Types'
    <2>1. Len(sent) + 1 \in 1..MaxFrames
        BY <1>1, Sizes DEF PeerSends, Types
    <2>2. wire' \in Seq(Byte)
        BY <1>1, <2>1, BytesFacts, ConcatProperties DEF PeerSends, Types
    <2>3. sent' \in Seq(Frames)
        BY <1>1 DEF PeerSends, Types
    <2> QED
        BY <1>1, <2>2, <2>3 DEF PeerSends, Types
<1>2. CASE OnMessage
    BY <1>2 DEF OnMessage, Types
<1>3. ASSUME NEW n \in 0..Unit, ReadUnit(n) PROVE Types'
    <2>1. batch' \in Nat
        BY <1>3, ReadFacts DEF ReadUnit, Types
    <2> QED
        BY <1>3, <2>1, ReadFacts DEF ReadUnit, Types
<1>4. CASE ReadFull
    BY <1>4 DEF ReadFull, Types
<1>5. CASE ParseFrame
    <2>1. /\ buf' \in Seq(Byte)
          /\ SubSeq(buf, 1, TotalBytes) \in Seq(Byte)
        BY <1>5, ReadyFacts, ParseFacts DEF ParseFrame
    <2>2. delivered' \in Seq(Seq(Byte))
        BY <1>5, <2>1 DEF ParseFrame, Types
    <2>3. CLOSED' \in BOOLEAN /\ is_detached' \in BOOLEAN
        BY <1>5 DEF ParseFrame, Types
    <2> QED
        BY <1>5, <2>1, <2>2, <2>3 DEF ParseFrame, NextPc, Types
<1>6. CASE ParseInvalid
    BY <1>6 DEF ParseInvalid, Types
<1>7. CASE ParseWait
    BY <1>7 DEF ParseWait, Types
<1>8. CASE HandOver
    BY <1>8 DEF HandOver, KeptBuf, Types
<1>9. CASE Close
    BY <1>9 DEF Close, Types
<1>10. CASE UNCHANGED vars
    BY <1>10 DEF vars, Types
<1> QED
    BY <1>1, <1>2, <1>3, <1>4, <1>5, <1>6, <1>7, <1>8, <1>9, <1>10 DEF Next, Decode

LEMMA RingStep == Inv /\ [Next]_vars => RingInv'
<1> SUFFICES ASSUME Inv, [Next]_vars PROVE RingInv'
    OBVIOUS
<1>1. ASSUME buf' = buf, UNCHANGED ringVars PROVE RingInv'
    BY <1>1 DEF Inv, RingInv, ringVars
<1>2. r \in Nat /\ w \in Nat /\ t \in Nat /\ Len(buf) \in Nat
    BY Sizes DEF Inv, RingInv, Types
<1>3. ASSUME NEW n \in 0..Unit, ReadUnit(n) PROVE RingInv'
    <2>1. n \in Nat /\ n <= Unit /\ Len(buf') = Len(buf) + n
        BY <1>3, ReadFacts DEF Inv
    <2>2. CASE n = 0
        <3>1. UNCHANGED ringVars
            BY <1>3, <2>2 DEF ReadUnit, WriterMove
        <3> QED
            BY <1>2, <2>1, <2>2, <3>1 DEF Inv, RingInv, ringVars
    <2>3. CASE n # 0 /\ ContiguousWritable >= Unit
        <3>1. w' = w + n /\ r' = r /\ t' = t
            BY <1>3, <2>3 DEF ReadUnit, WriterMove
        <3> QED
            BY <1>2, <2>1, <2>3, <3>1, Sizes DEF Inv, RingInv, ContiguousWritable
    <2>4. CASE n # 0 /\ ~(ContiguousWritable >= Unit)
        <3>1. w' = n /\ t' = w /\ r' = (IF r = w THEN 0 ELSE r)
            BY <1>3, <2>4 DEF ReadUnit, WriterMove
        <3>2. JumpWritable >= Unit
            BY <1>3, <2>4 DEF ReadUnit, HasRoom
        <3>3. ~(w < r) /\ r # 0 /\ r - 1 >= Unit /\ Capacity - w < Unit
            BY <1>2, <2>4, <3>2, Sizes DEF Inv, RingInv, JumpWritable, ContiguousWritable
        <3> QED
            BY <1>2, <2>1, <2>4, <3>1, <3>3, Sizes DEF Inv, RingInv
    <2> QED
        BY <2>2, <2>3, <2>4
<1>4. CASE ParseFrame
    <2>1. /\ TotalBytes \in Nat /\ TotalBytes >= 1 /\ TotalBytes <= Len(buf)
          /\ Len(buf') = Len(buf) - TotalBytes
        BY <1>4, ReadyFacts DEF Inv
    <2>2. /\ r' = (IF w < r /\ TotalBytes >= t - r THEN TotalBytes - (t - r)
                                                  ELSE r + TotalBytes)
          /\ w' = w /\ t' = t
        BY <1>4 DEF ParseFrame, ReaderMove
    <2> HIDE DEF TotalBytes
    <2> QED
        BY <1>2, <2>1, <2>2, Sizes DEF Inv, RingInv
<1>5. ASSUME NEW f \in Frames, PeerSends(f) PROVE buf' = buf /\ UNCHANGED ringVars
    BY <1>5 DEF PeerSends
<1>6. OnMessage \/ ReadFull \/ ParseInvalid \/ ParseWait \/ HandOver \/ Close
      => buf' = buf /\ UNCHANGED ringVars
    BY DEF OnMessage, ReadFull, ParseInvalid, ParseWait, HandOver, KeptBuf, Close
<1>7. UNCHANGED vars => buf' = buf /\ UNCHANGED ringVars
    BY DEF vars, ringVars
<1> QED
    BY <1>1, <1>3, <1>4, <1>5, <1>6, <1>7 DEF Next, Decode

LEMMA CallStep == Types /\ CallInv /\ [Next]_vars => CallInv'
<1> SUFFICES ASSUME Types, CallInv, [Next]_vars PROVE CallInv'
    OBVIOUS
<1>1. ASSUME NEW f \in Frames, PeerSends(f) PROVE CallInv'
    BY <1>1 DEF PeerSends, CallInv
<1>2. CASE OnMessage
    BY <1>2 DEF OnMessage, CallInv
<1>3. ASSUME NEW n \in 0..Unit, ReadUnit(n) PROVE CallInv'
    BY <1>3 DEF ReadUnit, CallInv
<1>4. CASE ReadFull
    BY <1>4 DEF ReadFull, CallInv
<1>5. CASE ParseFrame
    BY <1>5 DEF ParseFrame, NextPc, CallInv
<1>6. CASE ParseInvalid
    BY <1>6 DEF ParseInvalid, CallInv
<1>7. CASE ParseWait
    BY <1>7 DEF ParseWait, CallInv
<1>8. CASE HandOver
    BY <1>8 DEF HandOver, CallInv
<1>9. CASE Close
    BY <1>9 DEF Close, CallInv
<1>10. CASE UNCHANGED vars
    BY <1>10 DEF vars, CallInv
<1> QED
    BY <1>1, <1>2, <1>3, <1>4, <1>5, <1>6, <1>7, <1>8, <1>9, <1>10 DEF Next, Decode

-----------------------------------------------------------------------------
(* The frames on their way.                                                 *)

\* The places of the frames up to n, so many bytes further up.
Moved(new, start, n, by) ==
    \A k \in 1..(n + 1) : new[k] = start[k] - by /\ start[k] \in Int

\* Another frame of that size behind the others.
LEMMA PlacedMore ==
    ASSUME NEW d \in Nat, NEW n \in Nat, NEW u \in Nat, NEW size \in Nat, NEW start,
           d <= n, n < MaxFrames, Placed(start, d, n, u)
    PROVE  \E new : Placed(new, d, n + 1, u + size) /\ Moved(new, start, n, 0)
<1> DEFINE new == [start EXCEPT ![n + 2] = u + 1 + size]
<1>1. /\ new \in [1..(MaxFrames + 1) -> Int]
      /\ new[n + 2] = u + 1 + size
      /\ \A k \in 1..(n + 1) : new[k] = start[k] /\ start[k] \in Int
    BY Sizes DEF Placed
<1> HIDE DEF new
<1>2. \A k, l \in (d + 1)..(n + 2) : k <= l => new[k] <= new[l]
    <2> SUFFICES ASSUME NEW k \in (d + 1)..(n + 2), NEW l \in (d + 1)..(n + 2), k <= l
                 PROVE  new[k] <= new[l]
        OBVIOUS
    <2>1. CASE l # n + 2
        BY <1>1, <2>1 DEF Placed
    <2>2. CASE l = n + 2 /\ k # n + 2
        <3>1. k \in (d + 1)..(n + 1) /\ n + 1 \in (d + 1)..(n + 1) /\ k <= n + 1
            BY <2>2
        <3>2. start[k] <= u + 1
            BY <3>1 DEF Placed
        <3> QED
            BY <1>1, <2>2, <3>1, <3>2
    <2>3. CASE l = n + 2 /\ k = n + 2
        BY <1>1, <2>3
    <2> QED
        BY <2>1, <2>2, <2>3
<1>3. new[d + 1] = 1
    BY <1>1 DEF Placed
<1>4. (n + 1) + 1 = n + 2 /\ (u + size) + 1 = u + 1 + size
    OBVIOUS
<1>5. Placed(new, d, n + 1, u + size)
    BY <1>1, <1>2, <1>3, <1>4 DEF Placed
<1>6. Moved(new, start, n, 0)
    BY <1>1 DEF Moved
<1> QED
    BY <1>5, <1>6

\* The first frame is taken away.
LEMMA PlacedLess ==
    ASSUME NEW d \in Nat, NEW n \in Nat, NEW u \in Nat, NEW size \in Nat, NEW start,
           d + 1 <= n, n <= MaxFrames, Placed(start, d, n, u), start[d + 2] = 1 + size
    PROVE  \E new : Placed(new, d + 1, n, u - size) /\ Moved(new, start, n, size)
<1> DEFINE new == [k \in 1..(MaxFrames + 1) |-> start[k] - size]
<1>1. /\ new \in [1..(MaxFrames + 1) -> Int]
      /\ \A k \in 1..(n + 1) : new[k] = start[k] - size /\ start[k] \in Int
    <2>1. MaxFrames \in Nat /\ \A k \in 1..(n + 1) : k \in 1..(MaxFrames + 1)
        BY Sizes
    <2>2. start \in [1..(MaxFrames + 1) -> Int]
        BY DEF Placed
    <2> QED
        BY <2>1, <2>2
<1> HIDE DEF new
<1>2. \A k, l \in (d + 2)..(n + 1) : k <= l => new[k] <= new[l]
    <2> SUFFICES ASSUME NEW k \in (d + 2)..(n + 1), NEW l \in (d + 2)..(n + 1), k <= l
                 PROVE  new[k] <= new[l]
        OBVIOUS
    <2>1. start[k] <= start[l]
        BY DEF Placed
    <2>2. k \in 1..(n + 1) /\ l \in 1..(n + 1)
        OBVIOUS
    <2> QED
        BY <1>1, <2>1, <2>2
<1>3. new[d + 2] = 1 /\ new[n + 1] = (u - size) + 1
    BY <1>1 DEF Placed
<1>4. (d + 1) + 1 = d + 2
    OBVIOUS
<1>5. Placed(new, d + 1, n, u - size)
    BY <1>1, <1>2, <1>3, <1>4 DEF Placed
<1>6. Moved(new, start, n, size)
    BY <1>1 DEF Moved
<1> QED
    BY <1>5, <1>6

\* The bytes of a waiting frame are among the unread ones.
LEMMA PlaceInside ==
    ASSUME Types, Len(delivered) <= Len(sent), NEW start, Laid(start),
           Len(sent) <= MaxFrames, NEW k \in Waiting, NEW j \in 1..Total(sent[k])
    PROVE  /\ start[k] \in Int /\ start[k] >= 1
           /\ sent[k] \in Frames
           /\ start[k] + j - 1 \in 1..Unread
<1>1. /\ Len(delivered) \in Nat /\ Len(sent) \in Nat /\ Unread \in Nat
      /\ k \in 1..Len(sent)
    BY DEF Types, Waiting, Unread
<1>2. sent[k] \in Frames
    BY <1>1, ElementOfSeq DEF Types
<1>3. Total(sent[k]) \in Nat /\ j \in Nat /\ j >= 1 /\ j <= Total(sent[k])
    BY <1>2, Sizes
<1>4. PICK d \in Nat, n \in Nat : d = Len(delivered) /\ n = Len(sent)
    BY <1>1
<1>5. /\ Placed(start, d, n, Unread) /\ n <= MaxFrames
      /\ start[k + 1] = start[k] + Total(sent[k])
    BY <1>4 DEF Laid
<1>6. /\ d + 1 \in (d + 1)..(n + 1) /\ n + 1 \in (d + 1)..(n + 1)
      /\ k \in (d + 1)..(n + 1) /\ k + 1 \in (d + 1)..(n + 1)
      /\ d + 1 <= k /\ k + 1 <= n + 1 /\ k \in 1..(MaxFrames + 1)
    BY <1>1, <1>4, <1>5, Sizes DEF Waiting
<1>7. start[k] \in Int /\ start[k] >= 1 /\ start[k + 1] <= Unread + 1
    BY <1>5, <1>6 DEF Placed
<1>8. PICK p \in Int, u \in Nat, size \in Nat :
          p = start[k] /\ u = Unread /\ size = Total(sent[k])
    BY <1>1, <1>3, <1>7
<1>9. p >= 1 /\ p + size <= u + 1 /\ j <= size /\ j \in Nat /\ j >= 1
    BY <1>3, <1>5, <1>7, <1>8
<1>10. p + j - 1 \in 1..u
    BY <1>9
<1> QED
    BY <1>2, <1>8, <1>9, <1>10

\* A step that moves no frame and changes no byte keeps the places.
LEMMA SameBytes ==
    ASSUME Types, StreamInv, sent' = sent, delivered' = delivered, Unread' = Unread,
           \A i \in 1..Unread : ByteAt(i)' = ByteAt(i)
    PROVE  StreamInv'
<1>1. PICK start : Laid(start)
    BY DEF StreamInv
<1>2. Waiting' = Waiting
    BY DEF Waiting
<1>3. \A k \in Waiting : \A j \in 1..Total(sent[k]) :
          ByteAt(start[k] + j - 1)' = [frame |-> k, off |-> j - 1]
    <2> SUFFICES ASSUME NEW k \in Waiting, NEW j \in 1..Total(sent[k])
                 PROVE  ByteAt(start[k] + j - 1)' = [frame |-> k, off |-> j - 1]
        OBVIOUS
    <2>1. start[k] + j - 1 \in 1..Unread
        BY <1>1, PlaceInside DEF StreamInv
    <2>2. ByteAt(start[k] + j - 1) = [frame |-> k, off |-> j - 1]
        BY <1>1 DEF Laid
    <2> QED
        BY <2>1, <2>2
<1>4. Laid(start)'
    BY <1>1, <1>2, <1>3 DEF Laid
<1> QED
    BY <1>4 DEF StreamInv


\* A frame more is sent: its bytes follow the others.
LEMMA PeerSendsStream ==
    ASSUME Types, StreamInv, NEW f \in Frames, PeerSends(f)
    PROVE  StreamInv'
<1>1. PICK start : Laid(start)
    BY DEF StreamInv
<1>2. PICK d \in Nat, n \in Nat, b \in Nat, x \in Nat, u \in Nat, size \in Nat :
          /\ d = Len(delivered) /\ n = Len(sent) /\ b = Len(buf) /\ x = Len(wire)
          /\ u = b + x /\ size = Total(f)
    <2>1. /\ Len(delivered) \in Nat /\ Len(sent) \in Nat /\ Len(buf) \in Nat
          /\ Len(wire) \in Nat /\ Len(buf) + Len(wire) \in Nat
        BY DEF Types
    <2>2. Total(f) \in Nat
        BY Sizes
    <2> QED
        BY <2>1, <2>2
<1>3. d <= n /\ n < MaxFrames /\ n + 1 \in 1..MaxFrames /\ u = Unread
    BY <1>2, Sizes DEF StreamInv, PeerSends, Unread
<1>4. PICK new : Placed(new, d, n + 1, u + size) /\ Moved(new, start, n, 0)
    <2>1. Placed(start, d, n, u)
        BY <1>1, <1>2, <1>3 DEF Laid
    <2> QED
        BY <1>2, <1>3, <2>1, PlacedMore
<1>5. /\ buf' = buf /\ delivered' = delivered
      /\ sent' = Append(sent, f) /\ wire' = wire \o Bytes(f, n + 1)
    BY <1>2 DEF PeerSends
<1>u. u = b + x
    BY <1>2
<1>6. /\ Len(sent') = n + 1 /\ sent'[n + 1] = f
      /\ \A k \in 1..n : sent'[k] = sent[k]
    BY <1>2, <1>5, AppendProperties DEF Types
<1>7. /\ Len(wire') = x + size
      /\ \A i \in 1..(x + size) :
            wire'[i] = IF i <= x THEN wire[i] ELSE Bytes(f, n + 1)[i - x]
    <2>1. Bytes(f, n + 1) \in Seq(Byte) /\ Len(Bytes(f, n + 1)) = size
        BY <1>2, <1>3, BytesFacts
    <2>2. wire \in Seq(Byte)
        BY DEF Types
    <2>3. /\ Len(wire \o Bytes(f, n + 1)) = Len(wire) + Len(Bytes(f, n + 1))
          /\ \A i \in 1..(Len(wire) + Len(Bytes(f, n + 1))) :
                (wire \o Bytes(f, n + 1))[i] =
                    IF i <= Len(wire) THEN wire[i] ELSE Bytes(f, n + 1)[i - Len(wire)]
        BY <2>1, <2>2, ConcatProperties
    <2>4. x = Len(wire) /\ size = Len(Bytes(f, n + 1))
        BY <1>2, <2>1
    <2> QED
        BY <1>5, <2>3, <2>4
<1>8. Unread' = u + size
    <2>1. Len(buf') = b /\ Len(wire') = x + size
        BY <1>2, <1>5, <1>7
    <2>2. Unread' = b + (x + size)
        BY <2>1 DEF Unread
    <2> QED
        BY <1>u, <2>2
<1>9. ASSUME NEW i \in 1..u PROVE ByteAt(i)' = ByteAt(i)
    <2>1. i > b => i - b \in 1..(x + size) /\ i - b <= x
        BY <1>u
    <2>2. ByteAt(i) = IF i <= b THEN buf[i] ELSE wire[i - b]
        BY <1>2 DEF ByteAt
    <2>3. ByteAt(i)' = IF i <= b THEN buf[i] ELSE wire'[i - b]
        BY <1>2, <1>5 DEF ByteAt
    <2> QED
        BY <1>7, <1>u, <2>1, <2>2, <2>3
<1>10. ASSUME NEW j \in 1..size
       PROVE  ByteAt(u + j)' = [frame |-> n + 1, off |-> j - 1]
    <2>1. u + j > b /\ (u + j) - b = x + j /\ x + j \in 1..(x + size) /\ ~(x + j <= x)
          /\ (x + j) - x = j
        BY <1>u
    <2>2. ByteAt(u + j)' = wire'[x + j]
        <3>1. ByteAt(u + j)' = IF u + j <= b THEN buf[u + j] ELSE wire'[(u + j) - b]
            BY <1>2, <1>5 DEF ByteAt
        <3>2. ~(u + j <= b)
            BY <1>2, <2>1
        <3> QED
            BY <2>1, <3>1, <3>2
    <2>3. wire'[x + j] = Bytes(f, n + 1)[j]
        BY <1>7, <2>1
    <2> QED
        BY <1>2, <1>3, <2>2, <2>3, BytesFacts
<1>11. new[n + 1] = u + 1 /\ new[n + 2] = u + size + 1
    <2>1. start[n + 1] = u + 1
        BY <1>1, <1>2, <1>3 DEF Laid, Placed
    <2>2. (n + 1) + 1 = n + 2 /\ n + 1 \in 1..(n + 1)
        OBVIOUS
    <2> QED
        BY <1>4, <2>1, <2>2 DEF Placed, Moved
<1>12. ASSUME NEW k \in (d + 1)..(n + 1)
       PROVE  /\ new[k + 1] = new[k] + Total(sent'[k])
              /\ \A j \in 1..Total(sent'[k]) :
                    ByteAt(new[k] + j - 1)' = [frame |-> k, off |-> j - 1]
    <2>1. CASE k = n + 1
        <3>1. k + 1 = n + 2 /\ sent'[k] = f /\ Total(sent'[k]) = size
            BY <1>2, <1>6, <2>1
        <3>2. ASSUME NEW j \in 1..size
              PROVE  ByteAt(new[k] + j - 1)' = [frame |-> k, off |-> j - 1]
            <4>1. new[k] + j - 1 = u + j
                BY <1>2, <1>11, <2>1
            <4> QED
                BY <1>10, <2>1, <4>1
        <3>3. new[k + 1] = new[k] + size
            BY <1>11, <2>1, <3>1
        <3> QED
            BY <3>1, <3>2, <3>3
    <2>2. CASE k # n + 1
        <3>1. /\ k \in Waiting /\ k \in 1..n /\ k \in 1..(n + 1) /\ k + 1 \in 1..(n + 1)
              /\ sent'[k] = sent[k] /\ new[k] = start[k] /\ new[k + 1] = start[k + 1]
            <4>1. /\ k \in Waiting /\ k \in 1..n /\ k \in 1..(n + 1)
                  /\ k + 1 \in 1..(n + 1)
                BY <1>2, <2>2 DEF Waiting
            <4>2. start[k] - 0 = start[k] /\ start[k + 1] - 0 = start[k + 1]
                BY <1>4, <4>1 DEF Moved
            <4> QED
                BY <1>4, <1>6, <4>1, <4>2 DEF Moved
        <3>2. ASSUME NEW j \in 1..Total(sent[k])
              PROVE  ByteAt(new[k] + j - 1)' = [frame |-> k, off |-> j - 1]
            <4>1. new[k] + j - 1 \in 1..u
                BY <1>1, <1>3, <3>1, PlaceInside DEF StreamInv
            <4> QED
                BY <1>1, <1>9, <3>1, <4>1 DEF Laid
        <3> QED
            BY <1>1, <3>1, <3>2 DEF Laid
    <2> QED
        BY <2>1, <2>2
<1>13. Waiting' = (d + 1)..(n + 1)
    BY <1>2, <1>5, <1>6 DEF Waiting
<1>14. Placed(new, Len(delivered'), Len(sent'), Unread')
    BY <1>2, <1>4, <1>5, <1>6, <1>8
<1>15. Laid(new)'
    BY <1>12, <1>13, <1>14 DEF Laid
<1> QED
    BY <1>2, <1>3, <1>5, <1>6, <1>15 DEF StreamInv

\* The first of the waiting frames is delivered: the others move up.
LEMMA ParseFrameStream ==
    ASSUME Types, StreamInv, ParseFrame
    PROVE  StreamInv'
<1>1. PICK start : Laid(start)
    BY DEF StreamInv
<1>2. PICK d \in Nat, n \in Nat, b \in Nat, x \in Nat, u \in Nat, size \in Nat :
          /\ d = Len(delivered) /\ n = Len(sent) /\ b = Len(buf) /\ x = Len(wire)
          /\ u = b + x /\ size = TotalBytes
    <2>1. /\ Len(delivered) \in Nat /\ Len(sent) \in Nat /\ Len(buf) \in Nat
          /\ Len(wire) \in Nat /\ Len(buf) + Len(wire) \in Nat
        BY DEF Types
    <2>2. TotalBytes \in Nat
        BY ReadyFacts
    <2> HIDE DEF TotalBytes
    <2> QED
        BY <2>1, <2>2
<1>3. /\ d + 1 \in Waiting /\ d + 1 <= n /\ n <= MaxFrames /\ u = Unread
      /\ size >= 1 /\ size <= b /\ size = Total(sent[d + 1])
    BY <1>2, ReadyFacts, HeadFacts DEF StreamInv, Unread, Waiting
<1>4. start[d + 1] = 1 /\ start[d + 2] = 1 + size
    <2>1. start[d + 1] = 1 /\ start[(d + 1) + 1] = start[d + 1] + size
        BY <1>1, <1>2, <1>3 DEF Laid, Placed
    <2>2. (d + 1) + 1 = d + 2
        OBVIOUS
    <2> QED
        BY <2>1, <2>2
<1>5. PICK new : Placed(new, d + 1, n, u - size) /\ Moved(new, start, n, size)
    <2>1. Placed(start, d, n, u)
        BY <1>1, <1>2, <1>3 DEF Laid
    <2> QED
        BY <1>2, <1>3, <1>4, <2>1, PlacedLess
<1>6. /\ sent' = sent /\ wire' = wire
      /\ delivered' = Append(delivered, SubSeq(buf, 1, size))
      /\ buf' = SubSeq(buf, size + 1, b)
    BY <1>2 DEF ParseFrame
<1>7. /\ Len(buf') = b - size
      /\ \A i \in 1..(b - size) : buf'[i] = buf[i + size]
      /\ SubSeq(buf, 1, size) \in Seq(Byte)
    BY <1>2, <1>3, <1>6, ParseFacts
<1>8. Len(delivered') = d + 1
    <2>1. delivered \in Seq(Seq(Byte))
        BY DEF Types
    <2>2. Len(delivered') = Len(delivered) + 1
        BY <1>6, <1>7, <2>1, AppendProperties
    <2> QED
        BY <1>2, <2>2
<1>9. Unread' = u - size
    <2>1. Len(buf') = b - size /\ Len(wire') = x
        BY <1>2, <1>6, <1>7
    <2>2. Unread' = (b - size) + x
        BY <2>1 DEF Unread
    <2> QED
        BY <1>2, <2>2
<1>10. ASSUME NEW i \in 1..(u - size) PROVE ByteAt(i)' = ByteAt(i + size)
    <2>1. CASE i <= b - size
        <3>1. i \in 1..(b - size) /\ i + size <= b
            BY <1>2, <2>1
        <3>2. i <= Len(buf') /\ i + size <= Len(buf) /\ buf'[i] = buf[i + size]
            BY <1>2, <1>7, <2>1, <3>1
        <3>3. ByteAt(i)' = buf'[i]
            BY <3>2 DEF ByteAt
        <3>4. ByteAt(i + size) = buf[i + size]
            BY <3>2 DEF ByteAt
        <3> QED
            BY <3>2, <3>3, <3>4
    <2>2. CASE i > b - size
        <3>1. ~(i <= b - size) /\ ~(i + size <= b) /\ i - (b - size) = (i + size) - b
            BY <1>2, <2>2
        <3> QED
            BY <1>2, <1>6, <1>7, <3>1 DEF ByteAt
    <2> QED
        BY <1>2, <2>1, <2>2
<1>11. ASSUME NEW k \in (d + 2)..n
       PROVE  /\ new[k + 1] = new[k] + Total(sent[k])
              /\ \A j \in 1..Total(sent[k]) :
                    ByteAt(new[k] + j - 1)' = [frame |-> k, off |-> j - 1]
    <2>1. /\ k \in Waiting /\ k \in 1..(n + 1) /\ k + 1 \in 1..(n + 1)
          /\ d + 2 \in (d + 1)..(n + 1) /\ k \in (d + 1)..(n + 1) /\ d + 2 <= k
        BY <1>2, <1>3 DEF Waiting
    <2>2. /\ new[k] = start[k] - size /\ start[k] \in Int
          /\ new[k + 1] = start[k + 1] - size /\ start[k + 1] \in Int
        BY <1>5, <2>1 DEF Moved
    <2>3. start[k + 1] = start[k] + Total(sent[k])
        BY <1>1, <2>1 DEF Laid
    <2>4. sent[k] \in Frames /\ Total(sent[k]) \in Nat
        <3>1. k \in 1..Len(sent)
            BY <1>2
        <3> QED
            BY <3>1, ElementOfSeq, Sizes DEF Types
    <2>5. start[k] >= 1 + size
        BY <1>1, <1>2, <1>4, <2>1 DEF Laid, Placed
    <2>6. ASSUME NEW j \in 1..Total(sent[k])
          PROVE  ByteAt(new[k] + j - 1)' = [frame |-> k, off |-> j - 1]
        <3>1. PICK p \in Int : p = start[k]
            BY <2>2
        <3>2. p + j - 1 \in 1..u
            BY <1>1, <1>3, <2>1, <3>1, PlaceInside DEF StreamInv
        <3>3. j \in Nat /\ j >= 1
            BY <2>4
        <3>4. /\ (p - size) + j - 1 \in 1..(u - size)
              /\ ((p - size) + j - 1) + size = p + j - 1
            <4>1. p >= 1 + size
                BY <2>5, <3>1
            <4> HIDE DEF TotalBytes
            <4> QED
                BY <1>2, <3>2, <3>3, <4>1
        <3>5. ByteAt((p - size) + j - 1)' = ByteAt(p + j - 1)
            BY <1>10, <3>4
        <3>6. ByteAt(p + j - 1) = [frame |-> k, off |-> j - 1]
            BY <1>1, <2>1, <3>1 DEF Laid
        <3> QED
            BY <2>2, <3>1, <3>5, <3>6
    <2> QED
        BY <2>2, <2>3, <2>4, <2>6
<1>12. Waiting' = (d + 2)..n
    <2>1. (d + 1) + 1 = d + 2
        OBVIOUS
    <2> QED
        BY <1>2, <1>6, <1>8, <2>1 DEF Waiting
<1>13. Placed(new, Len(delivered'), Len(sent'), Unread')
    BY <1>2, <1>5, <1>6, <1>8, <1>9
<1>14. Laid(new)'
    BY <1>6, <1>11, <1>12, <1>13 DEF Laid
<1> QED
    BY <1>2, <1>3, <1>6, <1>8, <1>14 DEF StreamInv

\* A read moves bytes, and changes none.
LEMMA ReadUnitStream ==
    ASSUME Types, StreamInv, NEW n \in 0..Unit, ReadUnit(n)
    PROVE  StreamInv'
<1>1. PICK b \in Nat, x \in Nat, m \in Nat : b = Len(buf) /\ x = Len(wire) /\ m = n
    <2>1. Len(buf) \in Nat /\ Len(wire) \in Nat
        BY DEF Types
    <2>2. n \in Nat
        BY ReadFacts
    <2> QED
        BY <2>1, <2>2
<1>2. /\ m <= x /\ Len(buf') = b + m /\ Len(wire') = x - m
      /\ \A i \in 1..(b + m) : buf'[i] = IF i <= b THEN buf[i] ELSE wire[i - b]
      /\ \A i \in 1..(x - m) : wire'[i] = wire[m + i]
    BY <1>1, ReadFacts
<1>3. sent' = sent /\ delivered' = delivered
    BY DEF ReadUnit
<1>4. Unread' = Unread /\ Unread = b + x
    BY <1>1, <1>2 DEF Unread
<1>5. ASSUME NEW i \in 1..(b + x) PROVE ByteAt(i)' = ByteAt(i)
    <2>1. CASE i <= b + m
        <3>1. ByteAt(i)' = buf'[i]
            BY <1>2, <2>1 DEF ByteAt
        <3>2. buf'[i] = IF i <= b THEN buf[i] ELSE wire[i - b]
            BY <1>1, <1>2, <2>1
        <3> QED
            BY <1>1, <3>1, <3>2 DEF ByteAt
    <2>2. CASE i > b + m
        <3>1. /\ ~(i <= b + m) /\ ~(i <= b) /\ i - (b + m) \in 1..(x - m)
              /\ m + (i - (b + m)) = i - b
            BY <1>1, <1>2, <2>2
        <3>2. ByteAt(i)' = wire'[i - (b + m)]
            BY <1>2, <3>1 DEF ByteAt
        <3>3. wire'[i - (b + m)] = wire[i - b]
            BY <1>2, <3>1
        <3> QED
            BY <1>1, <3>1, <3>2, <3>3 DEF ByteAt
    <2> QED
        BY <1>1, <2>1, <2>2
<1> QED
    BY <1>3, <1>4, <1>5, SameBytes

\* The steps that touch neither the buffer nor the wire.
Quiet ==
    \/ OnMessage
    \/ ReadFull
    \/ ParseInvalid
    \/ ParseWait
    \/ HandOver
    \/ Close

LEMMA QuietFacts ==
    Quiet \/ UNCHANGED vars =>
        buf' = buf /\ wire' = wire /\ sent' = sent /\ delivered' = delivered
BY DEF Quiet, OnMessage, ReadFull, ParseInvalid, ParseWait, HandOver, KeptBuf, Close, vars

LEMMA StreamStep == Types /\ StreamInv /\ [Next]_vars => StreamInv'
<1> SUFFICES ASSUME Types, StreamInv, [Next]_vars PROVE StreamInv'
    OBVIOUS
<1>1. ASSUME NEW f \in Frames, PeerSends(f) PROVE StreamInv'
    BY <1>1, PeerSendsStream
<1>2. ASSUME NEW n \in 0..Unit, ReadUnit(n) PROVE StreamInv'
    BY <1>2, ReadUnitStream
<1>3. CASE ParseFrame
    BY <1>3, ParseFrameStream
<1>4. CASE Quiet \/ UNCHANGED vars
    <2>1. Unread' = Unread /\ \A i \in 1..Unread : ByteAt(i)' = ByteAt(i)
        BY <1>4, QuietFacts DEF Unread, ByteAt
    <2> QED
        BY <1>4, <2>1, QuietFacts, SameBytes
<1> QED
    BY <1>1, <1>2, <1>3, <1>4 DEF Next, Decode, Quiet

LEMMA InvInit == Init => Inv
<1> SUFFICES ASSUME Init PROVE Inv
    OBVIOUS
<1>1. Types
    <2>1. <<>> \in Seq(Frames) /\ <<>> \in Seq(Byte) /\ <<>> \in Seq(Seq(Byte))
        BY EmptySeq
    <2> QED
        BY <2>1 DEF Init, Types
<1>2. RingInv
    BY Sizes DEF Init, RingInv
<1>3. CallInv
    BY DEF Init, CallInv
<1>4. Laid([k \in 1..(MaxFrames + 1) |-> 1])
    BY Sizes DEF Init, Laid, Placed, Waiting, Unread
<1> QED
    BY <1>1, <1>2, <1>3, <1>4, Sizes DEF Inv, StreamInv, Init

THEOREM Invariant == Spec => []Inv
<1>1. Inv /\ [Next]_vars => Inv'
    BY TypesStep, RingStep, CallStep, StreamStep DEF Inv
<1> QED
    BY <1>1, InvInit, PTL DEF Spec

THEOREM TypeCorrect == Spec => []TypeOK
<1>1. Inv => TypeOK
    BY DEF Inv, Types, RingInv, TypeOK
<1> QED
    BY <1>1, Invariant, PTL

-----------------------------------------------------------------------------
(* What a call of decode has left in the buffer.                            *)

LeftOverInv == \A f \in Frames : LeftOver(Total(f))

\* As long as the front stays where it is, it is taken for the same.
LEMMA SameHead ==
    ASSUME Types, StreamInv, buf # <<>>, [Next]_vars, buf' # <<>>, Head(buf') = Head(buf)
    PROVE  MagicOk' <=> MagicOk
<1>1. Len(delivered) + 1 \in 1..Len(sent) /\ Head(buf).frame = Len(delivered) + 1
    BY HeadFacts DEF Types, Waiting
<1>2. ASSUME NEW f \in Frames, PeerSends(f)
      PROVE  sent'[Len(delivered) + 1] = sent[Len(delivered) + 1]
    BY <1>1, <1>2, AppendProperties DEF PeerSends, Types
<1>3. (\A f \in Frames : ~PeerSends(f)) => sent' = sent
    BY DEF Next, Decode, OnMessage, ReadUnit, ReadFull, ParseFrame, ParseInvalid,
           ParseWait, HandOver, Close, vars
<1> QED
    BY <1>1, <1>2, <1>3 DEF MagicOk

LEMMA LeftOverStep ==
    ASSUME Inv, [Next]_vars, NEW f \in Frames, LeftOver(Total(f))
    PROVE  LeftOver(Total(f))'
<1> SUFFICES ASSUME \A g \in Frames : Total(g) <= Total(f)
             PROVE  \/ (pc = "idle" /\ CLOSED /\ ~is_detached)'
                    \/ Len(buf') < (IF pc' = "reading" THEN batch' ELSE 0) + Total(f)
                    \/ buf' # <<>> /\ ~MagicOk'
                    \/ pc' = "parsing"
    BY DEF LeftOver
<1>1. /\ Types /\ StreamInv /\ CallInv
      /\ Len(buf) \in Nat /\ batch \in Nat /\ Total(f) \in Nat /\ Hdr \in Nat /\ Hdr <= Total(f)
    BY Sizes DEF Inv, Types
<1>2. \/ pc = "idle" /\ CLOSED /\ ~is_detached
      \/ Len(buf) < (IF pc = "reading" THEN batch ELSE 0) + Total(f)
      \/ buf # <<>> /\ ~MagicOk
      \/ pc = "parsing"
    BY DEF LeftOver
<1>3. buf # <<>> /\ ~MagicOk /\ buf' = buf => buf' # <<>> /\ ~MagicOk'
    BY <1>1, SameHead
<1>4. ASSUME NEW g \in Frames, PeerSends(g)
      PROVE  /\ buf' = buf /\ pc' = pc /\ batch' = batch
             /\ CLOSED' = CLOSED /\ is_detached' = is_detached
    BY <1>4 DEF PeerSends
<1>5. CASE OnMessage
    <2>1. pc = "idle" /\ ~CLOSED /\ buf' = buf /\ pc' = "reading" /\ batch' = 0
        BY <1>5 DEF OnMessage
    <2> QED
        BY <1>2, <1>3, <2>1
<1>6. ASSUME NEW n \in 0..Unit, ReadUnit(n), pc' # "parsing"
      PROVE  \/ Len(buf') < batch' + Total(f)
             \/ buf' # <<>> /\ ~MagicOk'
    <2>1. /\ pc = "reading" /\ pc' = "reading" /\ batch' = batch + n
          /\ n \in Nat /\ Len(buf') = Len(buf) + n /\ buf' \in Seq(Byte)
        BY <1>1, <1>6, ReadFacts DEF ReadUnit
    <2>2. CASE buf # <<>> /\ ~MagicOk
        <3>1. Len(buf) >= 1
            BY <1>1, <2>2, EmptySeq DEF Types
        <3>2. 1 \in 1..Len(buf') /\ 1 <= Len(buf)
            BY <1>1, <2>1, <3>1
        <3>3. buf'[1] = buf[1]
            BY <1>1, <1>6, <3>2, ReadFacts
        <3>4. buf' # <<>>
            BY <3>2
        <3>5. Head(buf') = Head(buf)
            BY <1>1, <2>1, <2>2, <3>3, <3>4 DEF Types
        <3> QED
            BY <1>1, <2>2, <3>4, <3>5, SameHead
    <2>3. CASE Len(buf) < batch + Total(f)
        BY <1>1, <2>1, <2>3
    <2> QED
        BY <1>2, <2>1, <2>2, <2>3
<1>7. CASE ReadFull
    BY <1>1, <1>7 DEF ReadFull, CallInv
<1>8. CASE ParseFrame
    BY <1>8 DEF ParseFrame, NextPc
<1>9. CASE ParseInvalid
    <2>1. buf' = buf /\ ~MagicOk /\ Len(buf) >= Hdr /\ Hdr >= 1
        BY <1>9, Sizes DEF ParseInvalid, HasHeader
    <2>2. buf # <<>>
        BY <2>1, Sizes
    <2> QED
        BY <1>3, <2>1, <2>2
<1>10. CASE ParseWait
    <2>1. pc' = "idle" /\ buf' = buf
        BY <1>10 DEF ParseWait
    <2>2. CASE ~HasHeader
        BY <1>1, <2>1, <2>2 DEF HasHeader
    <2>3. CASE HasHeader
        <3>1. Len(buf) >= Hdr /\ Hdr >= 1 /\ ~FrameReady
            BY <1>10, <2>3, Sizes DEF ParseWait, HasHeader
        <3>2. buf # <<>>
            BY <3>1, Sizes
        <3>3. /\ sent[Len(delivered) + 1] \in Frames
              /\ TotalBytes = Total(sent[Len(delivered) + 1])
            BY <1>1, <3>2, HeadFacts
        <3>4. TotalBytes \in Nat /\ TotalBytes <= Total(f)
            BY <3>3, Sizes
        <3>5. ~(Len(buf) >= TotalBytes)
            BY <3>1 DEF FrameReady
        <3> HIDE DEF TotalBytes
        <3> QED
            BY <1>1, <2>1, <3>4, <3>5
    <2> QED
        BY <2>2, <2>3
<1>11. CASE HandOver
    <2>1. pc = "idle" /\ pc' = "idle" /\ is_detached /\ buf' = buf
        BY <1>11 DEF HandOver, KeptBuf
    <2> QED
        BY <1>2, <1>3, <2>1
<1>12. CASE Close
    BY <1>12 DEF Close
<1>13. CASE UNCHANGED vars
    BY <1>2, <1>3, <1>13 DEF vars
<1>14. ASSUME NEW g \in Frames, PeerSends(g)
       PROVE  \/ (pc = "idle" /\ CLOSED /\ ~is_detached)'
              \/ Len(buf') < (IF pc' = "reading" THEN batch' ELSE 0) + Total(f)
              \/ buf' # <<>> /\ ~MagicOk'
              \/ pc' = "parsing"
    BY <1>2, <1>3, <1>4, <1>14
<1>15. ASSUME NEW n \in 0..Unit, ReadUnit(n)
       PROVE  \/ Len(buf') < (IF pc' = "reading" THEN batch' ELSE 0) + Total(f)
              \/ buf' # <<>> /\ ~MagicOk'
              \/ pc' = "parsing"
    <2>1. pc' = "reading" \/ pc' = "parsing"
        BY <1>15 DEF ReadUnit
    <2> QED
        BY <1>6, <1>15, <2>1
<1> QED
    BY <1>5, <1>7, <1>8, <1>9, <1>10, <1>11, <1>12, <1>13, <1>14, <1>15 DEF Next, Decode

\* A ring without room for a unit holds all but two units, at least.
LEMMA NoRoom ==
    ASSUME Types, RingInv, ~HasRoom(Unit)
    PROVE  Len(buf) + 2 * Unit > Capacity
<1>1. /\ r \in Nat /\ w \in Nat /\ t \in Nat /\ Len(buf) \in Nat
      /\ r <= Capacity /\ w <= Capacity /\ t <= Capacity /\ Capacity \in Nat
      /\ Unit \in Nat /\ Unit >= 1
    BY Sizes DEF RingInv, Types
<1>2. ~(ContiguousWritable >= Unit) /\ ~(JumpWritable >= Unit)
    BY DEF HasRoom
<1>3. CASE w < r
    BY <1>1, <1>2, <1>3 DEF RingInv, ContiguousWritable
<1>4. CASE ~(w < r) /\ r = 0
    BY <1>1, <1>2, <1>4 DEF RingInv, ContiguousWritable
<1>5. CASE ~(w < r) /\ r # 0
    BY <1>1, <1>2, <1>5 DEF RingInv, ContiguousWritable, JumpWritable
<1> QED
    BY <1>3, <1>4, <1>5

\* "Bytes buffer full" is met by a peer of frames only when it has sent nearly
\* the size of the buffer in one batch: what is left from earlier calls of
\* netmodel_decode and what the ring wastes by wrapping never adds up.
THEOREM CutOnlyOnLargeBatch == Spec => []CutOnlyByLargeBatch
<1>1. Init => LeftOverInv
    <2> SUFFICES ASSUME Init, NEW f \in Frames PROVE LeftOver(Total(f))
        BY DEF LeftOverInv
    <2> QED
        BY Sizes DEF Init, LeftOver
<1>2. Inv /\ LeftOverInv /\ [Next]_vars => LeftOverInv'
    <2> SUFFICES ASSUME Inv, LeftOverInv, [Next]_vars, NEW f \in Frames
                 PROVE  LeftOver(Total(f))'
        BY DEF LeftOverInv
    <2> QED
        BY LeftOverStep DEF LeftOverInv
<1>3. Inv /\ LeftOverInv => CutOnlyByLargeBatch
    <2> SUFFICES ASSUME Inv, LeftOverInv, NEW f \in Frames, pc = "reading",
                        ~HasRoom(Unit), MagicOk, \A g \in Frames : Total(g) <= Total(f)
                 PROVE  batch + 2 * Unit + Total(f) > Capacity
        BY DEF CutOnlyByLargeBatch
    <2>1. Len(buf) + 2 * Unit > Capacity
        BY NoRoom DEF Inv
    <2>2. Len(buf) < batch + Total(f)
        BY DEF LeftOverInv, LeftOver
    <2>3. /\ Len(buf) \in Nat /\ batch \in Nat /\ Total(f) \in Nat /\ Unit \in Nat
          /\ Capacity \in Nat
        BY Sizes DEF Inv, Types
    <2> QED
        BY <2>1, <2>2, <2>3
<1> QED
    BY <1>1, <1>2, <1>3, Invariant, PTL DEF Spec

-----------------------------------------------------------------------------
(* The promise of FrameStream, but for its fairness.                        *)

LEMMA SentFacts ==
    ASSUME Types, Len(sent) <= MaxFrames
    PROVE  /\ StreamSent \in Seq(StreamFrames)
           /\ Len(StreamSent) = Len(sent)
           /\ \A k \in 1..Len(sent) :
                 StreamSent[k] = [good |-> sent[k] # "bad", bytes |-> Bytes(sent[k], k)]
<1>1. Len(sent) \in Nat /\ DOMAIN sent = 1..Len(sent)
    BY DEF Types
<1>2. ASSUME NEW k \in 1..Len(sent)
      PROVE  [good |-> sent[k] # "bad", bytes |-> Bytes(sent[k], k)] \in StreamFrames
    <2>1. sent[k] \in Frames /\ k \in 1..MaxFrames
        BY <1>1, ElementOfSeq, Sizes DEF Types
    <2> QED
        BY <2>1 DEF StreamFrames
<1>3. StreamSent \in [1..Len(sent) -> StreamFrames]
    BY <1>1, <1>2 DEF StreamSent
<1> QED
    BY <1>1, <1>3 DEF StreamSent

LEMMA SendImplemented ==
    ASSUME Inv, NEW f \in Frames, PeerSends(f)
    PROVE  Stream!Send
<1>1. Types /\ Types' /\ Len(sent) <= MaxFrames
    BY TypesStep DEF Inv, StreamInv, Next
<1>2. PICK n \in Nat : n = Len(sent)
    BY <1>1 DEF Types
<1>3. /\ n + 1 \in 1..MaxFrames /\ n + 1 <= MaxFrames
      /\ sent' = Append(sent, f) /\ Len(sent') = n + 1
      /\ sent'[n + 1] = f /\ \A k \in 1..n : sent'[k] = sent[k]
    BY <1>1, <1>2, Sizes, AppendProperties DEF PeerSends, Types
<1> DEFINE g == [good |-> f # "bad", bytes |-> Bytes(f, n + 1)]
<1>4. g \in StreamFrames
    BY <1>3 DEF StreamFrames
<1>5. /\ StreamSent \in Seq(StreamFrames) /\ Len(StreamSent) = n
      /\ \A k \in 1..n : StreamSent[k] = [good |-> sent[k] # "bad", bytes |-> Bytes(sent[k], k)]
    BY <1>1, <1>2, SentFacts
<1>6. /\ StreamSent' \in Seq(StreamFrames) /\ Len(StreamSent') = n + 1
      /\ \A k \in 1..(n + 1) :
            StreamSent'[k] = [good |-> sent'[k] # "bad", bytes |-> Bytes(sent'[k], k)]
    <2>1. (Types /\ Len(sent) <= MaxFrames)'
        BY <1>1, <1>3
    <2>2. (/\ StreamSent \in Seq(StreamFrames)
           /\ Len(StreamSent) = Len(sent)
           /\ \A k \in 1..Len(sent) :
                 StreamSent[k] = [good |-> sent[k] # "bad", bytes |-> Bytes(sent[k], k)])'
        BY <2>1, SentFacts, PTL
    <2> QED
        BY <1>3, <2>2
<1> HIDE DEF g
<1>7. /\ Append(StreamSent, g) \in Seq(StreamFrames) /\ Len(Append(StreamSent, g)) = n + 1
      /\ Append(StreamSent, g)[n + 1] = g
      /\ \A k \in 1..n : Append(StreamSent, g)[k] = StreamSent[k]
    BY <1>4, <1>5, AppendProperties
<1>8. \A k \in 1..(n + 1) : StreamSent'[k] = Append(StreamSent, g)[k]
    <2>1. StreamSent'[n + 1] = g
        BY <1>3, <1>6 DEF g
    <2>2. \A k \in 1..n : StreamSent'[k] = StreamSent[k]
        BY <1>3, <1>5, <1>6
    <2> QED
        BY <1>7, <2>1, <2>2
<1>9. StreamSent' = Append(StreamSent, g)
    BY <1>6, <1>7, <1>8, SeqEqual
<1>10. UNCHANGED <<delivered, StreamOpen>>
    BY DEF PeerSends, StreamOpen
<1>11. \E h \in StreamFrames : StreamSent' = Append(StreamSent, h)
    BY <1>4, <1>9
<1> QED
    BY <1>10, <1>11 DEF Stream!Send

LEMMA DeliverImplemented ==
    ASSUME Inv, ParseFrame
    PROVE  Stream!Deliver
<1>1. Types /\ StreamInv /\ CallInv
    BY DEF Inv
<1>2. buf # <<>> /\ TotalBytes \in Nat /\ TotalBytes >= 1 /\ TotalBytes <= Len(buf)
    BY <1>1, ReadyFacts
<1>3. PICK start : Laid(start)
    BY <1>1 DEF StreamInv
<1>4. PICK d \in Nat, size \in Nat : d = Len(delivered) /\ size = TotalBytes
    <2>1. Len(delivered) \in Nat
        BY <1>1 DEF Types
    <2> QED
        BY <1>2, <2>1
<1>5. /\ d + 1 \in Waiting /\ d + 1 \in 1..MaxFrames /\ d + 1 \in 1..Len(sent)
      /\ d < Len(sent) /\ sent[d + 1] \in Frames /\ size = Total(sent[d + 1])
    BY <1>1, <1>2, <1>4, HeadFacts DEF Waiting, Types
<1>6. sent[d + 1] # "bad"
    BY <1>1, <1>2, <1>4, HeadFacts DEF ParseFrame
<1>7. SubSeq(buf, 1, size) = Bytes(sent[d + 1], d + 1)
    <2>1. /\ SubSeq(buf, 1, size) \in Seq(Byte) /\ Len(SubSeq(buf, 1, size)) = size
          /\ \A j \in 1..size : SubSeq(buf, 1, size)[j] = buf[j]
        BY <1>1, <1>2, <1>4, ParseFacts
    <2>2. /\ Bytes(sent[d + 1], d + 1) \in Seq(Byte)
          /\ Len(Bytes(sent[d + 1], d + 1)) = size
          /\ \A j \in 1..size :
                Bytes(sent[d + 1], d + 1)[j] = [frame |-> d + 1, off |-> j - 1]
        BY <1>5, BytesFacts
    <2>3. ASSUME NEW j \in 1..size PROVE buf[j] = [frame |-> d + 1, off |-> j - 1]
        <3>1. start[d + 1] = 1
            BY <1>3, <1>4 DEF Laid, Placed
        <3>2. ByteAt(start[d + 1] + j - 1) = [frame |-> d + 1, off |-> j - 1]
            BY <1>3, <1>5 DEF Laid
        <3>3. start[d + 1] + j - 1 = j /\ j <= Len(buf)
            BY <1>1, <1>2, <1>4, <3>1 DEF Types
        <3> QED
            BY <3>2, <3>3 DEF ByteAt
    <2>4. ASSUME NEW j \in 1..size
          PROVE  SubSeq(buf, 1, size)[j] = Bytes(sent[d + 1], d + 1)[j]
        BY <2>1, <2>2, <2>3
    <2> HIDE DEF TotalBytes
    <2> QED
        BY <2>1, <2>2, <2>4, SeqEqual
<1>8. /\ Len(StreamSent) = Len(sent)
      /\ StreamSent[d + 1] = [good |-> TRUE, bytes |-> Bytes(sent[d + 1], d + 1)]
    <2>1. (sent[d + 1] # "bad") = TRUE
        BY <1>6
    <2>2. /\ Len(StreamSent) = Len(sent)
          /\ StreamSent[d + 1] = [good |-> sent[d + 1] # "bad",
                             bytes |-> Bytes(sent[d + 1], d + 1)]
        BY <1>1, <1>5, SentFacts DEF StreamInv
    <2> QED
        BY <2>1, <2>2
<1>9. delivered' = Append(delivered, StreamSent[d + 1].bytes)
    <2>1. StreamSent[d + 1].bytes = SubSeq(buf, 1, size)
        BY <1>7, <1>8
    <2>2. delivered' = Append(delivered, SubSeq(buf, 1, size))
        BY <1>4 DEF ParseFrame
    <2> QED
        BY <2>1, <2>2
<1>10. StreamOpen = TRUE /\ StreamOpen' = TRUE /\ StreamSent' = StreamSent
    BY <1>1 DEF ParseFrame, CallInv, StreamOpen, StreamSent, Types
<1> QED
    BY <1>4, <1>5, <1>8, <1>9, <1>10 DEF Stream!Deliver

\* The other steps cut the connection, or are of no concern to the stream.
LEMMA QuietImplemented ==
    ASSUME Inv, Quiet \/ UNCHANGED vars \/ (\E n \in 0..Unit : ReadUnit(n))
    PROVE  Stream!Cut \/ UNCHANGED Stream!streamVars
<1>1. StreamSent' = StreamSent /\ delivered' = delivered
    BY QuietFacts DEF ReadUnit, StreamSent
<1>2. /\ CLOSED \in BOOLEAN /\ is_detached \in BOOLEAN /\ open \in BOOLEAN /\ CallInv
    BY DEF Inv, Types
<1>3. (StreamOpen = TRUE /\ StreamOpen' = FALSE) \/ StreamOpen' = StreamOpen
    BY <1>2 DEF Quiet, OnMessage, ReadUnit, ReadFull, ParseInvalid, ParseWait, HandOver,
                Close, vars, CallInv, StreamOpen
<1> QED
    BY <1>1, <1>3 DEF Stream!Cut, Stream!streamVars

\* Frames reach the handlers whole, once and in the order they were sent, up to
\* the first that is none, over any reads, splits, wraps and the move of the
\* connection to a worker: every step of netmodel_decode is one of the stream.
THEOREM ImplementsStreamSteps ==
    Spec => /\ Stream!StreamInit
            /\ [][Stream!Send \/ Stream!Deliver \/ Stream!Cut]_(Stream!streamVars)
<1>1. Init => Stream!StreamInit
    <2> SUFFICES ASSUME Init PROVE Stream!StreamInit
        OBVIOUS
    <2>1. StreamSent = <<>>
        <3>1. Types /\ Len(sent) = 0 /\ Len(sent) <= MaxFrames
            BY InvInit, Sizes DEF Inv, Init
        <3>2. StreamSent \in Seq(StreamFrames) /\ Len(StreamSent) = 0
            BY <3>1, SentFacts
        <3> QED
            BY <3>2, EmptySeq
    <2>2. StreamOpen = TRUE /\ delivered = <<>>
        BY DEF Init, StreamOpen
    <2> QED
        BY <2>1, <2>2 DEF Stream!StreamInit
<1>2. Inv /\ [Next]_vars =>
          [Stream!Send \/ Stream!Deliver \/ Stream!Cut]_(Stream!streamVars)
    <2> SUFFICES ASSUME Inv, [Next]_vars
                 PROVE  \/ Stream!Send \/ Stream!Deliver \/ Stream!Cut
                        \/ UNCHANGED Stream!streamVars
        OBVIOUS
    <2>1. ASSUME NEW f \in Frames, PeerSends(f) PROVE Stream!Send
        BY <2>1, SendImplemented
    <2>2. CASE ParseFrame
        BY <2>2, DeliverImplemented
    <2>3. CASE Quiet \/ UNCHANGED vars \/ (\E n \in 0..Unit : ReadUnit(n))
        BY <2>3, QuietImplemented
    <2> QED
        BY <2>1, <2>2, <2>3 DEF Next, Decode, Quiet
<1> QED
    BY <1>1, <1>2, Invariant, PTL DEF Spec

=============================================================================
