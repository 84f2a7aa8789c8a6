---------------------------- MODULE FrameDecoder ----------------------------
(***************************************************************************)
(* netmodel_decode (src/netmodel/net_model_common.c) on one connection:    *)
(* bytes are read into a ring buffer in units of RECV_UNIT_SIZE until a    *)
(* read comes up short, then the whole frames in the buffer are handed to  *)
(* the message handler one by one.                                         *)
(*                                                                         *)
(* Every program of the benchmark reads every connection this way.  In the *)
(* servers the first loop to do so is the listener's: the login handler    *)
(* marks the context closed while the parse loop goes on, and the context  *)
(* moves to a worker's loop with its buffer (on_listen_close).             *)
(*                                                                         *)
(* A byte is known by its frame and its place in it.  A read returns any   *)
(* number of bytes up to a unit, as TCP delivers a frame in any pieces:    *)
(* fewer than a unit are what had arrived by then.  Sockets do not block   *)
(* (connect_upstream sets this).  The ring buffer belongs to the library   *)
(* and is modelled from its use: writer_fc asks for a contiguous unit and  *)
(* starts over at the front of the memory when the tail is too short, so   *)
(* that a frame may be split between the two ("discontinuous memory").     *)
(***************************************************************************)
EXTENDS Naturals, Sequences

CONSTANTS
    Hdr,          \* sizeof(msg_hdr_t), 16 in the code
    Unit,         \* RECV_UNIT_SIZE, 4096 in the code
    Capacity,     \* size of a bytes buffer, 4 MiB in the code
    PayloadLen,   \* the payload length of each kind of message
    MaxFrames     \* bound on the frames the peer sends

\* What the peer sends: frames with the magic word, some of them logins, or
\* bytes that start with something else.
Frames == {"login", "order", "bad"}

ASSUME SizesAssumption ==
    /\ Hdr \in Nat \ {0}
    /\ Unit \in Nat \ {0}
    /\ Capacity \in Nat
    /\ PayloadLen \in [Frames -> Nat]
    /\ MaxFrames \in Nat

Total(f) == Hdr + PayloadLen[f]

VARIABLES
    sent,       \* the frames the peer has sent
    wire,       \* their bytes that have not been read yet
    buf,        \* the bytes in the buffer, oldest first
    r, w, t,    \* its read, write and truncate positions
    pc,         \* "idle": in the event loop; "reading" or "parsing" in decode
    CLOSED,     \* MUGGLE_EV_CTX_FLAG_CLOSED is set
    is_detached,\* the login handler has run and the context has not moved yet
    with_worker,\* it has moved to a worker's loop
    open,       \* the connection has not been closed
    delivered,  \* the bytes of each frame the message handler was called with
    batch       \* bytes read by this call of netmodel_decode

ringVars == <<r, w, t>>
vars == <<sent, wire, buf, r, w, t, pc, CLOSED, is_detached, with_worker, open,
          delivered, batch>>

Byte == [frame : 1..MaxFrames, off : Nat]

Init ==
    /\ sent = <<>>
    /\ wire = <<>>
    /\ buf = <<>>
    /\ r = 0 /\ w = 0 /\ t = Capacity
    /\ pc = "idle"
    /\ CLOSED = FALSE
    /\ is_detached = FALSE
    /\ with_worker = FALSE
    /\ open = TRUE
    /\ delivered = <<>>
    /\ batch = 0

-----------------------------------------------------------------------------
(* The ring buffer (external).  One byte always stays free, so that a full  *)
(* buffer and an empty one differ.                                          *)

ContiguousWritable ==
    IF w < r THEN r - w - 1
    ELSE IF r = 0 THEN (IF w < Capacity THEN Capacity - w - 1 ELSE 0)
    ELSE Capacity - w

JumpWritable == IF w < r \/ r = 0 THEN 0 ELSE r - 1

\* muggle_bytes_buffer_writer_fc finds room for n contiguous bytes.
HasRoom(n) == ContiguousWritable >= n \/ JumpWritable >= n

\* muggle_bytes_buffer_writer_move by n, after writer_fc has found a unit; not
\* called when nothing was read.
WriterMove(n) ==
    IF n = 0 THEN UNCHANGED ringVars
    ELSE IF ContiguousWritable >= Unit
    THEN w' = w + n /\ UNCHANGED <<r, t>>
    ELSE /\ w' = n
         /\ t' = w
         /\ r' = IF r = w THEN 0 ELSE r

\* muggle_bytes_buffer_reader_move, and the read of a split frame.
ReaderMove(n) ==
    /\ r' = IF w < r /\ n >= t - r THEN n - (t - r) ELSE r + n
    /\ UNCHANGED <<w, t>>

-----------------------------------------------------------------------------
(* Helpers.  A definition named Fault_... is a seeded fault: a plausible    *)
(* slip in the definition that follows it.  Nothing uses it.                *)

\* f as the k-th frame of the connection.
Bytes(f, k) == [j \in 1..Total(f) |-> [frame |-> k, off |-> j - 1]]

\* muggle_bytes_buffer_fetch of a header succeeds.
HasHeader == Len(buf) >= Hdr

\* The header the next bytes would be taken for starts with the magic word.
MagicOk == Head(buf).off = 0 /\ sent[Head(buf).frame] # "bad"

\* netmodel_decode: total_bytes, from the header at the front.
TotalBytes == Total(sent[Head(buf).frame])

\* netmodel_decode: readable >= total_bytes.
FrameReady == Len(buf) >= TotalBytes

\* netmodel_read_bytes: the read came up short.
Short(n) == n < Unit

Fault_NextPc == "idle"         \* one frame for each call

\* netmodel_decode: after a frame the parse loop goes on, whatever the handler
\* has done to the context.
NextPc == "parsing"

Fault_KeptBuf == <<>>          \* the worker starts with a new buffer

\* on_listen_close: the buffer goes along.
KeptBuf == buf

-----------------------------------------------------------------------------
\* The peer sends a frame, or what is none.
PeerSends(f) ==
    /\ Len(sent) < MaxFrames
    /\ sent' = Append(sent, f)
    /\ wire' = wire \o Bytes(f, Len(sent) + 1)
    /\ UNCHANGED <<buf, ringVars, pc, CLOSED, is_detached, with_worker, open, delivered,
                   batch>>

\* The loop finds the socket readable and calls on_message.
OnMessage ==
    /\ open /\ ~CLOSED
    /\ pc = "idle"
    /\ wire # <<>>
    /\ pc' = "reading"
    /\ batch' = 0
    /\ UNCHANGED <<sent, wire, buf, ringVars, CLOSED, is_detached, with_worker, open,
                   delivered>>

\* netmodel_read_bytes: one turn of the loop reads n bytes.  The first read of a
\* call finds some, the socket was readable; a later one may find that none has
\* arrived since.
ReadUnit(n) ==
    /\ pc = "reading"
    /\ HasRoom(Unit)
    /\ n <= Len(wire)
    /\ n = 0 => batch > 0
    /\ buf' = buf \o SubSeq(wire, 1, n)
    /\ wire' = SubSeq(wire, n + 1, Len(wire))
    /\ WriterMove(n)
    /\ batch' = batch + n
    /\ pc' = IF Short(n) THEN "parsing" ELSE "reading"
    /\ UNCHANGED <<sent, CLOSED, is_detached, with_worker, open, delivered>>

\* netmodel_read_bytes: "bytes buffer full".  What is in it is not parsed.
ReadFull ==
    /\ pc = "reading"
    /\ ~HasRoom(Unit)
    /\ CLOSED' = TRUE
    /\ pc' = "idle"
    /\ UNCHANGED <<sent, wire, buf, ringVars, is_detached, with_worker, open, delivered,
                   batch>>

\* netmodel_decode: a whole frame goes to the handler.  One that lies in one
\* piece is read in place and removed after the call, a split one is copied out
\* first.  The listener's handler detaches at a login (listen_handle_message), a
\* worker's handler ignores it.
ParseFrame ==
    /\ pc = "parsing"
    /\ HasHeader /\ MagicOk /\ FrameReady
    /\ delivered' = Append(delivered, SubSeq(buf, 1, TotalBytes))
    /\ LET detaches == sent[Head(buf).frame] = "login" /\ ~with_worker IN
       /\ CLOSED' = (CLOSED \/ detaches)
       /\ is_detached' = (is_detached \/ detaches)
    /\ buf' = SubSeq(buf, TotalBytes + 1, Len(buf))
    /\ ReaderMove(TotalBytes)
    /\ pc' = NextPc
    /\ UNCHANGED <<sent, wire, with_worker, open, batch>>

\* netmodel_decode: "invalid magic word".
ParseInvalid ==
    /\ pc = "parsing"
    /\ HasHeader /\ ~MagicOk
    /\ CLOSED' = TRUE
    /\ pc' = "idle"
    /\ UNCHANGED <<sent, wire, buf, ringVars, is_detached, with_worker, open, delivered,
                   batch>>

\* netmodel_decode: not a whole frame yet.
ParseWait ==
    /\ pc = "parsing"
    /\ HasHeader => MagicOk /\ ~FrameReady
    /\ pc' = "idle"
    /\ UNCHANGED <<sent, wire, buf, ringVars, CLOSED, is_detached, with_worker, open,
                   delivered, batch>>

\* on_listen_close of a context that has logged in: its flags are cleared, the
\* next loop to read it is a worker's, which hands it over to nobody.
HandOver ==
    /\ open /\ CLOSED /\ is_detached
    /\ pc = "idle"
    /\ CLOSED' = FALSE
    /\ is_detached' = FALSE
    /\ with_worker' = TRUE
    /\ buf' = KeptBuf
    /\ UNCHANGED <<sent, wire, ringVars, pc, open, delivered, batch>>

\* The loop closes a context that is marked closed and goes nowhere.
Close ==
    /\ open /\ CLOSED /\ ~is_detached
    /\ pc = "idle"
    /\ open' = FALSE
    /\ UNCHANGED <<sent, wire, buf, ringVars, pc, CLOSED, is_detached, with_worker,
                   delivered, batch>>

\* A step of netmodel_decode.
Decode ==
    \/ \E n \in 0..Unit : ReadUnit(n)
    \/ ReadFull
    \/ ParseFrame
    \/ ParseInvalid
    \/ ParseWait

Next ==
    \/ \E f \in Frames : PeerSends(f)
    \/ OnMessage
    \/ Decode
    \/ HandOver
    \/ Close

\* The loops run on; bytes on the wire arrive in the end.
Fairness ==
    /\ WF_vars(OnMessage)
    /\ WF_vars(Decode)
    /\ WF_vars(HandOver \/ Close)

Spec == Init /\ [][Next]_vars /\ Fairness

-----------------------------------------------------------------------------
(* Properties.                                                              *)

\* Among the types: the positions of the ring count the bytes it holds, with
\* the wrap and the jump over the end of the memory.
TypeOK ==
    /\ sent \in Seq(Frames)
    /\ wire \in Seq(Byte)
    /\ buf \in Seq(Byte)
    /\ {r, w, t} \subseteq 0..Capacity
    /\ pc \in {"idle", "reading", "parsing"}
    /\ {CLOSED, is_detached, with_worker, open} \subseteq BOOLEAN
    /\ delivered \in Seq(Seq(Byte))
    /\ batch \in Nat
    /\ Len(buf) = IF w < r THEN t - r + w ELSE w - r

\* A peer that sends frames is cut off for a full buffer only when one call of
\* decode has read nearly as much as the buffer holds, less two units and one
\* frame: what earlier calls have read, or the wrap has wasted, never adds up.
CutOnlyByLargeBatch ==
    \A f \in Frames :
        /\ pc = "reading" /\ ~HasRoom(Unit)
        /\ MagicOk
        /\ \A g \in Frames : Total(g) <= Total(f)
        => batch + 2 * Unit + Total(f) > Capacity

\* The frames as FrameStream has them, and what has not been cut.
StreamFrames ==
    {[good |-> f # "bad", bytes |-> Bytes(f, k)] : f \in Frames, k \in 1..MaxFrames}
StreamSent ==
    [k \in DOMAIN sent |-> [good |-> sent[k] # "bad", bytes |-> Bytes(sent[k], k)]]
StreamOpen == open /\ (CLOSED => is_detached)

Stream == INSTANCE FrameStream WITH
    Frames <- StreamFrames, sent <- StreamSent, open <- StreamOpen

\* The decoder keeps the promise of FrameStream: frames reach the handlers
\* whole, once, in order, across reads, wraps and the move to a worker; and all
\* of them in the end, unless the connection is cut.
ImplementsStream == Stream!StreamSpec

=============================================================================
