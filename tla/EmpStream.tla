----------------------------- MODULE EmpStream ------------------------------
(***************************************************************************)
(* The buffered channel emp runs on (ssl/EmpWrapper.inl with SSLBuffer,    *)
(* ssl/SSLBuffer.inl), one direction of it: send_data_internal only        *)
(* appends to the write buffer, flush puts the buffer on the wire as one   *)
(* frame behind its length, and recv_data_internal takes what is left of   *)
(* the last frame and then reads ONE more frame.                           *)
(*                                                                         *)
(* The protocol that runs on the channel is a plan over N bytes, numbered  *)
(* by their place in the stream: it flushes after the bytes in cuts, it    *)
(* waits for the peer's answer after those in turns, and the receive calls *)
(* of the peer end after the bytes in ends.                                *)
(***************************************************************************)
EXTENDS Integers, Sequences

CONSTANTS
    N,         \* bytes of the plan
    Aligned,   \* does a receive call end in every frame?
    Faults     \* may the connection break?

ASSUME EmpStreamAssumption == N \in Nat \ {0} /\ Aligned \in BOOLEAN /\ Faults \in BOOLEAN

VARIABLES
    cuts, turns, ends,       \* the plan
    sent, flushed,           \* bytes sent; the write buffer holds the rest
    wire,                    \* frames under way: [start, len]
    base, lower, upper,      \* read_buffer: stream position of its first byte, heads
    taken, chunk,            \* bytes received; what the last receive returned
    failed, up               \* io_failed of the receiver; is the connection alive?

plan == <<cuts, turns, ends>>
vars == <<plan, sent, flushed, wire, base, lower, upper, taken, chunk, failed, up>>

\* What a receive returns: the bytes from .. to of the stream, nothing usable
\* (zeros, or a buffer that io_failed left part-filled), or bytes from past the
\* end of the read buffer.
NoData  == [from |-> 0, to |-> 0]
Garbage == [from |-> 0, to |-> N + 1]

\* Mutant: the explicit flush after Bob's output is missing.
FlushForgotten == TRUE

\* emp flushes before it waits for the peer, and so does exec_small_internal
\* after the output it forwards ("Explicitly flush to prevent hangs"): SSLBuffer
\* never flushes by itself.
FlushesBeforeAnswer == turns \subseteq cuts

\* No receive call needs more than what is left and one frame: in every frame
\* at least one call ends.
AFrameSuffices ==
    \A c \in cuts \cup {0}, d \in cuts : c < d => \E e \in ends : c < e /\ e <= d

Init ==
    /\ cuts \in SUBSET (1 .. N) /\ N \in cuts
    /\ ends \in SUBSET (1 .. N) /\ N \in ends
    /\ turns \in SUBSET (1 .. N - 1)
    /\ FlushesBeforeAnswer /\ turns \subseteq ends
    /\ Aligned => AFrameSuffices
    /\ sent = 0 /\ flushed = 0 /\ wire = <<>>
    /\ base = 0 /\ lower = 0 /\ upper = 0
    /\ taken = 0 /\ chunk = NoData
    /\ failed = FALSE /\ up = TRUE

-----------------------------------------------------------------------------
\* send_data_internal: SSLBuffer holds its flush, so the data is only appended.
\* The sender goes on once the answer to what it sent before has come, or its
\* own receive has failed.
send_data_internal ==
    /\ sent < N
    /\ sent \in cuts => flushed = sent
    /\ sent \in turns => (taken >= sent \/ ~up)
    /\ sent' = sent + 1
    /\ UNCHANGED <<plan, flushed, wire, base, lower, upper, taken, chunk, failed, up>>

\* flush: one frame, its length in front; an empty buffer is not sent, and on a
\* failed connection the frame is dropped.
flush ==
    /\ sent \in cuts /\ flushed < sent
    /\ wire' = IF up THEN Append(wire, [start |-> flushed, len |-> sent - flushed])
                     ELSE wire
    /\ flushed' = sent
    /\ UNCHANGED <<plan, sent, base, lower, upper, taken, chunk, failed, up>>

\* The next receive call asks for the bytes up to the next of its ends.
NextRecv(e) == ~failed /\ e > taken /\ \A d \in ends : d > taken => e <= d

\* read_bytes_size() >= nbyte; the difference of the heads is unsigned, so
\* heads that have crossed leave "enough" for anything.
Enough(nbyte) == lower > upper \/ upper - lower >= nbyte

\* The rest of the last frame is enough.  read_bytes rewinds both heads when
\* they meet.
TakeBuffered(nbyte) ==
    /\ Enough(nbyte)
    /\ taken' = taken + nbyte
    /\ chunk' = IF lower + nbyte <= upper
                THEN [from |-> base + lower, to |-> base + lower + nbyte]
                ELSE Garbage
    /\ IF lower + nbyte = upper
       THEN base' = base + upper /\ lower' = 0 /\ upper' = 0
       ELSE lower' = lower + nbyte /\ UNCHANGED <<base, upper>>
    /\ UNCHANGED <<plan, sent, flushed, wire, failed, up>>

LeftoverDropped == 0

\* nr_read_bytes, taken out of the buffer before the next frame is read.
Leftover == upper - lower

\* Otherwise: what is left, and one more frame.  A frame shorter than what is
\* still missing is read past its end.
TakeFrame(nbyte) ==
    /\ ~Enough(nbyte) /\ wire # <<>>
    /\ LET f == Head(wire)
           to_read == nbyte - Leftover
       IN /\ chunk' = IF to_read <= f.len
                      THEN [from |-> f.start - Leftover, to |-> f.start + to_read]
                      ELSE Garbage
          /\ IF to_read = f.len
             THEN base' = f.start + f.len /\ lower' = 0 /\ upper' = 0
             ELSE base' = f.start /\ lower' = to_read /\ upper' = f.len
    /\ wire' = Tail(wire)
    /\ taken' = taken + nbyte
    /\ UNCHANGED <<plan, sent, flushed, failed, up>>

RecvFailsSpins(nbyte) == ~up /\ ~Enough(nbyte) /\ UNCHANGED vars

\* The read of the header or of the payload fails: io_failed is latched, and
\* every receive that follows returns zeros.
RecvFails(nbyte) ==
    /\ ~up /\ ~Enough(nbyte)
    /\ failed' = TRUE /\ chunk' = NoData
    /\ UNCHANGED <<plan, sent, flushed, wire, base, lower, upper, taken, up>>

recv_data_internal ==
    \E e \in ends :
        /\ NextRecv(e)
        /\ TakeBuffered(e - taken) \/ TakeFrame(e - taken) \/ RecvFails(e - taken)

\* The connection breaks and takes the frames that have not arrived with it.
Break ==
    /\ Faults /\ up /\ up' = FALSE
    /\ \E k \in 0 .. Len(wire) : wire' = SubSeq(wire, 1, k)
    /\ UNCHANGED <<plan, sent, flushed, base, lower, upper, taken, chunk, failed>>

Done == (taken >= N \/ failed) /\ UNCHANGED vars

Progress == send_data_internal \/ flush \/ recv_data_internal

Next == Progress \/ Break \/ Done

Spec == Init /\ [][Next]_vars /\ WF_vars(Progress)
-----------------------------------------------------------------------------
\* The state of the buffers.
TypeOK ==
    /\ cuts \subseteq 1 .. N /\ ends \subseteq 1 .. N /\ turns \subseteq 1 .. N
    /\ sent \in 0 .. N /\ flushed \in 0 .. N /\ taken \in 0 .. N
    /\ wire \in Seq([start : 0 .. N, len : 1 .. N])
    /\ base \in 0 .. N /\ lower \in 0 .. N /\ upper \in 0 .. N
    /\ chunk \in [from : 0 .. N, to : 0 .. N + 1]
    /\ failed \in BOOLEAN /\ up \in BOOLEAN

\* What emp receives is what the peer sent, byte for byte and in order, until
\* has_io_failed, and never more than was sent (recv_data_internal over the
\* frames of flush and the heads of the read buffer).
Stream == INSTANCE ByteStream
StreamSpec == Stream!Spec

\* A run of the protocol ends: every receive returns the data or, when the
\* connection broke, zeros (recv_data_internal, Util::process_data).
Returns == <>(taken >= N \/ failed)
=============================================================================
