---------------------------- MODULE MCEmp_proofs ----------------------------
(***************************************************************************)
(* The buffered channel, and the circuits above it.  When a receive call   *)
(* ends in every frame, the channel is a byte stream: EmpStream implements *)
(* ByteStream, for every plan of every length, with or without a           *)
(* connection that breaks.  After that the theorems of Circuits_proofs for *)
(* the composition MCEmp: whichever part is at work, its inductive         *)
(* invariant holds, and the variables of the other part keep theirs.       *)
(***************************************************************************)
EXTENDS MCEmp, TLAPS

\* The frames under way follow one another, each starts where the one before
\* it ends and ends with a flush; the first starts where the read buffer ends.
Frames ==
    /\ wire # <<>> => wire[1].start = base + upper
    /\ \A i \in 1 .. Len(wire) :
        /\ wire[i].start + wire[i].len \in cuts
        /\ wire[i].start + wire[i].len <= flushed
        /\ i < Len(wire) => wire[i + 1].start = wire[i].start + wire[i].len
    /\ up => (IF wire = <<>> THEN base + upper = flushed
              ELSE wire[Len(wire)].start + wire[Len(wire)].len = flushed)

\* The heads of the read buffer point at the next byte of the stream.
Heads ==
    /\ lower <= upper
    /\ base + lower = taken
    /\ base + upper \in cuts \cup {0}
    /\ base + upper <= flushed

Positions ==
    /\ flushed <= sent
    /\ flushed \in cuts \cup {0}
    /\ AFrameSuffices

InOrder == TypeOK /\ Frames /\ Heads /\ Positions

-----------------------------------------------------------------------------
\* Facts about sequences.
LEMMA HeadTail ==
    ASSUME NEW S, NEW s \in Seq(S), s # <<>>
    PROVE  /\ Len(s) \in Nat \ {0} /\ 1 \in 1 .. Len(s)
           /\ Head(s) = s[1] /\ s[1] \in S
           /\ Tail(s) \in Seq(S) /\ Len(Tail(s)) = Len(s) - 1
           /\ \A i \in 1 .. Len(s) - 1 : Tail(s)[i] = s[i + 1]
  OBVIOUS

LEMMA ElementOf ==
    ASSUME NEW S, NEW s \in Seq(S), NEW i \in 1 .. Len(s) PROVE s[i] \in S
  OBVIOUS

LEMMA EmptySeqOf == ASSUME NEW S PROVE <<>> \in Seq(S)
  OBVIOUS

LEMMA NonEmptySeq ==
    ASSUME NEW S, NEW s \in Seq(S), Len(s) > 0 PROVE s # <<>>
  OBVIOUS

\* The frame at the head of the wire holds what the next receive misses.
LEMMA HeadSuffices ==
    ASSUME InOrder, NEW e \in ends, NextRecv(e), wire # <<>>, ~Enough(e - taken)
    PROVE  /\ Head(wire) = wire[1]
           /\ Head(wire).start = base + upper
           /\ Head(wire).len \in 1 .. N
           /\ Head(wire).start + Head(wire).len \in cuts
           /\ Head(wire).start + Head(wire).len <= flushed
           /\ base + upper < e
           /\ e <= Head(wire).start + Head(wire).len
  <1>1. /\ Head(wire) = wire[1] /\ 1 \in 1 .. Len(wire)
        /\ wire[1] \in [start : 0 .. N, len : 1 .. N]
    BY HeadTail DEF InOrder, TypeOK
  <1>2. /\ wire[1].start = base + upper
        /\ wire[1].start + wire[1].len \in cuts
        /\ wire[1].start + wire[1].len <= flushed
        /\ wire[1].len \in 1 .. N /\ wire[1].start \in 0 .. N
    BY <1>1 DEF InOrder, Frames
  <1>3. e \in Nat /\ N \in Nat /\ taken \in Nat /\ base \in Nat /\ lower \in Nat /\ upper \in Nat
    BY EmpStreamAssumption DEF InOrder, TypeOK
  <1>4. base + upper < e
    BY <1>3 DEF InOrder, Heads, Enough
  <1>5. base + upper \in cuts \cup {0} /\ base + upper < wire[1].start + wire[1].len
    BY <1>2, <1>3 DEF InOrder, Heads
  <1>6. PICK d \in ends : base + upper < d /\ d <= wire[1].start + wire[1].len
    BY <1>2, <1>5 DEF InOrder, Positions, AFrameSuffices
  <1>7. d \in Nat /\ d > taken
    BY <1>3, <1>6 DEF InOrder, TypeOK, Heads
  <1>8. e <= d
    BY <1>7 DEF NextRecv
  <1> QED BY <1>1, <1>2, <1>3, <1>4, <1>6, <1>7, <1>8

LEMMA InitInOrder == ASSUME Aligned, Init PROVE InOrder
  <1>1. wire \in Seq([start : 0 .. N, len : 1 .. N])
    BY EmptySeqOf DEF Init
  <1>2. chunk \in [from : 0 .. N, to : 0 .. N + 1]
    BY EmpStreamAssumption DEF Init, NoData
  <1>3. TypeOK
    <2>1. 0 \in 0 .. N /\ TRUE \in BOOLEAN /\ FALSE \in BOOLEAN
      BY EmpStreamAssumption
    <2> QED BY <1>1, <1>2, <2>1 DEF Init, TypeOK
  <1>4. Frames /\ Heads /\ Positions
    BY EmpStreamAssumption DEF Init, Frames, Heads, Positions
  <1> QED BY <1>3, <1>4 DEF InOrder

\* A step of the sender keeps the frames in order.
LEMMA SendInOrder == ASSUME InOrder, send_data_internal PROVE InOrder'
  <1> USE DEF send_data_internal, plan
  <1>1. TypeOK'
    BY EmpStreamAssumption DEF InOrder, TypeOK
  <1>2. Frames' /\ Heads'
    BY DEF InOrder, Frames, Heads
  <1>3. Positions'
    BY EmpStreamAssumption DEF InOrder, TypeOK, Positions, AFrameSuffices
  <1> QED BY <1>1, <1>2, <1>3 DEF InOrder

LEMMA FlushInOrder == ASSUME InOrder, flush PROVE InOrder'
  <1> DEFINE f == [start |-> flushed, len |-> sent - flushed]
             R == [start : 0 .. N, len : 1 .. N]
  <1>1. /\ wire \in Seq(R) /\ Len(wire) \in Nat
        /\ N \in Nat /\ sent \in 0 .. N /\ flushed \in 0 .. N /\ sent \in cuts
        /\ base \in Nat /\ upper \in Nat
        /\ flushed < sent /\ flushed' = sent
    BY EmpStreamAssumption DEF InOrder, TypeOK, flush
  <1>2. f \in R /\ f.start = flushed /\ f.start + f.len = sent
    BY <1>1
  <1>3. CASE ~up
    <2>1. UNCHANGED <<cuts, turns, ends, sent, wire, base, lower, upper, taken, chunk, failed, up>>
      BY <1>3 DEF flush, plan
    <2>2. TypeOK'
      BY <1>1, <2>1 DEF InOrder, TypeOK
    <2>3. Frames'
      <3> SUFFICES ASSUME NEW i \in 1 .. Len(wire)
                   PROVE  wire[i].start + wire[i].len <= sent
        BY <1>3, <2>1, <1>1 DEF InOrder, Frames
      <3>1. wire[i] \in R
        BY <1>1, ElementOf
      <3>2. wire[i].start \in Nat /\ wire[i].len \in Nat
        BY <3>1, <1>1
      <3> QED BY <1>1, <3>2, SMTT(30) DEF InOrder, Frames
    <2>4. Heads'
      BY <2>1, <1>1 DEF InOrder, Heads
    <2>5. Positions'
      BY <2>1, <1>1 DEF InOrder, Positions, AFrameSuffices
    <2> QED BY <2>2, <2>3, <2>4, <2>5 DEF InOrder
  <1>4. CASE up
    <2>1. /\ UNCHANGED <<cuts, turns, ends, sent, base, lower, upper, taken, chunk, failed, up>>
          /\ wire' = Append(wire, f)
      BY <1>4 DEF flush, plan
    <2>2. /\ wire' \in Seq(R) /\ Len(wire') = Len(wire) + 1
          /\ \A i \in 1 .. Len(wire) : wire'[i] = wire[i]
          /\ wire'[Len(wire) + 1] = f
      BY <1>1, <1>2, <2>1
    <2>3. TypeOK'
      BY <1>1, <2>1, <2>2 DEF InOrder, TypeOK
    <2>4. Frames'
      <3>1. wire' # <<>> /\ wire'[1].start = base + upper
        <4>1. CASE wire = <<>>
          <5>1. base + upper = flushed
            BY <4>1, <1>4 DEF InOrder, Frames
          <5>2. Len(wire) = 0
            BY <4>1
          <5>3. Len(wire') = 1 /\ wire'[1] = f
            BY <5>2, <2>2
          <5>4. wire' # <<>>
            BY <5>3, <2>2, NonEmptySeq
          <5> QED BY <5>1, <5>3, <5>4, <1>2
        <4>2. CASE wire # <<>>
          <5>1. Len(wire) \in Nat \ {0} /\ wire[1].start = base + upper
            BY <4>2, <1>1, HeadTail DEF InOrder, Frames
          <5>2. wire' # <<>>
            BY <5>1, <2>2, NonEmptySeq
          <5> QED BY <5>1, <5>2, <2>2, SMTT(30)
        <4> QED BY <4>1, <4>2
      <3>2. ASSUME NEW i \in 1 .. Len(wire')
            PROVE  /\ wire'[i].start + wire'[i].len \in cuts
                   /\ wire'[i].start + wire'[i].len <= sent
                   /\ i < Len(wire') => wire'[i + 1].start = wire'[i].start + wire'[i].len
        <4>1. CASE i = Len(wire) + 1
          BY <4>1, <2>2, <1>2, <1>1, SMTT(30)
        <4>2. CASE i \in 1 .. Len(wire)
          <5>1. /\ wire[i] \in R
            BY <4>2, <1>1, ElementOf
          <5>2. wire[i].start \in Nat /\ wire[i].len \in Nat
            BY <5>1, <1>1
          <5>3. /\ wire[i].start + wire[i].len \in cuts
                /\ wire[i].start + wire[i].len <= flushed
                /\ i < Len(wire) => wire[i + 1].start = wire[i].start + wire[i].len
                /\ i = Len(wire) => wire[i].start + wire[i].len = flushed
            BY <4>2, <1>4, <1>1 DEF InOrder, Frames
          <5>4. wire'[i] = wire[i]
            BY <4>2, <2>2
          <5> HIDE DEF f, R
          <5>7. wire[i].start + wire[i].len <= sent
            <6>1. sent \in Nat /\ flushed \in Nat /\ flushed < sent
              BY <1>1
            <6>2. wire[i].start + wire[i].len <= flushed
              BY <5>3
            <6> QED BY <5>2, <6>1, <6>2
          <5>5. CASE i < Len(wire)
            <6>1. i + 1 \in 1 .. Len(wire)
              BY <4>2, <5>5, <1>1
            <6>2. wire'[i + 1] = wire[i + 1]
              BY <6>1, <2>2
            <6>3. wire[i + 1].start = wire[i].start + wire[i].len
              BY <5>3, <5>5
            <6> QED BY <5>3, <5>4, <5>7, <6>2, <6>3
          <5>6. CASE i = Len(wire)
            <6>1. wire'[i + 1].start = flushed
              BY <5>6, <2>2, <1>2
            <6>2. wire[i].start + wire[i].len = flushed
              BY <5>3, <5>6
            <6>3. wire[i].start + wire[i].len \in cuts
              BY <5>3
            <6> QED BY <5>4, <5>7, <6>1, <6>2, <6>3
          <5> QED BY <5>5, <5>6, <4>2, <1>1
        <4> QED BY <4>1, <4>2, <2>2, <1>1
      <3>3. wire'[Len(wire')].start + wire'[Len(wire')].len = sent
        BY <2>2, <1>2
      <3> QED BY <3>1, <3>2, <3>3, <2>1, <1>1 DEF Frames
    <2>5. Heads'
      BY <2>1, <1>1 DEF InOrder, Heads
    <2>6. Positions'
      BY <2>1, <1>1 DEF InOrder, Positions, AFrameSuffices
    <2> QED BY <2>3, <2>4, <2>5, <2>6 DEF InOrder
  <1> QED BY <1>3, <1>4 DEF InOrder, TypeOK

\* A receive keeps the read buffer in order, and is a step of the byte stream.
LEMMA BufferedInOrder ==
    ASSUME InOrder, NEW e \in ends, NextRecv(e), TakeBuffered(e - taken)
    PROVE  InOrder' /\ Stream!Take
  <1>1. /\ e \in Nat /\ N \in Nat /\ e <= N /\ taken \in Nat /\ taken < e
        /\ base \in Nat /\ lower \in Nat /\ upper \in Nat /\ sent \in Nat /\ flushed \in Nat
        /\ lower <= upper /\ base + lower = taken /\ base + upper <= flushed
        /\ flushed <= sent /\ flushed <= N
    BY EmpStreamAssumption DEF InOrder, TypeOK, Heads, Positions, NextRecv
  <1>2. /\ base + lower + (e - taken) = e
        /\ e <= base + upper /\ taken' = e
        /\ chunk' = [from |-> taken, to |-> e]
        /\ base' + upper' = base + upper /\ base' + lower' = e /\ lower' <= upper'
        /\ base' \in 0 .. N /\ lower' \in 0 .. N /\ upper' \in 0 .. N
    BY <1>1 DEF TakeBuffered, Enough
  <1>3. UNCHANGED <<cuts, turns, ends, sent, flushed, wire, failed, up>>
    BY DEF TakeBuffered, plan
  <1>4. TypeOK'
    <2>1. chunk' \in [from : 0 .. N, to : 0 .. N + 1] /\ taken' \in 0 .. N
      BY <1>1, <1>2
    <2> QED BY <1>2, <1>3, <2>1 DEF InOrder, TypeOK
  <1>5. Frames'
    BY <1>2, <1>3 DEF InOrder, Frames
  <1>6. Heads'
    BY <1>2, <1>3 DEF InOrder, Heads
  <1>7. Positions'
    BY <1>3 DEF InOrder, Positions, AFrameSuffices
  <1>8. Stream!Take
    BY <1>1, <1>2, <1>3 DEF Stream!Take, NextRecv
  <1> QED BY <1>4, <1>5, <1>6, <1>7, <1>8 DEF InOrder

LEMMA FrameInOrder ==
    ASSUME InOrder, NEW e \in ends, NextRecv(e), TakeFrame(e - taken)
    PROVE  InOrder' /\ Stream!Take
  <1> DEFINE f == Head(wire)
             R == [start : 0 .. N, len : 1 .. N]
  <1>1. wire # <<>> /\ ~Enough(e - taken) /\ wire' = Tail(wire) /\ wire \in Seq(R)
    BY DEF TakeFrame, InOrder, TypeOK
  <1>2. /\ f = wire[1] /\ f.start = base + upper /\ f.len \in 1 .. N
        /\ f.start + f.len \in cuts /\ f.start + f.len <= flushed
        /\ base + upper < e /\ e <= f.start + f.len
    BY <1>1, HeadSuffices
  <1>3. /\ e \in Nat /\ N \in Nat /\ e <= N /\ taken \in Nat /\ taken < e
        /\ base \in Nat /\ lower \in Nat /\ upper \in Nat /\ sent \in Nat /\ flushed \in Nat
        /\ lower <= upper /\ base + lower = taken
        /\ flushed <= sent /\ flushed <= N
    BY EmpStreamAssumption DEF InOrder, TypeOK, Heads, Positions, NextRecv
  <1>4. UNCHANGED <<cuts, turns, ends, sent, flushed, failed, up>>
    BY DEF TakeFrame, plan
  <1>5. /\ f.start \in Nat /\ f.len \in Nat /\ 0 < f.len
        /\ f.start - Leftover = taken
        /\ f.start + (e - taken - Leftover) = e
        /\ e - taken - Leftover <= f.len
    BY <1>2, <1>3 DEF Leftover
  <1>6. /\ chunk' = [from |-> taken, to |-> e] /\ taken' = e
        /\ base' + upper' = f.start + f.len /\ base' + lower' = e /\ lower' <= upper'
        /\ base' \in 0 .. N /\ lower' \in 0 .. N /\ upper' \in 0 .. N
    <2>1. /\ chunk' = IF e - taken - Leftover <= f.len
                      THEN [from |-> f.start - Leftover, to |-> f.start + (e - taken - Leftover)]
                      ELSE Garbage
          /\ IF e - taken - Leftover = f.len
             THEN base' = f.start + f.len /\ lower' = 0 /\ upper' = 0
             ELSE base' = f.start /\ lower' = e - taken - Leftover /\ upper' = f.len
          /\ taken' = taken + (e - taken)
      BY DEF TakeFrame
    <2> HIDE DEF f
    <2>2. chunk' = [from |-> taken, to |-> e] /\ taken' = e
      BY <2>1, <1>3, <1>5
    <2>3. Leftover \in Int /\ 0 <= e - taken - Leftover /\ e - taken - Leftover <= f.len
      BY <1>2, <1>3, <1>5 DEF Leftover
    <2>4. /\ base' + upper' = f.start + f.len /\ base' + lower' = e /\ lower' <= upper'
          /\ base' \in 0 .. N /\ lower' \in 0 .. N /\ upper' \in 0 .. N
      BY <2>1, <2>3, <1>2, <1>3, <1>5
    <2> QED BY <2>2, <2>4
  <1>7. /\ Len(wire) \in Nat \ {0} /\ wire' \in Seq(R) /\ Len(wire') = Len(wire) - 1
        /\ \A i \in 1 .. Len(wire) - 1 : wire'[i] = wire[i + 1]
    BY <1>1, HeadTail
  <1>8. TypeOK'
    <2>1. chunk' \in [from : 0 .. N, to : 0 .. N + 1] /\ taken' \in 0 .. N
      BY <1>3, <1>6
    <2> QED BY <1>4, <1>6, <1>7, <2>1 DEF InOrder, TypeOK
  <1>9. Frames'
    <2> HIDE DEF f, R
    <2>1. ASSUME NEW i \in 1 .. Len(wire')
          PROVE  /\ wire'[i].start + wire'[i].len \in cuts
                 /\ wire'[i].start + wire'[i].len <= flushed
                 /\ i < Len(wire') => wire'[i + 1].start = wire'[i].start + wire'[i].len
      <3>1. i \in Nat /\ i + 1 \in 1 .. Len(wire) /\ wire'[i] = wire[i + 1]
        BY <1>7
      <3>2. i < Len(wire') => (wire'[i + 1] = wire[(i + 1) + 1] /\ i + 1 < Len(wire))
        BY <1>7, <3>1
      <3>3. /\ wire[i + 1].start + wire[i + 1].len \in cuts
            /\ wire[i + 1].start + wire[i + 1].len <= flushed
            /\ i + 1 < Len(wire) =>
                   wire[(i + 1) + 1].start = wire[i + 1].start + wire[i + 1].len
        BY <3>1 DEF InOrder, Frames
      <3> QED BY <3>1, <3>2, <3>3
    <2>2. ASSUME wire' # <<>> PROVE wire'[1].start = base' + upper'
      <3>1. Len(wire') # 0 /\ Len(wire') \in Nat
        BY <2>2, <1>7
      <3>2. 1 \in 1 .. Len(wire) - 1 /\ 1 \in 1 .. Len(wire) /\ 1 < Len(wire)
        BY <3>1, <1>7
      <3>3. wire'[1] = wire[1 + 1]
        BY <3>2, <1>7
      <3>4. wire[1 + 1].start = wire[1].start + wire[1].len
        BY <3>2 DEF InOrder, Frames
      <3> QED BY <3>3, <3>4, <1>2, <1>6
    <2>3. ASSUME up
          PROVE  IF wire' = <<>> THEN base' + upper' = flushed
                 ELSE wire'[Len(wire')].start + wire'[Len(wire')].len = flushed
      <3>1. wire[Len(wire)].start + wire[Len(wire)].len = flushed
        BY <1>1, <2>3 DEF InOrder, Frames
      <3>2. CASE wire' = <<>>
        <4>1. Len(wire) = 1
          BY <3>2, <1>7
        <4> QED BY <4>1, <3>1, <3>2, <1>2, <1>6
      <3>3. CASE wire' # <<>>
        <4>1. Len(wire') # 0 /\ Len(wire') \in Nat
          BY <3>3, <1>7
        <4>2. Len(wire') \in 1 .. Len(wire) - 1 /\ Len(wire') + 1 = Len(wire)
          BY <4>1, <1>7
        <4>3. wire'[Len(wire')] = wire[Len(wire)]
          BY <4>2, <1>7
        <4> QED BY <4>3, <3>1, <3>3
      <3> QED BY <3>2, <3>3
    <2> QED BY <2>1, <2>2, <2>3, <1>4 DEF Frames
  <1>10. Heads'
    BY <1>2, <1>4, <1>6 DEF Heads
  <1>11. Positions'
    BY <1>4 DEF InOrder, Positions, AFrameSuffices
  <1>12. Stream!Take
    BY <1>2, <1>3, <1>4, <1>6 DEF Stream!Take, NextRecv
  <1> QED BY <1>8, <1>9, <1>10, <1>11, <1>12 DEF InOrder

LEMMA Prefix ==
    ASSUME NEW S, NEW s \in Seq(S), NEW k \in 0 .. Len(s)
    PROVE  /\ SubSeq(s, 1, k) \in Seq(S) /\ Len(SubSeq(s, 1, k)) = k
           /\ \A i \in 1 .. k : SubSeq(s, 1, k)[i] = s[i]
           /\ SubSeq(s, 1, k) # <<>> => 1 <= k
  OBVIOUS

\* A connection that breaks loses frames at the end and reorders none.
LEMMA BreakInOrder == ASSUME InOrder, Break PROVE InOrder'
  <1> DEFINE R == [start : 0 .. N, len : 1 .. N]
  <1>1. PICK k \in 0 .. Len(wire) : wire' = SubSeq(wire, 1, k)
    BY DEF Break
  <1>2. wire \in Seq(R) /\ Len(wire) \in Nat
    BY DEF InOrder, TypeOK
  <1>3. /\ wire' \in Seq(R) /\ Len(wire') = k
        /\ \A i \in 1 .. k : wire'[i] = wire[i]
        /\ wire' # <<>> => 1 <= k
    BY <1>1, <1>2, Prefix
  <1>4. /\ UNCHANGED <<cuts, turns, ends, sent, flushed, base, lower, upper, taken, chunk, failed>>
        /\ up' = FALSE
    BY DEF Break, plan
  <1>5. TypeOK'
    BY <1>3, <1>4 DEF InOrder, TypeOK
  <1>6. Frames'
    <2> HIDE DEF R
    <2>1. ASSUME NEW i \in 1 .. Len(wire')
          PROVE  /\ wire'[i].start + wire'[i].len \in cuts
                 /\ wire'[i].start + wire'[i].len <= flushed
                 /\ i < Len(wire') => wire'[i + 1].start = wire'[i].start + wire'[i].len
      <3>1. i \in 1 .. Len(wire) /\ wire'[i] = wire[i]
            /\ (i < Len(wire') => (wire'[i + 1] = wire[i + 1] /\ i < Len(wire)))
        BY <1>2, <1>3
      <3> QED BY <3>1 DEF InOrder, Frames
    <2>2. ASSUME wire' # <<>> PROVE wire'[1].start = base + upper
      <3>1. wire'[1] = wire[1] /\ Len(wire) # 0
        BY <1>2, <1>3, <2>2
      <3>2. wire # <<>>
        BY <3>1
      <3> QED BY <3>1, <3>2 DEF InOrder, Frames
    <2> QED BY <2>1, <2>2, <1>4 DEF Frames
  <1>7. Heads'
    BY <1>4 DEF InOrder, Heads
  <1>8. Positions'
    BY <1>4 DEF InOrder, Positions, AFrameSuffices
  <1> QED BY <1>5, <1>6, <1>7, <1>8 DEF InOrder

\* A step in which the buffers do not change.
LEMMA IdleInOrder ==
    ASSUME InOrder, UNCHANGED <<plan, sent, flushed, wire, base, lower, upper, taken, up>>,
           chunk' \in {chunk, NoData}, failed' \in BOOLEAN
    PROVE  InOrder'
  <1>1. UNCHANGED <<cuts, turns, ends, sent, flushed, wire, base, lower, upper, taken, up>>
    BY DEF plan
  <1>2. chunk' \in [from : 0 .. N, to : 0 .. N + 1]
    BY EmpStreamAssumption DEF InOrder, TypeOK, NoData
  <1>3. TypeOK'
    BY <1>1, <1>2 DEF InOrder, TypeOK
  <1>4. Frames' /\ Heads' /\ Positions'
    BY <1>1 DEF InOrder, Frames, Heads, Positions, AFrameSuffices
  <1> QED BY <1>3, <1>4 DEF InOrder

-----------------------------------------------------------------------------
\* Every step keeps the order, and is a step of the byte stream or a stutter.
LEMMA StepInOrder ==
    ASSUME InOrder, [Next]_vars
    PROVE  InOrder' /\ [Stream!Next]_<<sent, taken, chunk, failed>>
  <1>1. CASE send_data_internal
    <2>1. Stream!Send
      BY <1>1, EmpStreamAssumption DEF send_data_internal, Stream!Send, InOrder, TypeOK
    <2> QED BY <1>1, <2>1, SendInOrder DEF Stream!Next
  <1>2. CASE flush
    BY <1>2, FlushInOrder DEF flush
  <1>3. CASE recv_data_internal
    <2>1. PICK e \in ends :
            /\ NextRecv(e)
            /\ TakeBuffered(e - taken) \/ TakeFrame(e - taken) \/ RecvFails(e - taken)
      BY <1>3 DEF recv_data_internal
    <2>2. CASE TakeBuffered(e - taken)
      BY <2>1, <2>2, BufferedInOrder DEF Stream!Next
    <2>3. CASE TakeFrame(e - taken)
      BY <2>1, <2>3, FrameInOrder DEF Stream!Next
    <2>4. CASE RecvFails(e - taken)
      <3>1. InOrder'
        BY <2>4, IdleInOrder DEF RecvFails
      <3>2. Stream!Fail
        BY <2>4 DEF RecvFails, Stream!Fail, NoData, Stream!NoData
      <3> QED BY <3>1, <3>2 DEF Stream!Next
    <2> QED BY <2>1, <2>2, <2>3, <2>4
  <1>4. CASE Break
    BY <1>4, BreakInOrder DEF Break
  <1>5. CASE UNCHANGED vars
    <2>1. /\ UNCHANGED <<plan, sent, flushed, wire, base, lower, upper, taken, up>>
          /\ chunk' = chunk /\ failed' = failed
      BY <1>5 DEF vars
    <2>2. failed' \in BOOLEAN
      BY <2>1 DEF InOrder, TypeOK
    <2> QED BY <2>1, <2>2, IdleInOrder
  <1> QED BY <1>1, <1>2, <1>3, <1>4, <1>5 DEF Next, Progress, Done

\* With a receive call ending in every frame (Aligned), the buffers of
\* send_data_internal, flush and recv_data_internal keep their types and the
\* stream its order, for every plan and every break of the connection.
THEOREM TypeCorrect == ASSUME Aligned PROVE Spec => []TypeOK
  <1>1. Init => InOrder
    BY InitInOrder
  <1>2. InOrder /\ [Next]_vars => InOrder'
    BY StepInOrder
  <1>3. InOrder => TypeOK
    BY DEF InOrder
  <1> QED BY <1>1, <1>2, <1>3, PTL DEF Spec

\* With a receive call ending in every frame (Aligned), the channel gives emp
\* the byte stream it expects: whatever recv_data_internal returns before
\* io_failed is the next bytes the peer has sent.
THEOREM ImplementsByteStream == ASSUME Aligned PROVE Spec => StreamSpec
  <1>1. Init => InOrder
    BY InitInOrder
  <1>2. Init => Stream!Init
    BY DEF Init, Stream!Init, NoData, Stream!NoData
  <1>3. InOrder /\ [Next]_vars => InOrder' /\ [Stream!Next]_<<sent, taken, chunk, failed>>
    BY StepInOrder
  <1> QED BY <1>1, <1>2, <1>3, PTL DEF Spec, StreamSpec, Stream!Spec

-----------------------------------------------------------------------------
(* The circuits of both modes *)

RoP == INSTANCE Circuits_proofs WITH Mode <- "Rotate", Resumed <- FALSE,
                                     MaxBatches <- 2, up <- alive
KsP == INSTANCE Circuits_proofs WITH Mode <- "Keystream", Resumed <- TRUE,
                                     MaxBatches <- 3, up <- alive

(* The proofs are about the same specifications as the runs. *)

LEMMA SameRotate ==
    /\ RoP!Init <=> Ro!Init
    /\ [RoP!Next]_(RoP!vars) <=> [Ro!Next]_(Ro!vars)
BY DEF Ro!vars, RoP!vars, Ro!counters, RoP!counters, Ro!Single, RoP!Single,
       Ro!Amortized, RoP!Amortized, Ro!Circuit, RoP!Circuit, Ro!Party, RoP!Party,
       Ro!Times, RoP!Times, Ro!Runs, RoP!Runs, Ro!Req, RoP!Req, Ro!PskAllowed,
       RoP!PskAllowed, Ro!Requests, RoP!Requests, Ro!Iters, RoP!Iters, Ro!Cur, RoP!Cur,
       Ro!InRun, RoP!InRun, Ro!Spent, RoP!Spent, Ro!Wants, RoP!Wants, Ro!Reset,
       RoP!Reset, Ro!ResetExec, RoP!ResetExec, Ro!Preprocess, RoP!Preprocess,
       Ro!SetupDone, RoP!SetupDone, Ro!Bump, RoP!Bump, Ro!BumpBoth, RoP!BumpBoth,
       Ro!Online, RoP!Online, Ro!FinishRun, RoP!FinishRun, Ro!Evaluate, RoP!Evaluate,
       Ro!ZeroPasses, RoP!ZeroPasses, Ro!Receive, RoP!Receive, Ro!Waiting, RoP!Waiting,
       Ro!IoFails, RoP!IoFails, Ro!RunsDone, RoP!RunsDone, Ro!Ask, RoP!Ask, Ro!AskStop,
       RoP!AskStop, Ro!Serve, RoP!Serve, Ro!Break, RoP!Break, Ro!Ended, RoP!Ended,
       Ro!Progress, RoP!Progress, Ro!Next, RoP!Next, Ro!Handshake, RoP!Handshake,
       Ro!ProverSet, RoP!ProverSet, Ro!VerifierSet, RoP!VerifierSet, Ro!Init, RoP!Init

LEMMA SameRotateProperties ==
    /\ RoP!TypeOK <=> Ro!TypeOK
    /\ RoP!InStep <=> Ro!InStep
    /\ RoP!FreshMaterial <=> Ro!FreshMaterial
    /\ RoP!NothingFromALostRun <=> Ro!NothingFromALostRun
    /\ RoP!CircuitsAssumption
<1>1. RoP!CircuitsAssumption
  BY BudgetsAssumption DEF RoP!CircuitsAssumption, Ro!CircuitsAssumption
<1>2. (RoP!TypeOK <=> Ro!TypeOK) /\ (RoP!InStep <=> Ro!InStep)
  BY DEF Ro!TypeOK, RoP!TypeOK, Ro!InStep, RoP!InStep, Ro!FreshMaterial,
         RoP!FreshMaterial, Ro!NothingFromALostRun, RoP!NothingFromALostRun, Ro!Budget,
         RoP!Budget, Ro!ReqNames, RoP!ReqNames, Ro!Party, RoP!Party, Ro!Circuit,
         RoP!Circuit, Ro!Single, RoP!Single, Ro!Amortized, RoP!Amortized, Ro!Iters,
         RoP!Iters, Ro!Wants, RoP!Wants, Ro!Cur, RoP!Cur, Ro!InRun, RoP!InRun, Ro!Spent,
         RoP!Spent
<1>3. /\ RoP!FreshMaterial <=> Ro!FreshMaterial
      /\ RoP!NothingFromALostRun <=> Ro!NothingFromALostRun
  BY DEF Ro!FreshMaterial, RoP!FreshMaterial, Ro!NothingFromALostRun,
         RoP!NothingFromALostRun, Ro!Budget, RoP!Budget, Ro!Party, RoP!Party,
         Ro!Circuit, RoP!Circuit, Ro!Single, RoP!Single, Ro!Amortized, RoP!Amortized,
         Ro!Iters, RoP!Iters
<1> QED
  BY <1>1, <1>2, <1>3

LEMMA SameKeystream ==
    /\ KsP!Init <=> Ks!Init
    /\ [KsP!Next]_(KsP!vars) <=> [Ks!Next]_(Ks!vars)
BY DEF Ks!vars, KsP!vars, Ks!counters, KsP!counters, Ks!Single, KsP!Single,
       Ks!Amortized, KsP!Amortized, Ks!Circuit, KsP!Circuit, Ks!Party, KsP!Party,
       Ks!Times, KsP!Times, Ks!Runs, KsP!Runs, Ks!Req, KsP!Req, Ks!PskAllowed,
       KsP!PskAllowed, Ks!Requests, KsP!Requests, Ks!Iters, KsP!Iters, Ks!Cur, KsP!Cur,
       Ks!InRun, KsP!InRun, Ks!Spent, KsP!Spent, Ks!Wants, KsP!Wants, Ks!Reset,
       KsP!Reset, Ks!ResetExec, KsP!ResetExec, Ks!Preprocess, KsP!Preprocess,
       Ks!SetupDone, KsP!SetupDone, Ks!Bump, KsP!Bump, Ks!BumpBoth, KsP!BumpBoth,
       Ks!Online, KsP!Online, Ks!FinishRun, KsP!FinishRun, Ks!Evaluate, KsP!Evaluate,
       Ks!ZeroPasses, KsP!ZeroPasses, Ks!Receive, KsP!Receive, Ks!Waiting, KsP!Waiting,
       Ks!IoFails, KsP!IoFails, Ks!RunsDone, KsP!RunsDone, Ks!Ask, KsP!Ask, Ks!AskStop,
       KsP!AskStop, Ks!Serve, KsP!Serve, Ks!Break, KsP!Break, Ks!Ended, KsP!Ended,
       Ks!Progress, KsP!Progress, Ks!Next, KsP!Next, Ks!Handshake, KsP!Handshake,
       Ks!ProverSet, KsP!ProverSet, Ks!VerifierSet, KsP!VerifierSet, Ks!Init, KsP!Init

LEMMA SameKeystreamProperties ==
    /\ KsP!TypeOK <=> Ks!TypeOK
    /\ KsP!InStep <=> Ks!InStep
    /\ KsP!FreshMaterial <=> Ro!FreshMaterial
    /\ KsP!NothingFromALostRun <=> Ro!NothingFromALostRun
    /\ KsP!CircuitsAssumption
<1>1. KsP!CircuitsAssumption
  BY BudgetsAssumption DEF KsP!CircuitsAssumption, Ks!CircuitsAssumption
<1>2. (KsP!TypeOK <=> Ks!TypeOK) /\ (KsP!InStep <=> Ks!InStep)
  BY DEF Ks!TypeOK, KsP!TypeOK, Ks!InStep, KsP!InStep, Ks!FreshMaterial,
         KsP!FreshMaterial, Ks!NothingFromALostRun, KsP!NothingFromALostRun, Ks!Budget,
         KsP!Budget, Ks!ReqNames, KsP!ReqNames, Ks!Party, KsP!Party, Ks!Circuit,
         KsP!Circuit, Ks!Single, KsP!Single, Ks!Amortized, KsP!Amortized, Ks!Iters,
         KsP!Iters, Ks!Wants, KsP!Wants, Ks!Cur, KsP!Cur, Ks!InRun, KsP!InRun, Ks!Spent,
         KsP!Spent
<1>3. /\ KsP!FreshMaterial <=> Ro!FreshMaterial
      /\ KsP!NothingFromALostRun <=> Ro!NothingFromALostRun
  BY DEF Ro!FreshMaterial, KsP!FreshMaterial, Ro!NothingFromALostRun,
         KsP!NothingFromALostRun, Ro!Budget, KsP!Budget, Ro!Party, KsP!Party,
         Ro!Circuit, KsP!Circuit, Ro!Single, KsP!Single, Ro!Amortized, KsP!Amortized,
         Ro!Iters, KsP!Iters
<1> QED
  BY <1>1, <1>2, <1>3

-----------------------------------------------------------------------------
\* The part at work has its invariant; the circuits have theirs throughout.
MCInv ==
    /\ part \in {"stream", "rotate", "keystream"}
    /\ part = "stream" => InOrder
    /\ part # "keystream" => RoP!IInv
    /\ part = "keystream" => KsP!IInv

LEMMA MCInitInv == ASSUME Aligned PROVE MCInit => MCInv
<1> SUFFICES ASSUME MCInit PROVE MCInv
  OBVIOUS
<1>1. Ro!Init => RoP!IInv
  <2>1. RoP!Init => RoP!IInv
    BY RoP!InitIInv, SameRotateProperties
  <2>2. Ro!Init => RoP!Init
    BY SameRotate
  <2> QED
    BY <2>1, <2>2
<1>2. Ks!Init => KsP!IInv
  <2>1. KsP!Init => KsP!IInv
    BY KsP!InitIInv, SameKeystreamProperties
  <2>2. Ks!Init => KsP!Init
    BY SameKeystream
  <2> QED
    BY <2>1, <2>2
<1>3. Init => InOrder
  BY InitInOrder
<1> QED
  BY <1>1, <1>2, <1>3 DEF MCInit, MCInv

LEMMA MCStepInv == MCInv /\ [MCNext]_mcvars => MCInv'
<1> SUFFICES ASSUME MCInv, [MCNext]_mcvars PROVE MCInv'
  OBVIOUS
<1>1. part' = part
  BY DEF MCNext, mcvars
<1>2. part = "stream" => [Next]_vars
  BY DEF MCNext, mcvars
<1>3. part # "keystream" => [Ro!Next]_(Ro!vars)
  BY DEF MCNext, mcvars, circuitVars, Ro!vars
<1>4. part = "keystream" => [Ks!Next]_(Ks!vars)
  BY DEF MCNext, mcvars, circuitVars, Ks!vars
<1>5. RoP!IInv /\ [RoP!Next]_(RoP!vars) => RoP!IInv'
  BY RoP!StepIInv, SameRotateProperties
<1>6. KsP!IInv /\ [KsP!Next]_(KsP!vars) => KsP!IInv'
  BY KsP!StepIInv, SameKeystreamProperties
<1>7. part = "stream" => InOrder'
  BY <1>2, StepInOrder DEF MCInv
<1>8. part # "keystream" => RoP!IInv'
  BY <1>3, <1>5, SameRotate DEF MCInv
<1>9. part = "keystream" => KsP!IInv'
  BY <1>4, <1>6, SameKeystream DEF MCInv
<1> QED
  BY <1>1, <1>7, <1>8, <1>9 DEF MCInv

LEMMA MCInvSuffices == MCInv => CircuitsInStep /\ MaterialFresh /\ NothingFromZeros
<1> SUFFICES ASSUME MCInv PROVE CircuitsInStep /\ MaterialFresh /\ NothingFromZeros
  OBVIOUS
<1>1. part # "keystream" =>
        /\ Ro!TypeOK /\ Ro!InStep
        /\ Ro!FreshMaterial /\ Ro!NothingFromALostRun
  BY RoP!IInvSuffices, SameRotateProperties DEF MCInv
<1>2. part = "keystream" =>
        /\ Ks!TypeOK /\ Ks!InStep
        /\ Ro!FreshMaterial /\ Ro!NothingFromALostRun
  BY KsP!IInvSuffices, SameKeystreamProperties DEF MCInv
<1>3. part = "stream" => TypeOK
  BY DEF MCInv, InOrder
<1> QED
  BY <1>1, <1>2, <1>3 DEF MCInv, CircuitsInStep, MaterialFresh, NothingFromZeros

\* Prover and verifier do the same on the connection although each goes by its
\* own counters (do_preproc, exec_small_internal), for every setting of the
\* iteration counts and any number of requests; and the channel keeps its types.
THEOREM InStepInBothModes == ASSUME Aligned PROVE MCSpec => []CircuitsInStep
<1>1. MCInv => CircuitsInStep
  BY MCInvSuffices
<1> QED
  BY <1>1, MCInitInv, MCStepInv, PTL DEF MCSpec

\* No garbled circuit is evaluated twice or indexed past what was preprocessed
\* (exec_times in amortized_2pc.h against run_times in the wrappers).
THEOREM FreshInBothModes == ASSUME Aligned PROVE MCSpec => []MaterialFresh
<1>1. MCInv => MaterialFresh
  BY MCInvSuffices
<1> QED
  BY <1>1, MCInitInv, MCStepInv, PTL DEF MCSpec

\* No request but a rotation succeeds on the zeros a lost output leaves
\* (exec_small_internal).
THEOREM ZerosInBothModes == ASSUME Aligned PROVE MCSpec => []NothingFromZeros
<1>1. MCInv => NothingFromZeros
  BY MCInvSuffices
<1> QED
  BY <1>1, MCInitInv, MCStepInv, PTL DEF MCSpec
=============================================================================
