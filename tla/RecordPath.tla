----------------------------- MODULE RecordPath -----------------------------
(***************************************************************************)
(* The path of the records of one response through the prover: the capture *)
(* in tls_open_record, the tag checks, the joint derivation of keystream   *)
(* in batches, the opening against the keystream buffer (Masked mode), or  *)
(* the capture until the stream ends and the release of the key (sealed    *)
(* modes).  This module is about LENGTHS, INDICES and LIMITS: which        *)
(* records fit, which counter block each slot of a batch gets, which block *)
(* of the buffer opens which byte, and what happens at every bound.        *)
(*                                                                         *)
(* A keystream block is the counter block <<seq, counter>> it was derived  *)
(* from.  The circuits are ideal, except that they may fail.  All sizes    *)
(* are CONSTANTS, so that the same definitions are checked with the sizes  *)
(* of the code and with small ones.                                        *)
(***************************************************************************)
EXTENDS Integers, Sequences, FiniteSets, SequencesExt

CONSTANTS
    Sealed,             \* surf_true_mode: capture now, open at the end
    H2,                 \* the HTTP/2 driver: true_surf_release(.., false)
    BLOCK,              \* one AES block (16)
    KS_BATCH_N,         \* slots of one keystream circuit (16)
    kNumMasks,          \* blocks of the keystream buffer (1088)
    kMaxPowers,         \* powers of H each party has a share of (1088)
    MAX_PLAIN,          \* SSL3_RT_MAX_PLAIN_LENGTH (2^14)
    MAX_ENCRYPTED,      \* SSL3_RT_MAX_ENCRYPTED_LENGTH (2^14 + 320)
    kTagLen,            \* length of a GCM tag (16)
    PadBit,             \* the top bit of a padding slot's counter (2^31)
    SeqSpace,             \* sequence numbers are modulo this (2^64)
    kMaxEmptyRecords,   \* consecutive empty records tolerated (32)
    kMaxSurfRecords,    \* bound of the sealed capture (4096)
    BodyLens,           \* lengths of record bodies the origin may send
    Pads,               \* numbers of padding bytes the origin may add
    MaxRecords,         \* bound on the records of one response
    Faults              \* may circuits fail and FINs be forged?

ASSUME RecordPathAssumption ==
    /\ {Sealed, H2, Faults} \subseteq BOOLEAN
    /\ {BLOCK, KS_BATCH_N, kNumMasks, kMaxPowers, MAX_PLAIN, MAX_ENCRYPTED,
        kTagLen, PadBit, SeqSpace, kMaxSurfRecords} \subseteq Nat \ {0}
    /\ kMaxEmptyRecords \in Nat /\ MaxRecords \in Nat
    /\ BodyLens \subseteq Nat /\ Pads \subseteq Nat
    /\ H2 => Sealed

VARIABLES
    pc,             \* what the prover is doing
    sent,           \* what the origin has sent: sequence of [body, kind, pad]
    fin,            \* has the prover's read met the end of the stream?
    recs,           \* surf_records: sequence of [seq, ct_len, kind, pad]
    read_sequence,
    empties,        \* empty_record_count
    verified_seqs,  \* the verifier's: records whose tag it has verified
    keystream,      \* the buffer, or <<>> before its first use
    next_mask_index,
    batch,          \* next batch of derive_keystream, or next record of
                    \* true_surf_release
    used, slots,    \* counter blocks the circuits ever ran on, and how many runs
    opened,         \* records opened, each with the keystream it was opened with
    faulted,        \* has a circuit failed, or the stream ended too early?
    delivered       \* kinds of the records in the page handed to the caller

vars == <<pc, sent, fin, recs, read_sequence, empties, verified_seqs, keystream,
          next_mask_index, batch, used, slots, opened, faulted, delivered>>

-----------------------------------------------------------------------------
(* SurfBlockMap.                                                           *)

Blocks(n) == (n + BLOCK - 1) \div BLOCK

total_blocks(rs) == FoldLeft(LAMBDA n, r: n + Blocks(r.ct_len), 0, rs)

\* The record a global block index falls into is the first whose blocks reach
\* past it; <<>> stands for the result false.
resolve(rs, index) ==
    LET reach(i) == total_blocks(SubSeq(rs, 1, i))
        hit == {i \in DOMAIN rs : index < reach(i)}
    IN  IF hit = {} THEN <<>>
        ELSE LET i == CHOOSE i \in hit : \A k \in hit : i <= k
             IN  <<rs[i].seq, (index - reach(i - 1)) + 2>>

\* The counter block of slot |idx|: padding slots take the last record's
\* sequence number and a counter with the top bit set.
PadCounter(idx) == PadBit + idx

SlotBlock(rs, idx) ==
    IF idx < total_blocks(rs) THEN resolve(rs, idx)
    ELSE <<resolve(rs, total_blocks(rs) - 1)[1], PadCounter(idx)>>

\* The counter block the tag of a record is masked with.
J0(seq) == <<seq, 1>>

-----------------------------------------------------------------------------
Init ==
    /\ pc = "read" /\ sent = <<>> /\ fin = FALSE /\ recs = <<>>
    /\ read_sequence = 0 /\ empties = 0 /\ verified_seqs = {}
    /\ keystream = <<>> /\ next_mask_index = 0 /\ batch = 0
    /\ used = {} /\ slots = 0 /\ opened = <<>> /\ faulted = FALSE /\ delivered = <<>>

Run(blocks) ==
    /\ used' = used \union {blocks[i] : i \in DOMAIN blocks}
    /\ slots' = slots + Len(blocks)

NoCircuit == UNCHANGED <<used, slots>>

\* A step that needs the other party fails because its inputs are not |ok|, or
\* because the circuit or the connection does.
Fails(ok) == (ok => Faults) /\ faulted' = (faulted \/ ok)

\* A read that failed stays failed (read_shutdown is set), and the driver's
\* loop ends on any n <= 0, be it an error or the end of the stream.
ReadEnds == IF Sealed THEN "release" ELSE "return"

\* The last thing a complete response has: the last frame of the last stream,
\* or the close_notify.
Kinds == {"data", "end", "close"}

\* A close_notify is two bytes and the content type.  Padding follows the
\* content type and counts as length (RFC 8446 5.4).
MaySend(body, kind, pad) ==
    /\ pad > 0 => body >= kTagLen + 1 + pad
    /\ IF kind = "close" THEN body = kTagLen + 3 + pad
       ELSE Len(sent) < MaxRecords - 1
    /\ \A i \in DOMAIN sent : sent[i].kind # "close"
    /\ kind = "data" => \A i \in DOMAIN sent : sent[i].kind # "end"
    /\ kind = "end" => H2 /\ \A i \in DOMAIN sent : sent[i].kind # "end"

TooLong(body) == body > MAX_ENCRYPTED

surf_capture_ciphertext(body, kind, pad) ==
    recs' = Append(recs, [seq |-> read_sequence, ct_len |-> body - kTagLen,
                          kind |-> kind, pad |-> pad])

\* The sealed capture tests its bound after it has appended the record.
CaptureFull == Len(recs') > kMaxSurfRecords

\* ++read_sequence is refused when it would wrap.
NextSeq == (read_sequence + 1) % SeqSpace

SeqExhausted == NextSeq = 0

\* tls_open_record up to the point where other parties are needed: all of it
\* in the sealed modes.
tls_open_record(body, kind, pad) ==
    /\ pc = "read" /\ ~fin /\ MaySend(body, kind, pad)
    /\ sent' = Append(sent, [body |-> body, kind |-> kind, pad |-> pad])
    /\ IF TooLong(body) \/ body < kTagLen
       THEN pc' = ReadEnds /\ UNCHANGED <<recs, read_sequence>>
       ELSE /\ surf_capture_ciphertext(body, kind, pad)
            /\ CASE ~Sealed ->
                      pc' = "verify" /\ UNCHANGED read_sequence
                 [] Sealed /\ SeqExhausted ->
                      pc' = ReadEnds /\ UNCHANGED read_sequence
                 [] OTHER ->
                      /\ read_sequence' = NextSeq
                      /\ pc' = IF CaptureFull THEN ReadEnds ELSE "read"
    /\ batch' = 0
    /\ NoCircuit
    /\ UNCHANGED <<fin, empties, verified_seqs, keystream, next_mask_index,
                   opened, faulted, delivered>>

\* The read of the driver's loop meets the end of the stream: after the
\* close_notify or, forged or not, before it.
EndOfStream ==
    /\ pc = "read" /\ ~fin
    /\ Fails(\A i \in DOMAIN sent : sent[i].kind # "close")
    /\ fin' = TRUE /\ pc' = ReadEnds /\ batch' = 0
    /\ NoCircuit
    /\ UNCHANGED <<sent, recs, read_sequence, empties, verified_seqs, keystream,
                   next_mask_index, opened, delivered>>

-----------------------------------------------------------------------------
(* verify_record_tag and the verifier's verify_gcm_tag: both parties need  *)
(* their share of GHASH over the header, the ciphertext and the lengths.   *)

\* Mutant: no room for the inner content type.
LengthOkPlain(ct_len) == ct_len # 0 /\ ct_len <= MAX_PLAIN

LengthOk(ct_len) == ct_len # 0 /\ ct_len <= MAX_PLAIN + 1

PowersSuffice(ct_len) == 1 + Blocks(ct_len) + 1 <= kMaxPowers

Verifiable(r) == LengthOk(r.ct_len) /\ PowersSuffice(r.ct_len)

VerifyRecord(r) ==
    /\ Verifiable(r)
    /\ UNCHANGED faulted
    /\ verified_seqs' = verified_seqs \union {r.seq}
    /\ Run(<<J0(r.seq)>>)

\* Mutant: the failure is not an error, the read tries again.
SurfDecryptRetries ==
    UNCHANGED <<pc, verified_seqs, keystream, next_mask_index, batch, used, slots>>

\* Any failure inside surf_decrypt is an error of tls_open_record.
SurfDecryptFails ==
    /\ pc' = ReadEnds
    /\ UNCHANGED <<verified_seqs, keystream, next_mask_index, batch, used, slots>>

verify_record_tag ==
    /\ pc = "verify"
    /\ LET r == Last(recs)
       IN  \/ /\ VerifyRecord(r)
              /\ pc' = "derive" /\ UNCHANGED <<keystream, next_mask_index, batch>>
           \/ /\ Fails(Verifiable(r))
              /\ SurfDecryptFails
    /\ UNCHANGED <<sent, fin, recs, read_sequence, empties, opened, delivered>>

-----------------------------------------------------------------------------
(* derive_keystream and the verifier's derive_keystream_blocks, one batch  *)
(* per step.                                                               *)

\* The record is the only one of the request, and its keystream replaces what
\* was in the buffer.
base == 0

KeystreamGate(r) ==
    /\ total_blocks(<<r>>) \in 1 .. kNumMasks
    /\ LengthOk(r.ct_len) /\ r.seq \in verified_seqs

NBatches(nblocks) == (nblocks + KS_BATCH_N - 1) \div KS_BATCH_N

\* What one batch writes into the buffer: its real slots.
Filled(rs, b) ==
    [i \in 0 .. kNumMasks - 1 |->
        LET idx == i - base
        IN  IF idx \in b * KS_BATCH_N .. (b + 1) * KS_BATCH_N - 1
               /\ idx < total_blocks(rs)
            THEN resolve(rs, idx)
            ELSE IF keystream = <<>> THEN <<>> ELSE keystream[i]]

\* Mutant: the index goes on counting over the records.
MaskIndexAccumulated(nblocks) == next_mask_index + nblocks

MaskIndex(nblocks) == nblocks

derive_keystream ==
    /\ pc = "derive"
    /\ LET r == Last(recs)
           nblocks == total_blocks(<<r>>)
           slot == [j \in 1 .. KS_BATCH_N |->
                       SlotBlock(<<r>>, batch * KS_BATCH_N + j - 1)]
       IN  \/ /\ KeystreamGate(r)
              /\ Run(slot)
              /\ keystream' = Filled(<<r>>, batch)
              /\ IF batch + 1 < NBatches(nblocks)
                 THEN batch' = batch + 1 /\ UNCHANGED <<pc, next_mask_index>>
                 ELSE /\ batch' = 0 /\ pc' = "open"
                      /\ next_mask_index' = MaskIndex(nblocks)
              /\ UNCHANGED <<verified_seqs, faulted>>
           \/ /\ Fails(KeystreamGate(r))
              /\ SurfDecryptFails
    /\ UNCHANGED <<sent, fin, recs, read_sequence, empties, opened, delivered>>

\* What is left of a record once padding and content type are stripped.
Content(r) == r.ct_len - 1 - r.pad

\* The rest of tls_open_record in Masked mode.
BufferShort(nblocks) ==
    \/ next_mask_index < nblocks
    \/ kNumMasks < next_mask_index

OpenRecord ==
    /\ pc = "open"
    /\ LET r == Last(recs)
           nblocks == Blocks(r.ct_len)
           ks == [i \in 1 .. nblocks |->
                     keystream[next_mask_index - nblocks + i - 1]]
           empty == Content(r) = 0
           refused == BufferShort(nblocks) \/ SeqExhausted
       IN  IF refused \/ r.ct_len > MAX_PLAIN + 1
           THEN /\ pc' = ReadEnds
                /\ read_sequence' = IF refused THEN read_sequence ELSE NextSeq
                /\ UNCHANGED <<empties, opened, delivered>>
           ELSE /\ read_sequence' = NextSeq
                /\ opened' = Append(opened, [seq |-> r.seq, ct_len |-> r.ct_len,
                                             ks |-> ks])
                /\ empties' = IF empty THEN empties + 1 ELSE 0
                /\ IF r.kind = "close" \/ (empty /\ empties + 1 > kMaxEmptyRecords)
                   THEN pc' = ReadEnds /\ UNCHANGED delivered
                   ELSE /\ pc' = "read"
                        /\ delivered' = Append(delivered, r.kind)
    /\ NoCircuit
    /\ UNCHANGED <<sent, fin, recs, verified_seqs, keystream, next_mask_index,
                   batch, faulted>>

-----------------------------------------------------------------------------
(* The driver after its loop: true_surf_release in the sealed modes, and   *)
(* what the caller is handed.                                              *)

SubmitRecord ==
    /\ pc = "release" /\ batch < Len(recs)
    /\ LET r == recs[batch + 1]
       IN  \/ VerifyRecord(r) /\ batch' = batch + 1 /\ UNCHANGED pc
           \/ /\ Fails(Verifiable(r))
              /\ pc' = "failed" /\ UNCHANGED <<verified_seqs, batch, used, slots>>
    /\ UNCHANGED <<sent, fin, recs, read_sequence, empties, keystream,
                   next_mask_index, opened, delivered>>

\* Mutant: any end of the capture is the end of the response.
EndsWellAnyhow == TRUE

\* No close_notify anywhere but last and, unless the caller is the HTTP/2
\* driver (require_close_notify = false), one at the end.  surf_is_close_notify
\* strips padding.
EndsWell ==
    /\ \A i \in 1 .. Len(recs) - 1 : recs[i].kind # "close"
    /\ ~H2 => Last(recs).kind = "close"

\* The key is committed to with the first record that is submitted, and the
\* verifier releases nothing uncommitted.
Committed == recs # <<>>

\* Application data is picked out by the last byte of the opened record as it
\* is: one that is padded is left out.
IsAppData(r) == r.kind # "close" /\ r.pad = 0

Kind(rs) == [i \in DOMAIN rs |-> rs[i].kind]

\* Each record is opened with the released key and its own number.
true_surf_release ==
    /\ pc = "release" /\ batch = Len(recs)
    /\ IF Committed /\ EndsWell
       THEN /\ pc' = IF H2 THEN "parse" ELSE "done"
            /\ opened' = [i \in DOMAIN recs |->
                            [seq |-> recs[i].seq, ct_len |-> recs[i].ct_len,
                             ks |-> [k \in 1 .. Blocks(recs[i].ct_len) |->
                                        <<recs[i].seq, k + 1>>]]]
            /\ delivered' = Kind(SelectSeq(recs, IsAppData))
       ELSE pc' = "failed" /\ UNCHANGED <<opened, delivered>>
    /\ NoCircuit
    /\ UNCHANGED <<sent, fin, recs, read_sequence, empties, verified_seqs,
                   keystream, next_mask_index, batch, faulted>>

\* The HTTP/2 driver parses what it was handed and counts the streams that
\* never closed; frames with a hole in them may also fail to parse.
h2_client_run_true ==
    /\ pc = "parse"
    /\ LET closed == "end" \in Range(delivered)
           hole   == \E i \in DOMAIN recs : recs[i].kind # "close" /\ ~IsAppData(recs[i])
       IN  \/ closed /\ pc' = "done"
           \/ (~closed \/ hole) /\ pc' = "failed"
    /\ UNCHANGED <<sent, fin, recs, read_sequence, empties, verified_seqs,
                   keystream, next_mask_index, batch, used, slots, opened,
                   faulted, delivered>>

\* In Masked mode the page is what was read until n <= 0.
ReturnPage ==
    /\ pc = "return"
    /\ pc' = "done"
    /\ UNCHANGED <<sent, fin, recs, read_sequence, empties, verified_seqs,
                   keystream, next_mask_index, batch, used, slots, opened,
                   faulted, delivered>>

Finished == pc \in {"done", "failed"} /\ UNCHANGED vars

Step ==
    \/ \E body \in BodyLens, kind \in Kinds, pad \in Pads :
          tls_open_record(body, kind, pad)
    \/ EndOfStream
    \/ verify_record_tag
    \/ derive_keystream
    \/ OpenRecord
    \/ SubmitRecord
    \/ true_surf_release
    \/ h2_client_run_true
    \/ ReturnPage

Next == Step \/ Finished

\* The origin sends or closes, the drivers' reads return, the circuits come to
\* an end: every party takes its next step.
Spec == Init /\ [][Next]_vars /\ WF_vars(Step)

-----------------------------------------------------------------------------
\* The types of the variables.
TypeOK ==
    /\ pc \in {"read", "verify", "derive", "open", "release", "parse", "return",
              "done", "failed"}
    /\ sent \in Seq([body : BodyLens, kind : Kinds, pad : Pads]) /\ Len(sent) <= MaxRecords
    /\ fin \in BOOLEAN /\ faulted \in BOOLEAN
    /\ recs \in Seq([seq : 0 .. SeqSpace - 1, ct_len : Nat, kind : Kinds,
                   pad : Pads])
    /\ read_sequence \in 0 .. SeqSpace - 1
    /\ empties \in 0 .. kMaxEmptyRecords + 1
    /\ verified_seqs \subseteq 0 .. SeqSpace - 1
    /\ keystream # <<>> => DOMAIN keystream = 0 .. kNumMasks - 1
    /\ next_mask_index \in 0 .. kNumMasks
    /\ batch \in Nat /\ slots \in Nat

\* Every byte of an opened record was decrypted with the keystream block of its
\* own record and position: a buffer that is reused from record to record, a
\* last batch that is only half real, and an index that counts from the end
\* never make an older record's blocks show through.
OpenedWithOwnKeystream ==
    \A i \in DOMAIN opened :
        LET o == opened[i]
        IN  \A k \in 1 .. Len(o.ks) : o.ks[k] = <<o.seq, k + 1>>

\* Over any captured records, resolve numbers their blocks one after the other,
\* without gap or overlap and to no index past the last: each index below
\* total_blocks is a block of its own, with counters from 2 in every record.
BlockMapExact ==
    /\ {resolve(recs, i) : i \in 0 .. total_blocks(recs) - 1}
         = UNION {{<<recs[k].seq, c>> : c \in 2 .. Blocks(recs[k].ct_len) + 1}
                     : k \in DOMAIN recs}
    /\ resolve(recs, total_blocks(recs)) = <<>>

\* No circuit ever runs twice on one counter block, padding slots and the
\* blocks that mask the tags included, over the whole connection: the comment
\* in derive_keystream wants it, since the mask is a function of the block.
CountersFresh == Cardinality(used) = slots

\* The reasons the code has to turn a response down.
Illegal(s) == s.body - kTagLen \notin 1 .. MAX_PLAIN + 1

EmptyRun ==
    \E i \in DOMAIN sent :
        /\ i + kMaxEmptyRecords <= Len(sent)
        /\ \A k \in i .. i + kMaxEmptyRecords : sent[k].body = kTagLen + 1 + sent[k].pad

\* An origin that pads application data: the sealed release drops it, which
\* the run session_padded is about.
PaddedData == \E i \in DOMAIN sent : sent[i].kind # "close" /\ sent[i].pad > 0

Excusable ==
    \/ faulted
    \/ \E i \in DOMAIN sent : Illegal(sent[i])
    \/ ~Sealed /\ EmptyRun
    \/ Sealed /\ PaddedData
    \/ Sealed /\ Len(sent) > kMaxSurfRecords
    \/ H2 /\ \A i \in DOMAIN sent : sent[i].kind # "end"
    \/ Len(sent) >= SeqSpace

Response == SelectSeq(Kind(sent), LAMBDA k : k # "close")

\* A response the TLS limits allow is delivered: no bound of this code (the
\* powers of H, the keystream buffer, the capture buffer, either party's length
\* tests) is smaller than what a legal record or a response of kMaxSurfRecords
\* records needs.
LegalResponsesDelivered ==
    /\ pc = "failed" => Excusable
    /\ pc = "done" => Excusable \/ delivered = Response

\* What a sealed-capture release hands over is the whole response: running into
\* the bound of the capture, an oversized record or a forged FIN makes the
\* driver's loop end in the same way as a proper end does.  A close_notify may
\* be padded; padded application data is lost.
DeliveredWhole ==
    Sealed /\ pc = "done" /\ ~PaddedData =>
        /\ delivered = Response
        /\ (IF H2 THEN "end" ELSE "close") \in Range(Kind(sent))

\* Every response comes to an end, on success or not.
Returns == <>(pc \in {"done", "failed"})

=============================================================================
