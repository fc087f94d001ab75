------------------------------ MODULE MCRecord ------------------------------
(***************************************************************************)
(* RecordPath for TLC, in four configurations (conf, which never changes): *)
(*   "real"    the sizes of the code, responses of up to three records     *)
(*             whose lengths sit at the edges of the tests                 *)
(*   "masked"  small sizes, so that every bound is reached: a buffer of    *)
(*             seven blocks, four sequence numbers, failing circuits       *)
(*   "sealed"  the same sizes, a capture of at most three records          *)
(*   "h2"      the same as the HTTP/2 driver releases it                   *)
(* The constants of the .cfg are the sizes of the code.                    *)
(***************************************************************************)
EXTENDS RecordPath

VARIABLE conf

mcvars == <<vars, conf>>

Ma == INSTANCE RecordPath WITH Sealed <- FALSE, H2 <- FALSE, BLOCK <- 2,
        KS_BATCH_N <- 3, kNumMasks <- 7, kMaxPowers <- 7, MAX_PLAIN <- 8,
        MAX_ENCRYPTED <- 12, kTagLen <- 1, PadBit <- 32, SeqSpace <- 4,
        kMaxEmptyRecords <- 2, kMaxSurfRecords <- 3,
        BodyLens <- {1, 2, 4, 5, 10, 11}, Pads <- {0, 1},
        MaxRecords <- 5, Faults <- TRUE
Se == INSTANCE RecordPath WITH Sealed <- TRUE, H2 <- FALSE, BLOCK <- 2,
        KS_BATCH_N <- 3, kNumMasks <- 7, kMaxPowers <- 7, MAX_PLAIN <- 8,
        MAX_ENCRYPTED <- 12, kTagLen <- 1, PadBit <- 32, SeqSpace <- 16,
        kMaxEmptyRecords <- 2, kMaxSurfRecords <- 3,
        BodyLens <- {4, 5, 10, 11, 14}, Pads <- {0, 1},
        MaxRecords <- 6, Faults <- TRUE
Ht == INSTANCE RecordPath WITH Sealed <- TRUE, H2 <- TRUE, BLOCK <- 2,
        KS_BATCH_N <- 3, kNumMasks <- 7, kMaxPowers <- 7, MAX_PLAIN <- 8,
        MAX_ENCRYPTED <- 12, kTagLen <- 1, PadBit <- 32, SeqSpace <- 4,
        kMaxEmptyRecords <- 2, kMaxSurfRecords <- 3,
        BodyLens <- {4, 5, 11}, Pads <- {0, 1},
        MaxRecords <- 5, Faults <- TRUE

MCInit ==
    \/ conf = "real"   /\ Init
    \/ conf = "masked" /\ Ma!Init
    \/ conf = "sealed" /\ Se!Init
    \/ conf = "h2"     /\ Ht!Init

MCNext ==
    /\ \/ conf = "real"   /\ Next
       \/ conf = "masked" /\ Ma!Next
       \/ conf = "sealed" /\ Se!Next
       \/ conf = "h2"     /\ Ht!Next
    /\ UNCHANGED conf

Steps ==
    /\ \/ conf = "real"   /\ Step
       \/ conf = "masked" /\ Ma!Step
       \/ conf = "sealed" /\ Se!Step
       \/ conf = "h2"     /\ Ht!Step
    /\ UNCHANGED conf

MCSpec == MCInit /\ [][MCNext]_mcvars /\ WF_mcvars(Steps)

-----------------------------------------------------------------------------
\* The keystream of every record is its own: the blocks a record is opened with
\* are those of its number and position (OpenedWithOwnKeystream), no circuit
\* runs twice on one counter block (CountersFresh), and the map from block
\* indices to records has neither gap nor overlap (BlockMapExact).
KeystreamExact ==
    /\ OpenedWithOwnKeystream /\ CountersFresh
    /\ conf = "real"   => TypeOK
    /\ conf = "masked" => Ma!TypeOK
    /\ conf = "sealed" => Se!TypeOK /\ Se!BlockMapExact
    /\ conf = "h2"     => Ht!TypeOK /\ Ht!BlockMapExact

\* LegalResponsesDelivered at the sizes of the code and at the small ones: no
\* bound of this code turns down a response the TLS limits allow.
LegalDelivered ==
    /\ conf = "real"   => LegalResponsesDelivered
    /\ conf = "masked" => Ma!LegalResponsesDelivered
    /\ conf = "sealed" => Se!LegalResponsesDelivered
    /\ conf = "h2"     => Ht!LegalResponsesDelivered

\* DeliveredWhole: a release of the sealed-capture modes hands over the whole
\* response or fails (true_surf_release).
WholeDelivered ==
    /\ conf = "sealed" => Se!DeliveredWhole
    /\ conf = "h2"     => Ht!DeliveredWhole

=============================================================================
