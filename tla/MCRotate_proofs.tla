--------------------------- MODULE MCRotate_proofs ---------------------------
(***************************************************************************)
(* The theorems of RotateSession_proofs for the composition MCRotate: in   *)
(* each configuration its inductive invariants hold.                       *)
(***************************************************************************)
EXTENDS MCRotate, TLAPS

EpP == INSTANCE RotateSession_proofs WITH Flow <- "epoch", NRequests <- 3, Short <- FALSE,
         MaxTickets <- 1, LateTickets <- FALSE, MaxUpdates <- 0, Timeouts <- FALSE
LaP == INSTANCE RotateSession_proofs WITH Flow <- "epoch", NRequests <- 2, Short <- FALSE,
         MaxUpdates <- 0, MaxKey <- 4
BaP == INSTANCE RotateSession_proofs WITH Flow <- "batch", NRequests <- 1,
         MaxTickets <- 1, Timeouts <- FALSE, MaxKey <- 4

-----------------------------------------------------------------------------
(* The proofs are about the same specifications as the runs *)

LEMMA SameEpochInit == EpP!RInit <=> Ep!RInit
BY DEF Ep!Junk, EpP!Junk, Ep!NoCt, EpP!NoCt, Ep!Init, EpP!Init, Ep!RInit, EpP!RInit

LEMMA SameEpochStep == [EpP!RNext]_(EpP!rvars) <=> [Ep!RNext]_(Ep!rvars)
BY ZenonT(90)
   DEF Ep!gateVars, EpP!gateVars, Ep!recvVars, EpP!recvVars, Ep!encVars, EpP!encVars,
       Ep!keyVars, EpP!keyVars, Ep!logVars, EpP!logVars, Ep!vars, EpP!vars, Ep!Junk,
       EpP!Junk, Ep!NoCt, EpP!NoCt, Ep!true_surf, EpP!true_surf, Ep!Serving,
       EpP!Serving, Ep!Fail, EpP!Fail, Ep!Refuse, EpP!Refuse, Ep!reset_gate,
       EpP!reset_gate, Ep!reset_recv, EpP!reset_recv, Ep!reset_enc, EpP!reset_enc,
       Ep!reset_per_connection_state, EpP!reset_per_connection_state, Ep!Accept,
       EpP!Accept, Ep!Establish, EpP!Establish, Ep!SetupFails, EpP!SetupFails,
       Ep!PeerGone, EpP!PeerGone, Ep!derive_psk, EpP!derive_psk,
       Ep!write_completed_psk, EpP!write_completed_psk, Ep!shutdown, EpP!shutdown,
       Ep!CommitGate, EpP!CommitGate, Ep!read_key_commitment, EpP!read_key_commitment,
       Ep!ReleaseGate, EpP!ReleaseGate, Ep!release_key, EpP!release_key, Ep!RotateGate,
       EpP!RotateGate, Ep!rotate_resets_server, EpP!rotate_resets_server,
       Ep!rotate_resets_client, EpP!rotate_resets_client, Ep!rotate_installs,
       EpP!rotate_installs, Ep!rotate_key_op, EpP!rotate_key_op, Ep!VerifyGate,
       EpP!VerifyGate, Ep!TagPasses, EpP!TagPasses, Ep!KeyOpens, EpP!KeyOpens,
       Ep!verify_gcm_tag, EpP!verify_gcm_tag, Ep!InSeq, EpP!InSeq, Ep!EncryptGate,
       EpP!EncryptGate, Ep!encrypt_blocks, EpP!encrypt_blocks, Ep!TagGate, EpP!TagGate,
       Ep!LastSeq, EpP!LastSeq, Ep!make_gcm_tag, EpP!make_gcm_tag, Ep!proverVars,
       EpP!proverVars, Ep!originVars, EpP!originVars, Ep!wireVars, EpP!wireVars,
       Ep!verifierVars, EpP!verifierVars, Ep!rvars, EpP!rvars, Ep!ClientKey,
       EpP!ClientKey, Ep!ServerKey, EpP!ServerKey, Ep!Last, EpP!Last, Ep!IsAppData,
       EpP!IsAppData, Ep!AppData, EpP!AppData, Ep!Exchange, EpP!Exchange,
       Ep!VerifierGone, EpP!VerifierGone, Ep!ProverGone, EpP!ProverGone, Ep!Connect,
       EpP!Connect, Ep!Encrypt, EpP!Encrypt, Ep!Sealed1, EpP!Sealed1, Ep!SendRequest,
       EpP!SendRequest, Ep!NextWriteSeq, EpP!NextWriteSeq, Ep!SendKeyUpdate,
       EpP!SendKeyUpdate, Ep!RotateClient, EpP!RotateClient, Ep!SixBytes, EpP!SixBytes,
       Ep!StopSeen, EpP!StopSeen, Ep!Capture, EpP!Capture, Ep!DrainDone, EpP!DrainDone,
       Ep!FirstIndex, EpP!FirstIndex, Ep!Commit, EpP!Commit, Ep!Ct, EpP!Ct,
       Ep!AfterVerdict, EpP!AfterVerdict, Ep!VerifyRecord, EpP!VerifyRecord,
       Ep!Release, EpP!Release, Ep!Opened, EpP!Opened, Ep!NoEarlyClose,
       EpP!NoEarlyClose, Ep!EndsIn, EpP!EndsIn, Ep!BoundaryOk, EpP!BoundaryOk,
       Ep!OpenEpoch, EpP!OpenEpoch, Ep!OpenBatch, EpP!OpenBatch, Ep!AfterReplay,
       EpP!AfterReplay, Ep!HasTicket, EpP!HasTicket, Ep!MayDerive, EpP!MayDerive,
       Ep!Replay, EpP!Replay, Ep!PskDone, EpP!PskDone, Ep!RestartReadSeq,
       EpP!RestartReadSeq, Ep!Renumber, EpP!Renumber, Ep!RotateServer,
       EpP!RotateServer, Ep!Stop, EpP!Stop, Ep!Out, EpP!Out, Ep!Responses,
       EpP!Responses, Ep!Fits, EpP!Fits, Ep!Reading, EpP!Reading, Ep!Updated,
       EpP!Updated, Ep!OriginReads, EpP!OriginReads, Ep!OriginWrites, EpP!OriginWrites,
       Ep!OriginTicket, EpP!OriginTicket, Ep!OriginUpdatesItself,
       EpP!OriginUpdatesItself, Ep!OriginGone, EpP!OriginGone, Ep!Ended, EpP!Ended,
       Ep!Prover, EpP!Prover, Ep!Verifier, EpP!Verifier, Ep!Origin, EpP!Origin,
       Ep!RNext, EpP!RNext

LEMMA SameLateInit == LaP!RInit <=> La!RInit
BY DEF La!Junk, LaP!Junk, La!NoCt, LaP!NoCt, La!Init, LaP!Init, La!RInit, LaP!RInit

LEMMA SameLateStep == [LaP!RNext]_(LaP!rvars) <=> [La!RNext]_(La!rvars)
BY ZenonT(90)
   DEF La!gateVars, LaP!gateVars, La!recvVars, LaP!recvVars, La!encVars, LaP!encVars,
       La!keyVars, LaP!keyVars, La!logVars, LaP!logVars, La!vars, LaP!vars, La!Junk,
       LaP!Junk, La!NoCt, LaP!NoCt, La!true_surf, LaP!true_surf, La!Serving,
       LaP!Serving, La!Fail, LaP!Fail, La!Refuse, LaP!Refuse, La!reset_gate,
       LaP!reset_gate, La!reset_recv, LaP!reset_recv, La!reset_enc, LaP!reset_enc,
       La!reset_per_connection_state, LaP!reset_per_connection_state, La!Accept,
       LaP!Accept, La!Establish, LaP!Establish, La!SetupFails, LaP!SetupFails,
       La!PeerGone, LaP!PeerGone, La!derive_psk, LaP!derive_psk,
       La!write_completed_psk, LaP!write_completed_psk, La!shutdown, LaP!shutdown,
       La!CommitGate, LaP!CommitGate, La!read_key_commitment, LaP!read_key_commitment,
       La!ReleaseGate, LaP!ReleaseGate, La!release_key, LaP!release_key, La!RotateGate,
       LaP!RotateGate, La!rotate_resets_server, LaP!rotate_resets_server,
       La!rotate_resets_client, LaP!rotate_resets_client, La!rotate_installs,
       LaP!rotate_installs, La!rotate_key_op, LaP!rotate_key_op, La!VerifyGate,
       LaP!VerifyGate, La!TagPasses, LaP!TagPasses, La!KeyOpens, LaP!KeyOpens,
       La!verify_gcm_tag, LaP!verify_gcm_tag, La!InSeq, LaP!InSeq, La!EncryptGate,
       LaP!EncryptGate, La!encrypt_blocks, LaP!encrypt_blocks, La!TagGate, LaP!TagGate,
       La!LastSeq, LaP!LastSeq, La!make_gcm_tag, LaP!make_gcm_tag, La!proverVars,
       LaP!proverVars, La!originVars, LaP!originVars, La!wireVars, LaP!wireVars,
       La!verifierVars, LaP!verifierVars, La!rvars, LaP!rvars, La!ClientKey,
       LaP!ClientKey, La!ServerKey, LaP!ServerKey, La!Last, LaP!Last, La!IsAppData,
       LaP!IsAppData, La!AppData, LaP!AppData, La!Exchange, LaP!Exchange,
       La!VerifierGone, LaP!VerifierGone, La!ProverGone, LaP!ProverGone, La!Connect,
       LaP!Connect, La!Encrypt, LaP!Encrypt, La!Sealed1, LaP!Sealed1, La!SendRequest,
       LaP!SendRequest, La!NextWriteSeq, LaP!NextWriteSeq, La!SendKeyUpdate,
       LaP!SendKeyUpdate, La!RotateClient, LaP!RotateClient, La!SixBytes, LaP!SixBytes,
       La!StopSeen, LaP!StopSeen, La!Capture, LaP!Capture, La!DrainDone, LaP!DrainDone,
       La!FirstIndex, LaP!FirstIndex, La!Commit, LaP!Commit, La!Ct, LaP!Ct,
       La!AfterVerdict, LaP!AfterVerdict, La!VerifyRecord, LaP!VerifyRecord,
       La!Release, LaP!Release, La!Opened, LaP!Opened, La!NoEarlyClose,
       LaP!NoEarlyClose, La!EndsIn, LaP!EndsIn, La!BoundaryOk, LaP!BoundaryOk,
       La!OpenEpoch, LaP!OpenEpoch, La!OpenBatch, LaP!OpenBatch, La!AfterReplay,
       LaP!AfterReplay, La!HasTicket, LaP!HasTicket, La!MayDerive, LaP!MayDerive,
       La!Replay, LaP!Replay, La!PskDone, LaP!PskDone, La!RestartReadSeq,
       LaP!RestartReadSeq, La!Renumber, LaP!Renumber, La!RotateServer,
       LaP!RotateServer, La!Stop, LaP!Stop, La!Out, LaP!Out, La!Responses,
       LaP!Responses, La!Fits, LaP!Fits, La!Reading, LaP!Reading, La!Updated,
       LaP!Updated, La!OriginReads, LaP!OriginReads, La!OriginWrites, LaP!OriginWrites,
       La!OriginTicket, LaP!OriginTicket, La!OriginUpdatesItself,
       LaP!OriginUpdatesItself, La!OriginGone, LaP!OriginGone, La!Ended, LaP!Ended,
       La!Prover, LaP!Prover, La!Verifier, LaP!Verifier, La!Origin, LaP!Origin,
       La!RNext, LaP!RNext

LEMMA SameBatchInit == BaP!RInit <=> Ba!RInit
BY DEF Ba!Junk, BaP!Junk, Ba!NoCt, BaP!NoCt, Ba!Init, BaP!Init, Ba!RInit, BaP!RInit

LEMMA SameBatchStep == [BaP!RNext]_(BaP!rvars) <=> [Ba!RNext]_(Ba!rvars)
BY ZenonT(90)
   DEF Ba!gateVars, BaP!gateVars, Ba!recvVars, BaP!recvVars, Ba!encVars, BaP!encVars,
       Ba!keyVars, BaP!keyVars, Ba!logVars, BaP!logVars, Ba!vars, BaP!vars, Ba!Junk,
       BaP!Junk, Ba!NoCt, BaP!NoCt, Ba!true_surf, BaP!true_surf, Ba!Serving,
       BaP!Serving, Ba!Fail, BaP!Fail, Ba!Refuse, BaP!Refuse, Ba!reset_gate,
       BaP!reset_gate, Ba!reset_recv, BaP!reset_recv, Ba!reset_enc, BaP!reset_enc,
       Ba!reset_per_connection_state, BaP!reset_per_connection_state, Ba!Accept,
       BaP!Accept, Ba!Establish, BaP!Establish, Ba!SetupFails, BaP!SetupFails,
       Ba!PeerGone, BaP!PeerGone, Ba!derive_psk, BaP!derive_psk,
       Ba!write_completed_psk, BaP!write_completed_psk, Ba!shutdown, BaP!shutdown,
       Ba!CommitGate, BaP!CommitGate, Ba!read_key_commitment, BaP!read_key_commitment,
       Ba!ReleaseGate, BaP!ReleaseGate, Ba!release_key, BaP!release_key, Ba!RotateGate,
       BaP!RotateGate, Ba!rotate_resets_server, BaP!rotate_resets_server,
       Ba!rotate_resets_client, BaP!rotate_resets_client, Ba!rotate_installs,
       BaP!rotate_installs, Ba!rotate_key_op, BaP!rotate_key_op, Ba!VerifyGate,
       BaP!VerifyGate, Ba!TagPasses, BaP!TagPasses, Ba!KeyOpens, BaP!KeyOpens,
       Ba!verify_gcm_tag, BaP!verify_gcm_tag, Ba!InSeq, BaP!InSeq, Ba!EncryptGate,
       BaP!EncryptGate, Ba!encrypt_blocks, BaP!encrypt_blocks, Ba!TagGate, BaP!TagGate,
       Ba!LastSeq, BaP!LastSeq, Ba!make_gcm_tag, BaP!make_gcm_tag, Ba!proverVars,
       BaP!proverVars, Ba!originVars, BaP!originVars, Ba!wireVars, BaP!wireVars,
       Ba!verifierVars, BaP!verifierVars, Ba!rvars, BaP!rvars, Ba!ClientKey,
       BaP!ClientKey, Ba!ServerKey, BaP!ServerKey, Ba!Last, BaP!Last, Ba!IsAppData,
       BaP!IsAppData, Ba!AppData, BaP!AppData, Ba!Exchange, BaP!Exchange,
       Ba!VerifierGone, BaP!VerifierGone, Ba!ProverGone, BaP!ProverGone, Ba!Connect,
       BaP!Connect, Ba!Encrypt, BaP!Encrypt, Ba!Sealed1, BaP!Sealed1, Ba!SendRequest,
       BaP!SendRequest, Ba!NextWriteSeq, BaP!NextWriteSeq, Ba!SendKeyUpdate,
       BaP!SendKeyUpdate, Ba!RotateClient, BaP!RotateClient, Ba!SixBytes, BaP!SixBytes,
       Ba!StopSeen, BaP!StopSeen, Ba!Capture, BaP!Capture, Ba!DrainDone, BaP!DrainDone,
       Ba!FirstIndex, BaP!FirstIndex, Ba!Commit, BaP!Commit, Ba!Ct, BaP!Ct,
       Ba!AfterVerdict, BaP!AfterVerdict, Ba!VerifyRecord, BaP!VerifyRecord,
       Ba!Release, BaP!Release, Ba!Opened, BaP!Opened, Ba!NoEarlyClose,
       BaP!NoEarlyClose, Ba!EndsIn, BaP!EndsIn, Ba!BoundaryOk, BaP!BoundaryOk,
       Ba!OpenEpoch, BaP!OpenEpoch, Ba!OpenBatch, BaP!OpenBatch, Ba!AfterReplay,
       BaP!AfterReplay, Ba!HasTicket, BaP!HasTicket, Ba!MayDerive, BaP!MayDerive,
       Ba!Replay, BaP!Replay, Ba!PskDone, BaP!PskDone, Ba!RestartReadSeq,
       BaP!RestartReadSeq, Ba!Renumber, BaP!Renumber, Ba!RotateServer,
       BaP!RotateServer, Ba!Stop, BaP!Stop, Ba!Out, BaP!Out, Ba!Responses,
       BaP!Responses, Ba!Fits, BaP!Fits, Ba!Reading, BaP!Reading, Ba!Updated,
       BaP!Updated, Ba!OriginReads, BaP!OriginReads, Ba!OriginWrites, BaP!OriginWrites,
       Ba!OriginTicket, BaP!OriginTicket, Ba!OriginUpdatesItself,
       BaP!OriginUpdatesItself, Ba!OriginGone, BaP!OriginGone, Ba!Ended, BaP!Ended,
       Ba!Prover, BaP!Prover, Ba!Verifier, BaP!Verifier, Ba!Origin, BaP!Origin,
       Ba!RNext, BaP!RNext

\* The steps of the composition are steps of the configuration at hand.
LEMMA ConfigurationSteps ==
    ASSUME [MCNext]_mcvars
    PROVE  /\ conf' = conf
           /\ conf = "epoch" => [Ep!RNext]_(Ep!rvars)
           /\ conf = "late" => [La!RNext]_(La!rvars)
           /\ conf = "batch" => [Ba!RNext]_(Ba!rvars)
<1>1. CASE MCNext
  BY <1>1 DEF MCNext
<1>2. CASE UNCHANGED mcvars
  BY <1>2 DEF mcvars, rvars, Ep!rvars, La!rvars, Ba!rvars, verifierVars,
              Ep!verifierVars, La!verifierVars, Ba!verifierVars, proverVars,
              Ep!proverVars, La!proverVars, Ba!proverVars, originVars, Ep!originVars,
              La!originVars, Ba!originVars, wireVars, Ep!wireVars, La!wireVars,
              Ba!wireVars, keyVars, Ep!keyVars, La!keyVars, Ba!keyVars, gateVars,
              Ep!gateVars, La!gateVars, Ba!gateVars, recvVars, Ep!recvVars,
              La!recvVars, Ba!recvVars, encVars, Ep!encVars, La!encVars, Ba!encVars,
              logVars, Ep!logVars, La!logVars, Ba!logVars
<1> QED
  BY <1>1, <1>2

-----------------------------------------------------------------------------
(* The assumptions of the instances *)

LEMMA Constants ==
    /\ Mode = "Rotate" /\ ShouldAttest /\ Mode \in {"Masked", "True", "Rotate"}
    /\ MaxResponse \in Nat \ {0} /\ MaxTickets \in Nat /\ MaxUpdates \in Nat
    /\ ShouldAttest \in BOOLEAN /\ RetainCt \in BOOLEAN
    /\ Short \in BOOLEAN /\ LateTickets \in BOOLEAN /\ Timeouts \in BOOLEAN
    /\ MaxKey \in Nat /\ Lens \subseteq Nat \ {0} /\ Seq64 \subseteq Nat
BY RotateAssumption, MaxKeyAssumption, FlagAssumption, LensAssumption, SeqAssumption,
   ModeAssumption

LEMMA EpochConstants == EpP!RotateAssumption
BY Constants DEF EpP!RotateAssumption

LEMMA LateConstants == LaP!RotateAssumption
BY Constants DEF LaP!RotateAssumption

LEMMA BatchConstants == BaP!RotateAssumption
BY Constants DEF BaP!RotateAssumption

-----------------------------------------------------------------------------
(* The invariants of RotateSession_proofs in each configuration *)

EpochInv == EpP!HandedOut /\ EpP!AllVouched /\ EpP!Excused /\ EpP!KeysClosed

LateInv == LaP!HandedOut /\ LaP!AllVouched /\ LaP!Excused

BatchInv == BaP!HandedOut /\ BaP!AllVouched /\ BaP!Excused /\ BaP!KeysClosed

LEMMA EpochStarts == Ep!RInit => EpochInv
BY Constants, EpochConstants, SameEpochInit, EpP!HandedInit, EpP!VouchedInit,
   EpP!ExcusedInit, EpP!KeysClosedInit
   DEF EpochInv

LEMMA EpochKept == EpochInv /\ [Ep!RNext]_(Ep!rvars) => EpochInv'
<1> SUFFICES ASSUME EpochInv, [EpP!RNext]_(EpP!rvars) PROVE EpochInv'
  BY SameEpochStep
<1>1. EpP!HandedOut'
  BY Constants, EpochConstants, EpP!HandedKept DEF EpochInv
<1>2. EpP!AllVouched'
  BY Constants, EpochConstants, EpP!VouchedStep DEF EpochInv, EpP!HandedOut
<1>3. EpP!Excused'
  BY Constants, EpochConstants, EpP!ExcusedKept DEF EpochInv
<1>4. EpP!KeysClosed'
  BY Constants, EpochConstants, EpP!KeysClosedKept DEF EpochInv
<1> QED
  BY <1>1, <1>2, <1>3, <1>4 DEF EpochInv

LEMMA EpochImplies ==
    EpochInv => /\ EpP!RightResponse /\ EpP!DeliveredAttested /\ EpP!NoSpuriousFailure
                /\ EpP!ReleasedKeysClosed
BY Constants, EpochConstants, EpP!HandedImplies, EpP!VouchedImplies,
   EpP!ExcusedImplies, EpP!KeysClosedImplies
   DEF EpochInv

LEMMA LateStarts == La!RInit => LateInv
BY Constants, LateConstants, SameLateInit, LaP!HandedInit, LaP!VouchedInit,
   LaP!ExcusedInit
   DEF LateInv

LEMMA LateKept == LateInv /\ [La!RNext]_(La!rvars) => LateInv'
<1> SUFFICES ASSUME LateInv, [LaP!RNext]_(LaP!rvars) PROVE LateInv'
  BY SameLateStep
<1>1. LaP!HandedOut'
  BY Constants, LateConstants, LaP!HandedKept DEF LateInv
<1>2. LaP!AllVouched'
  BY Constants, LateConstants, LaP!VouchedStep DEF LateInv, LaP!HandedOut
<1>3. LaP!Excused'
  BY Constants, LateConstants, LaP!ExcusedKept DEF LateInv
<1> QED
  BY <1>1, <1>2, <1>3 DEF LateInv

LEMMA LateImplies ==
    LateInv => /\ LaP!RightResponse /\ LaP!DeliveredAttested /\ LaP!NoSpuriousFailure
BY Constants, LateConstants, LaP!HandedImplies, LaP!VouchedImplies, LaP!ExcusedImplies
   DEF LateInv

LEMMA BatchStarts == Ba!RInit => BatchInv
BY Constants, BatchConstants, SameBatchInit, BaP!HandedInit, BaP!VouchedInit,
   BaP!ExcusedInit, BaP!KeysClosedInit
   DEF BatchInv

LEMMA BatchKept == BatchInv /\ [Ba!RNext]_(Ba!rvars) => BatchInv'
<1> SUFFICES ASSUME BatchInv, [BaP!RNext]_(BaP!rvars) PROVE BatchInv'
  BY SameBatchStep
<1>1. BaP!HandedOut'
  BY Constants, BatchConstants, BaP!HandedKept DEF BatchInv
<1>2. BaP!AllVouched'
  BY Constants, BatchConstants, BaP!VouchedStep DEF BatchInv, BaP!HandedOut
<1>3. BaP!Excused'
  BY Constants, BatchConstants, BaP!ExcusedKept DEF BatchInv
<1>4. BaP!KeysClosed'
  BY Constants, BatchConstants, BaP!KeysClosedKept DEF BatchInv
<1> QED
  BY <1>1, <1>2, <1>3, <1>4 DEF BatchInv

LEMMA BatchImplies ==
    BatchInv => /\ BaP!RightResponse /\ BaP!DeliveredAttested /\ BaP!NoSpuriousFailure
                /\ BaP!ReleasedKeysClosed
BY Constants, BatchConstants, BaP!HandedImplies, BaP!VouchedImplies,
   BaP!ExcusedImplies, BaP!KeysClosedImplies
   DEF BatchInv

-----------------------------------------------------------------------------
(* The properties of the runs are the instances' *)

LEMMA SameResponses ==
    /\ EpP!RightResponse => RightResponse
    /\ LaP!RightResponse => RightResponse
    /\ BaP!RightResponse => RightResponse
BY DEF RightResponse, EpP!RightResponse, LaP!RightResponse, BaP!RightResponse,
       Data, EpP!Data, LaP!Data, BaP!Data

LEMMA SameAttested ==
    /\ EpP!DeliveredAttested => Ep!DeliveredAttested
    /\ LaP!DeliveredAttested => Ep!DeliveredAttested
    /\ BaP!DeliveredAttested => Ba!DeliveredAttested
BY DEF Ep!DeliveredAttested, EpP!DeliveredAttested, LaP!DeliveredAttested,
       Ba!DeliveredAttested, BaP!DeliveredAttested, Ep!Ct, EpP!Ct, LaP!Ct, Ba!Ct,
       BaP!Ct, Ep!ServerKey, EpP!ServerKey, LaP!ServerKey, Ba!ServerKey, BaP!ServerKey

LEMMA SameClosed ==
    /\ EpP!ReleasedKeysClosed => Ep!ReleasedKeysClosed
    /\ BaP!ReleasedKeysClosed => Ba!ReleasedKeysClosed
BY DEF Ep!ReleasedKeysClosed, EpP!ReleasedKeysClosed, Ba!ReleasedKeysClosed,
       BaP!ReleasedKeysClosed, Ep!ServerKey, EpP!ServerKey, Ba!ServerKey, BaP!ServerKey

LEMMA SameFailures ==
    /\ EpP!NoSpuriousFailure => NoSpuriousFailure
    /\ LaP!NoSpuriousFailure => NoSpuriousFailure
    /\ BaP!NoSpuriousFailure => NoSpuriousFailure
BY DEF NoSpuriousFailure, EpP!NoSpuriousFailure, LaP!NoSpuriousFailure,
       BaP!NoSpuriousFailure

-----------------------------------------------------------------------------
(* The composition *)

MCInv ==
    /\ conf \in {"epoch", "late", "batch"}
    /\ conf = "epoch" => EpochInv
    /\ conf = "late" => LateInv
    /\ conf = "batch" => BatchInv

LEMMA MCInitInv == MCInit => MCInv
BY EpochStarts, LateStarts, BatchStarts DEF MCInit, MCInv

LEMMA MCStepInv == MCInv /\ [MCNext]_mcvars => MCInv'
<1> SUFFICES ASSUME MCInv, [MCNext]_mcvars PROVE MCInv'
  OBVIOUS
<1>1. /\ conf' = conf
      /\ conf = "epoch" => [Ep!RNext]_(Ep!rvars)
      /\ conf = "late" => [La!RNext]_(La!rvars)
      /\ conf = "batch" => [Ba!RNext]_(Ba!rvars)
  BY ConfigurationSteps
<1> QED
  BY <1>1, EpochKept, LateKept, BatchKept DEF MCInv

\* In every configuration of the run, for responses of any length (in "late" with
\* any number of tickets, with and without timeouts, in "batch" with any number of
\* updates by the origin and with five-byte records): a release
\* (rotate_surf_release_epoch, rotate_surf_release) hands out the whole response to
\* its request and nothing else, and every record of it was attested by the
\* verifier under the origin's key and sequence number.
THEOREM DeliveredInAll == MCSpec => []DeliveredRightly
<1>1. MCInv => DeliveredRightly
  BY EpochImplies, LateImplies, BatchImplies, SameResponses, SameAttested
     DEF MCInv, DeliveredRightly
<1> QED
  BY <1>1, MCInitInv, MCStepInv, PTL DEF MCSpec

\* In the configurations without timeouts, the verifier's share of a server key
\* goes out (RELEASE_KEY) only after the origin has moved to a later key or
\* closed, so a record under a released key was sealed before the release.
THEOREM ReleasedInAll == MCSpec => []ReleasedInTime
<1>1. MCInv => ReleasedInTime
  BY EpochImplies, BatchImplies, SameClosed DEF MCInv, ReleasedInTime
<1> QED
  BY <1>1, MCInitInv, MCStepInv, PTL DEF MCSpec

\* In every configuration of the runs an attempt fails only for a reason outside
\* the protocol: a lost connection, a poll that expired, no ticket to derive from.
THEOREM SmoothInAll == MCSpec => []NoSpuriousFailure
<1>1. MCInv => NoSpuriousFailure
  BY EpochImplies, LateImplies, BatchImplies, SameFailures DEF MCInv
<1> QED
  BY <1>1, MCInitInv, MCStepInv, PTL DEF MCSpec

=============================================================================
