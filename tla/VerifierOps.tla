---------------------------- MODULE VerifierOps ----------------------------
(***************************************************************************)
(* The verifier (class Server, nodes/Server.cpp) once the joint handshake  *)
(* is over: from DERIVE_PSK on it serves whatever record operations the    *)
(* prover asks for, in whatever order the prover asks, until the session   *)
(* ends, and then the same object accepts the next connection.             *)
(*                                                                         *)
(* The prover is unconstrained: every handler is taken with every header   *)
(* and every argument.  A handler that returns false ends the run          *)
(* (run() / run_resumption() break out of their loop), so a refusal is a   *)
(* step to FAILED, never a step that can be retried.                       *)
(*                                                                         *)
(* A traffic key is known by a number that is never issued twice.  The     *)
(* prover's additive share of key k is written k, anything else it may     *)
(* feed to a circuit is the share of another key or Junk.  A ciphertext    *)
(* carries the key and sequence number it was sealed under and who sealed  *)
(* it.  The joint circuits are ideal: see TagPasses.                       *)
(***************************************************************************)
EXTENDS Integers, Sequences, FiniteSets

CONSTANTS
    Mode,          \* Surf::Mode of this process: "Masked", "True" or "Rotate"
    Seq64,         \* sequence numbers a prover may name (a set of naturals)
    Lens,          \* plaintext lengths a prover may name
    ShouldAttest,  \* Server::should_attest
    RetainCt,      \* Server::retain_ct
    MaxKey         \* bound on the traffic keys one verifier process derives

ASSUME ModeAssumption == Mode \in {"Masked", "True", "Rotate"}
ASSUME SeqAssumption == Seq64 \subseteq Nat
ASSUME LensAssumption == Lens \subseteq (Nat \ {0})
ASSUME FlagAssumption == ShouldAttest \in BOOLEAN /\ RetainCt \in BOOLEAN
ASSUME MaxKeyAssumption == MaxKey \in Nat

VARIABLES
    state,            \* Server::state, the states after the joint handshake
    skey, ckey,       \* whose share is server_key_share / client_key_share
    fresh,            \* traffic keys derived so far, over all connections
    base,             \* how many of them belong to earlier connections
    key_committed, key_released, key_commitment,
    verified_seqs,    \* only ever searched, so the vector is kept as a set
    attested_ct,      \* ciphertexts retained for a later disclosure
    encrypted_seqs,   \* a sequence: make_gcm_tag reads its last element
    encrypted_ct, encrypt_ct_len,
    \* What has left the verifier, or become fact, since the process started:
    committed,        \* keys under which a commitment was accepted
    leaked,           \* keys whose verifier share went on the wire
    attested,         \* [key, seq, ct]: tags this verifier vouches for
    revealed,         \* <<key, seq>>: keystream handed to the prover
    used, reused,     \* <<key, seq>> fed to the encryption circuit; and twice
    tagged            \* [key, seq, ct]: tags made for the prover's requests

gateVars == <<key_committed, key_released, key_commitment>>
recvVars == <<verified_seqs, attested_ct>>
encVars  == <<encrypted_seqs, encrypted_ct, encrypt_ct_len>>
keyVars  == <<skey, ckey, fresh, base>>
logVars  == <<committed, leaked, attested, revealed, used, reused, tagged>>
vars     == <<state, keyVars, gateVars, recvVars, encVars, logVars>>

Junk == 0
NoCt == [key |-> Junk, seq |-> 0, blocks |-> "none"]
Keys == 1 .. MaxKey
Shares == 0 .. MaxKey
Pairs == Keys \X Seq64

Ciphertexts == [key : Shares, seq : Seq64, by : {"origin", "prover"}]
Attestations == [key : Keys, seq : Seq64, ct : Ciphertexts]

\* Surf::is_capture(mode): the sealed-capture modes.
true_surf == Mode # "Masked"

ServingEarly == state \in {"SETUP", "DERIVE_PSK"} \/ (state = "SHUTDOWN" /\ ShouldAttest)

\* The two places that dispatch record operations: the drain inside
\* derive_psk and, when attestation is on, the loop of attest().
Serving == state = "DERIVE_PSK" \/ (state = "SHUTDOWN" /\ ShouldAttest)

-----------------------------------------------------------------------------
Init ==
    /\ state = "ACCEPT"
    /\ skey = Junk /\ ckey = Junk /\ fresh = 0 /\ base = 0
    /\ key_committed = FALSE /\ key_released = FALSE /\ key_commitment = Junk
    /\ verified_seqs = {} /\ attested_ct = {}
    /\ encrypted_seqs = <<>> /\ encrypted_ct = NoCt /\ encrypt_ct_len = 0
    /\ committed = {} /\ leaked = {} /\ attested = {} /\ revealed = {}
    /\ used = {} /\ reused = {} /\ tagged = {}

\* return false: the run loop breaks.  Whatever the handler had already
\* assigned stays as it is until the next connection resets it.
Fail == state' = "FAILED"

\* A refusal before the handler touched anything.
Refuse == Fail /\ UNCHANGED <<keyVars, gateVars, recvVars, encVars, logVars>>

-----------------------------------------------------------------------------
(* Connections *)

reset_gate ==
    /\ key_committed' = FALSE /\ key_released' = FALSE
    /\ key_commitment' = Junk

reset_recv == verified_seqs' = {} /\ attested_ct' = {}

reset_enc ==
    /\ encrypted_seqs' = <<>> /\ encrypted_ct' = NoCt /\ encrypt_ct_len' = 0

reset_per_connection_state == reset_gate /\ reset_recv /\ reset_enc

\* accept_and_read_mode(), or run()/run_resumption() entered cold.
Accept ==
    /\ state \in {"ACCEPT", "DONE", "FAILED"}
    /\ state' = "SETUP"
    /\ reset_per_connection_state
    /\ base' = fresh
    /\ UNCHANGED <<skey, ckey, fresh, logVars>>

\* CIRCUIT_PREPROC .. RES_DONE, the joint handshake: what survives of it here
\* is that derive_ts and derive_gcm_shares leave fresh traffic keys.
Establish ==
    /\ state = "SETUP"
    /\ fresh + 2 <= MaxKey
    /\ ckey' = fresh + 1 /\ skey' = fresh + 2 /\ fresh' = fresh + 2
    /\ state' = "DERIVE_PSK"
    /\ UNCHANGED <<base, gateVars, recvVars, encVars, logVars>>

SetupFails == state = "SETUP" /\ Refuse

\* read_single_header or read_exact_blocking fails, the header is none the
\* dispatcher knows, or a length field is out of range.
PeerGone == Serving /\ Refuse

\* derive_psk leaves its drain: DERIVE_PSK, _8, _0 (the circuit ran) or
\* PSK_SKIP.  Nothing below depends on which.
derive_psk ==
    /\ state = "DERIVE_PSK"
    /\ state' = "PSK_DONE"
    /\ UNCHANGED <<keyVars, gateVars, recvVars, encVars, logVars>>

write_completed_psk ==
    /\ state = "PSK_DONE"
    /\ state' \in {"SHUTDOWN", "FAILED"}
    /\ UNCHANGED <<keyVars, gateVars, recvVars, encVars, logVars>>

\* attest() returned on STOP, or was never entered; then shutdown().
shutdown ==
    /\ state = "SHUTDOWN"
    /\ state' = "DONE"
    /\ UNCHANGED <<keyVars, gateVars, recvVars, encVars, logVars>>

-----------------------------------------------------------------------------
(* Key commitment and release *)

CommitGateRepeat == true_surf /\ ~key_released

CommitGate == true_surf /\ ~key_committed /\ ~key_released

read_key_commitment(d) ==
    /\ Serving
    /\ IF CommitGate
       THEN /\ key_committed' = TRUE
            /\ key_commitment' = d
            /\ committed' = committed \cup {skey}
            /\ UNCHANGED <<state, keyVars, key_released, recvVars, encVars,
                           leaked, attested, revealed, used, reused, tagged>>
       ELSE Refuse

ReleaseGateUncommitted == true_surf /\ ~key_released

ReleaseGate == true_surf /\ key_committed /\ ~key_released

\* The latch is set before the write.  A write that fails may still have
\* put the share on the wire.
release_key ==
    /\ Serving
    /\ IF ReleaseGate
       THEN /\ key_released' = TRUE
            /\ \/ leaked' = leaked \cup {skey} /\ state' = state
               \/ leaked' \in {leaked, leaked \cup {skey}} /\ Fail
            /\ UNCHANGED <<keyVars, key_committed, key_commitment, recvVars,
                           encVars, committed, attested, revealed, used,
                           reused, tagged>>
       ELSE Refuse

RotateGateUnreleased(dir) == Mode = "Rotate"

RotateGate(dir) == Mode = "Rotate" /\ (dir = "server" => key_released)

rotate_resets_received ==
    verified_seqs' = {} /\ attested_ct' = {} /\ reset_gate

rotate_resets_server ==
    /\ verified_seqs' = {} /\ reset_gate /\ UNCHANGED attested_ct

rotate_resets_seqs_only ==
    encrypted_seqs' = <<>> /\ UNCHANGED <<encrypted_ct, encrypt_ct_len>>

rotate_resets_client == reset_enc

\* The new secret, key and IV are assigned first; if the new GCM share then
\* cannot be derived the handler returns false with the old latches in place.
\* The rotate circuit itself may fail before anything is assigned (PeerGone).
rotate_installs(dir) ==
    /\ fresh' = fresh + 1
    /\ skey' = IF dir = "server" THEN fresh + 1 ELSE skey
    /\ ckey' = IF dir = "client" THEN fresh + 1 ELSE ckey
    /\ UNCHANGED <<base, logVars>>

rotate_key_op(dir) ==
    /\ Serving
    /\ fresh < MaxKey
    /\ \/ ~RotateGate(dir) /\ Refuse
       \/ /\ RotateGate(dir) /\ rotate_installs(dir) /\ state' = state
          /\ \/ dir = "server" /\ rotate_resets_server /\ UNCHANGED encVars
             \/ dir = "client" /\ rotate_resets_client
                               /\ UNCHANGED <<gateVars, recvVars>>
       \/ /\ RotateGate(dir) /\ rotate_installs(dir) /\ Fail
          /\ UNCHANGED <<gateVars, recvVars, encVars>>

-----------------------------------------------------------------------------
(* Received records *)

VerifyGateAfterRelease == true_surf => key_committed

VerifyGate == true_surf => key_committed /\ ~key_released

\* The tag check of the joint circuit, as an ideal functionality: the prover
\* feeds its share of the key, and the tag fits only what was sealed under
\* the reconstructed key with this sequence number.  The origin's ciphertexts
\* qualify; one the prover sealed itself does too, but only with a key whose
\* verifier share it has been given.
TagPasses(seq, ct, share) ==
    /\ share = skey
    /\ ct.key = skey /\ ct.seq = seq
    /\ ct.by = "prover" => skey \in leaked

\* GCMVfyCommitCircuitOut::key_opened: the share fed is the one committed to.
KeyOpens(share) == share = key_commitment

\* In Rotate mode a tag that does not match is reported with TAG_REJECT and
\* the session goes on; in the other modes it ends the run.
verify_gcm_tag(seq, ct, share) ==
    /\ Serving
    /\ IF ~VerifyGate \/ (true_surf /\ ~KeyOpens(share)) THEN Refuse
       ELSE IF ~TagPasses(seq, ct, share)
       THEN \/ Refuse
            \/ Mode = "Rotate" /\ UNCHANGED vars
       ELSE /\ verified_seqs' = verified_seqs \cup {seq}
            /\ attested' = attested \cup {[key |-> skey, seq |-> seq, ct |-> ct]}
            /\ attested_ct' = IF true_surf /\ RetainCt
                              THEN attested_ct \cup {<<seq, ct>>}
                              ELSE attested_ct
            /\ \/ state' = state
               \/ Mode = "Rotate" /\ Fail          \* TAG_OK was not written
            /\ UNCHANGED <<keyVars, gateVars, encVars, committed, leaked,
                           revealed, used, reused, tagged>>

KeystreamGateAny(recs) == ~true_surf /\ \E s \in recs : s \in verified_seqs

\* ks_block_circuit exists in Masked mode only.
KeystreamGate(recs) == ~true_surf /\ \A s \in recs : s \in verified_seqs

\* The batches run one after another and each reveals its blocks; a failing
\* batch ends the run with the earlier ones revealed.
derive_keystream_blocks(recs) ==
    /\ Serving
    /\ IF KeystreamGate(recs)
       THEN /\ \/ state' = state /\ revealed' = revealed \cup ({skey} \X recs)
               \/ Fail /\ \E done \in SUBSET recs :
                             revealed' = revealed \cup ({skey} \X done)
            /\ UNCHANGED <<keyVars, gateVars, recvVars, encVars, committed,
                           leaked, attested, used, reused, tagged>>
       ELSE Refuse

-----------------------------------------------------------------------------
(* Requests *)

InSeq(s, x) == \E i \in DOMAIN s : s[i] = x

EncryptGateLast(seq) ==
    encrypted_seqs = <<>> \/ encrypted_seqs[Len(encrypted_seqs)] # seq

EncryptGate(seq) == ~InSeq(encrypted_seqs, seq)

\* encrypted_ct is assigned before the circuit runs; the sequence number and
\* the length are recorded only when every batch has succeeded.
encrypt_blocks(seq, len) ==
    /\ Serving
    /\ IF EncryptGate(seq)
       THEN /\ used' = used \cup {<<ckey, seq>>}
            /\ reused' = IF <<ckey, seq>> \in used
                         THEN reused \cup {<<ckey, seq>>} ELSE reused
            /\ \/ /\ state' = state
                  /\ encrypted_ct' = [key |-> ckey, seq |-> seq, blocks |-> "all"]
                  /\ encrypt_ct_len' = len
                  /\ encrypted_seqs' = Append(encrypted_seqs, seq)
               \/ /\ Fail
                  /\ encrypted_ct' = [key |-> ckey, seq |-> seq, blocks |-> "some"]
                  /\ UNCHANGED <<encrypt_ct_len, encrypted_seqs>>
            /\ UNCHANGED <<keyVars, gateVars, recvVars, committed, leaked,
                           attested, revealed, tagged>>
       ELSE Refuse

TagGate(len) == len = encrypt_ct_len /\ encrypted_ct # NoCt

\* encrypted_seqs.back(), whose value is anything at all on an empty vector.
LastSeq == IF encrypted_seqs = <<>> THEN Seq64
           ELSE {encrypted_seqs[Len(encrypted_seqs)]}

make_gcm_tag(len) ==
    /\ Serving
    /\ IF TagGate(len)
       THEN /\ \E s \in LastSeq :
                  tagged' = tagged \cup
                              {[key |-> ckey, seq |-> s, ct |-> encrypted_ct]}
            /\ state' = state
            /\ UNCHANGED <<keyVars, gateVars, recvVars, encVars, committed,
                           leaked, attested, revealed, used, reused>>
       ELSE Refuse

-----------------------------------------------------------------------------
Next ==
    \/ Accept \/ Establish \/ SetupFails \/ PeerGone
    \/ derive_psk \/ write_completed_psk \/ shutdown
    \/ \E d \in Shares : read_key_commitment(d)
    \/ release_key
    \/ \E dir \in {"client", "server"} : rotate_key_op(dir)
    \/ \E seq \in Seq64, ct \in Ciphertexts, share \in Shares :
          verify_gcm_tag(seq, ct, share)
    \/ \E recs \in SUBSET Seq64 : recs # {} /\ derive_keystream_blocks(recs)
    \/ \E seq \in Seq64, len \in Lens : encrypt_blocks(seq, len)
    \/ \E len \in Lens \cup {0} : make_gcm_tag(len)

Spec == Init /\ [][Next]_vars

-----------------------------------------------------------------------------
(* Properties *)

\* What encrypted_ct can hold.
Sealed == [key : Shares, seq : Nat, blocks : {"none", "some", "all"}]

LatchType == key_committed \in BOOLEAN /\ key_released \in BOOLEAN

KeyType ==
    /\ state \in {"ACCEPT", "SETUP", "DERIVE_PSK", "PSK_DONE", "SHUTDOWN",
                  "DONE", "FAILED"}
    /\ skey \in Shares /\ ckey \in Shares /\ fresh \in Shares /\ base \in Shares
    /\ key_commitment \in Shares

RecordType ==
    /\ verified_seqs \subseteq Seq64
    /\ attested_ct \subseteq (Seq64 \X Ciphertexts)
    /\ encrypted_seqs \in Seq(Seq64)
    /\ encrypted_ct \in Sealed
    /\ encrypt_ct_len \in Nat

LogType ==
    /\ committed \subseteq Keys /\ leaked \subseteq Keys
    /\ attested \subseteq Attestations
    /\ revealed \subseteq Pairs /\ used \subseteq Pairs /\ reused \subseteq Pairs
    /\ tagged \subseteq [key : Keys, seq : Seq64, ct : Sealed]

\* The types of all variables.
TypeOK == LatchType /\ KeyType /\ RecordType /\ LogType

\* Every record the verifier ever vouched for was sealed by the origin, under
\* the key and sequence number it was vouched for: whatever the order of
\* commitments, tag checks, releases, rotations and reconnections, a prover
\* that holds a released key cannot get its own ciphertext attested
\* (verify_gcm_tag refuses after release_key; rotate_key_op and the
\* connection reset re-open the gate only together with a new key).
AttestedGenuine ==
    \A a \in attested : a.ct = [key |-> a.key, seq |-> a.seq, by |-> "origin"]

\* Once the verifier's share of a key is on the wire, what is attested under
\* that key never changes again ("everything it will ever attest was
\* submitted and verified before now", release_key).
FrozenAfterRelease ==
    [][\A k \in leaked : {a \in attested' : a.key = k} = {a \in attested : a.key = k}]_vars

\* While a session goes on, the commitment the verifier holds opens to the
\* very share under which it has attested records of the current key: the
\* prover cannot replace it once a tag check has used it.
CommitmentBinds ==
    Serving /\ true_surf =>
        \A a \in attested : a.key = skey => key_committed /\ key_commitment = skey

\* No epoch that attested something is rotated away unreleased: the prover
\* always gets the share it needs to read what was attested.
RotatedOutReleased ==
    Serving /\ true_surf =>
        \A a \in attested : a.key > base /\ a.key # skey => a.key \in leaked

\* The encryption circuit never runs twice for the same client key and
\* sequence number, runs that failed half way included: encrypted_seqs is
\* forgotten only together with the key it protects.
NoNonceReuse == reused = {}

\* Every tag is over a complete ciphertext and uses the key and sequence
\* number of that ciphertext, although make_gcm_tag takes them from three
\* variables that encrypt_blocks and rotate_key_op set separately.
TagsMatch ==
    \A t \in tagged : t.ct = [key |-> t.key, seq |-> t.seq, blocks |-> "all"]

\* Keystream is handed out only for records whose tag this verifier checked
\* under the same key: verified_seqs never carries a sequence number over to
\* a key it was not verified under.
KeystreamOnlyVerified ==
    \A p \in revealed : \E a \in attested : a.key = p[1] /\ a.seq = p[2]

\* The ciphertexts kept for a later disclosure are exactly the ones attested
\* in this session, those of rotated-out epochs included.
RetainedRecords ==
    Serving /\ true_surf /\ RetainCt =>
        attested_ct = {<<a.seq, a.ct>> : a \in {b \in attested : b.key > base}}

\* In the sealed-capture modes the verifier implements the life of a key that
\* AttestedKeys describes.
Abstract == INSTANCE AttestedKeys
              WITH Key <- Keys, SeqNo <- Seq64, released <- leaked
AttestsInOrder == Abstract!ASpec
=============================================================================
