------------------------ MODULE VerifierOps_proofs ------------------------
(***************************************************************************)
(* Proofs about VerifierOps for every mode, every set of sequence numbers  *)
(* and lengths and every number of keys.                                   *)
(***************************************************************************)
EXTENDS VerifierOps, TLAPS

\* The run still goes on and has its traffic keys.
Live == state \in {"DERIVE_PSK", "PSK_DONE", "SHUTDOWN"}

\* Keys are issued in increasing order, and a live session works with keys
\* issued since it was accepted.
KeyOrder ==
    /\ base <= fresh
    /\ \A k \in committed \cup leaked : k <= fresh
    /\ \A a \in attested : a.key <= fresh
    /\ \A p \in used : p[1] <= fresh
    /\ state = "SETUP" => base = fresh
    /\ Live => /\ base < skey /\ skey <= fresh
               /\ base < ckey /\ ckey <= fresh

\* The disjuncts of Next, with the refusals of all handlers taken together.
Step ==
    \/ Refuse \/ UNCHANGED vars
    \/ Accept \/ Establish \/ derive_psk \/ write_completed_psk \/ shutdown
    \/ \E d \in Shares : CommitGate /\ read_key_commitment(d)
    \/ ReleaseGate /\ release_key
    \/ \E dir \in {"client", "server"} : RotateGate(dir) /\ rotate_key_op(dir)
    \/ \E seq \in Seq64, ct \in Ciphertexts, share \in Shares :
          /\ VerifyGate /\ (true_surf => KeyOpens(share))
          /\ TagPasses(seq, ct, share)
          /\ verify_gcm_tag(seq, ct, share)
    \/ \E recs \in SUBSET Seq64 :
          KeystreamGate(recs) /\ derive_keystream_blocks(recs)
    \/ \E seq \in Seq64, len \in Lens : EncryptGate(seq) /\ encrypt_blocks(seq, len)
    \/ \E len \in Lens \cup {0} : TagGate(len) /\ make_gcm_tag(len)

LEMMA NextIsStep == [Next]_vars => Step
<1> SUFFICES ASSUME Next PROVE Step
  BY DEF Step
<1>1. ASSUME NEW d \in Shares, read_key_commitment(d) PROVE Step
  BY <1>1 DEF Step, read_key_commitment
<1>2. CASE release_key
  BY <1>2 DEF Step, release_key
<1>3. ASSUME NEW dir \in {"client", "server"}, rotate_key_op(dir) PROVE Step
  BY <1>3 DEF Step, rotate_key_op
<1>4. ASSUME NEW seq \in Seq64, NEW ct \in Ciphertexts, NEW share \in Shares,
             verify_gcm_tag(seq, ct, share)
      PROVE  Step
  <2>1. \/ Refuse \/ UNCHANGED vars
        \/ VerifyGate /\ (true_surf => KeyOpens(share)) /\ TagPasses(seq, ct, share)
    BY <1>4 DEF verify_gcm_tag
  <2> QED
    BY <1>4, <2>1 DEF Step
<1>5. ASSUME NEW recs \in SUBSET Seq64, derive_keystream_blocks(recs) PROVE Step
  BY <1>5 DEF Step, derive_keystream_blocks
<1>6. ASSUME NEW seq \in Seq64, NEW len \in Lens, encrypt_blocks(seq, len) PROVE Step
  BY <1>6 DEF Step, encrypt_blocks
<1>7. ASSUME NEW len \in Lens \cup {0}, make_gcm_tag(len) PROVE Step
  BY <1>7 DEF Step, make_gcm_tag
<1>8. CASE Accept \/ Establish \/ SetupFails \/ PeerGone \/ derive_psk
           \/ write_completed_psk \/ shutdown
  BY <1>8 DEF Step, SetupFails, PeerGone
<1> QED
  BY <1>1, <1>2, <1>3, <1>4, <1>5, <1>6, <1>7, <1>8 DEF Next

LEMMA ServingLive == Serving => Live
BY DEF Serving, Live

-----------------------------------------------------------------------------
(* Types *)

LEMMA LatchStep == LatchType /\ Step => LatchType'
BY ZenonT(60) DEF LatchType, Step, Refuse, Accept, reset_per_connection_state, reset_gate,
       Establish, derive_psk, write_completed_psk, shutdown,
       read_key_commitment, release_key, rotate_key_op, rotate_resets_server,
       rotate_resets_client, verify_gcm_tag, derive_keystream_blocks,
       encrypt_blocks, make_gcm_tag, CommitGate, gateVars, vars

IndType == KeyType /\ RecordType /\ LogType /\ KeyOrder

LEMMA TypeInit == Init => IndType
<1> SUFFICES ASSUME Init PROVE IndType
  OBVIOUS
<1>1. KeyType
  BY MaxKeyAssumption DEF Init, KeyType, Shares, Junk
<1>2. RecordType
  BY MaxKeyAssumption DEF Init, RecordType, Sealed, NoCt, Junk, Shares
<1>3. LogType /\ KeyOrder
  BY DEF Init, LogType, KeyOrder, Live
<1> QED
  BY <1>1, <1>2, <1>3 DEF IndType

LEMMA RecordStep == KeyType /\ RecordType /\ Step => RecordType'
<1> SUFFICES ASSUME KeyType, RecordType, Step PROVE RecordType'
  OBVIOUS
<1>1. CASE UNCHANGED <<recvVars, encVars>>
  BY <1>1 DEF RecordType, recvVars, encVars
<1>2. CASE Accept
  BY <1>2, MaxKeyAssumption
     DEF RecordType, Sealed, Accept, reset_per_connection_state, reset_recv,
         reset_enc, NoCt, Junk, Shares
<1>3. ASSUME NEW dir \in {"client", "server"}, RotateGate(dir), rotate_key_op(dir)
      PROVE  RecordType'
  <2>1. CASE rotate_resets_client /\ UNCHANGED recvVars
    BY <2>1, MaxKeyAssumption
       DEF RecordType, Sealed, rotate_resets_client, reset_enc, NoCt, Junk, Shares, recvVars
  <2>2. CASE rotate_resets_server /\ UNCHANGED encVars
    BY <2>2 DEF RecordType, rotate_resets_server, encVars
  <2> QED
    BY <1>1, <1>3, <2>1, <2>2 DEF rotate_key_op
<1>4. ASSUME NEW seq \in Seq64, NEW ct \in Ciphertexts, NEW share \in Shares,
             verify_gcm_tag(seq, ct, share)
      PROVE  RecordType'
  BY <1>4 DEF RecordType, verify_gcm_tag, Refuse, recvVars, encVars, vars
<1>5. ASSUME NEW seq \in Seq64, NEW len \in Lens, EncryptGate(seq), encrypt_blocks(seq, len)
      PROVE  RecordType'
  <2>1. /\ encrypted_seqs' \in {encrypted_seqs, Append(encrypted_seqs, seq)}
        /\ encrypt_ct_len' \in {encrypt_ct_len, len}
        /\ \E b \in {"some", "all"} :
              encrypted_ct' = [key |-> ckey, seq |-> seq, blocks |-> b]
        /\ UNCHANGED recvVars
    BY <1>5 DEF encrypt_blocks
  <2>2. encrypted_seqs' \in Seq(Seq64)
    BY <2>1 DEF RecordType
  <2>3. encrypted_ct' \in Sealed
    BY <2>1, SeqAssumption DEF Sealed, KeyType
  <2> QED
    BY <2>1, <2>2, <2>3, LensAssumption DEF RecordType, recvVars
<1> QED
  BY <1>1, <1>2, <1>3, <1>4, <1>5
     DEF Step, Refuse, Establish, derive_psk, write_completed_psk, shutdown,
         read_key_commitment, release_key, derive_keystream_blocks,
         make_gcm_tag, vars

LEMMA KeyStep == KeyType /\ LogType /\ KeyOrder /\ Step => KeyType' /\ KeyOrder'
<1> SUFFICES ASSUME KeyType, LogType, KeyOrder, Step PROVE KeyType' /\ KeyOrder'
  OBVIOUS
<1>1. CASE Refuse \/ UNCHANGED vars \/ derive_psk \/ write_completed_psk \/ shutdown
  BY <1>1 DEF KeyType, KeyOrder, Live, Refuse, Fail, derive_psk, write_completed_psk,
              shutdown, vars, keyVars, gateVars, logVars
<1>2. CASE Accept
  BY <1>2, MaxKeyAssumption
     DEF KeyType, KeyOrder, LogType, Live, Accept, reset_per_connection_state,
         reset_gate, Junk, Shares, logVars
<1>3. CASE Establish
  BY <1>3, MaxKeyAssumption
     DEF KeyType, KeyOrder, LogType, Live, Establish, Shares, Keys, Attestations,
         Pairs, gateVars, logVars
<1>4. ASSUME NEW d \in Shares, CommitGate, read_key_commitment(d)
      PROVE  KeyType' /\ KeyOrder'
  BY <1>4, ServingLive DEF KeyType, KeyOrder, Live, read_key_commitment, keyVars
<1>5. CASE ReleaseGate /\ release_key
  BY <1>5, ServingLive DEF KeyType, KeyOrder, Live, release_key, Fail, keyVars
<1>6. ASSUME NEW dir \in {"client", "server"}, RotateGate(dir), rotate_key_op(dir)
      PROVE  KeyType' /\ KeyOrder'
  <2>1. key_commitment' \in {key_commitment, Junk}
    BY <1>6 DEF rotate_key_op, rotate_resets_server, reset_gate, gateVars
  <2>2. /\ fresh < MaxKey /\ rotate_installs(dir) /\ Live
        /\ state' \in {state, "FAILED"}
    BY <1>6, ServingLive DEF rotate_key_op, Fail
  <2>3. KeyType'
    BY <2>1, <2>2, MaxKeyAssumption DEF KeyType, rotate_installs, Shares, Junk
  <2>4. KeyOrder'
    BY <2>2, MaxKeyAssumption
       DEF KeyType, KeyOrder, LogType, Live, rotate_installs, Shares, Keys,
           Attestations, Pairs, logVars
  <2> QED
    BY <2>3, <2>4
<1>7. ASSUME NEW seq \in Seq64, NEW ct \in Ciphertexts, NEW share \in Shares,
             TagPasses(seq, ct, share), VerifyGate, true_surf => KeyOpens(share),
             verify_gcm_tag(seq, ct, share)
      PROVE  KeyType' /\ KeyOrder'
  BY <1>7, ServingLive DEF KeyType, KeyOrder, Live, verify_gcm_tag, Fail, keyVars, gateVars
<1>8. ASSUME NEW recs \in SUBSET Seq64, KeystreamGate(recs), derive_keystream_blocks(recs)
      PROVE  KeyType' /\ KeyOrder'
  BY <1>8, ServingLive DEF KeyType, KeyOrder, Live, derive_keystream_blocks, Fail,
                           keyVars, gateVars
<1>9. ASSUME NEW seq \in Seq64, NEW len \in Lens, EncryptGate(seq), encrypt_blocks(seq, len)
      PROVE  KeyType' /\ KeyOrder'
  BY <1>9, ServingLive DEF KeyType, KeyOrder, Live, encrypt_blocks, Fail, keyVars, gateVars
<1>10. ASSUME NEW len \in Lens \cup {0}, TagGate(len), make_gcm_tag(len)
       PROVE  KeyType' /\ KeyOrder'
  BY <1>10, ServingLive DEF KeyType, KeyOrder, Live, make_gcm_tag, keyVars, gateVars
<1> QED
  BY <1>1, <1>2, <1>3, <1>4, <1>5, <1>6, <1>7, <1>8, <1>9, <1>10 DEF Step

LEMMA LogStep ==
    KeyType /\ RecordType /\ LogType /\ KeyOrder /\ Step => LogType'
<1> SUFFICES ASSUME KeyType, RecordType, LogType, KeyOrder, Step PROVE LogType'
  OBVIOUS
<1>0. Serving => skey \in Keys /\ ckey \in Keys
  BY ServingLive, MaxKeyAssumption DEF KeyType, KeyOrder, Keys, Shares
<1>1. CASE UNCHANGED logVars
  BY <1>1 DEF LogType, logVars
<1>2. ASSUME NEW d \in Shares, CommitGate, read_key_commitment(d) PROVE LogType'
  BY <1>0, <1>2 DEF LogType, read_key_commitment
<1>3. CASE ReleaseGate /\ release_key
  BY <1>0, <1>3 DEF LogType, release_key
<1>4. ASSUME NEW seq \in Seq64, NEW ct \in Ciphertexts, NEW share \in Shares,
             VerifyGate, true_surf => KeyOpens(share), TagPasses(seq, ct, share),
             verify_gcm_tag(seq, ct, share)
      PROVE  LogType'
  BY <1>0, <1>4 DEF LogType, verify_gcm_tag, Attestations
<1>5. ASSUME NEW recs \in SUBSET Seq64, KeystreamGate(recs), derive_keystream_blocks(recs)
      PROVE  LogType'
  BY <1>0, <1>5 DEF LogType, derive_keystream_blocks, Pairs
<1>6. ASSUME NEW seq \in Seq64, NEW len \in Lens, EncryptGate(seq), encrypt_blocks(seq, len)
      PROVE  LogType'
  BY <1>0, <1>6 DEF LogType, encrypt_blocks, Pairs
<1>7. ASSUME NEW len \in Lens \cup {0}, TagGate(len), make_gcm_tag(len) PROVE LogType'
  <2>1. LastSeq \subseteq Seq64
    BY DEF LastSeq, RecordType
  <2> QED
    BY <1>0, <1>7, <2>1 DEF LogType, RecordType, make_gcm_tag
<1> QED
  BY <1>1, <1>2, <1>3, <1>4, <1>5, <1>6, <1>7
     DEF Step, Refuse, Accept, Establish, derive_psk, write_completed_psk,
         shutdown, rotate_key_op, rotate_installs, vars

LEMMA TypeStep == IndType /\ Step => IndType'
BY KeyStep, RecordStep, LogStep DEF IndType

\* The type invariant holds in every reachable state of the verifier.
THEOREM TypeCorrect == Spec => []TypeOK
<1>1. Init => LatchType
  BY DEF Init, LatchType
<1>2. IndType /\ LatchType => TypeOK
  BY DEF IndType, TypeOK
<1> QED
  BY <1>1, <1>2, TypeInit, TypeStep, LatchStep, NextIsStep, PTL DEF Spec

-----------------------------------------------------------------------------
(* The life of a server key *)

\* The latches tell the truth about the current key, and only about it; a
\* session that has no keys yet starts with everything cleared.
Latches ==
    /\ state = "SETUP" => ~key_committed /\ ~key_released
    /\ Live => (key_committed <=> skey \in committed)
    /\ Live => (key_released <=> skey \in leaked)

\* What has been attested, against what was committed and released.
Vouched ==
    /\ leaked \subseteq committed
    /\ AttestedGenuine
    /\ true_surf => \A a \in attested : a.key \in committed
    /\ ~true_surf => leaked = {}

LEMMA LatchesStep ==
    KeyType /\ LogType /\ KeyOrder /\ LatchType /\ Latches /\ Step => Latches'
<1> SUFFICES ASSUME KeyType, LogType, KeyOrder, LatchType, Latches, Step PROVE Latches'
  OBVIOUS
<1>1. CASE Refuse
  BY <1>1 DEF Latches, Live, Refuse, Fail
<1>2. CASE Accept
  BY <1>2 DEF Latches, Live, Accept, reset_per_connection_state, reset_gate
<1>3. CASE Establish
  <2>1. skey' \notin committed /\ skey' \notin leaked
    BY <1>3 DEF Establish, KeyType, LogType, KeyOrder, Keys, Shares
  <2> QED
    BY <1>3, <2>1 DEF Latches, Live, Establish, gateVars, logVars
<1>4. CASE derive_psk \/ write_completed_psk \/ shutdown
  BY <1>4 DEF Latches, Live, derive_psk, write_completed_psk, shutdown,
              keyVars, gateVars, logVars
<1>5. ASSUME NEW d \in Shares, CommitGate, read_key_commitment(d) PROVE Latches'
  BY <1>5, ServingLive DEF Latches, Live, read_key_commitment, keyVars
<1>6. CASE ReleaseGate /\ release_key
  BY <1>6, ServingLive DEF Latches, Live, release_key, Fail, keyVars
<1>7. ASSUME NEW dir \in {"client", "server"}, RotateGate(dir), rotate_key_op(dir)
      PROVE  Latches'
  <2>1. CASE state' = "FAILED"
    BY <2>1 DEF Latches, Live
  <2>2. CASE dir = "server" /\ rotate_resets_server
    <3>1. skey' \notin committed /\ skey' \notin leaked
      BY <1>7, <2>2 DEF rotate_key_op, rotate_installs, KeyType, LogType,
                        KeyOrder, Keys, Shares
    <3> QED
      BY <1>7, <2>2, <3>1, ServingLive
         DEF Latches, Live, rotate_key_op, rotate_installs, rotate_resets_server,
             reset_gate, Fail, logVars
  <2>3. CASE dir = "client" /\ state' = state
    BY <1>7, <2>3 DEF Latches, Live, rotate_key_op, rotate_installs, Fail,
                      gateVars, logVars
  <2> QED
    BY <1>7, <2>1, <2>2, <2>3 DEF rotate_key_op, Fail
<1>8. CASE UNCHANGED <<keyVars, gateVars, committed, leaked>> /\ state' \in {state, "FAILED"}
  BY <1>8 DEF Latches, Live, keyVars, gateVars
<1> QED
  BY <1>1, <1>2, <1>3, <1>4, <1>5, <1>6, <1>7, <1>8
     DEF Step, verify_gcm_tag, derive_keystream_blocks, encrypt_blocks,
         make_gcm_tag, Fail, vars, logVars

LEMMA VouchedStep ==
    KeyType /\ Latches /\ Vouched /\ Step => Vouched'
<1> SUFFICES ASSUME KeyType, Latches, Vouched, Step PROVE Vouched'
  OBVIOUS
<1>1. CASE UNCHANGED <<committed, leaked, attested>>
  BY <1>1 DEF Vouched, AttestedGenuine
<1>2. ASSUME NEW d \in Shares, CommitGate, read_key_commitment(d) PROVE Vouched'
  BY <1>2 DEF Vouched, AttestedGenuine, read_key_commitment
<1>3. CASE ReleaseGate /\ release_key
  BY <1>3, ServingLive DEF Vouched, AttestedGenuine, Latches, ReleaseGate, release_key
<1>4. ASSUME NEW seq \in Seq64, NEW ct \in Ciphertexts, NEW share \in Shares,
             VerifyGate, true_surf => KeyOpens(share), TagPasses(seq, ct, share),
             verify_gcm_tag(seq, ct, share)
      PROVE  Vouched'
  <2>1. skey \notin leaked /\ (true_surf => skey \in committed)
    BY <1>4, ServingLive DEF VerifyGate, Latches, Vouched, verify_gcm_tag
  <2>2. ct = [key |-> skey, seq |-> seq, by |-> "origin"]
    BY <1>4, <2>1 DEF TagPasses, Ciphertexts
  <2>3. /\ attested' = attested \cup {[key |-> skey, seq |-> seq, ct |-> ct]}
        /\ UNCHANGED <<committed, leaked>>
    BY <1>4 DEF verify_gcm_tag
  <2> QED
    BY <2>1, <2>2, <2>3 DEF Vouched, AttestedGenuine
<1> QED
  BY <1>1, <1>2, <1>3, <1>4
     DEF Step, Refuse, Accept, Establish, derive_psk, write_completed_psk,
         shutdown, rotate_key_op, rotate_installs, derive_keystream_blocks,
         encrypt_blocks, make_gcm_tag, logVars, vars

IndKey == IndType /\ LatchType /\ Latches /\ Vouched

LEMMA KeyLifeInductive == Spec => []IndKey
<1>1. Init => IndKey
  BY TypeInit DEF Init, IndKey, LatchType, Latches, Live, Vouched, AttestedGenuine
<1>2. IndKey /\ [Next]_vars => IndKey'
  BY NextIsStep, TypeStep, LatchStep, LatchesStep, VouchedStep DEF IndKey, IndType
<1> QED
  BY <1>1, <1>2, PTL DEF Spec

\* Every record the verifier ever vouches for was sealed by the origin.
THEOREM OnlyGenuineAttested == Spec => []AttestedGenuine
<1>1. IndKey => AttestedGenuine
  BY DEF IndKey, Vouched
<1> QED
  BY <1>1, KeyLifeInductive, PTL

LEMMA AttestStep ==
    ASSUME IndKey, Step
    PROVE  \/ attested' = attested
           \/ /\ skey \notin leaked
              /\ \E s \in Seq64, c \in Ciphertexts :
                    attested' = attested \cup {[key |-> skey, seq |-> s, ct |-> c]}
<1>1. ASSUME NEW seq \in Seq64, NEW ct \in Ciphertexts, NEW share \in Shares,
             VerifyGate, true_surf => KeyOpens(share), TagPasses(seq, ct, share),
             verify_gcm_tag(seq, ct, share)
      PROVE  /\ skey \notin leaked
             /\ attested' = attested \cup {[key |-> skey, seq |-> seq, ct |-> ct]}
  BY <1>1, ServingLive DEF IndKey, VerifyGate, Latches, Vouched, verify_gcm_tag
<1> QED
  BY <1>1
     DEF Step, Refuse, Accept, Establish, derive_psk, write_completed_psk,
         shutdown, rotate_key_op, rotate_installs, derive_keystream_blocks,
         encrypt_blocks, make_gcm_tag, read_key_commitment, release_key,
         logVars, vars

\* What is attested under a key is final once its share has been released.
THEOREM ReleaseFreezes == Spec => FrozenAfterRelease
<1>1. IndKey /\ [Next]_vars =>
        [\A k \in leaked : {a \in attested' : a.key = k} = {a \in attested : a.key = k}]_vars
  <2> SUFFICES ASSUME IndKey, Step, NEW k \in leaked
               PROVE  {a \in attested' : a.key = k} = {a \in attested : a.key = k}
    BY NextIsStep
  <2> QED
    BY AttestStep
<1> QED
  BY <1>1, KeyLifeInductive, PTL DEF Spec, FrozenAfterRelease

LEMMA KeyLifeStep ==
    ASSUME IndKey, Step, true_surf
    PROVE  \/ Abstract!ANext
           \/ UNCHANGED <<committed, leaked, attested>>
<1>0. Serving => skey \in Keys
  BY ServingLive, MaxKeyAssumption DEF IndKey, IndType, KeyType, KeyOrder, Keys, Shares
<1>1. ASSUME NEW d \in Shares, CommitGate, read_key_commitment(d) PROVE Abstract!ANext
  <2>1. Abstract!Commit(skey)
    BY <1>1, ServingLive DEF Abstract!Commit, IndKey, Latches, CommitGate, read_key_commitment
  <2> QED
    BY <1>0, <1>1, <2>1 DEF Abstract!ANext, read_key_commitment
<1>2. CASE ReleaseGate /\ release_key
  <2>1. Abstract!Release(skey) \/ UNCHANGED <<committed, leaked, attested>>
    BY <1>2, ServingLive DEF Abstract!Release, IndKey, Latches, ReleaseGate, release_key
  <2> QED
    BY <1>0, <1>2, <2>1 DEF Abstract!ANext, release_key
<1>3. ASSUME NEW seq \in Seq64, NEW ct \in Ciphertexts, NEW share \in Shares,
             VerifyGate, true_surf => KeyOpens(share), TagPasses(seq, ct, share),
             verify_gcm_tag(seq, ct, share)
      PROVE  Abstract!ANext
  <2>1. skey \in committed \ leaked
    BY <1>3, ServingLive DEF IndKey, VerifyGate, Latches, verify_gcm_tag
  <2>2. ct = [key |-> skey, seq |-> seq, by |-> "origin"]
    BY <1>3, <2>1 DEF TagPasses, Ciphertexts
  <2>3. Abstract!Attest(skey, seq)
    BY <1>3, <2>1, <2>2 DEF Abstract!Attest, Abstract!OriginRecord, verify_gcm_tag
  <2> QED
    BY <1>0, <1>3, <2>3 DEF Abstract!ANext, verify_gcm_tag
<1> QED
  BY <1>1, <1>2, <1>3
     DEF Step, Refuse, Accept, Establish, derive_psk, write_completed_psk,
         shutdown, rotate_key_op, rotate_installs, derive_keystream_blocks,
         encrypt_blocks, make_gcm_tag, logVars, vars

\* In the sealed-capture modes the verifier, with all its connections, states
\* and refusals, implements the life of a key that AttestedKeys describes.
THEOREM ImplementsAttestedKeys == ASSUME true_surf PROVE Spec => AttestsInOrder
<1>1. Init => Abstract!AInit
  BY DEF Init, Abstract!AInit
<1>2. IndKey /\ [Next]_vars => [Abstract!ANext]_(Abstract!avars)
  BY NextIsStep, KeyLifeStep DEF Abstract!avars
<1> QED
  BY <1>1, <1>2, KeyLifeInductive, PTL DEF Spec, AttestsInOrder, Abstract!ASpec

-----------------------------------------------------------------------------
(* Requests: nonces and tags *)

\* The sequence numbers recorded in a live session cover every use of its
\* client key, and encrypted_ct is either absent or the complete ciphertext
\* of the last one recorded.
Requests ==
    /\ state = "SETUP" => encrypted_seqs = <<>> /\ encrypted_ct = NoCt
    /\ Live => \A q \in Seq64 : <<ckey, q>> \in used => InSeq(encrypted_seqs, q)
    /\ Live /\ encrypted_ct # NoCt =>
          /\ encrypted_seqs # <<>>
          /\ encrypted_ct = [key |-> ckey, seq |-> encrypted_seqs[Len(encrypted_seqs)],
                             blocks |-> "all"]
    /\ NoNonceReuse
    /\ TagsMatch

LEMMA AppendFacts ==
    ASSUME NEW S, NEW s \in Seq(S), NEW x \in S
    PROVE  /\ Append(s, x) # <<>>
           /\ Append(s, x)[Len(Append(s, x))] = x
           /\ InSeq(Append(s, x), x)
           /\ \A y : InSeq(s, y) => InSeq(Append(s, x), y)
BY DEF InSeq

LEMMA RequestsStep ==
    KeyType /\ RecordType /\ LogType /\ KeyOrder /\ Requests /\ Step => Requests'
<1> SUFFICES ASSUME KeyType, RecordType, LogType, KeyOrder, Requests, Step
             PROVE  Requests'
  OBVIOUS
<1>1. CASE /\ UNCHANGED <<ckey, encVars, used, reused, tagged>>
           /\ state' \in {state, "FAILED", "PSK_DONE", "SHUTDOWN", "DONE"}
           /\ state' \in {"PSK_DONE", "SHUTDOWN"} => Live
  BY <1>1 DEF Requests, Live, NoNonceReuse, TagsMatch, InSeq, encVars
<1>2. CASE Accept
  BY <1>2 DEF Requests, Live, NoNonceReuse, TagsMatch, Accept,
              reset_per_connection_state, reset_enc, logVars
<1>3. CASE Establish
  <2>1. \A q \in Seq64 : <<ckey', q>> \notin used
    BY <1>3 DEF Establish, KeyType, LogType, KeyOrder, Shares, Keys, Pairs
  <2> QED
    BY <1>3, <2>1 DEF Requests, Live, NoNonceReuse, TagsMatch, Establish, encVars, logVars
<1>4. ASSUME NEW dir \in {"client", "server"}, RotateGate(dir), rotate_key_op(dir)
      PROVE  Requests'
  <2>1. CASE state' = "FAILED"
    BY <1>4, <2>1 DEF Requests, Live, NoNonceReuse, TagsMatch, rotate_key_op,
                      rotate_installs, logVars
  <2>2. CASE dir = "client" /\ rotate_resets_client /\ state' = state
    <3>1. \A q \in Seq64 : <<ckey', q>> \notin used
      BY <1>4, <2>2 DEF rotate_key_op, rotate_installs, KeyType, LogType,
                        KeyOrder, Shares, Keys, Pairs
    <3> QED
      BY <1>4, <2>2, <3>1
         DEF Requests, Live, NoNonceReuse, TagsMatch, rotate_key_op,
             rotate_installs, rotate_resets_client, reset_enc, logVars
  <2>3. CASE dir = "server" /\ UNCHANGED encVars /\ state' = state
    BY <1>4, <2>3 DEF Requests, Live, NoNonceReuse, TagsMatch, rotate_key_op,
                      rotate_installs, encVars, logVars
  <2> QED
    BY <1>4, <2>1, <2>2, <2>3 DEF rotate_key_op, Fail
<1>5. ASSUME NEW seq \in Seq64, NEW len \in Lens, EncryptGate(seq), encrypt_blocks(seq, len)
      PROVE  Requests'
  <2>1. /\ <<ckey, seq>> \notin used
        /\ used' = used \cup {<<ckey, seq>>} /\ reused' = reused
        /\ UNCHANGED <<ckey, tagged>>
    BY <1>5, ServingLive DEF encrypt_blocks, EncryptGate, Requests, keyVars
  <2>2. CASE state' = "FAILED"
    BY <2>1, <2>2 DEF Requests, Live, NoNonceReuse, TagsMatch
  <2>3. CASE /\ state' = state
             /\ encrypted_ct' = [key |-> ckey, seq |-> seq, blocks |-> "all"]
             /\ encrypted_seqs' = Append(encrypted_seqs, seq)
    <3>1. Live /\ state # "SETUP"
      BY <1>5, ServingLive DEF encrypt_blocks, Live
    <3> QED
      BY <2>1, <2>3, <3>1, AppendFacts DEF Requests, Live, NoNonceReuse, TagsMatch, RecordType
  <2> QED
    BY <1>5, <2>2, <2>3 DEF encrypt_blocks, Fail
<1>6. ASSUME NEW len \in Lens \cup {0}, TagGate(len), make_gcm_tag(len) PROVE Requests'
  <2>1. encrypted_ct = [key |-> ckey, seq |-> encrypted_seqs[Len(encrypted_seqs)], blocks |-> "all"]
        /\ LastSeq = {encrypted_seqs[Len(encrypted_seqs)]}
    BY <1>6, ServingLive DEF make_gcm_tag, TagGate, Requests, LastSeq
  <2>2. tagged' = tagged \cup {[key |-> ckey, seq |-> encrypted_seqs[Len(encrypted_seqs)],
                                ct |-> encrypted_ct]}
    BY <1>6, <2>1 DEF make_gcm_tag
  <2>3. TagsMatch'
    <3> SUFFICES ASSUME NEW t \in tagged'
                 PROVE  t.ct = [key |-> t.key, seq |-> t.seq, blocks |-> "all"]
      BY Zenon DEF TagsMatch
    <3>1. CASE t \in tagged
      BY <3>1 DEF Requests, TagsMatch
    <3>2. CASE t = [key |-> ckey, seq |-> encrypted_seqs[Len(encrypted_seqs)],
                    ct |-> encrypted_ct]
      <4>1. t.key = ckey /\ t.seq = encrypted_seqs[Len(encrypted_seqs)]
            /\ t.ct = encrypted_ct
        BY <3>2
      <4> QED
        BY <2>1, <4>1
    <3> QED
      BY <2>2, <3>1, <3>2
  <2>4. UNCHANGED <<state, ckey, encrypted_seqs, encrypted_ct, used, reused>>
    BY <1>6 DEF make_gcm_tag, keyVars, encVars
  <2> QED
    BY <2>3, <2>4 DEF Requests, Live, NoNonceReuse, InSeq
<1> QED
  BY <1>1, <1>2, <1>3, <1>4, <1>5, <1>6
     DEF Step, Refuse, Fail, Live, derive_psk, write_completed_psk, shutdown,
         read_key_commitment, release_key, verify_gcm_tag,
         derive_keystream_blocks, keyVars, logVars, vars

LEMMA RequestsInductive == Spec => [](IndType /\ Requests)
<1>1. Init => Requests
  BY DEF Init, Requests, Live, NoNonceReuse, TagsMatch
<1>2. IndType /\ Requests /\ [Next]_vars => IndType' /\ Requests'
  BY NextIsStep, TypeStep, RequestsStep DEF IndType
<1> QED
  BY <1>1, <1>2, TypeInit, PTL DEF Spec

\* The encryption circuit never runs twice under one client key and sequence
\* number, over any number of connections and rotations.
THEOREM NoncesFresh == Spec => []NoNonceReuse
<1>1. Requests => NoNonceReuse
  BY DEF Requests
<1> QED
  BY <1>1, RequestsInductive, PTL

\* Every tag covers a complete ciphertext under its own key and sequence number.
THEOREM TagsCorrect == Spec => []TagsMatch
<1>1. Requests => TagsMatch
  BY DEF Requests
<1> QED
  BY <1>1, RequestsInductive, PTL

-----------------------------------------------------------------------------
(* Received records: commitments, rotations and keystream *)

\* In a live session, what is attested under the current key is bound by the
\* commitment held, and what is attested under an earlier key of the session
\* has been released.
Bound ==
    Live /\ true_surf =>
        \A a \in attested :
            /\ a.key = skey => key_committed /\ key_commitment = skey
            /\ a.key > base /\ a.key # skey => a.key \in leaked

\* verified_seqs speaks of the current key only.
Verified ==
    /\ state = "SETUP" => verified_seqs = {}
    /\ Live => \A q \in verified_seqs : \E a \in attested : a.key = skey /\ a.seq = q
    /\ KeystreamOnlyVerified

LEMMA BoundStep == IndKey /\ Bound /\ Step => Bound'
<1> SUFFICES ASSUME IndKey, Bound, Step, Live', true_surf,
                    NEW a \in attested'
             PROVE  /\ a.key = skey' => key_committed' /\ key_commitment' = skey'
                    /\ a.key > base' /\ a.key # skey' => a.key \in leaked'
  BY DEF Bound
<1>1. CASE UNCHANGED <<keyVars, gateVars, leaked, attested>> /\ Live
  BY <1>1 DEF Bound, keyVars, gateVars
<1>2. CASE Refuse \/ Accept
  BY <1>2 DEF Live, Refuse, Fail, Accept
<1>3. CASE Establish
  BY <1>3 DEF Establish, IndKey, IndType, KeyType, KeyOrder, LogType,
              Attestations, Shares, Keys, logVars
<1>4. ASSUME NEW d \in Shares, CommitGate, read_key_commitment(d)
      PROVE  /\ a.key = skey' => key_committed' /\ key_commitment' = skey'
             /\ a.key > base' /\ a.key # skey' => a.key \in leaked'
  BY <1>4, ServingLive DEF Bound, CommitGate, read_key_commitment, keyVars
<1>5. CASE ReleaseGate /\ release_key
  BY <1>5, ServingLive DEF Bound, release_key, keyVars
<1>6. ASSUME NEW dir \in {"client", "server"}, RotateGate(dir), rotate_key_op(dir)
      PROVE  /\ a.key = skey' => key_committed' /\ key_commitment' = skey'
             /\ a.key > base' /\ a.key # skey' => a.key \in leaked'
  <2>1. /\ Live /\ state' = state /\ rotate_installs(dir)
        /\ a \in attested /\ leaked' = leaked /\ base' = base
    BY <1>6, ServingLive DEF rotate_key_op, rotate_installs, Fail, Live, logVars
  <2>2. CASE dir = "server"
    <3>1. skey \in leaked
      BY <1>6, <2>1, <2>2 DEF RotateGate, IndKey, Latches
    <3>2. a.key # skey'
      BY <2>1, <2>2 DEF rotate_installs, IndKey, IndType, KeyType, KeyOrder, LogType,
                        Attestations, Shares, Keys
    <3> QED
      BY <2>1, <3>1, <3>2 DEF Bound
  <2>3. CASE dir = "client"
    <3>1. UNCHANGED <<skey, gateVars>>
      BY <1>6, <2>1, <2>3 DEF rotate_key_op, rotate_installs, Fail, Live
    <3> QED
      BY <2>1, <3>1 DEF Bound, gateVars
  <2> QED
    BY <2>2, <2>3
<1>7. ASSUME NEW seq \in Seq64, NEW ct \in Ciphertexts, NEW share \in Shares,
             VerifyGate, true_surf => KeyOpens(share), TagPasses(seq, ct, share),
             verify_gcm_tag(seq, ct, share)
      PROVE  /\ a.key = skey' => key_committed' /\ key_commitment' = skey'
             /\ a.key > base' /\ a.key # skey' => a.key \in leaked'
  <2>1. /\ key_committed /\ key_commitment = skey /\ Live
        /\ a \in attested \/ a.key = skey
        /\ UNCHANGED <<keyVars, gateVars, leaked>>
    BY <1>7, ServingLive DEF VerifyGate, KeyOpens, TagPasses, verify_gcm_tag
  <2> QED
    BY <2>1 DEF Bound, keyVars, gateVars
<1>8. CASE derive_psk \/ write_completed_psk \/ shutdown
  BY <1>1, <1>8 DEF derive_psk, write_completed_psk, shutdown, Live, logVars
<1> QED
  BY <1>1, <1>2, <1>3, <1>4, <1>5, <1>6, <1>7, <1>8, ServingLive
     DEF Step, derive_keystream_blocks, encrypt_blocks, make_gcm_tag, Fail,
         vars, logVars, Live

LEMMA VerifiedStep == IndKey /\ Verified /\ Step => Verified'
<1> SUFFICES ASSUME IndKey, Verified, Step PROVE Verified'
  OBVIOUS
<1>1. CASE /\ UNCHANGED <<skey, verified_seqs, attested, revealed>>
           /\ state' = "SETUP" => state = "SETUP"
           /\ Live' => Live
  BY <1>1 DEF Verified, KeystreamOnlyVerified
<1>2. CASE Accept
  BY <1>2 DEF Verified, KeystreamOnlyVerified, Accept, Live, reset_recv,
              reset_per_connection_state, logVars
<1>3. CASE Establish
  BY <1>3 DEF Verified, KeystreamOnlyVerified, Establish, Live, recvVars, logVars
<1>4. ASSUME NEW dir \in {"client", "server"}, RotateGate(dir), rotate_key_op(dir)
      PROVE  Verified'
  <2>1. /\ UNCHANGED <<attested, revealed>> /\ Live
        /\ state' = "FAILED" \/ (state' = state /\ (verified_seqs' = {} \/
               (skey' = skey /\ verified_seqs' = verified_seqs)))
    BY <1>4, ServingLive
       DEF rotate_key_op, rotate_installs, rotate_resets_server, Fail, recvVars, logVars
  <2> QED
    BY <2>1 DEF Verified, KeystreamOnlyVerified, Live
<1>5. ASSUME NEW seq \in Seq64, NEW ct \in Ciphertexts, NEW share \in Shares,
             VerifyGate, true_surf => KeyOpens(share), TagPasses(seq, ct, share),
             verify_gcm_tag(seq, ct, share)
      PROVE  Verified'
  <2>1. /\ verified_seqs' = verified_seqs \cup {seq}
        /\ attested' = attested \cup {[key |-> skey, seq |-> seq, ct |-> ct]}
        /\ UNCHANGED <<skey, revealed>> /\ Live /\ state' \in {state, "FAILED"}
    BY <1>5, ServingLive DEF verify_gcm_tag, Fail, keyVars
  <2> DEFINE new == [key |-> skey, seq |-> seq, ct |-> ct]
  <2>2. new \in attested' /\ new.key = skey /\ new.seq = seq
    BY <2>1
  <2>3. KeystreamOnlyVerified'
    BY <2>1 DEF Verified, KeystreamOnlyVerified
  <2> HIDE DEF new
  <2>4. \A q \in verified_seqs' : \E a \in attested' : a.key = skey' /\ a.seq = q
    BY <2>1, <2>2 DEF Verified
  <2> QED
    BY <2>1, <2>3, <2>4 DEF Verified, Live
<1>6. ASSUME NEW recs \in SUBSET Seq64, KeystreamGate(recs), derive_keystream_blocks(recs)
      PROVE  Verified'
  <2>1. /\ Live /\ state' \in {state, "FAILED"}
        /\ UNCHANGED <<skey, verified_seqs, attested>>
        /\ revealed' \subseteq revealed \cup ({skey} \X recs)
    BY <1>6, ServingLive DEF derive_keystream_blocks, Fail, keyVars, recvVars
  <2>2. \A q \in recs : \E a \in attested : a.key = skey /\ a.seq = q
    BY <1>6, <2>1 DEF KeystreamGate, Verified
  <2> QED
    BY <2>1, <2>2 DEF Verified, KeystreamOnlyVerified, Live
<1> QED
  BY <1>1, <1>2, <1>3, <1>4, <1>5, <1>6
     DEF Step, Refuse, Fail, Live, derive_psk, write_completed_psk, shutdown,
         read_key_commitment, release_key, encrypt_blocks, make_gcm_tag,
         keyVars, recvVars, logVars, vars

LEMMA RecordsInductive == Spec => [](IndKey /\ Bound /\ Verified)
<1>1. Init => Bound /\ Verified
  BY DEF Init, Bound, Verified, KeystreamOnlyVerified, Live
<1>2. IndKey /\ Bound /\ Verified /\ [Next]_vars => Bound' /\ Verified'
  BY NextIsStep, BoundStep, VerifiedStep
<1> QED
  BY <1>1, <1>2, KeyLifeInductive, PTL DEF Spec

\* The commitment held in a session opens to the key its records were
\* attested under.
THEOREM CommitmentsBind == Spec => []CommitmentBinds
<1>1. Bound => CommitmentBinds
  BY ServingLive DEF Bound, CommitmentBinds
<1> QED
  BY <1>1, RecordsInductive, PTL

\* An epoch with attested records is rotated away only after its release.
THEOREM RotationAfterRelease == Spec => []RotatedOutReleased
<1>1. Bound => RotatedOutReleased
  BY ServingLive DEF Bound, RotatedOutReleased
<1> QED
  BY <1>1, RecordsInductive, PTL

\* Keystream is revealed only for records verified under the same key.
THEOREM KeystreamGated == Spec => []KeystreamOnlyVerified
<1>1. Verified => KeystreamOnlyVerified
  BY DEF Verified
<1> QED
  BY <1>1, RecordsInductive, PTL

-----------------------------------------------------------------------------
(* Retained ciphertexts *)

\* What is to be kept for a later disclosure: the records attested under the
\* keys of this session.
Kept == {<<a.seq, a.ct>> : a \in {b \in attested : b.key > base}}

\* A session starts with nothing kept, and as long as it lives it keeps exactly
\* what it attests, over all its epochs.
Retained ==
    /\ state = "SETUP" => attested_ct = {}
    /\ Live /\ true_surf /\ RetainCt => attested_ct = Kept

LEMMA RetainedStep == IndKey /\ Retained /\ Step => Retained'
<1> SUFFICES ASSUME IndKey, Retained, Step PROVE Retained'
  OBVIOUS
<1>1. CASE /\ UNCHANGED <<base, attested_ct, attested>>
           /\ state' = "SETUP" => state = "SETUP"
           /\ Live' => Live
  BY <1>1 DEF Retained, Kept
<1>2. CASE Accept
  BY <1>2 DEF Retained, Accept, Live, reset_recv, reset_per_connection_state
<1>3. CASE Establish
  <2>1. \A a \in attested : ~(a.key > base)
    BY <1>3 DEF Establish, IndKey, IndType, KeyOrder, KeyType, LogType,
                Attestations, Shares, Keys
  <2>2. UNCHANGED <<base, attested_ct, attested>> /\ attested_ct = {} /\ state' # "SETUP"
    BY <1>3 DEF Retained, Establish, recvVars, logVars
  <2> QED
    BY <2>1, <2>2 DEF Retained, Kept
<1>4. ASSUME NEW seq \in Seq64, NEW ct \in Ciphertexts, NEW share \in Shares,
             VerifyGate, true_surf => KeyOpens(share), TagPasses(seq, ct, share),
             verify_gcm_tag(seq, ct, share)
      PROVE  Retained'
  <2> DEFINE new == [key |-> skey, seq |-> seq, ct |-> ct]
  <2>1. /\ attested' = attested \cup {new}
        /\ true_surf /\ RetainCt => attested_ct' = attested_ct \cup {<<seq, ct>>}
        /\ base' = base /\ Live /\ state' \in {state, "FAILED"}
    BY <1>4, ServingLive DEF verify_gcm_tag, Fail, keyVars
  <2>2. new.key = skey /\ new.seq = seq /\ new.ct = ct /\ skey > base
    BY <2>1 DEF IndKey, IndType, KeyOrder, KeyType, Shares
  <2> HIDE DEF new
  <2>3. Kept' = Kept \cup {<<seq, ct>>}
    BY <2>1, <2>2 DEF Kept
  <2> QED
    BY <2>1, <2>3 DEF Retained, Live
<1> QED
  BY <1>1, <1>2, <1>3, <1>4, ServingLive
     DEF Step, Refuse, Fail, Live, derive_psk, write_completed_psk, shutdown,
         read_key_commitment, release_key, rotate_key_op, rotate_installs,
         rotate_resets_server, derive_keystream_blocks, encrypt_blocks,
         make_gcm_tag, keyVars, recvVars, logVars, vars

\* The ciphertexts kept for disclosure are those attested in this session, the
\* ones of epochs that were rotated away included.
THEOREM DisclosureComplete == Spec => []RetainedRecords
<1>1. Init => Retained
  BY DEF Init, Retained, Live
<1>2. IndKey /\ Retained /\ [Next]_vars => Retained'
  BY NextIsStep, RetainedStep
<1>3. Retained => RetainedRecords
  BY ServingLive DEF Retained, RetainedRecords, Kept
<1> QED
  BY <1>1, <1>2, <1>3, KeyLifeInductive, PTL DEF Spec
=============================================================================
