------------------------------ MODULE Session ------------------------------
(***************************************************************************)
(* One prover and one verifier over a series of rounds: the prover's       *)
(* callbacks inside its TLS handshake with the origin                      *)
(* (ssl/ThreePartyHandshake.cpp), the driver around them                   *)
(* (demo/proxy.b.cpp), and the verifier's walk through its states          *)
(* (nodes/Server.cpp).  VerifierOps asks what the verifier withstands;     *)
(* this module asks whether the two honest programs fit together.          *)
(*                                                                         *)
(* The two share one ordered byte stream per direction, on which headers   *)
(* and the traffic of the joint circuits follow each other without any     *)
(* framing: whoever reads at a point the other is not at reads garbage.    *)
(* Each callback and each handler is therefore a script, the sequence of   *)
(* its sends and blocking receives, and a joint circuit is one message     *)
(* each way that names the circuit.                                        *)
(*                                                                         *)
(* The origin and the network are the environment: the origin may decline  *)
(* a ticket, send records of any kind in any order, or close early.        *)
(***************************************************************************)
EXTENDS Integers, Sequences, FiniteSets

CONSTANTS
    Mode,        \* Surf::Mode of both processes: "Masked" or "True"
    Kinds,       \* what the origin may send: "app", "nst0", "nst1", "nst8",
                 \* "nstX" (an unsupported nonce width), "close"
    Tamper,      \* may a record arrive with a tag that does not fit?
    Padding,     \* does the origin pad its records (RFC 8446 5.4)?
    Offline,     \* does the driver preprocess before connecting to the origin?
    Crash,       \* may a process die at any time?
    Carried,     \* may the first round start from a ticket handed over?
    MaxRounds,   \* bound on the rounds
    MaxRecords   \* bound on the records of one round

ASSUME SessionAssumption ==
    /\ Mode \in {"Masked", "True"}
    /\ Kinds \subseteq {"app", "nst0", "nst1", "nst8", "nstX", "close"}
    /\ {Tamper, Padding, Offline, Crash, Carried} \subseteq BOOLEAN
    /\ MaxRounds \in Nat /\ MaxRecords \in Nat

VARIABLES
    prover,     \* the driver's position and what it keeps
    verifier,   \* the Server object
    p2v, v2p,   \* the two directions of the connection, [m, x] messages
    popen, vopen,  \* is this end of the current connection open?
    round,      \* rounds started
    fault,      \* has the environment done anything that the programs may
                \* answer by giving up?
    mixed,      \* did a circuit ever run on PSK shares of different PSKs?
    origin      \* "app" records the origin has sent in this round

vars == <<prover, verifier, p2v, v2p, popen, vopen, round, fault, mixed, origin>>

\* A PSK is known by the round it was derived in.  0 is a PSK handed over by
\* an earlier process, NoPsk the all-zero share.
NoPsk == -1

true_surf == Mode # "Masked"

-----------------------------------------------------------------------------
(* Scripts *)

Hdr(h) == <<"header", h>>
Send(h) == [op |-> "send", m |-> {Hdr(h)}, x |-> 0]
Recv(hs) == [op |-> "recv", m |-> {Hdr(h) : h \in hs}, x |-> 0]
Serve == <<[op |-> "serve", m |-> {}, x |-> 0]>>

\* A joint circuit, with the input of this party that the properties follow.
Circuit(c, x) ==
    << [op |-> "send", m |-> {<<"circuit", c>>}, x |-> x],
       [op |-> "recv", m |-> {<<"circuit", c>>}, x |-> x] >>

\* do_preproc() of each circuit of a list, one after the other.
Preprocess(cs) ==
    [i \in 1 .. 2 * Len(cs) |->
        [op |-> IF i % 2 = 1 THEN "send" ELSE "recv",
         m  |-> {<<"preproc", cs[(i + 1) \div 2]>>}, x |-> 0]]

-----------------------------------------------------------------------------
(* The prover's callbacks *)

preprocess_circuits ==
    Preprocess(<<"hs", "traffic", "gcm", "res", "psk1", "psk8", "psk0", "binder">>
               \o (IF true_surf THEN <<"vfy_commit">> ELSE <<"vfy", "ks">>)
               \o <<"aes", "tag">>)
    \o (IF true_surf THEN <<>> ELSE <<Send("MASK_COMMITMENTS")>>)

three_party_handshake_comm ==
    <<Send("COLLECT")>>
    \o (IF Offline THEN <<>> ELSE preprocess_circuits)
    \o <<Recv({"OK"})>>

derive_binder(p) == <<Send("DERIVE_BINDER")>> \o Circuit("binder", p.offer)

send_received_key_shares == <<Send("SERVER_KEY_SHARE"), Recv({"HS_RECV"})>>

derive_handshake_secret(reused) ==
    <<Send(IF reused THEN "HS_MODE_RESUMED" ELSE "HS_MODE_FULL"), Send("DO_ECTF")>>
    \o Circuit("ectf", 0) \o <<Recv({"ECTF_DONE"})>>

derive_handshake_keys(p, reused) ==
    Circuit("hs", IF reused THEN p.offer ELSE NoPsk) \o <<Recv({"KS_DONE"})>>

commit_to_server_certificate ==
    <<Send("CERTIFICATE_CTX_SEND"), Recv({"CERTIFICATE_CTX_RECV"})>>

combine_handshake_secret_shares == <<Recv({"CERTIFICATE_CTX_RECV"})>>

derive_traffic_keys == <<Send("DERIVE_TS")>> \o Circuit("traffic", 0)

derive_gcm_shares ==
    <<Send("GCM_SHARE_START")>> \o Circuit("gcm", 0) \o <<Recv({"GCM_SHARE_DONE"})>>

derive_resumption_keys ==
    <<Send("DERIVE_RES")>> \o Circuit("res", 0) \o <<Recv({"RES_DONE"})>>

encrypt_request ==
    <<Send("AES_ENC")>> \o Circuit("aes", 0) \o <<Send("GCM_TAG")>> \o Circuit("tag", 0)

\* The circuit's x input is 1 for a record whose tag does not fit.
verify_record_tag(first, rec) ==
    (IF true_surf /\ first THEN <<Send("KEY_COMMIT")>> ELSE <<>>)
    \o <<Send("GCM_VERIFY")>>
    \o Circuit(IF true_surf THEN "vfy_commit" ELSE "vfy", IF rec.bad THEN 1 ELSE 0)

derive_keystream == <<Send("KS_DERIVE")>> \o Circuit("ks", 0)

Widths == [nst0 |-> <<"DERIVE_PSK_0", "psk0">>, nst1 |-> <<"DERIVE_PSK", "psk1">>,
           nst8 |-> <<"DERIVE_PSK_8", "psk8">>]
IsTicket(kind) == kind \in {"nst0", "nst1", "nst8", "nstX"}

derive_psk_keys(kind) ==
    <<Send(Widths[kind][1])>> \o Circuit(Widths[kind][2], 0) \o <<Recv({"PSK_DONE"})>>

-----------------------------------------------------------------------------
(* The prover's driver: surf_fetch and serve_to_browser *)

ProverIdle ==
    [stage |-> "idle", todo |-> <<>>, session |-> NoPsk, offer |-> NoPsk,
     resuming |-> FALSE, reused |-> FALSE, psk_circuit |-> TRUE,
     ticket |-> NoPsk, recs |-> <<>>, idx |-> 0, delivered |-> 0, ok |-> FALSE]

\* surf_fetch returns and serve_to_browser looks at the result: a failed
\* round drops the session.
EndRound(ok) ==
    /\ prover' = [ProverIdle EXCEPT !.session = IF ok THEN prover.session ELSE NoPsk,
                                    !.delivered = prover.delivered, !.ok = ok,
                                    !.recs = prover.recs]
    /\ popen' = FALSE

\* A callback returned false.  Inside the read loop that is one more reason
\* for SSL_read to return -1, and the loop ends as it does at the end of the
\* stream; anywhere else it ends the round.
ProverError ==
    IF prover.stage = "reading"
    THEN /\ prover' = [prover EXCEPT !.stage = "psk", !.todo = <<>>]
         /\ UNCHANGED popen
    ELSE EndRound(FALSE)

StartRound ==
    /\ prover.stage = "idle" /\ round < MaxRounds
    /\ prover' = [ProverIdle EXCEPT !.stage = "connect", !.session = prover.session]
    /\ round' = round + 1 /\ origin' = 0
    /\ UNCHANGED <<verifier, p2v, v2p, popen, vopen, fault, mixed>>

Quit ==
    /\ prover.stage = "idle"
    /\ prover' = [prover EXCEPT !.stage = "quit"]
    /\ UNCHANGED <<verifier, p2v, v2p, popen, vopen, round, fault, mixed, origin>>

\* The verifier has exited.
ConnectFails ==
    /\ prover.stage = "connect" /\ verifier.state = "EXITED"
    /\ EndRound(FALSE)
    /\ UNCHANGED <<verifier, p2v, v2p, vopen, round, fault, mixed, origin>>

Start(stage, script) == prover' = [prover EXCEPT !.stage = stage, !.todo = script]

\* The prover's stage is left once its script has run.
At(stage) == prover.stage = stage /\ prover.todo = <<>>

NetUnchanged == UNCHANGED <<verifier, p2v, v2p, vopen, round, mixed>>

\* SSL_connect to the origin builds the ClientHello.  A ticket that has
\* expired is not offered.
ClientHello ==
    /\ At("hello")
    /\ \E offered \in IF prover.resuming THEN BOOLEAN ELSE {FALSE} :
          /\ prover' = [prover EXCEPT
                !.stage = "server_hello",
                !.offer = IF offered THEN @ ELSE NoPsk,
                !.todo = three_party_handshake_comm
                         \o (IF offered THEN derive_binder(prover) ELSE <<>>)]
          /\ fault' = (fault \/ (prover.resuming /\ ~offered))
    /\ NetUnchanged /\ UNCHANGED <<popen, origin>>

\* The origin accepts a ticket only with the right binder, and may decline
\* any.
ServerHello ==
    /\ At("server_hello")
    /\ \E reused \in IF prover.offer # NoPsk /\ ~mixed THEN BOOLEAN ELSE {FALSE} :
          /\ prover' = [prover EXCEPT
                !.stage = "finished", !.reused = reused,
                !.todo = send_received_key_shares
                         \o derive_handshake_secret(reused)
                         \o derive_handshake_keys(prover, reused)
                         \o (IF reused THEN combine_handshake_secret_shares
                                       ELSE commit_to_server_certificate)]
          /\ fault' = (fault \/ (prover.resuming /\ ~reused))
    /\ NetUnchanged /\ UNCHANGED <<popen, origin>>

Finished ==
    /\ At("finished")
    /\ Start("established",
             derive_traffic_keys \o derive_gcm_shares \o derive_resumption_keys)
    /\ NetUnchanged /\ UNCHANGED <<popen, fault, origin>>

\* Up to its Finished the origin may also be unreachable or just give up.
OriginFails ==
    /\ At("hello") \/ At("server_hello") \/ At("finished")
    /\ fault' = TRUE
    /\ ProverError
    /\ NetUnchanged /\ UNCHANGED origin

\* A resumed round that fell back to a full handshake is abandoned here.
Established ==
    /\ At("established")
    /\ IF prover.resuming /\ ~prover.reused
       THEN EndRound(FALSE)
       ELSE Start("request", encrypt_request) /\ UNCHANGED popen
    /\ NetUnchanged /\ UNCHANGED <<fault, origin>>

\* The request is written and the read loop begins.
RequestWritten ==
    /\ At("request")
    /\ Start("reading", <<>>)
    /\ NetUnchanged /\ UNCHANGED <<popen, fault, origin>>

\* tls_open_record.  In Masked mode a record is attested and opened as it
\* arrives, in the sealed-capture mode it is only kept.
Records == [kind : Kinds, bad : IF Tamper THEN BOOLEAN ELSE {FALSE},
            pad : IF Padding THEN BOOLEAN ELSE {FALSE}]

ReadRecord(rec) ==
    /\ At("reading") /\ Len(prover.recs) < MaxRecords /\ prover.idx = 0
    /\ prover' = [prover EXCEPT
          !.recs = Append(@, rec),
          !.idx = IF true_surf THEN 0 ELSE Len(prover.recs) + 1,
          !.todo = IF true_surf THEN <<>>
                   ELSE verify_record_tag(FALSE, rec)
                        \o IF rec.bad THEN <<>> ELSE derive_keystream]
    /\ origin' = IF rec.kind = "app" THEN origin + 1 ELSE origin
    /\ fault' = (fault \/ rec.bad \/ rec.kind = "nstX")
    /\ NetUnchanged /\ UNCHANGED popen

\* new_session_cb keeps the first ticket's session.  A later ticket finds the
\* circuits consumed: derive_psk_keys returns true without a word to the
\* verifier.  A ticket of an unsupported width makes the callback fail before
\* it has written anything.
ProcessTicketRepeated(kind) ==
    [prover EXCEPT !.todo = derive_psk_keys(kind),
                   !.psk_circuit = FALSE,
                   !.ticket = IF @ = NoPsk THEN round ELSE @]

ProcessTicket(kind) ==
    IF prover.psk_circuit
    THEN [prover EXCEPT !.todo = derive_psk_keys(kind),
                        !.psk_circuit = FALSE,
                        !.ticket = IF @ = NoPsk THEN round ELSE @]
    ELSE prover

\* Masked mode: the record at idx has been attested.
OpenRecord ==
    /\ At("reading") /\ prover.idx > 0
    /\ LET rec == prover.recs[prover.idx] IN
       IF rec.bad \/ (rec.kind = "nstX" /\ prover.psk_circuit)
       THEN ProverError
       ELSE /\ UNCHANGED popen
            /\ prover' =
                 CASE rec.kind = "app" ->
                        [prover EXCEPT !.delivered = @ + 1, !.idx = 0]
                   [] rec.kind = "close" -> [prover EXCEPT !.stage = "psk", !.idx = 0]
                   [] rec.kind = "nstX" -> [prover EXCEPT !.idx = 0]
                   [] OTHER -> [ProcessTicket(rec.kind) EXCEPT !.idx = 0]
    /\ NetUnchanged /\ UNCHANGED <<fault, origin>>

\* The origin closes, or the network pretends it did: SSL_read returns 0 or
\* -1 and the loop ends.  Closing without a close_notify is a fault.
EndOfStream ==
    /\ At("reading") /\ prover.idx = 0
    /\ Start(IF true_surf THEN "submit" ELSE "psk", <<>>)
    /\ fault' = (fault \/ prover.recs = <<>>
                       \/ prover.recs[Len(prover.recs)].kind # "close")
    /\ NetUnchanged /\ UNCHANGED <<popen, origin>>

-----------------------------------------------------------------------------
(* true_surf_release *)

\* 1) and 2): every captured record is submitted, then k_v is asked for.
SubmitRecord ==
    /\ At("submit")
    /\ LET i == prover.idx IN
       IF i > 0 /\ prover.recs[i].bad THEN EndRound(FALSE)
       ELSE /\ UNCHANGED popen
            /\ prover' =
                 IF i < Len(prover.recs)
                 THEN [prover EXCEPT !.idx = i + 1,
                          !.todo = verify_record_tag(i = 0, prover.recs[i + 1])]
                 ELSE [prover EXCEPT !.stage = "open", !.idx = 0,
                          !.todo = <<Send("KEY_RELEASE"), Recv({"KEY"})>>]
    /\ NetUnchanged /\ UNCHANGED <<fault, origin>>

\* surf_is_close_notify strips the padding.  The tests that pick out
\* application data and handshake records look at the last byte as it is.
IsCloseNotify(rec) == rec.kind = "close"
IsApplicationData(rec) == rec.kind = "app" /\ ~rec.pad
IsHandshake(rec) == IsTicket(rec.kind) /\ ~rec.pad

EndsWithCloseAny(recs) ==
    \A i \in 1 .. Len(recs) - 1 : ~IsCloseNotify(recs[i])

\* A close_notify anywhere but last, or none at the end.
EndsWithClose(recs) ==
    /\ \A i \in 1 .. Len(recs) - 1 : ~IsCloseNotify(recs[i])
    /\ recs # <<>> /\ IsCloseNotify(recs[Len(recs)])

OpenRecords ==
    /\ At("open")
    /\ IF EndsWithClose(prover.recs)
       THEN /\ prover' = [prover EXCEPT
                 !.stage = "replay",
                 !.delivered = Cardinality({i \in DOMAIN prover.recs :
                                               IsApplicationData(prover.recs[i])})]
            /\ UNCHANGED popen
       ELSE EndRound(FALSE)
    /\ fault' = (fault \/ ~EndsWithClose(prover.recs))
    /\ NetUnchanged /\ UNCHANGED origin

\* 4): the decrypted handshake records go back to the handshake layer.
ReplayRecord ==
    /\ At("replay")
    /\ IF prover.idx = Len(prover.recs) THEN Start("psk", <<>>) /\ UNCHANGED popen
       ELSE LET rec == prover.recs[prover.idx + 1] IN
            IF IsHandshake(rec) /\ rec.kind = "nstX" /\ prover.psk_circuit
            THEN EndRound(FALSE)
            ELSE /\ prover' =
                      [(IF IsHandshake(rec) /\ rec.kind # "nstX"
                        THEN ProcessTicket(rec.kind) ELSE prover) EXCEPT !.idx = @ + 1]
                 /\ UNCHANGED popen
    /\ NetUnchanged /\ UNCHANGED <<fault, origin>>

\* A psk_circuit that is still there means that no ticket was processed.
PskPhase ==
    /\ At("psk")
    /\ prover' = [prover EXCEPT
          !.stage = "stop",
          !.session = IF prover.psk_circuit THEN NoPsk ELSE prover.ticket,
          !.todo = (IF prover.psk_circuit THEN <<Send("PSK_SKIP")>> ELSE <<>>)
                   \o <<Send("STOP")>>]
    /\ NetUnchanged /\ UNCHANGED <<popen, fault, origin>>

StopSent ==
    /\ At("stop")
    /\ EndRound(TRUE)
    /\ NetUnchanged /\ UNCHANGED <<fault, origin>>

-----------------------------------------------------------------------------
(* The verifier's handlers *)

\* The answer, the run type, is read in accept_and_read_mode.  The branch for
\* a COLLECT that is there already is never taken: no driver writes before it
\* has read DONE_HS.
write_handshake_done == <<Send("DONE_HS"), Recv({"RUN_FULL", "RUN_RESUMED"})>>

do_preproc ==
    Preprocess(<<"hs", "traffic", "gcm", "res", "psk1", "psk8", "psk0", "binder">>
               \o (IF true_surf THEN <<"vfy_commit">> ELSE <<"vfy", "ks">>)
               \o <<"aes", "tag">>)

read_mask_commitments ==
    IF true_surf THEN <<>> ELSE <<Recv({"MASK_COMMITMENTS"})>>

read_keyshare_after_handshake == <<Recv({"COLLECT"})>>

send_additive_share == <<Send("OK")>>

do_psk_binder(v) ==
    IF v.is_resumption_run
    THEN <<Recv({"DERIVE_BINDER"})>> \o Circuit("binder", v.psk_shares)
    ELSE <<>>

read_sks_keyshare == <<Recv({"SERVER_KEY_SHARE"})>>

write_hs_recv == <<Send("HS_RECV")>>

do_ectf ==
    <<Recv({"HS_MODE_FULL", "HS_MODE_RESUMED"}), Recv({"DO_ECTF"})>>
    \o Circuit("ectf", 0)

finish_ectf == <<Send("ECTF_DONE")>>

do_ks_by_run(v) ==
    Circuit("hs", IF v.is_resumption_run THEN v.psk_shares ELSE NoPsk)

do_ks(v) ==
    Circuit("hs", IF v.resumed_handshake THEN v.psk_shares ELSE NoPsk)

write_ks_done == <<Send("KS_DONE")>>

do_cert_wait_always(v) == <<Recv({"CERTIFICATE_CTX_SEND"})>>

do_cert_wait(v) ==
    IF v.resumed_handshake THEN <<>> ELSE <<Recv({"CERTIFICATE_CTX_SEND"})>>

write_cert_recv == <<Send("CERTIFICATE_CTX_RECV")>>

derive_ts == <<Recv({"DERIVE_TS"})>> \o Circuit("traffic", 0)

server_derive_gcm_shares == <<Recv({"GCM_SHARE_START"})>> \o Circuit("gcm", 0)

write_completed_derivation == <<Send("GCM_SHARE_DONE")>>

derive_res == <<Recv({"DERIVE_RES"})>> \o Circuit("res", 0)

write_completed_res == <<Send("RES_DONE")>>

write_completed_psk(v) ==
    IF v.psk_skipped THEN <<>> ELSE <<Send("PSK_DONE")>>

Handler(s, v) ==
    CASE s = "HANDSHAKE_DONE"   -> write_handshake_done
      [] s = "CIRCUIT_PREPROC"  -> do_preproc
      [] s = "MASK_COMMIT"      -> read_mask_commitments
      [] s = "READING_KS"       -> read_keyshare_after_handshake
      [] s = "WRITING_KS"       -> send_additive_share
      [] s = "PSK_BINDER"       -> do_psk_binder(v)
      [] s = "READING_SKS"      -> read_sks_keyshare
      [] s = "WRITING_HS_RECV"  -> write_hs_recv
      [] s = "ECTF_WAIT"        -> do_ectf
      [] s = "ECTF_DONE"        -> finish_ectf
      [] s = "KS_WAIT"          -> do_ks(v)
      [] s = "KS_DONE"          -> write_ks_done
      [] s = "CERT_WAIT"        -> do_cert_wait(v)
      [] s = "CERT_RECV"        -> write_cert_recv
      [] s = "DERIVE_TS"        -> derive_ts
      [] s = "GCM_SHARE_DERIVE" -> server_derive_gcm_shares
      [] s = "GCM_SHARE_DONE"   -> write_completed_derivation
      [] s = "DERIVE_RES"       -> derive_res
      [] s = "RES_DONE"         -> write_completed_res
      [] s = "DERIVE_PSK"       -> Serve
      [] s = "PSK_DONE"         -> write_completed_psk(v)
      [] s = "SHUTDOWN"         -> Serve
      [] OTHER                  -> <<>>

\* ServerState, in the order next_state() and kResumptionStates walk it.
States == <<"HANDSHAKE_DONE", "CIRCUIT_PREPROC", "MASK_COMMIT", "READING_KS",
            "MAKING_KS", "WRITING_KS", "PSK_BINDER", "READING_SKS",
            "FINISHING_TPH", "WRITING_HS_RECV", "ECTF_WAIT", "ECTF_DONE",
            "KS_WAIT", "KS_DONE", "CERT_WAIT", "CERT_RECV", "DERIVE_TS",
            "GCM_SHARE_DERIVE", "GCM_SHARE_DONE", "DERIVE_RES", "RES_DONE",
            "DERIVE_PSK", "PSK_DONE", "SHUTDOWN", "DONE">>

next_state(s) ==
    LET i == CHOOSE j \in DOMAIN States : States[j] = s IN States[i + 1]

Enter(s, v) ==
    [v EXCEPT !.state = s, !.todo = Handler(s, v),
              !.psk_skipped = IF s = "DERIVE_PSK" THEN FALSE ELSE @]

\* run_verifier: a round that failed ends the process.
VerifierFails ==
    /\ verifier' = [verifier EXCEPT !.state = "EXITED", !.todo = <<>>]
    /\ vopen' = FALSE

\* The handler is through.  shutdown() closes the connection.
Advance ==
    /\ verifier.state \in {States[i] : i \in 1 .. Len(States) - 1}
    /\ verifier.todo = <<>>
    /\ verifier' = Enter(next_state(verifier.state), verifier)
    /\ vopen' = (verifier.state # "SHUTDOWN")
    /\ UNCHANGED <<prover, p2v, v2p, popen, round, fault, mixed, origin>>

\* run_verifier goes round its loop.
AcceptAgain ==
    /\ verifier.state = "DONE"
    /\ verifier' = [verifier EXCEPT !.state = "ACCEPT"]
    /\ UNCHANGED <<prover, p2v, v2p, popen, vopen, round, fault, mixed, origin>>

\* accept() times out: accept_and_read_mode returns Idle and the process exits.
AcceptTimesOut ==
    /\ verifier.state = "ACCEPT"
    /\ VerifierFails
    /\ fault' = TRUE
    /\ UNCHANGED <<prover, p2v, v2p, popen, round, mixed, origin>>

ResetOneLatch(v) == [v EXCEPT !.key_released = FALSE]

\* reset_per_connection_state, as far as it shows here.
ResetLatches(v) == [v EXCEPT !.key_committed = FALSE, !.key_released = FALSE]

\* connect_to() meets accept(), and the TLS handshake between the two runs.
Connect ==
    /\ prover.stage = "connect" /\ verifier.state = "ACCEPT"
    /\ LET resuming == prover.session # NoPsk IN
       prover' = [prover EXCEPT
          !.stage = "hello", !.resuming = resuming,
          !.offer = prover.session, !.session = NoPsk,
          !.todo = <<Recv({"DONE_HS"}),
                     Send(IF resuming THEN "RUN_RESUMED" ELSE "RUN_FULL")>>
                   \o (IF Offline THEN preprocess_circuits ELSE <<>>)]
    /\ verifier' = Enter("HANDSHAKE_DONE", ResetLatches(verifier))
    /\ p2v' = <<>> /\ v2p' = <<>> /\ popen' = TRUE /\ vopen' = TRUE
    /\ UNCHANGED <<round, fault, mixed, origin>>

-----------------------------------------------------------------------------
(* Running the scripts *)

Message(instr) == [m |-> CHOOSE m \in instr.m : TRUE, x |-> instr.x]
Op(party, op) == party.todo # <<>> /\ Head(party.todo).op = op

\* A circuit over a PSK has run on two halves of different PSKs.
Mixes(instr, msg) ==
    msg.m \in {<<"circuit", "binder">>, <<"circuit", "hs">>} /\ msg.x # instr.x

\* Writing to a peer that is gone may fail, or may just not be noticed.
ProverSend ==
    /\ Op(prover, "send")
    /\ \/ /\ prover' = [prover EXCEPT !.todo = Tail(@)]
          /\ p2v' = Append(p2v, Message(Head(prover.todo)))
          /\ UNCHANGED popen
       \/ ~vopen /\ ProverError /\ UNCHANGED p2v
    /\ UNCHANGED <<verifier, v2p, vopen, round, fault, mixed, origin>>

ProverRecv ==
    /\ Op(prover, "recv")
    /\ IF v2p = <<>> THEN ~vopen /\ ProverError /\ UNCHANGED <<v2p, mixed>>
       ELSE LET msg == Head(v2p) instr == Head(prover.todo) IN
            /\ v2p' = Tail(v2p)
            /\ IF msg.m \in instr.m
               THEN /\ prover' = [prover EXCEPT !.todo = Tail(@)]
                    /\ mixed' = (mixed \/ Mixes(instr, msg))
                    /\ UNCHANGED popen
               ELSE ProverError /\ UNCHANGED mixed
    /\ UNCHANGED <<verifier, p2v, vopen, round, fault, origin>>

\* write_hs_recv aborts the process when unread data is waiting.
VerifierSend ==
    /\ Op(verifier, "send")
    /\ IF verifier.state = "WRITING_HS_RECV" /\ p2v # <<>>
       THEN VerifierFails /\ UNCHANGED v2p
       ELSE \/ /\ verifier' = [verifier EXCEPT !.todo = Tail(@)]
               /\ v2p' = Append(v2p, Message(Head(verifier.todo)))
               /\ UNCHANGED vopen
            \/ ~popen /\ VerifierFails /\ UNCHANGED v2p
    /\ UNCHANGED <<prover, p2v, popen, round, fault, mixed, origin>>

LearnFirstPsk(v, m) ==
    CASE m = Hdr("RUN_RESUMED")     -> [v EXCEPT !.is_resumption_run = TRUE]
      [] m = Hdr("RUN_FULL")        -> [v EXCEPT !.is_resumption_run = FALSE]
      [] m = Hdr("HS_MODE_RESUMED") -> [v EXCEPT !.resumed_handshake = TRUE]
      [] m = Hdr("HS_MODE_FULL")    -> [v EXCEPT !.resumed_handshake = FALSE]
      [] m \in {<<"circuit", c>> : c \in {"psk0", "psk1", "psk8"}}
                                    -> [v EXCEPT !.psk_shares =
                                          IF @ = NoPsk THEN round ELSE @]
      [] OTHER                      -> v

\* What a message leaves behind: the run type (accept_and_read_mode), the
\* handshake mode (do_ectf), the verifier's half of a new PSK (derive_psk).
Learn(v, m) ==
    CASE m = Hdr("RUN_RESUMED")     -> [v EXCEPT !.is_resumption_run = TRUE]
      [] m = Hdr("RUN_FULL")        -> [v EXCEPT !.is_resumption_run = FALSE]
      [] m = Hdr("HS_MODE_RESUMED") -> [v EXCEPT !.resumed_handshake = TRUE]
      [] m = Hdr("HS_MODE_FULL")    -> [v EXCEPT !.resumed_handshake = FALSE]
      [] m \in {<<"circuit", c>> : c \in {"psk0", "psk1", "psk8"}}
                                    -> [v EXCEPT !.psk_shares = round]
      [] OTHER                      -> v

\* A tag that does not fit ends the run.
TagRejected(msg) ==
    msg.m \in {<<"circuit", "vfy">>, <<"circuit", "vfy_commit">>} /\ msg.x = 1

VerifierRecv ==
    /\ Op(verifier, "recv")
    /\ IF p2v = <<>> THEN ~popen /\ VerifierFails /\ UNCHANGED <<p2v, mixed>>
       ELSE LET msg == Head(p2v) instr == Head(verifier.todo) IN
            /\ p2v' = Tail(p2v)
            /\ IF msg.m \in instr.m /\ ~TagRejected(msg)
               THEN /\ verifier' = Learn([verifier EXCEPT !.todo = Tail(@)], msg.m)
                    /\ mixed' = (mixed \/ Mixes(instr, msg))
                    /\ UNCHANGED vopen
               ELSE VerifierFails /\ UNCHANGED mixed
    /\ UNCHANGED <<prover, v2p, popen, round, fault, origin>>

-----------------------------------------------------------------------------
(* read_header_draining_encryption and attest() *)

\* The record operations: the script each runs, after its gate.  The lists of
\* sequence numbers, on which an honest prover never trips, are left to
\* VerifierOps.
RecordOps == {"AES_ENC", "GCM_TAG", "GCM_VERIFY", "KS_DERIVE", "KEY_COMMIT", "KEY_RELEASE"}

Gate(h, v) ==
    CASE h = "GCM_VERIFY"  -> true_surf => v.key_committed /\ ~v.key_released
      [] h = "KS_DERIVE"   -> ~true_surf
      [] h = "KEY_COMMIT"  -> true_surf /\ ~v.key_committed /\ ~v.key_released
      [] h = "KEY_RELEASE" -> true_surf /\ v.key_committed /\ ~v.key_released
      [] OTHER             -> TRUE

OpScript(h) ==
    CASE h = "AES_ENC"     -> Circuit("aes", 0)
      [] h = "GCM_TAG"     -> Circuit("tag", 0)
      [] h = "GCM_VERIFY"  -> Circuit(IF true_surf THEN "vfy_commit" ELSE "vfy", 0)
      [] h = "KS_DERIVE"   -> Circuit("ks", 0)
      [] h = "KEY_COMMIT"  -> <<>>
      [] h = "KEY_RELEASE" -> <<Send("KEY")>>

RecordOp(h, v) ==
    [v EXCEPT !.todo = OpScript(h) \o @,
              !.key_committed = @ \/ h = "KEY_COMMIT",
              !.key_released = @ \/ h = "KEY_RELEASE"]

\* The headers that end the loop: derive_psk's, or attest()'s STOP.
LastHeaders(state) ==
    IF state = "DERIVE_PSK" THEN {"PSK_SKIP", "DERIVE_PSK", "DERIVE_PSK_8", "DERIVE_PSK_0"}
    ELSE {"STOP"}

LastOp(h, v) ==
    [v EXCEPT !.psk_skipped = (h = "PSK_SKIP"),
              !.todo = CASE h = "DERIVE_PSK"   -> Circuit("psk1", 0)
                         [] h = "DERIVE_PSK_8" -> Circuit("psk8", 0)
                         [] h = "DERIVE_PSK_0" -> Circuit("psk0", 0)
                         [] OTHER              -> <<>>]

Served(v, msg) ==
    /\ msg.m[1] = "header"
    /\ msg.m[2] \in RecordOps \cup LastHeaders(v.state)

VerifierServe ==
    /\ Op(verifier, "serve")
    /\ IF p2v = <<>> THEN ~popen /\ VerifierFails /\ UNCHANGED p2v
       ELSE LET msg == Head(p2v) IN
            /\ p2v' = Tail(p2v)
            /\ IF ~Served(verifier, msg) THEN VerifierFails
               ELSE IF msg.m[2] \in LastHeaders(verifier.state)
               THEN verifier' = LastOp(msg.m[2], verifier) /\ UNCHANGED vopen
               ELSE IF Gate(msg.m[2], verifier)
               THEN verifier' = RecordOp(msg.m[2], verifier) /\ UNCHANGED vopen
               ELSE VerifierFails
    /\ UNCHANGED <<prover, v2p, popen, round, fault, mixed, origin>>

-----------------------------------------------------------------------------
ProverCrash ==
    /\ Crash /\ prover.stage # "quit"
    /\ prover' = [prover EXCEPT !.stage = "quit", !.todo = <<>>]
    /\ popen' = FALSE /\ fault' = TRUE
    /\ UNCHANGED <<verifier, p2v, v2p, vopen, round, mixed, origin>>

VerifierCrash ==
    /\ Crash /\ verifier.state # "EXITED"
    /\ VerifierFails /\ fault' = TRUE
    /\ UNCHANGED <<prover, p2v, v2p, popen, round, mixed, origin>>

\* Both processes have ended.
Terminated ==
    /\ prover.stage = "quit" /\ verifier.state = "EXITED"
    /\ UNCHANGED vars

Init ==
    /\ \E psk \in {NoPsk} \cup (IF Carried THEN {0} ELSE {}) :
          /\ prover = [ProverIdle EXCEPT !.session = psk]
          /\ verifier = [state |-> "ACCEPT", todo |-> <<>>, psk_shares |-> psk,
                         is_resumption_run |-> FALSE, resumed_handshake |-> FALSE,
                         psk_skipped |-> FALSE,
                         key_committed |-> FALSE, key_released |-> FALSE]
    /\ p2v = <<>> /\ v2p = <<>> /\ popen = FALSE /\ vopen = FALSE
    /\ round = 0 /\ fault = FALSE /\ mixed = FALSE /\ origin = 0

\* What the prover does of itself, given an origin that answers.
ProverStep ==
    \/ ConnectFails \/ ClientHello \/ ServerHello \/ Finished \/ Established
    \/ RequestWritten \/ OpenRecord \/ EndOfStream \/ SubmitRecord \/ OpenRecords \/ ReplayRecord
    \/ PskPhase \/ StopSent \/ ProverSend \/ ProverRecv \/ Connect

VerifierStep ==
    \/ Advance \/ AcceptAgain \/ VerifierSend \/ VerifierRecv \/ VerifierServe

Next ==
    \/ ProverStep \/ VerifierStep
    \/ StartRound \/ Quit \/ OriginFails \/ AcceptTimesOut
    \/ \E rec \in Records : ReadRecord(rec)
    \/ ProverCrash \/ VerifierCrash \/ Terminated

\* Both programs are sequential processes that the operating system keeps
\* running, on a connection that delivers what was written.  The origin
\* answers or closes (EndOfStream).  The accept timer fires.
Fairness ==
    /\ WF_vars(ProverStep) /\ WF_vars(VerifierStep)
    /\ WF_vars(AcceptTimesOut) /\ WF_vars(Quit)

Spec == Init /\ [][Next]_vars /\ Fairness

-----------------------------------------------------------------------------
(* Properties *)

Names == {"header", "circuit", "preproc"}
Script(s) == \A i \in DOMAIN s : s[i].op \in {"send", "recv", "serve"}
Psks == NoPsk .. MaxRounds

\* The types of the variables.
TypeOK ==
    /\ prover.stage \in {"idle", "connect", "hello", "server_hello", "finished",
                         "established", "request", "reading", "submit", "open",
                         "replay", "psk", "stop", "quit"}
    /\ {prover.session, prover.offer, prover.ticket, verifier.psk_shares} \subseteq Psks
    /\ prover.recs \in UNION {[1 .. n -> Records] : n \in 0 .. MaxRecords}
    /\ prover.idx \in 0 .. MaxRecords
    /\ verifier.state \in {States[i] : i \in DOMAIN States} \cup {"ACCEPT", "EXITED"}
    /\ Script(prover.todo) /\ Script(verifier.todo)
    /\ \A c \in {p2v, v2p} : \A i \in DOMAIN c : c[i].m[1] \in Names
    /\ {popen, vopen, fault, mixed} \subseteq BOOLEAN
    /\ round \in 0 .. MaxRounds /\ origin \in 0 .. MaxRecords

\* Lock-step: whoever is about to read finds, as the next thing on the wire,
\* something it can read.  No header is taken for circuit traffic or the
\* other way round, no byte is left over for a later read ("it emits a stray
\* DERIVE_PSK byte the verifier never reads", derive_psk_keys), whatever mix
\* of tickets, records and declined resumptions the origin produces.  A
\* resumed round whose ticket is no longer offered is the exception: the
\* verifier then waits for a binder that does not come and gives up.
LockStep ==
    \/ prover.resuming /\ prover.offer = NoPsk
    \/ /\ Op(prover, "recv") /\ v2p # <<>> => Head(v2p).m \in Head(prover.todo).m
       /\ Op(verifier, "recv") /\ p2v # <<>> => Head(p2v).m \in Head(verifier.todo).m
       /\ Op(verifier, "serve") /\ p2v # <<>> => Served(verifier, Head(p2v))

\* No circuit that takes the PSK ever runs on halves of two different PSKs:
\* the two sides agree on which ticket is being resumed, and, when the origin
\* declines it, on that too.
SharesAgree == ~mixed

\* A ticket the prover would resume with is one whose other half the verifier
\* still holds, however the earlier rounds ended: tickets that never came,
\* second tickets, failed rounds, dead peers.
TicketMatches ==
    prover.stage \in {"idle", "connect"} /\ prover.session # NoPsk
        /\ verifier.state = "ACCEPT"
    => prover.session = verifier.psk_shares

\* Neither program gives up on the other of itself: when a round fails or the
\* verifier exits, the origin, the network, a timer or a crash had done
\* something first.  An honest prover is never refused.
NoSpuriousFailure ==
    /\ verifier.state = "EXITED" => fault
    /\ prover.stage = "idle" /\ round > 0 /\ ~prover.ok => fault

\* A round of the sealed-capture mode that the prover reports as fetched
\* delivers every application record of the response, and the response was
\* closed by the origin: "without this a forged FIN yields a short page with
\* rc=0" (true_surf_release).
DeliveredComplete ==
    true_surf /\ prover.stage = "idle" /\ prover.ok =>
        /\ prover.delivered = origin
        /\ prover.recs # <<>> /\ prover.recs[Len(prover.recs)].kind = "close"

\* Both processes come to an end, whoever dies or closes, and wherever:
\* nobody stays behind in a read that nothing will answer.
Finishes == <>(prover.stage = "quit" /\ verifier.state = "EXITED")
=============================================================================
