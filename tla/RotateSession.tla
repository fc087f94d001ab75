--------------------------- MODULE RotateSession ---------------------------
(***************************************************************************)
(* One connection in Rotate mode: the prover's driver                      *)
(* (benchmarks/E2E.b.cpp) with rotate_traffic_keys and the two release     *)
(* functions (ssl/ThreePartyHandshake.cpp), the origin (server_hs of the   *)
(* same driver) and the verifier of VerifierOps.                           *)
(*                                                                         *)
(* The verifier is composed, not modelled again: an exchange between the   *)
(* prover and the verifier is one step that is both a step of the prover   *)
(* and the VerifierOps action for the header the prover sent, so it waits  *)
(* for the verifier to be at a point where it reads headers and fails when *)
(* the verifier's handler refuses.                                         *)
(*                                                                         *)
(* Flow "epoch" is the full round: every request but the last is followed  *)
(* by a KeyUpdate and its epoch is released before the next request        *)
(* (rotate_surf_release_epoch).  Flow "batch" is the resumed round: one    *)
(* request, the origin updates its keys when it likes, and everything is   *)
(* released at the end (rotate_surf_release).                              *)
(***************************************************************************)
EXTENDS VerifierOps

CONSTANTS
    Flow,          \* "epoch" or "batch"
    NRequests,     \* requests of the connection
    MaxResponse,   \* bound on the records of one response
    Short,         \* may a response hold a record of five bytes?
    MaxTickets,    \* bound on the tickets the origin sends
    LateTickets,   \* may it send them after it began to answer?
    MaxUpdates,    \* bound on the KeyUpdates an origin starts by itself
    Timeouts       \* may the poll of drain_until or SO_RCVTIMEO expire?

ASSUME RotateAssumption ==
    /\ Mode = "Rotate" /\ ShouldAttest    \* SURF_ROTATE=1, set_attestation()
    /\ Flow \in {"epoch", "batch"}
    /\ NRequests \in Nat \ {0} /\ MaxResponse \in Nat \ {0}
    /\ MaxTickets \in Nat /\ MaxUpdates \in Nat
    /\ {Short, LateTickets, Timeouts} \subseteq BOOLEAN

VARIABLES
    p,          \* the prover: pc, the shares it holds and its SSL counters
    recs,       \* ssl->surf_records
    o,          \* the origin: epochs and sequence numbers of both directions
    p2o, o2p,   \* records under way
    sent,       \* application records the origin has written, per request
    delivered,  \* application records the release functions have handed out
    why         \* what has happened that excuses a failure

proverVars == <<p, recs, delivered>>
originVars == <<o, sent>>
wireVars   == <<p2o, o2p>>
verifierVars == <<state, keyVars, gateVars, recvVars, encVars, logVars>>
rvars == <<verifierVars, proverVars, originVars, wireVars, why>>

\* The number VerifierOps gives to the traffic key of an epoch: keys are
\* numbered in the order of the rotations, and in the per-round flow each
\* server rotation follows a client rotation.
ClientKey(e) == 2 * e + 1
ServerKey(e) == IF Flow = "epoch" THEN 2 * e + 2 ELSE e + 2

Last == p.round = NRequests

\* [kind, epoch, oseq, seq, resp]: what it is, what the origin sealed it
\* under, the sequence number it was captured with, the request it answers.
Kinds == {"app", "short", "nst", "ku", "close", "junk"}

\* The code tests the last byte of the opened record as it is; this origin
\* (server_hs) never pads, so the last byte is the content type.
IsAppData(r) == r.kind \in {"app", "short"}

\* The application data of a sequence of records, in order.
AppData(rs) ==
    LET front[n \in 0 .. Len(rs)] ==
          IF n = 0 THEN <<>>
          ELSE IF IsAppData(rs[n]) THEN Append(front[n - 1], rs[n]) ELSE front[n - 1]
    IN front[Len(rs)]

RInit ==
    /\ Init
    /\ p = [pc |-> "setup", round |-> 1, idx |-> 0, skey |-> Junk, ckey |-> Junk,
            wseq |-> 0, rseq |-> 0, start |-> 0, end |-> 0, epoch |-> 0, psk |-> TRUE]
    /\ recs = <<>> /\ delivered = <<>>
    /\ o = [rkey |-> 0, rseq |-> 0, wkey |-> 0, wseq |-> 0, served |-> 0,
            todo |-> <<>>, tickets |-> 0, updates |-> 0, closed |-> FALSE, bad |-> FALSE]
    /\ sent = [i \in 1 .. NRequests |-> <<>>]
    /\ p2o = <<>> /\ o2p = <<>>
    /\ why = {}

-----------------------------------------------------------------------------
(* Exchanges with the verifier *)

\* The verifier's handler either served the request, and the prover goes on,
\* or ended its run, and the prover's read or circuit fails.  A handler that
\* fails although its gate was open has lost the connection.
Exchange(gate, next) ==
    /\ p' = IF state' = "FAILED" THEN [p EXCEPT !.pc = "fail"] ELSE next
    /\ why' = IF state' = "FAILED" /\ gate THEN why \cup {"lost"} ELSE why

\* The verifier has left: every read or write of the prover fails.
VerifierGone ==
    /\ state \in {"FAILED", "DONE"}
    /\ p.pc \notin {"setup", "drain", "open", "done", "fail"}
    /\ p' = [p EXCEPT !.pc = "fail"]
    /\ UNCHANGED <<verifierVars, recs, delivered, originVars, wireVars, why>>

\* The verifier loses the prover, or the prover gave up and closed.
ProverGone ==
    /\ PeerGone
    /\ why' = IF p.pc = "fail" THEN why ELSE why \cup {"lost"}
    /\ UNCHANGED <<proverVars, originVars, wireVars>>

\* The joint handshake.
Connect ==
    /\ p.pc = "setup"
    /\ \/ state = "ACCEPT" /\ Accept /\ UNCHANGED <<p, why>>
       \/ Establish /\ why' = why
          /\ p' = [p EXCEPT !.pc = "request", !.skey = skey', !.ckey = ckey']
       \/ SetupFails /\ why' = why \cup {"lost"} /\ p' = [p EXCEPT !.pc = "fail"]
    /\ UNCHANGED <<recs, delivered, originVars, wireVars>>

-----------------------------------------------------------------------------
(* Sending *)

\* A record goes through surf_encrypt: AES_ENC, then GCM_TAG.
Encrypt ==
    /\ p.pc \in {"request", "ku"}
    /\ encrypt_blocks(p.wseq, 1)
    /\ Exchange(EncryptGate(p.wseq),
                [p EXCEPT !.pc = IF p.pc = "request" THEN "request_tag" ELSE "ku_tag"])
    /\ UNCHANGED <<recs, delivered, originVars, wireVars>>

Sealed1(kind) == [kind |-> kind, key |-> IF p.ckey = ckey THEN ckey ELSE Junk,
                  seq |-> p.wseq, resp |-> p.round]

SendRequest ==
    /\ p.pc = "request_tag"
    /\ make_gcm_tag(1)
    /\ Exchange(TagGate(1),
                [p EXCEPT !.wseq = @ + 1,
                          !.pc = IF Flow = "epoch" /\ ~Last THEN "ku" ELSE "drain"])
    /\ p2o' = IF state' = "FAILED" THEN p2o ELSE Append(p2o, Sealed1("req"))
    /\ UNCHANGED <<recs, delivered, originVars, o2p>>

NextWriteSeqKept(s) == s

\* surf_reset_write_state: the new write state starts at sequence number 0.
NextWriteSeq(s) == 0

\* SSL_key_update: set_write_state seals the pending KeyUpdate under the key
\* still in place and restarts the sequence numbers, then it is flushed.
SendKeyUpdate ==
    /\ p.pc = "ku_tag"
    /\ make_gcm_tag(1)
    /\ Exchange(TagGate(1), [p EXCEPT !.wseq = NextWriteSeq(@), !.pc = "rotate_client"])
    /\ p2o' = IF state' = "FAILED" THEN p2o ELSE Append(p2o, Sealed1("ku"))
    /\ UNCHANGED <<recs, delivered, originVars, o2p>>

\* rotate_traffic_keys(evp_aead_seal), after the flush.
RotateClient ==
    /\ p.pc = "rotate_client"
    /\ rotate_key_op("client")
    /\ Exchange(RotateGate("client"), [p EXCEPT !.ckey = ckey', !.pc = "drain"])
    /\ UNCHANGED <<recs, delivered, originVars, wireVars>>

-----------------------------------------------------------------------------
(* Capturing: drain_until *)

\* A ciphertext of six bytes: a KeyUpdate, or five bytes of anything.
SixBytes(r) == r.kind \in {"ku", "short"}

StopSeenAny == Len(recs) > p.start

StopSeen ==
    /\ Flow = "epoch" /\ ~Last
    /\ Len(recs) > p.start /\ SixBytes(recs[Len(recs)])

\* One SSL_read takes every record that has arrived; surf_capture_ciphertext
\* stamps each with read_sequence.
Capture(k) ==
    /\ p.pc = "drain" /\ ~StopSeen
    /\ recs' = recs \o [i \in 1 .. k |-> [o2p[i] EXCEPT !.seq = p.rseq + i - 1]]
    /\ p' = [p EXCEPT !.rseq = @ + k]
    /\ o2p' = SubSeq(o2p, k + 1, Len(o2p))
    /\ UNCHANGED <<verifierVars, delivered, originVars, p2o, why>>

\* The trigger record, the origin's FIN, or a timeout ends the drain.
DrainDone ==
    /\ p.pc = "drain"
    /\ \/ StopSeen /\ why' = why
       \/ ~StopSeen /\ o2p = <<>> /\ o.closed /\ why' = why
       \/ ~StopSeen /\ o2p = <<>> /\ ~o.closed /\ Timeouts
          /\ why' = why \cup {"timeout"}
    /\ p' = [p EXCEPT !.pc = IF Flow = "epoch" /\ p.start >= Len(recs)
                             THEN "fail" ELSE "commit"]
    /\ UNCHANGED <<verifierVars, recs, delivered, originVars, wireVars>>

-----------------------------------------------------------------------------
(* Releasing *)

FirstIndexSkips(start) == IF start + 2 <= Len(recs) THEN start + 2 ELSE start + 1

FirstIndex(start) == start + 1

Commit ==
    /\ p.pc = "commit"
    /\ read_key_commitment(p.skey)
    /\ Exchange(CommitGate,
                [p EXCEPT !.pc = IF p.start < Len(recs) THEN "verify" ELSE "fail",
                          !.idx = FirstIndex(p.start)])
    /\ UNCHANGED <<recs, delivered, originVars, wireVars>>

Ct(r) == [key |-> ServerKey(r.epoch), seq |-> r.oseq, by |-> "origin"]

\* TAG_OK: the next record.  TAG_REJECT: in a batch the first record of the
\* next epoch, unless nothing verified before it; a failure in the per-round
\* flow.
AfterVerdict(ok) ==
    IF ok
    THEN [p EXCEPT !.idx = @ + 1, !.end = p.idx,
                   !.pc = IF p.idx = Len(recs) THEN "release" ELSE "verify"]
    ELSE [p EXCEPT !.pc = IF Flow = "batch" /\ p.idx > p.start + 1
                          THEN "release" ELSE "fail"]

VerifyRecord ==
    /\ p.pc = "verify"
    /\ LET r == recs[p.idx] IN
       /\ verify_gcm_tag(r.seq, Ct(r), p.skey)
       /\ Exchange(VerifyGate /\ KeyOpens(p.skey),
                   AfterVerdict(TagPasses(r.seq, Ct(r), p.skey)))
    /\ UNCHANGED <<recs, delivered, originVars, wireVars>>

\* surf_release_epoch_key.
Release ==
    /\ p.pc = "release"
    /\ release_key
    /\ Exchange(ReleaseGate, [p EXCEPT !.pc = "open"])
    /\ UNCHANGED <<recs, delivered, originVars, wireVars>>

\* true_surf_open_record with the reconstructed key: anything sealed under
\* another key or sequence number opens to garbage.
Opened(r) == IF ServerKey(r.epoch) = p.skey /\ r.oseq = r.seq THEN r
             ELSE [r EXCEPT !.kind = "junk", !.resp = 0]

NoEarlyClose(rs) == \A i \in 1 .. Len(rs) - 1 : rs[i].kind # "close"
EndsIn(rs, kind) == rs # <<>> /\ rs[Len(rs)].kind = kind

\* The last record of an epoch is the origin's KeyUpdate, the last record of
\* the connection its close_notify.
BoundaryOk(rs) ==
    /\ NoEarlyClose(rs)
    /\ EndsIn(rs, IF Last THEN "close" ELSE "ku")

\* Per-round flow: open the epoch, check its end, assemble its data.
OpenEpoch ==
    /\ p.pc = "open" /\ Flow = "epoch"
    /\ LET rs == [i \in 1 .. Len(recs) - p.start |-> Opened(recs[p.start + i])] IN
       IF BoundaryOk(rs)
       THEN /\ delivered' = Append(delivered, AppData(rs))
            /\ p' = [p EXCEPT !.pc = "replay"]
       ELSE p' = [p EXCEPT !.pc = "fail"] /\ UNCHANGED delivered
    /\ UNCHANGED <<verifierVars, recs, originVars, wireVars, why>>

\* Batch flow: records are opened epoch by epoch; the payload is assembled
\* once the last epoch has been opened.
OpenBatch ==
    /\ p.pc = "open" /\ Flow = "batch"
    /\ LET rs == [j \in DOMAIN recs |->
                    IF j \in p.start + 1 .. p.end THEN Opened(recs[j]) ELSE recs[j]]
           final == p.end = Len(recs)
           ok == IF final THEN NoEarlyClose(rs) /\ EndsIn(rs, "close")
                          ELSE EndsIn(SubSeq(rs, 1, p.end), "ku")
       IN /\ p' = [p EXCEPT !.pc = IF ~ok THEN "fail"
                                   ELSE IF final THEN "replay" ELSE "rotate_server"]
          /\ recs' = rs
          /\ delivered' = IF ok /\ final
                          THEN Append(delivered, AppData(rs))
                          ELSE delivered
    /\ UNCHANGED <<verifierVars, originVars, wireVars, why>>

\* The first ticket among the records of this release starts derive_psk_keys;
\* later tickets find the circuits consumed.
AfterReplay == IF Flow = "epoch" /\ ~Last THEN "rotate_server" ELSE "stop"
HasTicket == \E i \in 1 .. Len(recs) :
                (Flow = "epoch" => i > p.start) /\ recs[i].kind = "nst"

MayDeriveAgain == TRUE

MayDerive == p.psk

Replay ==
    /\ p.pc = "replay"
    /\ IF MayDerive /\ HasTicket
       THEN derive_psk /\ Exchange(TRUE, [p EXCEPT !.pc = "psk_done", !.psk = FALSE])
       ELSE p' = [p EXCEPT !.pc = AfterReplay] /\ UNCHANGED <<verifierVars, why>>
    /\ UNCHANGED <<recs, delivered, originVars, wireVars>>

\* write_completed_psk sends PSK_DONE, which derive_psk_keys waits for.
PskDone ==
    /\ write_completed_psk
    /\ IF p.pc = "psk_done" THEN Exchange(TRUE, [p EXCEPT !.pc = AfterReplay])
                            ELSE UNCHANGED <<p, why>>
    /\ UNCHANGED <<recs, delivered, originVars, wireVars>>

RestartReadSeqKept(q) == q
RestartReadSeq(q) == [q EXCEPT !.rseq = 0]

Renumber(rs, from) ==
    [j \in DOMAIN rs |-> IF j > from THEN [rs[j] EXCEPT !.seq = j - from - 1] ELSE rs[j]]

\* rotate_traffic_keys(evp_aead_open).  Per round: the capture sequence number
\* restarts and the next request follows.  Batch: the records already captured
\* are renumbered and the next epoch is committed to.
RotateServer ==
    /\ p.pc = "rotate_server"
    /\ rotate_key_op("server")
    /\ LET q == [p EXCEPT !.skey = skey', !.epoch = @ + 1] IN
       IF Flow = "epoch"
       THEN /\ Exchange(RotateGate("server"),
                        [RestartReadSeq(q) EXCEPT !.start = Len(recs),
                                                  !.round = @ + 1, !.pc = "request"])
            /\ UNCHANGED recs
       ELSE /\ Exchange(RotateGate("server"),
                        [q EXCEPT !.start = p.end, !.pc = "commit"])
            /\ recs' = IF state' = "FAILED" THEN recs ELSE Renumber(recs, p.end)
    /\ UNCHANGED <<delivered, originVars, wireVars>>

\* STOP: attest() returns and the verifier shuts down.  A verifier that still
\* waits for a ticket takes it for an unexpected header.
Stop ==
    /\ p.pc = "stop"
    /\ \/ /\ state = "SHUTDOWN" /\ shutdown
          /\ p' = [p EXCEPT !.pc = "done"] /\ why' = why
       \/ /\ state = "DERIVE_PSK" /\ Refuse
          /\ p' = [p EXCEPT !.pc = "fail"] /\ why' = why \cup {"noticket"}
    /\ UNCHANGED <<recs, delivered, originVars, wireVars>>

-----------------------------------------------------------------------------
(* The origin *)

Out(kind, resp) ==
    [kind |-> kind, epoch |-> o.wkey, oseq |-> o.wseq, seq |-> 0, resp |-> resp]

\* The records of a response, in order.
Responses == UNION {[1 .. n -> IF Short THEN {"app", "short"} ELSE {"app"}]
                    : n \in 1 .. MaxResponse}

\* One record of the prover's: bad_record_mac unless it fits the origin's
\* read key and sequence number.
Fits(r) == r.key = ClientKey(o.rkey) /\ r.seq = o.rseq

Reading == p2o # <<>> /\ ~o.closed /\ o.todo = <<>>

\* Its own KeyUpdate is the last record under the old write key.
Updated(q) == [q EXCEPT !.wkey = @ + 1, !.wseq = 0]

\* SSL_read.  A KeyUpdate moves the read key on and is answered at once.  A
\* request makes SSL_read return; its response is then written record by
\* record, and after the last one SSL_shutdown sends close_notify and the FIN
\* follows.
OriginReads(kinds) ==
    /\ Reading
    /\ LET m == Head(p2o) IN
       /\ o' = CASE ~Fits(m) -> [o EXCEPT !.closed = TRUE, !.bad = TRUE]
                 [] Fits(m) /\ m.kind = "ku" ->
                      [Updated(o) EXCEPT !.rkey = @ + 1, !.rseq = 0]
                 [] OTHER ->
                      [o EXCEPT !.rseq = @ + 1, !.served = m.resp,
                                !.todo = IF m.resp = NRequests
                                         THEN Append(kinds, "close") ELSE kinds]
       /\ o2p' = IF Fits(m) /\ m.kind = "ku" THEN Append(o2p, Out("ku", 0)) ELSE o2p
    /\ p2o' = Tail(p2o)
    /\ UNCHANGED <<verifierVars, proverVars, sent, why>>

OriginWrites ==
    /\ o.todo # <<>> /\ ~o.closed
    /\ LET kind == Head(o.todo)
           rec == Out(kind, IF kind = "close" THEN 0 ELSE o.served)
       IN /\ o2p' = Append(o2p, rec)
          /\ sent' = IF kind = "close" THEN sent
                     ELSE [sent EXCEPT ![o.served] = Append(@, rec)]
          /\ o' = [o EXCEPT !.wseq = @ + 1, !.todo = Tail(@), !.closed = kind = "close"]
    /\ UNCHANGED <<verifierVars, proverVars, p2o, why>>

OriginTicket ==
    /\ p.pc # "setup" /\ ~o.closed /\ o.tickets < MaxTickets
    /\ ~LateTickets => o.served = 0
    /\ o2p' = Append(o2p, Out("nst", 0))
    /\ o' = [o EXCEPT !.wseq = @ + 1, !.tickets = @ + 1]
    /\ UNCHANGED <<verifierVars, proverVars, sent, p2o, why>>

\* An origin may update its write key without being asked, also in the
\* middle of a response.
OriginUpdatesItself ==
    /\ p.pc # "setup" /\ ~o.closed /\ o.updates < MaxUpdates
    /\ o2p' = Append(o2p, Out("ku", 0))
    /\ o' = [Updated(o) EXCEPT !.updates = @ + 1]
    /\ UNCHANGED <<verifierVars, proverVars, sent, p2o, why>>

\* The connection to the origin breaks: some of what is under way is lost, and
\* a FIN nobody vouches for follows the rest.
OriginGone ==
    /\ p.pc # "setup" /\ ~o.closed
    /\ o' = [o EXCEPT !.closed = TRUE]
    /\ \E k \in 0 .. Len(o2p) : o2p' = SubSeq(o2p, 1, k)
    /\ why' = why \cup {"origin"}
    /\ UNCHANGED <<verifierVars, proverVars, sent, p2o>>

-----------------------------------------------------------------------------
Ended ==
    /\ p.pc \in {"done", "fail"} /\ state \in {"DONE", "FAILED"}
    /\ UNCHANGED rvars

Prover ==
    \/ Connect \/ Encrypt \/ SendRequest \/ SendKeyUpdate \/ RotateClient
    \/ (\E k \in 1 .. Len(o2p) : Capture(k)) \/ DrainDone
    \/ Commit \/ VerifyRecord \/ Release \/ OpenEpoch \/ OpenBatch
    \/ Replay \/ RotateServer \/ Stop \/ VerifierGone

Verifier == PskDone \/ ProverGone

Origin ==
    (\E kinds \in Responses : OriginReads(kinds)) \/ OriginWrites

RNext ==
    \/ Prover \/ Verifier \/ Origin
    \/ OriginTicket \/ OriginUpdatesItself \/ OriginGone \/ Ended

\* Each program goes on as long as it can; the network delivers; a poll that
\* nothing answers runs out.  Nobody has to lose the connection.
Fairness ==
    /\ WF_rvars(Prover) /\ WF_rvars(Origin) /\ WF_rvars(PskDone)

RSpec == RInit /\ [][RNext]_rvars /\ Fairness
-----------------------------------------------------------------------------
(* Properties *)

Records == [kind : Kinds, epoch : Nat, oseq : Nat, seq : Nat, resp : Nat]

Provers ==
    [pc : {"setup", "request", "request_tag", "ku", "ku_tag", "rotate_client",
           "drain", "commit", "verify", "release", "open", "replay", "psk_done",
           "rotate_server", "stop", "done", "fail"},
     round : 1 .. NRequests, idx : Nat, skey : Shares, ckey : Shares, wseq : Nat,
     rseq : Nat, start : Nat, end : Nat, epoch : Nat, psk : BOOLEAN]

\* The types of the variables this module adds.
RTypeOK ==
    /\ p \in Provers
    /\ recs \in Seq(Records) /\ o2p \in Seq(Records)
    /\ why \subseteq {"lost", "timeout", "origin", "noticket"}

\* An attempt fails only if a connection was lost, the origin closed early or
\* never sent a ticket, or a timeout expired.  In particular the ticket that
\* rotate_surf_release_epoch replays before it asks for ROTATE_KEY moves the
\* verifier from its drain to attest(), which must serve the rotation and the
\* epochs that follow.
NoSpuriousFailure == p.pc = "fail" => why # {}

\* Every record the prover sends opens at the origin: the KeyUpdate is sealed
\* under the old key, what follows it under the key both shares were rotated
\* to, with sequence numbers that restart on both sides.
RequestsOpen == ~o.bad

Data(rs) == [i \in DOMAIN rs |-> [rs[i] EXCEPT !.seq = 0]]

\* What a release hands out is the whole response to the request it follows
\* and nothing of another, also when records are lost or captured late.
RightResponse ==
    \A i \in DOMAIN delivered : Data(delivered[i]) = sent[i]

\* Nothing is handed out that the verifier has not attested under the key and
\* sequence number the origin used.
DeliveredAttested ==
    \A i \in DOMAIN delivered : \A j \in DOMAIN delivered[i] :
        LET c == Ct(delivered[i][j])
        IN [key |-> c.key, seq |-> c.seq, ct |-> c] \in attested

\* The records of the epoch being released carry the sequence numbers the
\* origin sealed them under, although the capture path numbers them without
\* knowing where an epoch ends (read_sequence is reset in one flow, the
\* records are renumbered in the other).
SequenceNumbersFit ==
    p.pc \in {"verify", "release", "open"} =>
        \A j \in p.start + 1 .. Len(recs) :
            recs[j].epoch = p.epoch => recs[j].seq = recs[j].oseq

\* The sequence numbers of both directions fit those of the peer over all
\* epochs: what the prover seals opens at the origin (RequestsOpen), and what
\* it captured is numbered as the origin sealed it (SequenceNumbersFit).
NumbersAgree == RTypeOK /\ RequestsOpen /\ SequenceNumbersFit

\* "The released key is always a closed epoch's": when the verifier's share of
\* a server key goes out, the origin has stopped sealing under it.
ReleasedKeysClosed ==
    \A e \in 0 .. o.wkey : ServerKey(e) \in leaked => o.wkey > e \/ o.closed

\* The prover does not wait for ever: each attempt comes to an end.
Terminates == <>(p.pc \in {"done", "fail"})
=============================================================================
